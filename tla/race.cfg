SPECIFICATION FairSpec
CONSTANTS
    ra = ra
    rb = rb
    rc = rc
    rd = rd
    re = re
    run0 = run0
    run1 = run1
    run2 = run2
    p1 = p1
    p2 = p2
    NoClient = NoClient
    Record = {ra, rb, rc, rd}
    Run = {run0, run1, run2}
    Client = {p1, p2}
    MaxEntity = 8
    KeyOf <- NoKeys
    MaxGroup = 3
    MinRuns = 2
    Calls = {"resolve", "merge", "split", "claim"}
    Batches <- Arriving
    SplitSets <- Astray
    EmitSingletons = FALSE
    FastPath = TRUE
    FlushRows = 2
    ChunkSize = 2
    DetMerge = FALSE
    SelfMerge = TRUE
    Seed <- SeedTwo
    SeedRun = run0
    MaxCalls = 2
    MaxFails = 1
INVARIANTS ReferencesResolve PointerAgrees
PROPERTIES EveryCallReturns
