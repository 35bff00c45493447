SPECIFICATION Spec
CONSTANTS
    ra = ra
    rb = rb
    rc = rc
    rd = rd
    re = re
    run0 = run0
    run1 = run1
    run2 = run2
    p1 = p1
    p2 = p2
    NoClient = NoClient
    Record = {ra, rb, rc, rd}
    Run = {run0, run1}
    Client = {p1}
    MaxEntity = 8
    KeyOf <- SharedKey
    MaxGroup = 2
    MinRuns = 2
    Calls = {"resolve", "split", "stabilize"}
    Batches <- Rejoined
    SplitSets <- OneOrTwo
    EmitSingletons = TRUE
    FastPath = TRUE
    FlushRows = 2
    ChunkSize = 2
    DetMerge = TRUE
    SelfMerge = FALSE
    Seed <- SeedOne
    SeedRun = run0
    MaxCalls = 4
    MaxFails = 1
INVARIANTS BatchGathers PointerAgrees OverlapsConsolidated
PROPERTIES KeysUnify
