SPECIFICATION Spec
CONSTANTS
    ra = ra
    rb = rb
    rc = rc
    rd = rd
    re = re
    run0 = run0
    run1 = run1
    run2 = run2
    p1 = p1
    p2 = p2
    NoClient = NoClient
    Record = {ra, rb, rc, rd, re}
    Run = {run0, run1, run2}
    Client = {p1}
    MaxEntity = 4
    KeyOf <- TwoKeys
    MaxGroup = 2
    MinRuns = 2
    Calls = {"resolve"}
    Batches <- Keyed
    SplitSets <- AnyRecords
    EmitSingletons = TRUE
    FastPath = TRUE
    FlushRows = 100
    ChunkSize = 100
    DetMerge = TRUE
    SelfMerge = FALSE
    Seed <- SeedKeyed
    SeedRun = run0
    MaxCalls = 1
    MaxFails = 0
INVARIANTS KeyMergeIsIdempotent
