SPECIFICATION Spec
CONSTANTS
    ra = ra
    rb = rb
    rc = rc
    rd = rd
    re = re
    run0 = run0
    run1 = run1
    run2 = run2
    p1 = p1
    p2 = p2
    NoClient = NoClient
    Record = {ra, rb, rc}
    Run = {run0, run1, run2}
    Client = {p1}
    MaxEntity = 9
    KeyOf <- NoKeys
    MaxGroup = 3
    MinRuns = 2
    Calls = {"resolve"}
    Batches <- AnyBatch
    SplitSets <- AnyRecords
    EmitSingletons = TRUE
    FastPath = TRUE
    FlushRows = 100
    ChunkSize = 100
    DetMerge = FALSE
    SelfMerge = FALSE
    Seed <- NoSeed
    SeedRun = run0
    MaxCalls = 3
    MaxFails = 1
INVARIANTS BatchGathers ConflictsCarried ActiveOwnsRecords
PROPERTIES ReplayIsNoop
