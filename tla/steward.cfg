SPECIFICATION Spec
CONSTANTS
    ra = ra
    rb = rb
    rc = rc
    rd = rd
    re = re
    run0 = run0
    run1 = run1
    run2 = run2
    p1 = p1
    p2 = p2
    NoClient = NoClient
    Record = {ra, rb, rc}
    Run = {run0, run1, run2}
    Client = {p1}
    MaxEntity = 5
    KeyOf <- NoKeys
    MaxGroup = 3
    MinRuns = 2
    Calls = {"merge", "split", "claim", "mediate"}
    Batches <- NoBatch
    SplitSets <- AnyRecords
    EmitSingletons = TRUE
    FastPath = TRUE
    FlushRows = 100
    ChunkSize = 100
    DetMerge = FALSE
    SelfMerge = FALSE
    Seed <- SeedFlagged
    SeedRun = run0
    MaxCalls = 4
    MaxFails = 0
INVARIANTS TypeOK MergedOwnsNothing MergesEnd LogExplainsGraph LoggedMergesStand DistinctSplits
