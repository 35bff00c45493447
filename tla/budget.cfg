SPECIFICATION FairSpec
CONSTANTS
    NoLimit = NoLimit
    MaxBatches = 4
    MaxWorkers = 3
    Attempts = 3
    Limits <- Budgets
    BatchSize = 2
    Price = 1
    MaxCost = 3
CHECK_DEADLOCK FALSE
INVARIANTS SpendBounded SkippedOnlyWhenSpent
PROPERTIES EveryBatchEnds
