SPECIFICATION Spec
CONSTANTS
    x = x
    y = y
    z = z
    k1 = k1
    k2 = k2
    NoCorrection = NoCorrection
    NoHash = NoHash
    Content = {x, y, z}
    Similar <- Pairs
    Frame <- Frames
    Client = {k1}
    Framed = {k1}
    Submitted <- Sources
    MaxRows = 3
    LearnMin = 2
    MaxDecisions = 3
    MaxRuns = 2
    MaxFailures = 1
CHECK_DEADLOCK FALSE
INVARIANTS LearnedIsOverlaid
