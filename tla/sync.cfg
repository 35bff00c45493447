SPECIFICATION Spec
CONSTANTS
    left = left
    bridge = bridge
    right = right
    NoRow = NoRow
    Record = {left, bridge, right}
    Link <- Bridge
    SizeCap = 4
    MaxScans = 2
    MaxRuns = 4
    MaxAborts = 1
SYMMETRY Mirror
CHECK_DEADLOCK FALSE
INVARIANTS TypeOK GoldenTracksMembers IncrementalGathers
PROPERTIES StaysTogether
