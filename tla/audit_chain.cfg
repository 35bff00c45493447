SPECIFICATION Spec
CONSTANTS
    w1 = w1
    w2 = w2
    s1 = s1
    s2 = s2
    d1 = d1
    d2 = d2
    x = x
    y = y
    Global = Global
    Writer = {w1}
    Sealer = {s1, s2}
    Dataset = {d1, d2}
    Body = {x}
    CommitOrdered = TRUE
    LegacyUpTo = 1
    MaxEvents = 3
    MaxSeals = 3
    MaxTampers = 1
SYMMETRY Swap
INVARIANTS TypeOK HonestLogVerifies SealCovers SealedLogIsProtected
