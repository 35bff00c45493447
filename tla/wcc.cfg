SPECIFICATION DSpec
CONSTANTS
    p1 = p1
    p2 = p2
    Node = {1, 2, 3, 4}
    Partition = {p1, p2}
    Driver = Driver
    NoAnswer = NoAnswer
    Limit <- Limits
INVARIANTS NamedByLeast TreesStayFlat
PROPERTIES KeepsPromise
