SPECIFICATION FairSpec
CONSTANTS
    Id = {i1}
    n1 = n1
    n2 = n2
    Node = {n1, n2}
    Name = {a}
    Blank = Blank
    TooLong = TooLong
    NoDiagram = NoDiagram
    Caller = {w1, w2}
    Nobody = Nobody
    Sent <- MCSentLoop
    OnDisk <- MCSentLoop
    MaxWrites = 2
    IoErrors = FALSE
PROPERTIES EveryCallReturns
CHECK_DEADLOCK FALSE
