SPECIFICATION MCPFairSpec
CONSTANTS
    Id = {i1, i2}
    i1 = i1
    i2 = i2
    n1 = n1
    n2 = n2
    n3 = n3
    Node = {n1, n2, n3}
    a = a
    b = b
    Name = {a}
    Blank = Blank
    TooLong = TooLong
    NoDiagram = NoDiagram
    Caller = {h1, h2}
    Nobody = Nobody
    Sent <- MCSent
    OnDisk <- MCOnDisk
    MaxWrites = 4
    Asked <- MCTools
    MaxTools = 2
    IoErrors = TRUE
INVARIANTS MCPTypeOK
PROPERTIES ToolsKeepContent EveryToolReturns
