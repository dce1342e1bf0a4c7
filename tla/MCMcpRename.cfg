SPECIFICATION MCPSpec
CONSTANTS
    Id = {i1, i2}
    i1 = i1
    i2 = i2
    n1 = n1
    n2 = n2
    n3 = n3
    Node = {n1, n2, n3}
    a = a
    b = b
    Name = {a, b}
    Blank = Blank
    TooLong = TooLong
    NoDiagram = NoDiagram
    Caller = {h1, h2}
    Nobody = Nobody
    Sent <- MCSent
    OnDisk <- MCOnDisk
    MaxWrites = 4
    Asked <- MCRenames
    MaxTools = 2
    IoErrors = FALSE
SYMMETRY HandlerSymmetry
PROPERTIES RenamesSurvive
