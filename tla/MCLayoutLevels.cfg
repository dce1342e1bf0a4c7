SPECIFICATION PlacementSpec
CONSTANTS
    Id = {i1}
    n1 = n1
    n2 = n2
    n3 = n3
    n4 = n4
    Node = {n1, n2, n3, n4}
    Name = {name}
    Blank = Blank
    TooLong = TooLong
    NoDiagram = NoDiagram
    Drawn <- MCDrawn
    MaxLevel = 4
    Width <- MCWidth
    Height <- MCHeight
    LabelWidth <- MCLabelWidth
    GapX = 3
    GapY = 1
INVARIANTS TypeOK EdgesPointRight ColumnIsLongestPath CycleNeverEnds NothingOverlaps
PROPERTIES LayoutEnds
CHECK_DEADLOCK FALSE
