SPECIFICATION Spec
CONSTANTS
    Proc = {p1, p2}
    Id = {i1, i2}
    Index = Index
    Missing = Missing
    Empty = Empty
    Torn = Torn
    MaxSaves = 3
    MaxFaults = 2
    Damages = {Missing, Torn}
SYMMETRY RepoSymmetry
INVARIANTS TypeOK FilesAreWhole AcknowledgedIsDurable IndexMatchesFiles
PROPERTIES RebuildIsComplete
