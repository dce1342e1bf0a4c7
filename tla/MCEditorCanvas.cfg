SPECIFICATION Spec
CONSTANTS
    Loaded <- MCLoaded
    Container = {4}
    Port = {p}
    HistoryLimit = 2
    Haste = {}
    LoadedIds = 3
    MaxIds = 5
    MaxChanges = 3
    None = None
INVARIANTS TypeOK NoDanglingEdges NothingStale OneKindSelected
PROPERTIES UndoIsFaithful
CHECK_DEADLOCK FALSE
