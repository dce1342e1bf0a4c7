SPECIFICATION Spec
CONSTANTS
    Loaded <- MCLoaded
    Container = {4}
    Port = {p}
    HistoryLimit = 2
    Haste = {"keys"}
    LoadedIds = 3
    MaxIds = 6
    MaxChanges = 2
    None = None
INVARIANTS NoDanglingEdges
CHECK_DEADLOCK FALSE
