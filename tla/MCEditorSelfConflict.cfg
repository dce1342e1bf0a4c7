SPECIFICATION Spec
CONSTANTS
    Tab = {t1}
    Id = {a}
    Gone = Gone
    Gestures = {"edit"}
    Patient = FALSE
    HistoryLimit = 2
    MaxRequests = 2
    MaxGestures = 3
    MaxFailures = 0
CHECK_DEADLOCK FALSE
PROPERTIES ConflictMeansSomeoneElse
