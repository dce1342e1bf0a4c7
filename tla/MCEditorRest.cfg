SPECIFICATION FairSpec
CONSTANTS
    Tab = {t1, t2}
    Id = {a}
    Gone = Gone
    Gestures = {"edit", "open", "rename", "port"}
    Patient = FALSE
    HistoryLimit = 2
    MaxRequests = 2
    MaxGestures = 3
    MaxFailures = 0
PROPERTIES TabsComeToRest
CHECK_DEADLOCK FALSE
