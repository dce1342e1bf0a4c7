SPECIFICATION Spec
CONSTANTS
    Tab = {t1, t2}
    Id = {a, b}
    Gone = Gone
    Gestures = {"edit", "undo", "redo", "place", "open", "delete", "new", "container", "convert"}
    Patient = TRUE
    HistoryLimit = 2
    MaxRequests = 2
    MaxGestures = 3
    MaxFailures = 1
SYMMETRY TabSymmetry
CHECK_DEADLOCK FALSE
INVARIANTS TypeOK TagMeansSeen EditsStayInTheirDiagram
PROPERTIES NoSilentOverwrite SentBeforeLeaving
