SPECIFICATION FairSpec
CONSTANTS
    Id = {a, b}
    None = None
    MaxOpen = 2
    MaxTrail = 1
    MaxGestures = 3
    MaxTrouble = 1
CHECK_DEADLOCK FALSE
INVARIANTS TypeOK NoRepeats EntryIsShown AddressIsShown
PROPERTIES MovesKeepHistory MovesEnd
