CONSTANTS
    LiveLimit = 1
    ReplayLimit = 2
    FinalLimit = 3
    Serial = TRUE
    MaxId = 3
SPECIFICATION Spec
INVARIANT ReconnectSkipsNothing
CHECK_DEADLOCK FALSE
