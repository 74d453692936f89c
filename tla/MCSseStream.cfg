CONSTANTS
    LiveLimit = 1
    ReplayLimit = 2
    FinalLimit = 3
    Serial = TRUE
    MaxId = 3
SPECIFICATION FairSpec
INVARIANTS
    EndIsComplete
PROPERTIES
    RowsArrive
    StreamsEnd
    StreamSpec
CHECK_DEADLOCK FALSE
