CONSTANTS
    HistoryLimit = 1
    ReconcileLimit = 1
    FallbackLimit = 1
    MaxId = 3
    Starts = {0}
SPECIFICATION FairSpec
INVARIANTS
    EndIsComplete
PROPERTIES
    NothingTwice
    RowsArrive
    StreamsEnd
    StreamSpec
CHECK_DEADLOCK FALSE
