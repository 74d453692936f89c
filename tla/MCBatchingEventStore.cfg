CONSTANTS
    Callers = {c1, c2}
    Timers = {t1, t2, t3}
    NoOne = NoOne
    MaxBatch = 3
    MaxEvents = 6
SPECIFICATION FairSpec
INVARIANTS
    BufferedIsTimed
    StoreOrder
PROPERTIES
    EventuallySettled
    ImplementsLog
CHECK_DEADLOCK FALSE
