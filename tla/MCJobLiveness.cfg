CONSTANTS
    Runs = {r1, r2}
    Submitters = {s1}
    Requests = {q1}
    None = None
    RequireAuth = TRUE
    LocalWorkers = FALSE
    StoreMayFail = FALSE
SPECIFICATION FairSpec
PROPERTIES
    InterruptStopsWorker
    OrphanIsReaped
CHECK_DEADLOCK FALSE
