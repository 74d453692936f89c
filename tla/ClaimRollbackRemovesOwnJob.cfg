CONSTANTS
    Runs = {r1, r2}
    Submitters = {s1, s2}
    Requests = {q1}
    None = None
    RequireAuth = FALSE
    LocalWorkers = TRUE
    StoreMayFail = FALSE
SPECIFICATION Spec
PROPERTY RollbackRemovesOwnJob
CHECK_DEADLOCK FALSE
