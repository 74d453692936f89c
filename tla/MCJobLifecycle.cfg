CONSTANTS
    Runs = {r1, r2}
    Submitters = {s1}
    Requests = {q1, q2}
    None = None
    RequireAuth = FALSE
    LocalWorkers = TRUE
    StoreMayFail = TRUE
SPECIFICATION Spec
SYMMETRY Symmetric
INVARIANTS
    TypeOK
    RunningHasOwner
    NoOwnerlessJob
PROPERTIES
    SettledSuccessStays
CHECK_DEADLOCK FALSE
