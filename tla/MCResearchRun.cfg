CONSTANTS
    Planners = {p1}
    Researchers = {r1, r2}
    Calls = {c1, c2}
    Keys = {k1, k2}
    NoKey = NoKey
    SearchLimit = 2
    PlannerLimit = 1
    TaskLimit = 1
    Parallel = 2
    PerTurn = 1
SPECIFICATION FairSpec
INVARIANTS
    SearchesWithinBudget
    ShareIsReserved
    SearchBurst
PROPERTIES
    SpendingStops
CHECK_DEADLOCK FALSE
