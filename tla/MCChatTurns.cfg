CONSTANTS
    t1 = t1
    t2 = t2
    Turns = {t1, t2}
    MaxTurns = 2
    MaxPlans <- TwoAndNone
    MaxSteps = 3
    PlanApproval = TRUE
    Escalation = TRUE
    NoResult = NoResult
SPECIFICATION FairChatSpec
INVARIANTS
    ChatTypeOK
    HistoryIsKept
    OwnDialogue
    PlanIsAgreed
PROPERTIES
    TurnsEnd
CHECK_DEADLOCK FALSE
