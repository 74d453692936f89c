CONSTANTS
    Handlers = {h1, h2}
    Prompts = {p1, p2, p3}
    Notices = {p3}
    None = None
    MaxFlows = 2
    MaxAnswers = 2
SPECIFICATION FairSpec
INVARIANTS
    LatestIsServed
    NoStaleFuture
PROPERTIES
    LonePromptIsAnswered
    PromptsReturn
CHECK_DEADLOCK FALSE
