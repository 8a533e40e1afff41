SPECIFICATION Spec
CONSTANTS
    p1 = p1
    p2 = p2
    NoOne = NoOne
    Providers <- Two
    MaxRetries <- OneRetry
    GlobalLimits = {2}
    RuleRetries = 1
    RuleActions = {"passthrough"}
    Codex = TRUE
    Disguised = {}
INVARIANTS AnsweredOnce
CHECK_DEADLOCK FALSE
