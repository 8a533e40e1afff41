SPECIFICATION RequestsSpec
CONSTANTS
  p1 = p1
  p2 = p2
  NoOne = NoOne
  NoServer = NoServer
  Providers <- Two
  MaxRetries <- OneRetry
  GlobalLimits = {0, 2}
  RuleRetries = 1
  RuleActions = {"passthrough", "retry_only", "retry_then_switch"}
  Codex = FALSE
  Disguised = {}
  Upstreams <- Two
  FrameKinds = {"plain", "bound"}
  Policies = {TRUE, FALSE}
  MaxSent = 1
  MaxDown = 1
  MaxAttempts = 2
  MaxRedials = 1
  ReplayLimit = 1
  ProbeLimit = 1
 
PROPERTIES RequestFinishes SessionEnds
CHECK_DEADLOCK FALSE
