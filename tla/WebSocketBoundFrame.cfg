SPECIFICATION SessionSpec
CONSTANTS
  Upstreams = {p1, p2}
  NoServer = NoServer
  FrameKinds = {"plain", "bound"}
  Policies = {TRUE, FALSE}
  MaxSent = 2
  MaxDown = 2
  MaxAttempts = 2
  MaxRedials = 1
  ReplayLimit = 2
  ProbeLimit = 1
INVARIANT NoFrameOmitted
CHECK_DEADLOCK FALSE
