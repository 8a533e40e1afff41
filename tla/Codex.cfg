SPECIFICATION CodexSpec
CONSTANTS
  Requests = {x1, x2}
  Clients = {y1, y2}
  Jars = {z1, z2}
  Authorities = {u1, u2}
  CookieKeys = {k1}
  NoJar = NoJar
  IdleTTL = 1
  AbsoluteTTL = 2
  RefreshWindow = 1
  CookieTTL = 1
  OrphanGrace = 1
  MaxCookiesPerAuthority = 1
  MaxCookiesPerJar = 2
  MaxAuthoritiesPerJar = 1
  MaxBindings = 1
  MaxEntries = 2
  MaxClock = 2
  Operations = {x1, x2}
  Principals = {y1, y2}
  Scopes = {z1, z2}
  Identities = {t}
  Issued = {r}
  HeaderCarried = {}
  PendingTTL = 1
  CommittedTTL = 1
  TombstoneTTL = 1
  MaxOwned = 1
  MaxContinuityClock = 1
  MaxFailures = 1
  MaxInPlay = 1
  None = None
  t1 = t1
  t2 = t2
  a1 = a1
  a2 = a2
  DialTargets = {t1, t2}
  AccountOf <- MCAccountOf
  OutboundRule <- MCOutbound
  InboundRule <- MCInbound
  ClientIds = {c}
  UpstreamRefs = {r}
  MaxClientFrames = 1
  MaxServerFrames = 1
  MaxDials = 2
  MaxOutages = 1
  MaxRivals = 1
  Nothing = Nothing
  p1 = p1
  p2 = p2
  NoOne = NoOne
  Providers <- Two
  MaxRetries <- OneRetry
  GlobalLimits = {3}
  RuleRetries = 1
  RuleActions = {"passthrough", "retry_only", "retry_then_switch"}
  Codex = TRUE
  Disguised = {p1}
SYMMETRY CodexSymmetry
INVARIANTS JarsIsolated OwnershipHeld AccountsSeparate
PROPERTIES AttemptsInOrder
CHECK_DEADLOCK FALSE
