SPECIFICATION AvailabilitySpec
CONSTANTS
  c1 = c1
  c2 = c2
  u1 = u1
  t1 = t1
  s1 = s1
  s2 = s2
  v1 = v1
  w1 = w1
  w2 = w2
  r1 = r1
  r2 = r2
  q1 = q1
  q2 = q2
  NoLease = NoLease
  NoRow = NoRow
  NoWriter = NoWriter
  Nobody = Nobody
  Sharers = {s1, s2}
  Writers = {v1}
  MaxRowWrites = 2
  Providers = {p1}
  Callers = {c1, c2}
  Updaters = {u1}
  Togglers = {t1}
  Leases = {l1}
  Limits = {1}
  MaxWrites = 2
  Workers <- TwoWorkers
  Routes <- TwoRoutes
  RouteOf <- OwnRoute
  Root = root
  HealthAdmins = {a1}
  Operations = {"disable"}
  Window = 1
  Threshold = 1
  Disable = 1
  Suspensions = {2}
  MaxAge = 1
  StoreFails = FALSE
  MaxTime = 3
  MaxFailures = 1
  MaxRestarts = 0
  Requests = {q1, q2}
  ServerOf <- SomeServers
  Components <- SomeComponents
  Starting = {"codex_maintenance", "rule_statistics"}
  MaxRounds = 1
 
PROPERTIES MutationCompletes WriterCompletes RouteRecovers ShutdownEnds
CHECK_DEADLOCK FALSE
