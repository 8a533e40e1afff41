SPECIFICATION VerdictsSpec
CONSTANTS
  x1 = x1
  x2 = x2
  r1 = r1
  Workers <- TwoWorkers
  Routes = {r1}
  RouteOf <- SameRoute
  Root = root
  HealthAdmins = {a1}
  Operations = {"enable", "disable", "reset"}
  Window = 2
  Threshold = 2
  Disable = 1
  Suspensions = {2}
  MaxAge = 2
  StoreFails = TRUE
  MaxTime = 3
  MaxFailures = 2
  MaxRestarts = 1
  RuleIds = {x1, x2}
  RuleProviders = {p1}
  MaxRevision = 2
  MaxHits = 2
  MaxTries = 1
SYMMETRY VerdictsSymmetry
INVARIANTS NoRowStuck  StatisticsTrue
PROPERTIES  ManualDisableSticks
