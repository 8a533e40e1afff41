SPECIFICATION RecordsSpec
CONSTANTS
  Upstreams = {p1, p2}
  NoServer = NoServer
  FrameKinds = {"plain", "bound"}
  Policies = {TRUE, FALSE}
  MaxSent = 2
  MaxDown = 1
  MaxAttempts = 2
  MaxRedials = 1
  ReplayLimit = 2
  ProbeLimit = 1
  RankedProviders = {1, 2}
  Models = {1}
  ResponseKeys = {r1}
  Samples <- SomeSamples
  StoredUsages <- EveryUsage
  Times <- BothSides
  Ends = {1}
  Periods = {3}
  Granularity = 2
  MaxBucketCount = 2
  TopRankLimit = 2
  MaxInt = 7
  MaxLogs = 2
  MaxResponses = 2
  Missing = Missing
  Sessions = {1}
  Traces = {1}
  Records = {1, 2}
  Workers = {w1}
  Queries = {q1}
  Quota = 11
  Ceiling = 11
  PerProvider = 1
  MaxActive = 2
  MaxTransitions = 1
  MaxChunks = 1
  MaxLineages = 1
  Admins = {a1, a2}
  p1 = p1
  g1 = g1
  t1 = t1
  t2 = t2
  Providers = {p1}
  Groups = {g1}
  ApiTypes = {t1, t2}
  PolicyIds = {1, 2}
  NoOne = NoOne
  RequestRows <- SomeRows
  Files <- SomeFiles
  MaxHandlers = 3
SYMMETRY CatalogSymmetry
INVARIANTS   UsageReported CatalogConsistent
CHECK_DEADLOCK FALSE
