SPECIFICATION StoresSpec
CONSTANTS
  none = none
  i1 = i1
  i2 = i2
  NoEntry = NoEntry
  None = None
  NoRoute = NoRoute
  Keys = {k1, k2}
  Evictable = {p1, p2}
  Importable = {k1}
  StickyProviders = {p1, p2}
  Ttls = {1, 2}
  MaxOps = 3
  MaxTime = 1
  MaxFailures = 1
  MaxRestarts = 1
  Absent = none
  Instances = {i1, i2}
  OldDatabases <- MCOldDatabases
  Indexes <- MCIndexes
  OldIndexOf <- MCOldIndexOf
  BatchSize = 2
  MaxStarts = 4
  Readers = {r1}
  Writers = {w1, w2}
  ConfigKeys = {k1, k2}
  MaxWrites = 2
  Askers = {c1, c2, c3}
  Routes = {"p1", "p2", "p3", "p4"}
  Catalogues <- SomeCatalogues
  SwitchBudget = 1
  SeedTTL = 0
  MaxTicks = 1
  MaxHealthChanges = 1
  MaxInFlight = 2
  MaxDepartures = 1
  FlakyRoutes = {"p1"}
SYMMETRY RoutingSymmetry
INVARIANTS FailoverIsolated BindingsConsistent UpgradeSucceeds ReadsAreFresh
PROPERTIES SelectsBest
CHECK_DEADLOCK FALSE
