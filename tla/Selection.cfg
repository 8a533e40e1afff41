SPECIFICATION SelectionSpec
CONSTANTS
  NoLease = NoLease
  NoRow = NoRow
  NoWriter = NoWriter
  Nobody = Nobody
  Providers = {p1}
  Callers = {c1, c2}
  Updaters = {u1}
  Togglers = {}
  Leases = {l1, l2}
  Limits = {0, 1}
  MaxWrites = 2
  Sharers = {s1, s2, s3}
  Writers = {v1}
  MaxRowWrites = 2
  Exports = {e1, e2}
  Attempts = {d1}
  Quota = 6
  MaxPending = 2
  MaxDownloads = 1
  Capacity = 2
  MaxEpoch = 2
  ConcurrentClose = FALSE
SYMMETRY SelectionSymmetry
INVARIANTS CounterExact  ReservationAccounted ExportsAccounted
PROPERTIES  ActivationIsLive
CHECK_DEADLOCK FALSE
