SPECIFICATION CredentialsSpec
CONSTANTS
  Workers = {x1, x2}
  MaxIssued = 3
  MaxVersion = 1
  MaxEdited = 1
  MaxSeen = 1
  SharedLogin = FALSE
  Logins = {x1, x2}
  Imports = {i1}
  Committers = {x1, x2}
  MaxDrafts = 1
  MaxBytes = 3
SYMMETRY CredentialsSymmetry
INVARIANTS RefreshSerialized StagingAccounted
PROPERTIES SessionNotRolledBack ImplementsCell
CHECK_DEADLOCK FALSE
