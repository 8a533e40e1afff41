SPECIFICATION CompletionSpec
CONSTANTS
  e1 = e1
  d1 = d1
  d2 = d2
  Modes = {"hold", "gate", "observe"}
  MaxBytes = 1
  MaxChunk = 1
  MaxBlocks = 1
  MaxFrames = 1
  IdleEnabled = TRUE
  Exports = {e1}
  Attempts = {d1, d2}
  Quota = 6
  MaxPending = 2
  MaxDownloads = 1
  Capacity = 2
  MaxEpoch = 2
  ConcurrentClose = FALSE
PROPERTIES Settles ExportsReturn
CHECK_DEADLOCK FALSE
