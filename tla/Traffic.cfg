SPECIFICATION TrafficSpec
CONSTANTS
  Modes = {"hold", "probe", "gate", "observe", "unanalyzable"}
  MaxBytes = 2
  MaxChunk = 2
  MaxBlocks = 1
  MaxFrames = 2
  IdleEnabled = TRUE
  Uploads <- SomeUploads
  MaxBodyBytes = 2
  MemoryBytes = 2
  SharedBytes = 2
  MinimumSegment = 2
  MaxTransmissions = 2
  ClientProtocols = {"http2"}
  MaxFaults = 1
INVARIANTS ResponseIntact UploadIntact
CHECK_DEADLOCK FALSE
