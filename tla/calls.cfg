SPECIFICATION CallSpec
CONSTANTS
  Engine = "codex"
  Records <- StreamRecords
  Timeout = 1
  Grace = 1
  Linger = 0
  MaxOutput = 2
  PipeSize = 1
  Horizon = 6
INVARIANTS
  ReturnsInTime
  NobodyLeftBehind
  GraceIsGranted
  CancellationTellsStop
  SuccessIsEarned
  LoginFailureIsReported
PROPERTIES
  CallEnds
CHECK_DEADLOCK FALSE
