SPECIFICATION Spec
CONSTANTS
  MaxId = 1
  Parts = 2
  Kinds = {"SetupProtocol"}
  MaxReceived = 2
  MaxWork = 0
  LogDebug = TRUE
  Faults = {}
PROPERTY ClosedAfterSent
