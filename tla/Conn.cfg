SPECIFICATION FairSpec
CONSTANTS
  MaxId = 1
  Parts = 2
  Kinds = {"SetupConnection", "SetupProtocol", "SetupVersion", "SetupInvalid", "Constraints", "ConstraintsHuge", "ConstraintsInvalid", "SubmitSolution", "RequestTransactionData", "Invalid", "Known", "Unknown", "Garbage"}
  MaxReceived = 3
  MaxWork = 2
  LogDebug = TRUE
  Faults = {"send", "ipc", "refuse", "interrupt"}
INVARIANT TypeOK
INVARIANT InOrder
INVARIANT OneSetupReply
PROPERTY SilentOnceRemoved
PROPERTY IsClientService
PROPERTY ReceiveProgress
PROPERTY InterruptStops
CHECK_DEADLOCK FALSE
