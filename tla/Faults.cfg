SPECIFICATION FairSpec
CONSTANTS
  Clients = {c1}
  Grace = 1
  Interval = 1
  Signet = TRUE
  Faults = {"ipc", "reorg", "interrupt"}
  MaxBlocks = 2
  MaxFees = 0
  MaxTime = 1
  MaxCalls = 0
  MaxTemplates = 2
  NoTemplate = NoTemplate
PROPERTY GraceRespected
PROPERTY ShutdownCompletes
CHECK_DEADLOCK FALSE
