SPECIFICATION Spec
CONSTANTS
  Clients = {c1}
  Grace = 1
  Interval = 1
  Signet = FALSE
  Faults = {}
  MaxBlocks = 2
  MaxFees = 1
  MaxTime = 2
  MaxCalls = 0
  MaxTemplates = 3
  NoTemplate = NoTemplate
INVARIANT FeeUpdateIsNotFuture
