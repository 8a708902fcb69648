SPECIFICATION Spec
CONSTANTS
  Clients = {c1, c2}
  Grace = 1
  Interval = 2
  Signet = FALSE
  Faults = {}
  MaxBlocks = 2
  MaxFees = 0
  MaxTime = 1
  MaxCalls = 0
  MaxTemplates = 2
  NoTemplate = NoTemplate
SYMMETRY Symmetry
PROPERTY PruneKeepsTip
