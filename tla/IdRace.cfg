SPECIFICATION Spec
CONSTANTS
  Clients = {c1, c2}
  Grace = 1
  Interval = 1
  Signet = FALSE
  Faults = {}
  MaxBlocks = 2
  MaxFees = 0
  MaxTime = 0
  MaxCalls = 0
  MaxTemplates = 3
  NoTemplate = NoTemplate
SYMMETRY Symmetry
INVARIANT EveryTemplateMatchesCache
