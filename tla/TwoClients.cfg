SPECIFICATION FairSpec
CONSTANTS
  Clients = {c1, c2}
  Grace = 0
  Interval = 1
  Signet = FALSE
  Faults = {"reuse"}
  MaxBlocks = 2
  MaxFees = 0
  MaxTime = 0
  MaxCalls = 0
  MaxTemplates = 3
  NoTemplate = NoTemplate
INVARIANT TypeOK
INVARIANT FirstTemplateMatchesCache
INVARIANT TemplateIdsIncrease
PROPERTY TipReachesClient
