SPECIFICATION Spec
CONSTANTS
  Clients = {c1}
  Grace = 1
  Interval = 2
  Signet = FALSE
  Faults = {"ipc"}
  MaxBlocks = 2
  MaxFees = 1
  MaxTime = 3
  MaxCalls = 1
  MaxTemplates = 3
  NoTemplate = NoTemplate
INVARIANT EveryTemplateMatchesCache
INVARIANT JobMatchesLastPrevHash
PROPERTY FeeUpdatesSpaced
PROPERTY GraceRespected
PROPERTY ServesClients
