SPECIFICATION MainSpec
CONSTANTS
  Threads = {"main", "handler", "client", "sockets", "saver"}
  Proxies = {"init", "mining", "tmpl"}
  InitProxy = "init"
  WithDestroy = {"tmpl"}
  Null = "null"
  Signet = FALSE
  ServeAfterError = FALSE
  RequestWhileSaving = FALSE
INVARIANT WriteSucceeds
INVARIANT WokenForCause
INVARIANT EndsClean
INVARIANT ExitsLast
INVARIANT AuthorityKept
PROPERTY RespectsEventLoop
CHECK_DEADLOCK FALSE
INVARIANT ShutdownNotStuck
