SPECIFICATION MainSpec
CONSTANTS
  Threads = {"main", "handler", "client", "sockets", "saver"}
  Proxies = {"init", "mining", "tmpl"}
  InitProxy = "init"
  WithDestroy = {"tmpl"}
  Null = "null"
  Signet = FALSE
  ServeAfterError = FALSE
  RequestWhileSaving = FALSE
CHECK_DEADLOCK FALSE
INVARIANT DestroyIsQuiet
