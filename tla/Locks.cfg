SPECIFICATION Spec
CONSTANTS
  Clients = {c1, c2}
  NoClient = NoClient
  Nothing = Nothing
INVARIANT NoDeadlock
CHECK_DEADLOCK FALSE
