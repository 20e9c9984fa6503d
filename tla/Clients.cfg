SPECIFICATION Spec
CONSTANTS
  Callers = {c1, c2}
  Starts <- MCStarts
  n1 = n1
  ClientOptions <- MCClientOptions
  Contexts <- MCContexts
  SocketHosts <- MCSocketHosts
  NetworkIds = {n1, n2}
  NetworkNames = {"app", "app2"}
  VolumeNames = {"data"}
  LooksLike <- MCLooksLike
  MaxCalls = 2
  MaxFaults = 1
SYMMETRY MCSymmetry
INVARIANTS
  TypeOK
  ReadyClient
PROPERTIES
  NothingLeft
CHECK_DEADLOCK FALSE
