SPECIFICATION Spec
CONSTANTS
  Hosts <- MCHosts
  IndexNames <- MCIndexNames
  IndexDockerIO = "index"
  Programs = {"helper", "default"}
  Goroutines = {g1, g2}
  Configs <- MCConfigs
  Lists <- MCLists
  MaxCalls = 3
  MaxChanges = 1
SYMMETRY GoroutineSymmetry
INVARIANTS
  TypeOK
  AskedOnce
  OwnCredentials
  CompleteOrError
  FreshAfterClear
CHECK_DEADLOCK FALSE
