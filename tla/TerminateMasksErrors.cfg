SPECIFICATION Spec
CONSTANTS
  Callers = {c1}
  UserHooks = {"PreTerminates"}
  ExtraNetworks = 0
  MaxCalls = 2
  MaxFaults = 2
INVARIANT TerminateEnsuresRemoval
CHECK_DEADLOCK FALSE
