SPECIFICATION FairSpec
CONSTANTS
  Callers = {c1, c2}
  UserHooks <- MCUserHooks
  ExtraNetworks = 1
  MaxCalls = 4
  MaxFaults = 1
INVARIANTS
  TypeOK
  NoOrphan
  ReadyMeansStarted
  RunningIsTrue
  TerminateRacesSafely
  CreatesWhatItPulled
PROPERTIES
  OwnershipKept
  TerminateResolves
CHECK_DEADLOCK FALSE
