SPECIFICATION Spec
CONSTANTS
  Procs = {p1, p2}
  Names = {n1, n2}
  MaxCalls = 4
  MaxFaults = 1
SYMMETRY CallerAndNameSymmetry
INVARIANTS
  TypeOK
  NoStuckName
  EffectStays
  NotFoundIsTrue
  CurrentNotDangling
CHECK_DEADLOCK FALSE
