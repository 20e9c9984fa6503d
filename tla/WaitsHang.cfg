SPECIFICATION Spec
CONSTANTS
  Strategies <- MCStrategies
  Plans <- MCPlans
  Poll = 1
  ExecPoll = 2
  DefaultTimeout = 3
  Forever = 99
  Entry = 2
  MaxTime = 10
  MaxFaults = 0
INVARIANT DeadlineLimits
CHECK_DEADLOCK FALSE
