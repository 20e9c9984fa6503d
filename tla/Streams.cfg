SPECIFICATION FairSpec
CONSTANTS
  Framed <- MCFramed
  Plain <- MCPlain
  Capacity = 3
INVARIANT TypeOK
PROPERTIES
  ContentsKept
  LogReleased
  ExecReturns
CHECK_DEADLOCK FALSE
