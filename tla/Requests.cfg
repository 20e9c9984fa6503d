SPECIFICATION Spec
CONSTANTS
  Runs = {r1, r2}
  Options <- MCOptions
  Plans <- MCPlans
  NewNetworks = {"n1", "n2", "n3", "n4"}
  NameOrder <- MCNameOrder
  Base = 2
  Width = 2
  MaxFaults = 1
SYMMETRY RunSymmetry
INVARIANTS
  TypeOK
  OrderKept
  FilesInPlace
  NetworksAsAsked
  PortsAsAsked
CHECK_DEADLOCK FALSE
