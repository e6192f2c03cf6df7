SPECIFICATION FairSpec
CONSTANTS
  a = a  b = b
  Order <- MCOrder
  Deps <- MCDeps
  MaxRuns = 2
  NoTask = NoTask
  MaxCtl = 3
  MaxTrouble = 1
CHECK_DEADLOCK FALSE
INVARIANTS
  OrderKept
  StopHolds
PROPERTIES
  ComesToEnd
