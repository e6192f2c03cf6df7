SPECIFICATION FairSpec
CONSTANTS
  a = a  b = b  c = c
  Tasks = {a, b, c}
  Deps <- MCDeps
  Order <- MCOrder
  Lanes = 2
  MaxRevisions = 1
  MaxReplans = 1
  MaxReauthors = 1
  MaxStops = 2
CHECK_DEADLOCK FALSE
INVARIANTS
  DepsFirst
PROPERTIES
  KeepsOrder
  GraphSettles
