SPECIFICATION FairSpec
CONSTANTS
  d1 = d1
  d2 = d2
  Daemons = {d1, d2}
  Host <- OneHost
  MaxCycles = 2
  MaxCrashes = 1
  MaxFaults = 1
  MaxTokens = 4
CHECK_DEADLOCK FALSE
INVARIANTS
  OneOwner
  NeverOrphaned
PROPERTIES
  Served
