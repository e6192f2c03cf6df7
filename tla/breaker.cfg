SPECIFICATION FairBreakerSpec
CONSTANTS
  Runs = {r1, r2, r3, r4}
  NoRun = NoRun
  MaxConcurrent = 3
  MaxFailures = 2
  MaxResets = 1
  MaxQueries = 1
  MaxRestarts = 1
INVARIANTS
  OneItemThrough
  OverThresholdIsGuarded
PROPERTIES
  DispatchNeverWedges
