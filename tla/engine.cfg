SPECIFICATION FairSpec
CONSTANTS
  MaxReview = 1
  MaxCi = 1
  MaxGrants = 1
  MaxStops = 2
  MaxResumes = 2
  MaxCancels = 1
  Kinds = {"code", "local", "workload", "tool", "plan"}
CHECK_DEADLOCK FALSE
INVARIANTS
  DeliveredGated
  MergedReviewed
  RoundsPaid
PROPERTIES
  ComesToRest
