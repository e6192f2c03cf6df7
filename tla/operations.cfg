SPECIFICATION FairSpec
CONSTANTS
  Keys = {"k1", "k2"}
  Chat = "chat"
  ChatUp = FALSE
  Verbs = {"retry", "requeue", "abandon", "cancel"}
  MaxOps = 2
  MaxRuns = 2
  MaxCrashes = 1
CHECK_DEADLOCK FALSE
INVARIANTS
  AppliedOnce
  ExpiredUntouched
  
PROPERTIES
  OperationSettles
