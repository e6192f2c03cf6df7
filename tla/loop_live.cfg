SPECIFICATION FairSpec
CONSTANTS
  i1 = i1  i2 = i2  i3 = i3  r1 = r1  r2 = r2  r3 = r3
  Items = {i1}
  Runs = {r1, r2}
  NoItem = NoItem
  NoRun = NoRun
  CodeItems = {i1}
  RepoOf <- SameRepo
  MaxConcurrent = 2
  MaxAttempts = 1
  MaxResumes = 1
  RetryRounds = 1
  Ends = {"landed", "blocked", "died"}
  Verbs = {"cli_abandon", "cli_retry", "cli_requeue", "cancel_pending"}
  MaxVerbs = 1
  MaxCrashes = 1
CHECK_DEADLOCK FALSE
INVARIANTS
  MergedIsHeard
PROPERTIES
  OverriddenRunComesDown
  DebtIsPaid
  RecoveryCompletes
  DoneIsFinal
