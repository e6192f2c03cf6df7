SPECIFICATION Spec
CONSTANTS
  i1 = i1  i2 = i2  i3 = i3  r1 = r1  r2 = r2  r3 = r3
  Items = {i1, i2, i3}
  Runs = {r1, r2, r3}
  NoItem = NoItem
  NoRun = NoRun
  CodeItems = {i1, i2}
  RepoOf <- SameRepo
  MaxConcurrent = 2
  MaxAttempts = 2
  MaxResumes = 1
  RetryRounds = 1
  Ends = {"landed", "cancelled", "provider_held"}
  Verbs = {"retry", "requeue", "cli_requeue", "cancel_retry", "cancel_pending", "relabel"}
  MaxVerbs = 1
  MaxCrashes = 0
SYMMETRY RunSymmetry
CHECK_DEADLOCK FALSE
INVARIANTS
  OneCodeRunPerRepo
  ConcurrencyLimit
