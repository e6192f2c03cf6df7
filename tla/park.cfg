SPECIFICATION Spec
CONSTANTS
  r1 = r1  r2 = r2  l1 = l1  l2 = l2
  Runs = {r1, r2}
  NoRun = NoRun
  Landers = {l1, l2}
  Kinds = {"code", "workload"}
  Parks = {"gated", "held", "awaiting_review"}
  Verbs = {"approve", "cli_abandon"}
  MaxVerbs = 4
  MaxCrashes = 0
SYMMETRY Symmetry
CHECK_DEADLOCK FALSE
INVARIANTS
  NoStrandedPark
