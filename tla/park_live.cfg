SPECIFICATION FairSpec
CONSTANTS
  r1 = r1  r2 = r2  l1 = l1  l2 = l2
  Runs = {r1}
  NoRun = NoRun
  Landers = {l1, l2}
  Kinds = {"code"}
  Parks = {"gated", "awaiting_review"}
  Verbs = {"approve", "abandon", "cli_abandon", "retry", "resume_review"}
  MaxVerbs = 2
  MaxCrashes = 1
CHECK_DEADLOCK FALSE
INVARIANTS
  OneLandingPerGate
  DoneIsLanded
PROPERTIES
  DecisionStands
  ApprovalSettles
