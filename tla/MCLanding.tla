------------------------------ MODULE MCLanding ------------------------------
EXTENDS Landing

Plain == [entry |-> "ci", draft |-> FALSE, gate |-> FALSE, queue |-> "no",
          wants |-> "nothing", posted |-> TRUE, method |-> TRUE, botspent |-> FALSE]

MCConfigs ==
  {[Plain EXCEPT !.draft = TRUE],
   [Plain EXCEPT !.entry = "resume", !.queue = "rule", !.wants = "nothing"],
   [Plain EXCEPT !.entry = "parked", !.queue = "unread", !.botspent = TRUE, !.posted = FALSE],
   [Plain EXCEPT !.entry = "resume", !.wants = "review", !.gate = TRUE]}
============================================================================
