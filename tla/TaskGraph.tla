------------------------------ MODULE TaskGraph ------------------------------
(***************************************************************************)
(* What running a task graph promises: a task succeeds or fails only after *)
(* everything it depends on succeeded, is skipped only after something it  *)
(* depends on did not, and never changes once it is settled.               *)
(***************************************************************************)
CONSTANTS Tasks, Deps

VARIABLE st                 \* open, done, failed or skipped, of each task

Init == st \in [Tasks -> {"open"}]

Settle(t) == /\ st[t] = "open"
             /\ \A d \in Deps[t] : st[d] = "done"
             /\ \E r \in {"done", "failed"} : st' = [st EXCEPT ![t] = r]

Skip(t) == /\ st[t] = "open"
           /\ \E d \in Deps[t] : st[d] \in {"failed", "skipped"}
           /\ st' = [st EXCEPT ![t] = "skipped"]

Next == \E t \in Tasks : Settle(t) \/ Skip(t)

Spec == Init /\ [][Next]_st
=============================================================================
