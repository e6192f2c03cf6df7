---------------------------- MODULE MCDaemonLoop ----------------------------
(* Small instances of DaemonLoop for TLC. *)
EXTENDS DaemonLoop, TLC

CONSTANTS i1, i2, i3, r1, r2, r3

\* Both items work one repository.
SameRepo == [i \in Items |-> "repo"]

Symmetry == Permutations(Items) \cup Permutations(Runs)
RunSymmetry == Permutations(Runs)
=============================================================================
