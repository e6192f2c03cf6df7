------------------------------ MODULE MCParking ------------------------------
(* Small instances of Parking for TLC. *)
EXTENDS Parking, TLC

CONSTANTS l1, l2, r1, r2

Symmetry == Permutations(Runs) \cup Permutations(Landers)
=============================================================================
