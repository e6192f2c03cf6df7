------------------------------ MODULE MCClaims ------------------------------
(* Two daemons watching one repository, from one host or from two.         *)
EXTENDS Claims

CONSTANTS d1, d2

OneHost == [d \in Daemons |-> "h1"]
TwoHosts == [d \in Daemons |-> IF d = d1 THEN "h1" ELSE "h2"]
=============================================================================
