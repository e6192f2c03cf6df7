----------------------------- MODULE MCTaskLanes -----------------------------
EXTENDS TaskLanes

CONSTANTS a, b, c

\* c depends on a and b.
MCDeps == [t \in Tasks |-> IF t = c THEN {a, b} ELSE {}]
MCOrder == [t \in Tasks |-> CASE t = a -> 1 [] t = b -> 2 [] OTHER -> 3]
=============================================================================
