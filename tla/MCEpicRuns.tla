----------------------------- MODULE MCEpicRuns -----------------------------
(* An epic of two tasks: b needs a.                                        *)
EXTENDS EpicRuns, TLC

CONSTANTS a, b

MCOrder == <<a, b>>
MCDeps == (a :> {}) @@ (b :> {a})

=============================================================================
