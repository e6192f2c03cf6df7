----------------------------- MODULE JudgedMerge -----------------------------
(***************************************************************************)
(* What a landing promises the repository: of everything that may happen   *)
(* to a pull request while it waits, the program itself merges only a head *)
(* it has judged, and only while that head is still the head.  People push,*)
(* merge and close as they like.                                           *)
(***************************************************************************)
EXTENDS Naturals

CONSTANTS MaxHead           \* heads the branch goes through are 1..MaxHead

VARIABLES head,             \* the head of the branch
          status,           \* open, merged or closed
          by,               \* who merged: nobody, the program, a person
          judged            \* the heads the program judged fit to merge

vars == <<head, status, by, judged>>

Init == /\ head = 1
        /\ status = "open"
        /\ by = "nobody"
        /\ judged = {}

Push == /\ status = "open"
        /\ head < MaxHead
        /\ head' = head + 1
        /\ UNCHANGED <<status, by, judged>>

\* A judgement may be of a head that has already been replaced.
Judge(h) == /\ judged' = judged \cup {h}
            /\ UNCHANGED <<head, status, by>>

LoopMerge == /\ status = "open"
             /\ head \in judged
             /\ status' = "merged"
             /\ by' = "loop"
             /\ UNCHANGED <<head, judged>>

PersonMerge == /\ status = "open"
               /\ status' = "merged"
               /\ by' = "person"
               /\ UNCHANGED <<head, judged>>

Close == /\ status = "open"
         /\ status' = "closed"
         /\ UNCHANGED <<head, by, judged>>

Next == \/ Push
        \/ \E h \in 1..head : Judge(h)
        \/ LoopMerge
        \/ PersonMerge
        \/ Close

Spec == Init /\ [][Next]_vars
=============================================================================
