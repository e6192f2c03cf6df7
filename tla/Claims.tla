------------------------------- MODULE Claims -------------------------------
(***************************************************************************)
(* Several daemons watch one repository; one of its issues carries the     *)
(* trigger label.  Labels have no compare-and-swap, so the claim comment is*)
(* the lock: a daemon persists a token, posts it in a comment, re-reads the*)
(* comments and goes on only if its own is the first of this trigger cycle,*)
(* then swaps the labels.  A claim from a process that is gone is released,*)
(* a half-claim is settled when its daemon restarts.                       *)
(*                                                                         *)
(* Every call to the forge is one step.  A call that fails may have taken  *)
(* effect all the same.                                                    *)
(***************************************************************************)
EXTENDS Naturals

CONSTANTS Daemons,
          Host,        \* the host each daemon runs on
          MaxCycles,   \* bound on how often a person adds the trigger label
          MaxCrashes,  \* bound on processes killed
          MaxFaults,   \* bound on failed calls
          MaxTokens    \* bound on one daemon's tokens in sight

ASSUME DaemonsAssumption == Daemons # {} /\ DOMAIN Host = Daemons
ASSUME BoundsAssumption == /\ MaxCycles \in Nat /\ MaxCrashes \in Nat
                           /\ MaxFaults \in Nat /\ MaxTokens \in Nat \ {0}

VARIABLES
  issue,     \* the issue: open, and its labels
  cycle,     \* how often the trigger label was added
  comments,  \* the claim comments, each with what it followed and what followed it
  aged,      \* the tokens whose comment is older than claim_stale_after_s
  row,       \* each daemon's row for the issue
  pc,        \* each daemon's next step
  mem,       \* its locals
  inc,       \* its process: how often it was started
  hist       \* what happened, for the properties

vars == <<issue, cycle, comments, aged, row, pc, mem, inc, hist>>

NoToken == <<>>
Tokens == Daemons \X (1..MaxTokens)
NoRow == [here |-> FALSE, token |-> NoToken, claimed |-> FALSE]
NoMem == [epoch |-> 0, before |-> {}]

Claiming == {"get", "post", "judge", "release", "add", "remove", "rollback", "mark"}
Settling == {"settle", "swap"}
Steps == Claiming \cup Settling \cup {"idle", "won", "running", "down"}

Init ==
  /\ issue = [open |-> TRUE, trigger |-> TRUE, other |-> FALSE, inprog |-> FALSE]
  /\ cycle = 1
  /\ comments = {}
  /\ aged = {}
  /\ row = [d \in Daemons |-> NoRow]
  /\ pc = [d \in Daemons |-> "idle"]
  /\ mem = [d \in Daemons |-> NoMem]
  /\ inc = [d \in Daemons |-> 0]
  /\ hist = [wanted |-> TRUE, owners |-> {}, crashes |-> 0, faults |-> 0, unanswered |-> FALSE]

----------------------------------------------------------------------------
(* Comments and processes.                                                 *)

\* The thread in order: a comment names the claims that were there before it, and
\* whether a started comment followed it.
ClaimTokens == {c.token : c \in comments}
Alive(c) == pc[c.by] # "down" /\ inc[c.by] = c.inc

Without(tokens) ==
  {[c EXCEPT !.after = @ \ tokens] : c \in {k \in comments : k.token \notin tokens}}

Delete(tokens) == comments' = Without(tokens)

Fault == /\ hist.faults < MaxFaults
         /\ hist' = [hist EXCEPT !.faults = @ + 1]

Goto(d, s) == pc' = [pc EXCEPT ![d] = s]

\* _claims: the claims of the cycle that began at epoch.
InCycle(epoch) == {c \in comments : c.cycle >= epoch}

\* Slip: an old claim is never released.
Stale_Never(d, c) == Host[c.by] = Host[d] /\ ~Alive(c)

\* _stale: from this host and its process is dead, or old with no run started
\* after it.
Stale(d, c) ==
  \/ /\ Host[c.by] = Host[d]
     /\ <<c.by, c.inc>> # <<d, inc[d]>>
     /\ ~Alive(c)
  \/ c.token \in aged /\ ~c.ran

Live(d, epoch) == {c \in InCycle(epoch) : c.token = row[d].token \/ ~Stale(d, c)}

\* Slip: any live claim that is ours wins.
Wins_AnyMine(d, epoch) == \E c \in Live(d, epoch) : c.token = row[d].token

\* Ours is the first of the live claims.
Wins(d, epoch) ==
  \E c \in Live(d, epoch) :
    /\ c.token = row[d].token
    /\ \A k \in Live(d, epoch) : k.token \notin c.after

----------------------------------------------------------------------------
(* Claiming.                                                               *)

\* The tokens nobody has ever seen; one that nobody remembers is as good.
Unseen(d) ==
  {t \in Tokens :
    /\ t[1] = d /\ t \notin ClaimTokens
    /\ \A e \in Daemons : row[e].token # t /\ t \notin mem[e].before}

FreshToken(d) == CHOOSE t \in Unseen(d) : TRUE

\* The row is discarded: a claim that is not ours leaves none.
Discard(d) ==
  /\ row' = [row EXCEPT ![d] = NoRow]
  /\ mem' = [mem EXCEPT ![d] = NoMem]
  /\ Goto(d, "idle")

\* Discovery and _start_item: a row is made when a poll finds the label, which
\* may be gone by the next step; the token is persisted before anything is
\* posted.
Pick(d) ==
  /\ pc[d] = "idle"
  /\ row[d].here \/ (issue.open /\ issue.trigger)
  /\ Unseen(d) # {}
  /\ LET t == FreshToken(d) IN
     /\ row' = [row EXCEPT ![d] = [here |-> TRUE, token |-> t, claimed |-> FALSE]]
     /\ aged' = aged \cap ClaimTokens
  /\ Goto(d, "get")
  /\ UNCHANGED <<issue, cycle, comments, mem, inc, hist>>

\* The tokens nobody is in the middle of claiming with.
Rested == {t \in ClaimTokens : ~\E e \in Daemons :
             pc[e] \in Claiming \cup {"won"} /\ row[e].token = t}

\* claim re-reads the issue and, for the cycle, the label's events; an issue with
\* both queueing labels is refused.  A read that fails declines as a missing
\* label does.
Get(d) ==
  /\ pc[d] = "get"
  /\ \/ /\ issue.open /\ issue.trigger /\ ~issue.other
        /\ mem' = [mem EXCEPT ![d].before = Rested, ![d].epoch = cycle]
        /\ Goto(d, "post")
        /\ UNCHANGED <<issue, row, hist>>
     \/ /\ ~issue.open \/ ~issue.trigger
        /\ Discard(d)
        /\ UNCHANGED <<issue, hist>>
     \/ /\ issue.open /\ issue.trigger /\ issue.other
        /\ issue' = [issue EXCEPT !.trigger = FALSE, !.other = FALSE]
        /\ hist' = [hist EXCEPT !.wanted = FALSE]
        /\ Discard(d)
  /\ UNCHANGED <<cycle, comments, aged, inc>>

\* _claim_body: the token, host and process.
ClaimComment(d) == [token |-> row[d].token, by |-> d, inc |-> inc[d], cycle |-> cycle,
                    after |-> ClaimTokens, ran |-> FALSE]

\* A post whose answer is lost leaves a comment whose id is not known: nothing
\* can remove it.
Post(d) ==
  /\ pc[d] = "post"
  /\ \/ /\ comments' = comments \cup {ClaimComment(d)}
        /\ Goto(d, "judge")
        /\ UNCHANGED <<row, mem, hist>>
     \/ /\ Fault
        /\ comments' \in {comments, comments \cup {ClaimComment(d)}}
        /\ Discard(d)
  /\ UNCHANGED <<issue, cycle, aged, inc>>

\* The comments are read, stale claims released, and the race is judged among
\* the live ones.
Judge(d) ==
  /\ pc[d] = "judge"
  /\ \/ /\ LET stale == {c.token : c \in InCycle(mem[d].epoch) \ Live(d, mem[d].epoch)}
           IN \/ Delete(stale) /\ UNCHANGED hist
              \/ stale # {} /\ Fault /\ UNCHANGED comments
        /\ Goto(d, IF Wins(d, mem[d].epoch) THEN "add" ELSE "release")
        /\ mem' = [mem EXCEPT ![d] = NoMem]
        /\ UNCHANGED row
     \/ /\ Fault
        /\ Discard(d)
        /\ UNCHANGED comments
  /\ UNCHANGED <<issue, cycle, aged, inc>>

\* The comment lock is released after a lost race or a failed claim.
Release(d) ==
  /\ pc[d] = "release"
  /\ \/ Delete({row[d].token}) /\ UNCHANGED hist
     \/ Fault /\ UNCHANGED comments
  /\ Discard(d)
  /\ UNCHANGED <<issue, cycle, aged, inc>>

\* Slip: the trigger is taken off before the in-progress mark is on.
AddInProgress_Swapped(d) ==
  /\ pc[d] = "add"
  /\ \/ /\ issue' = [issue EXCEPT !.trigger = FALSE]
        /\ Goto(d, "remove")
        /\ UNCHANGED hist
     \/ /\ Fault
        /\ issue' \in {issue, [issue EXCEPT !.trigger = FALSE]}
        /\ Goto(d, "release")
  /\ UNCHANGED <<cycle, comments, aged, row, mem, inc>>

\* In-progress goes on before the trigger comes off.
AddInProgress(d) ==
  /\ pc[d] = "add"
  /\ \/ /\ issue' = [issue EXCEPT !.inprog = TRUE]
        /\ Goto(d, "remove")
        /\ UNCHANGED hist
     \/ /\ Fault
        /\ issue' \in {issue, [issue EXCEPT !.inprog = TRUE]}
        /\ Goto(d, "release")
  /\ UNCHANGED <<cycle, comments, aged, row, mem, inc>>

\* A removal that fails is rolled back, whether or not it took effect.
RemoveTrigger(d) ==
  /\ pc[d] = "remove"
  /\ \/ /\ issue' = [issue EXCEPT !.trigger = FALSE]
        /\ Goto(d, "mark")
        /\ UNCHANGED hist
     \/ /\ Fault /\ UNCHANGED issue
        /\ Goto(d, "rollback")
     \/ /\ hist.faults < MaxFaults
        /\ hist' = [hist EXCEPT !.faults = @ + 1, !.unanswered = TRUE]
        /\ issue' = [issue EXCEPT !.trigger = FALSE]
        /\ Goto(d, "rollback")
  /\ UNCHANGED <<cycle, comments, aged, row, mem, inc>>

Rollback(d) ==
  /\ pc[d] = "rollback"
  /\ \/ issue' = [issue EXCEPT !.inprog = FALSE] /\ UNCHANGED hist
     \/ Fault /\ UNCHANGED issue
  /\ Goto(d, "release")
  /\ UNCHANGED <<cycle, comments, aged, row, mem, inc>>

\* mark_claimed
Mark(d) ==
  /\ pc[d] = "mark"
  /\ row' = [row EXCEPT ![d].claimed = TRUE]
  /\ hist' = [hist EXCEPT !.owners = @ \cup {d}]
  /\ Goto(d, "won")
  /\ UNCHANGED <<issue, cycle, comments, aged, mem, inc>>

\* A started comment goes under every claim in the thread.
Started == {[c EXCEPT !.ran = TRUE] : c \in comments}

\* The run is dispatched and its start reported, if the report gets through.
Start(d) ==
  /\ pc[d] = "won"
  /\ \/ comments' = Started /\ UNCHANGED hist
     \/ Fault /\ UNCHANGED comments
  /\ Goto(d, "running")
  /\ UNCHANGED <<issue, cycle, aged, row, mem, inc>>

\* The run's end is reported: merged closes the issue, failed, blocked and
\* cancelled take both labels off it.
End(d) ==
  /\ pc[d] = "running"
  /\ \/ issue' = [issue EXCEPT !.inprog = FALSE, !.open = FALSE]
     \/ issue' = [issue EXCEPT !.inprog = FALSE, !.trigger = FALSE]
  /\ hist' = [hist EXCEPT !.wanted = FALSE]
  /\ Discard(d)
  /\ UNCHANGED <<cycle, comments, aged, inc>>

----------------------------------------------------------------------------
(* Crash and restart.                                                      *)

Crash(d) ==
  /\ pc[d] # "down"
  /\ hist.crashes < MaxCrashes
  /\ hist' = [hist EXCEPT !.crashes = @ + 1]
  /\ Goto(d, "down")
  /\ mem' = [mem EXCEPT ![d] = NoMem]
  /\ UNCHANGED <<issue, cycle, comments, aged, row, inc>>

\* recover: a claimed row is dispatched again, a half-claimed one settled.
Restart(d) ==
  /\ pc[d] = "down"
  /\ inc' = [inc EXCEPT ![d] = @ + 1]
  /\ Goto(d, IF row[d].claimed THEN "won" ELSE IF row[d].token # NoToken THEN "settle" ELSE "idle")
  /\ UNCHANGED <<issue, cycle, comments, aged, row, mem, hist>>

Forget(d) ==
  /\ row' = [row EXCEPT ![d].token = NoToken]
  /\ mem' = [mem EXCEPT ![d] = NoMem]
  /\ Goto(d, "idle")

HasClaim(d) == \E c \in InCycle(cycle) : c.token = row[d].token

\* settle_claim: the comment is there, whatever its place among the claims, or
\* it is not; a call that fails reads as absent.
SettleRead(d) ==
  /\ pc[d] = "settle"
  /\ \/ /\ HasClaim(d)
        /\ Goto(d, "swap")
        /\ UNCHANGED <<row, mem, hist>>
     \/ /\ ~HasClaim(d)
        /\ Forget(d)
        /\ UNCHANGED hist
     \/ /\ Fault
        /\ Forget(d)
  /\ UNCHANGED <<issue, cycle, comments, aged, inc>>

SettleSwap(d) ==
  /\ pc[d] = "swap"
  /\ \/ /\ issue' = [issue EXCEPT !.inprog = TRUE, !.trigger = FALSE]
        /\ Goto(d, "mark")
        /\ UNCHANGED <<row, mem, hist>>
     \/ /\ Fault
        /\ issue' \in {issue, [issue EXCEPT !.inprog = TRUE],
                       [issue EXCEPT !.inprog = TRUE, !.trigger = FALSE]}
        /\ Forget(d)
  /\ UNCHANGED <<cycle, comments, aged, inc>>

----------------------------------------------------------------------------
(* People and time.                                                        *)

\* A person asks again once the issue has an answer; reading it takes longer
\* than the claims under way.  Both queueing labels may go on.
AddTrigger ==
  /\ issue.open /\ ~issue.trigger /\ ~hist.wanted /\ cycle < MaxCycles
  /\ \A d \in Daemons : pc[d] \notin (Claiming \ {"get"}) \cup Settling
  /\ \E o \in BOOLEAN : issue' = [issue EXCEPT !.trigger = TRUE, !.other = o]
  /\ cycle' = cycle + 1
  /\ hist' = [hist EXCEPT !.wanted = TRUE, !.owners = {}]
  /\ UNCHANGED <<comments, aged, row, pc, mem, inc>>

\* A claim takes seconds and claim_stale_after_s is minutes: a comment grows
\* old only once nobody is claiming with it, and before the claims under way.
Age(t) ==
  /\ \A e \in Daemons : pc[e] \in {"post", "judge"} => t \in mem[e].before
  /\ aged' = aged \cup {t}
  /\ UNCHANGED <<issue, cycle, comments, row, pc, mem, inc, hist>>

Work(d) == \/ Pick(d) \/ Get(d) \/ Post(d) \/ Judge(d) \/ Release(d)
           \/ AddInProgress(d) \/ RemoveTrigger(d) \/ Rollback(d) \/ Mark(d)
           \/ Start(d) \/ End(d) \/ SettleRead(d) \/ SettleSwap(d) \/ Restart(d)

Next == \/ \E d \in Daemons : Work(d) \/ Crash(d)
        \/ AddTrigger
        \/ \E t \in Rested \ aged : Age(t)

Spec == Init /\ [][Next]_vars

\* A daemon takes its next step and is restarted, time passes.
FairSpec == /\ Spec
            /\ \A d \in Daemons : WF_vars(Work(d))
            /\ WF_vars(\E t \in Rested \ aged : Age(t))

----------------------------------------------------------------------------
(* Properties.                                                             *)

Comment == [token : Tokens, by : Daemons, inc : Nat, cycle : Nat,
            after : SUBSET Tokens, ran : BOOLEAN]

TypeOK ==
  /\ issue \in [open : BOOLEAN, trigger : BOOLEAN, other : BOOLEAN, inprog : BOOLEAN]
  /\ cycle \in Nat
  /\ comments \subseteq Comment
  /\ aged \subseteq Tokens
  /\ row \in [Daemons -> [here : BOOLEAN, token : Tokens \cup {NoToken}, claimed : BOOLEAN]]
  /\ pc \in [Daemons -> Steps]
  /\ mem \in [Daemons -> [epoch : Nat, before : SUBSET Tokens]]
  /\ inc \in [Daemons -> Nat]
  /\ hist \in [wanted : BOOLEAN, owners : SUBSET Daemons, crashes : Nat,
               faults : Nat, unanswered : BOOLEAN]

\* Of the current request.
TwoOwners == \E d, e \in hist.owners : d # e

\* "Proceed only if ours is the first claim comment of this trigger cycle": as
\* long as no process is killed, two daemons never both own one request,
\* whatever calls fail and however the claims interleave.
OneOwner == TwoOwners => hist.crashes > 0

\* The daemon owns the issue, or its claim may still get there.
MayRun(d) == \/ row[d].claimed
             \/ pc[d] \in (Claiming \ {"get", "release", "rollback"}) \cup {"swap"}
             \/ pc[d] \in {"down", "settle"} /\ HasClaim(d)

\* Wanted, and neither findable by a poll nor in a row that will act on it.
Orphaned == hist.wanted /\ ~issue.trigger /\ \A d \in Daemons : ~MayRun(d)

\* "A failure part-way can never lose the item": neither a failed call nor a
\* killed process alone leaves a wanted issue that nobody will act on.
NeverOrphaned ==
  Orphaned => hist.unanswered \/ (hist.crashes > 0 /\ hist.faults > 0)

Overlap == \E d, e \in Daemons : d # e /\ pc[d] \in Claiming /\ pc[e] \in Claiming \ {"get"}

\* A labelled issue is run or refused in the end: no stray claim comment locks
\* every later claimer out, unless the daemons' claims overlap for ever, each
\* losing to the one the other is about to take back.
Served == []<>Overlap \/ (hist.wanted ~> (~hist.wanted \/ Orphaned))

\* Two daemons never both own one request, a process killed or not.
OneOwnerAlways == ~TwoOwners

\* The issue is never left wearing a claim nobody will act on.
NeverOrphanedAlways == ~Orphaned
=============================================================================
