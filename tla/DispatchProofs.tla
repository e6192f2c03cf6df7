--------------------------- MODULE DispatchProofs ---------------------------
(***************************************************************************)
(* The two guards of a dispatch.  The circuit breaker: its type invariant, *)
(* and, until a status query half-opens it or a restart drops its          *)
(* half-open mark, one item through while half-open and no count over the  *)
(* threshold unguarded.  The claim: one owner until a process is killed,   *)
(* and no request lost.  Both for every value of the constants.            *)
(***************************************************************************)
EXTENDS Breaker, Claims, TLAPS

(***************************************************************************)
(* The strengthening.  Probing(r): r was launched since the breaker opened *)
(* and still holds its slot.                                               *)
(***************************************************************************)
Probing(r) == r \in through /\ run[r] \in {"live", "ended"}

\* Who may be probing at each point of the loop: nobody while the gate has admitted
\* and not launched, only the run just launched until it is bound, else the probe.
ProbeTracked ==
  /\ at = "launch" => \A r \in Runs : ~Probing(r)
  /\ at = "bind" => \A r \in Runs : Probing(r) => r = last
  /\ at \notin {"launch", "bind"} => \A r \in Runs : Probing(r) => r = probe

\* When the breaker is open nothing has got through, and past the mark a tripped
\* breaker that is not open is half-open.
GateShut ==
  /\ ~tripped \/ opened \/ at = "mark" => through = {}
  /\ at \in {"mark", "probe", "launch", "bind"} => ~opened
  /\ tripped /\ ~opened /\ at # "mark" => half
  /\ tripped /\ at \in {"launch", "bind"} => probe = NoRun

CountGuarded ==
  at \notin {"mark", "judge"} /\ failures >= MaxFailures => opened \/ half

\* What holds until a status query or a restart comes in between.
Tracking == query = "idle" /\ ProbeTracked /\ GateShut /\ CountGuarded

BreakerIInv == BreakerTypeOK /\ (Undisturbed => Tracking)

-----------------------------------------------------------------------------
\* BreakerTypeOK in two parts, the flags and the rest.
FlagsOK == opened \in BOOLEAN /\ half \in BOOLEAN /\ cooled \in BOOLEAN /\ tripped \in BOOLEAN

FieldsOK ==
  /\ failures \in Nat
  /\ probe \in Runs \cup {NoRun} /\ last \in Runs \cup {NoRun}
  /\ run \in [Runs -> {"new", "live", "ended", "over"}]
  /\ at \in {"tick", "mark", "probe", "launch", "bind", "judge"}
  /\ query \in {"idle", "transition", "mark"}
  /\ through \subseteq Runs
  /\ used \in [resets : Nat, queries : Nat, restarts : Nat]

LEMMA BreakerTypeParts == BreakerTypeOK <=> FlagsOK /\ FieldsOK
  BY Zenon DEF BreakerTypeOK, FlagsOK, FieldsOK

LEMMA BreakerTypeInit == BreakerInit => BreakerTypeOK
<1>1. BreakerInit => FlagsOK
  BY Zenon DEF BreakerInit, FlagsOK
<1>2. BreakerInit => FieldsOK
  BY DEF BreakerInit, FieldsOK
<1> QED
  BY <1>1, <1>2, BreakerTypeParts

\* Decremented never leaves the naturals: the count has a floor at zero.
LEMMA DecrementedNat == failures \in Nat => Decremented \in Nat
  BY DEF Decremented

\* No handler leaves a flag that is not a Boolean.
LEMMA FlagsNext == FlagsOK /\ [BreakerNext]_breakerVars => FlagsOK'
<1> SUFFICES ASSUME FlagsOK, [BreakerNext]_breakerVars PROVE FlagsOK'
  OBVIOUS
<1> USE DEF FlagsOK, SetBreaker, Free
<1>1. CASE Loop
  <2> USE DEF GateHalfOpens, GateMarks, GateClosed, GateProbe, NothingToLaunch, BindProbes, Launch
  <2>1. CASE JudgeCount
    BY Zenon, <2>1 DEF JudgeCount
  <2>2. CASE ~JudgeCount
    BY Zenon, <1>1, <2>2 DEF Loop
  <2> QED
    BY <2>1, <2>2
<1>2. CASE Settle
  BY Zenon, <1>2 DEF Settle, SettleLanded, SettleFailed, SettleNeutral
<1>3. CASE CoolDown \/ StatusAsks \/ StatusHalfOpens \/ StatusMarks \/ Reset \/ NewProcess
  BY Zenon, <1>3 DEF CoolDown, StatusAsks, StatusHalfOpens, StatusMarks, Reset, NewProcess
<1>4. CASE \E r \in Runs : RunEnds(r)
  BY Zenon, <1>4 DEF RunEnds
<1>5. CASE UNCHANGED breakerVars
  BY Zenon, <1>5 DEF breakerVars
<1> QED
  BY Zenon, <1>1, <1>2, <1>3, <1>4, <1>5 DEF BreakerNext

\* Every handler of the breaker keeps the other fields' types: the loop thread's gate,
\* launch and settle, a status query, an operator's reset and a restart.
LEMMA FieldsNext == FieldsOK /\ [BreakerNext]_breakerVars => FieldsOK'
<1> SUFFICES ASSUME FieldsOK, [BreakerNext]_breakerVars PROVE FieldsOK'
  OBVIOUS
<1> USE BreakerAssumption DEF FieldsOK
<1>1. CASE GateHalfOpens
  BY <1>1, DecrementedNat DEF GateHalfOpens, SetBreaker
<1>2. CASE GateMarks \/ GateClosed \/ NothingToLaunch \/ BindProbes \/ CoolDown
  BY <1>2 DEF GateMarks, GateClosed, NothingToLaunch, BindProbes, CoolDown
<1>3. CASE GateProbe
  BY <1>3 DEF GateProbe, LiveProbe, InFlight
<1>4. CASE JudgeCount
  BY <1>4 DEF JudgeCount, SetBreaker
<1>5. ASSUME NEW r \in Runs, Launch(r) PROVE FieldsOK'
  BY <1>5 DEF Launch
<1>6. ASSUME NEW r \in Runs, SettleLanded(r) \/ SettleFailed(r) \/ SettleNeutral(r) \/ RunEnds(r)
      PROVE FieldsOK'
  BY <1>6 DEF SettleLanded, SettleFailed, SettleNeutral, RunEnds, Free, SetBreaker
<1>7. CASE StatusAsks \/ StatusMarks
  BY <1>7 DEF StatusAsks, StatusMarks
<1>8. CASE StatusHalfOpens
  BY <1>8, DecrementedNat DEF StatusHalfOpens, SetBreaker
<1>9. CASE Reset
  BY <1>9 DEF Reset, SetBreaker
<1>10. CASE NewProcess
  BY <1>10 DEF NewProcess
<1>11. CASE UNCHANGED breakerVars
  BY <1>11 DEF breakerVars
<1> QED
  BY <1>1, <1>2, <1>3, <1>4, <1>5, <1>6, <1>7, <1>8, <1>9, <1>10, <1>11
  DEF BreakerNext, Loop, Settle

LEMMA BreakerTypeNext == BreakerTypeOK /\ [BreakerNext]_breakerVars => BreakerTypeOK'
<1>1. BreakerTypeOK' <=> FlagsOK' /\ FieldsOK'
  BY Zenon DEF BreakerTypeOK, FlagsOK, FieldsOK
<1> QED
  BY Zenon, <1>1, BreakerTypeParts, FlagsNext, FieldsNext

\* The breaker's fields keep their types whatever the loop, the status queries, the
\* resets and the restarts do (SetBreaker, _breaker_open, _live_probe, _bind_probes).
THEOREM BreakerTypeCorrect == BreakerSpec => []BreakerTypeOK
  BY BreakerTypeInit, BreakerTypeNext, PTL DEF BreakerSpec

-----------------------------------------------------------------------------
LEMMA BreakerIInvInit == BreakerInit => BreakerIInv
  BY BreakerTypeInit, BreakerAssumption DEF BreakerInit, BreakerIInv, Tracking, ProbeTracked, Probing, GateShut, CountGuarded

\* A disturbance is remembered: an undisturbed step is none.
LEMMA StaysUndisturbed ==
  ASSUME BreakerTypeOK, [BreakerNext]_breakerVars, Undisturbed'
  PROVE  Undisturbed /\ ~StatusAsks /\ ~NewProcess
<1> USE DEF BreakerTypeOK, Undisturbed
<1>1. ~StatusAsks /\ ~NewProcess
  BY DEF StatusAsks, NewProcess
<1>2. used' = used \/ Reset
  BY <1>1 DEF BreakerNext, Loop, Settle, CoolDown, RunEnds, GateHalfOpens, GateMarks, GateClosed, GateProbe,
     NothingToLaunch, BindProbes, JudgeCount, Launch, SettleLanded, SettleFailed, SettleNeutral,
     StatusHalfOpens, StatusMarks, breakerVars
<1> QED
  BY <1>1, <1>2 DEF Reset

\* One step of the loop, a settle or a reset keeps the probe tracked, as long as neither
\* a status query nor a restart has come between.
LEMMA BreakerIInvNext == BreakerIInv /\ [BreakerNext]_breakerVars => BreakerIInv'
<1> SUFFICES ASSUME BreakerIInv, [BreakerNext]_breakerVars, Undisturbed' PROVE Tracking'
  BY BreakerTypeNext DEF BreakerIInv
<1>0. BreakerTypeOK' /\ BreakerTypeOK
  BY BreakerTypeNext DEF BreakerIInv
<1>a. Tracking /\ ~StatusAsks /\ ~NewProcess
  BY <1>0, StaysUndisturbed DEF BreakerIInv
<1> USE BreakerAssumption, <1>0, <1>a DEF Tracking, ProbeTracked, Probing, GateShut, CountGuarded, BreakerTypeOK
<1>1. CASE GateHalfOpens
  BY <1>1 DEF GateHalfOpens, SetBreaker
<1>2. CASE GateMarks
  BY <1>2 DEF GateMarks
<1>3. CASE GateClosed
  BY <1>3 DEF GateClosed
<1>4. CASE GateProbe
  BY <1>4 DEF GateProbe, LiveProbe, InFlight
<1>5. CASE NothingToLaunch
  BY <1>5 DEF NothingToLaunch
<1>6. CASE BindProbes
  BY <1>6 DEF BindProbes
<1>7. CASE JudgeCount
  BY <1>7 DEF JudgeCount, SetBreaker, Threshold
<1>8. ASSUME NEW r \in Runs, Launch(r) PROVE Tracking'
  BY <1>8 DEF Launch
<1>9. ASSUME NEW r \in Runs, SettleLanded(r) PROVE Tracking'
  BY <1>9 DEF SettleLanded, Free, SetBreaker
<1>10. ASSUME NEW r \in Runs, SettleFailed(r) PROVE Tracking'
  BY <1>10 DEF SettleFailed, Free, SetBreaker
<1>11. ASSUME NEW r \in Runs, SettleNeutral(r) PROVE Tracking'
  BY <1>11 DEF SettleNeutral, Free
<1>12. ASSUME NEW r \in Runs, RunEnds(r) PROVE Tracking'
  BY <1>12 DEF RunEnds
<1>13. CASE CoolDown
  BY <1>13 DEF CoolDown
<1>14. CASE Reset
  BY <1>14 DEF Reset, SetBreaker
<1>15. CASE StatusHalfOpens \/ StatusMarks
  BY <1>15 DEF StatusHalfOpens, StatusMarks
<1>16. CASE UNCHANGED breakerVars
  BY <1>16 DEF breakerVars
<1> QED
  BY <1>a, <1>1, <1>2, <1>3, <1>4, <1>5, <1>6, <1>7, <1>8, <1>9, <1>10, <1>11, <1>12, <1>13,
     <1>14, <1>15, <1>16 DEF BreakerNext, Loop, Settle

LEMMA OneItemFromIInv == BreakerIInv => OneItemThrough
  BY DEF BreakerIInv, Tracking, ProbeTracked, Probing, BreakerTypeOK, OneItemThrough

LEMMA GuardFromIInv == BreakerIInv => OverThresholdIsGuarded
  BY DEF BreakerIInv, Tracking, CountGuarded, OverThresholdIsGuarded

\* "Half-open: allow one item through": until a status query half-opens the breaker or the
\* process restarts, any number of runs still in flight from before the breaker opened, and
\* resets at any time, never let a second probe run beside the first (_dispatch_gate,
\* _live_probe and _bind_probes).
THEOREM HalfOpenAdmitsOne == BreakerSpec => []OneItemThrough
  BY BreakerIInvInit, BreakerIInvNext, OneItemFromIInv, PTL DEF BreakerSpec

\* Until then, too, the loop never gates with a failure count at or over
\* max_consecutive_failures and a breaker that is neither open nor half-open.
THEOREM ThresholdGuards == BreakerSpec => []OverThresholdIsGuarded
  BY BreakerIInvInit, BreakerIInvNext, GuardFromIInv, PTL DEF BreakerSpec

-----------------------------------------------------------------------------
(***************************************************************************)
(* The claim.  Until a process is killed, the winner's comment stays in    *)
(* the thread, live and ahead of the claim of every daemon still to judge, *)
(* so that none of them wins (Held); that is what the next cycle, the age  *)
(* of comments and failed calls could break.                               *)
(***************************************************************************)
Uncrashed == hist.crashes = 0

\* The comment of the daemon's claim, and a token it made itself.
Posted(d) == {c \in comments : c.token = row[d].token}
Signed(d) == row[d].token \in Tokens /\ row[d].token[1] = d

\* The thread: one comment per token, signed, in one order.
ThreadOK ==
  /\ \A c \in comments : c.token[1] = c.by
  /\ \A c, k \in comments : c.token = k.token => c = k
  /\ \A c, k \in comments : c # k => c.token \in k.after \/ k.token \in c.after

\* A claim that is not posted yet has a token of its own.
UnpostedOK == \A d \in Daemons : pc[d] \in {"get", "post"} => Signed(d) /\ Posted(d) = {}

\* Until a process is killed: all are the first of their daemon, and a row says where
\* its daemon is.
ProcsOK ==
  /\ \A d \in Daemons : inc[d] = 0 /\ pc[d] \notin {"down", "settle", "swap"}
  /\ \A c \in comments : c.inc = 0
  /\ \A d \in Daemons : pc[d] = "idle" => ~row[d].here
  /\ \A d \in Daemons : pc[d] \in Claiming => Signed(d)
  /\ \A d \in Daemons : row[d].claimed <=> pc[d] \in {"won", "running"}

\* Between reading the issue and the verdict; between the verdict and the row.
Racing == {"post", "judge"}
Swapping == {"add", "remove", "mark"}

\* A claim under way is of this cycle, has not aged, is not among those a rival found
\* there before its own, and from the post on it is in the thread.
ClaimsOK ==
  /\ \A d \in Daemons : pc[d] \in Racing => mem[d].epoch = cycle
  /\ \A d \in Daemons : pc[d] \in Claiming => row[d].token \notin aged
  /\ \A d, e \in Daemons : pc[d] \in Claiming => row[d].token \notin mem[e].before
  /\ \A d \in Daemons :
       pc[d] \in Swapping \cup {"judge"} => \E c \in Posted(d) : c.by = d /\ c.cycle = cycle

\* For e, which is in the race, c is live and, once e has posted, ahead of e's claim.
Shields(c, e) ==
  /\ c.token \notin mem[e].before
  /\ c.token \notin aged
  /\ pc[e] = "judge" => \A k \in Posted(e) : c.token \in k.after

\* The daemon has won this request, or already owns it.
Holding(d) == pc[d] \in Swapping \/ d \in hist.owners

\* Its claim keeps every rival from winning.
Held(d) == \E c \in comments :
  /\ c.by = d /\ c.cycle = cycle
  /\ pc[d] \in Swapping => c.token = row[d].token
  /\ \A e \in Daemons : e # d /\ pc[e] \in Racing => Shields(c, e)

\* What makes the owner unique.
HoldOK ==
  /\ \A d \in Daemons : Holding(d) => Held(d)
  /\ \A d, e \in Daemons : Holding(d) /\ Holding(e) => d = e

\* How the labels, the request and the daemons' places hang together.
RequestOK ==
  /\ issue.trigger => hist.wanted
  /\ \A d \in Daemons : pc[d] \in Racing => hist.wanted \/ hist.owners # {}
  /\ \A d \in Daemons : pc[d] \in Swapping \cup {"won", "running"} => hist.wanted
  /\ \A d \in Daemons : pc[d] \in {"won", "running"} => d \in hist.owners
  /\ \A d \in hist.owners : pc[d] \in {"idle", "won", "running"} /\ ~issue.trigger
  /\ \A d \in Daemons : pc[d] = "mark" => ~issue.trigger
  /\ issue.trigger /\ issue.other => \A d \in Daemons : pc[d] \notin Claiming \ {"get"}
  /\ hist.wanted /\ ~issue.trigger /\ ~hist.unanswered =>
       \E d \in Daemons : pc[d] = "mark" \/ row[d].claimed

\* What holds until a process is killed.
Quiet == ProcsOK /\ ClaimsOK /\ HoldOK /\ RequestOK

ClaimInv == TypeOK /\ ThreadOK /\ UnpostedOK /\ (Uncrashed => Quiet)

-----------------------------------------------------------------------------
\* What deleting comments leaves (_delete_comment_quietly), read in both directions.
LEMMA WithoutKeeps ==
  ASSUME NEW T, NEW k \in Without(T), comments \subseteq Comment
  PROVE  \E c \in comments :
           /\ c.token \notin T
           /\ k.token = c.token /\ k.by = c.by /\ k.inc = c.inc /\ k.cycle = c.cycle
           /\ k.after = c.after \ T
           /\ k \in Comment /\ k = [c EXCEPT !.after = @ \ T]
<1>1. PICK c \in comments : c.token \notin T /\ k = [c EXCEPT !.after = @ \ T]
  BY DEF Without
<1>2. c \in Comment
  OBVIOUS
<1> QED
  BY <1>1, <1>2 DEF Comment

LEMMA KeptByWithout ==
  ASSUME NEW T, NEW c \in comments, c.token \notin T, comments \subseteq Comment
  PROVE  \E k \in Without(T) :
           /\ k.token = c.token /\ k.by = c.by /\ k.inc = c.inc /\ k.cycle = c.cycle
           /\ k.after = c.after \ T
<1> DEFINE k == [c EXCEPT !.after = @ \ T]
<1>1. k \in Without(T)
  BY DEF Without
<1>2. c \in Comment
  OBVIOUS
<1> QED
  BY <1>1, <1>2 DEF Comment

\* The rest of the thread keeps its order.
LEMMA WithoutThread ==
  ASSUME NEW T, comments \subseteq Comment, ThreadOK, comments' = Without(T)
  PROVE  ThreadOK' /\ comments' \subseteq Comment
<1>1. comments' \subseteq Comment
  BY WithoutKeeps
<1>2. \A k \in comments' : k.token[1] = k.by
  BY WithoutKeeps DEF ThreadOK
<1>3. ASSUME NEW k \in comments', NEW l \in comments'
      PROVE  (k.token = l.token => k = l) /\ (k # l => k.token \in l.after \/ l.token \in k.after)
  <2>1. PICK c \in comments : c.token \notin T /\ k.token = c.token /\ k.after = c.after \ T
                              /\ k = [c EXCEPT !.after = @ \ T]
    BY <1>3, WithoutKeeps
  <2>2. PICK e \in comments : e.token \notin T /\ l.token = e.token /\ l.after = e.after \ T
                              /\ l = [e EXCEPT !.after = @ \ T]
    BY <1>3, WithoutKeeps
  <2>3. c.token = e.token => k = l
    BY <2>1, <2>2 DEF ThreadOK
  <2>4. c # e => c.token \in e.after \/ e.token \in c.after
    BY DEF ThreadOK
  <2> QED
    BY <2>1, <2>2, <2>3, <2>4
<1> QED
  BY <1>1, <1>2, <1>3 DEF ThreadOK

\* So for a started comment, which leaves the claims as they are.
LEMMA StartedKeeps ==
  ASSUME NEW k \in Started, comments \subseteq Comment
  PROVE  \E c \in comments :
           /\ k.token = c.token /\ k.by = c.by /\ k.inc = c.inc /\ k.cycle = c.cycle
           /\ k.after = c.after
           /\ k \in Comment /\ k = [c EXCEPT !.ran = TRUE]
<1>1. PICK c \in comments : k = [c EXCEPT !.ran = TRUE]
  BY DEF Started
<1>2. c \in Comment
  OBVIOUS
<1> QED
  BY <1>1, <1>2 DEF Comment

LEMMA KeptByStarted ==
  ASSUME NEW c \in comments, comments \subseteq Comment
  PROVE  \E k \in Started :
           /\ k.token = c.token /\ k.by = c.by /\ k.inc = c.inc /\ k.cycle = c.cycle
           /\ k.after = c.after
<1> DEFINE k == [c EXCEPT !.ran = TRUE]
<1>1. k \in Started
  BY DEF Started
<1>2. c \in Comment
  OBVIOUS
<1> QED
  BY <1>1, <1>2 DEF Comment

LEMMA StartedThread ==
  ASSUME comments \subseteq Comment, ThreadOK, comments' = Started
  PROVE  ThreadOK' /\ comments' \subseteq Comment
<1>1. comments' \subseteq Comment
  BY StartedKeeps
<1>2. \A k \in comments' : k.token[1] = k.by
  BY StartedKeeps DEF ThreadOK
<1>3. ASSUME NEW k \in comments', NEW l \in comments'
      PROVE  (k.token = l.token => k = l) /\ (k # l => k.token \in l.after \/ l.token \in k.after)
  <2>1. PICK c \in comments : k.token = c.token /\ k.after = c.after
                              /\ k = [c EXCEPT !.ran = TRUE]
    BY <1>3, StartedKeeps
  <2>2. PICK e \in comments : l.token = e.token /\ l.after = e.after
                              /\ l = [e EXCEPT !.ran = TRUE]
    BY <1>3, StartedKeeps
  <2>3. c.token = e.token => k = l
    BY <2>1, <2>2 DEF ThreadOK
  <2>4. c # e => c.token \in e.after \/ e.token \in c.after
    BY DEF ThreadOK
  <2> QED
    BY <2>1, <2>2, <2>3, <2>4
<1> QED
  BY <1>1, <1>2, <1>3 DEF ThreadOK

\* A new claim goes to the end of the thread.
LEMMA PostedThread ==
  ASSUME NEW d \in Daemons, TypeOK, ThreadOK, Signed(d), Posted(d) = {},
         comments' = comments \cup {ClaimComment(d)}
  PROVE  ThreadOK' /\ comments' \subseteq Comment
<1> PICK n : n = ClaimComment(d)
  OBVIOUS
<1>1. /\ n \in Comment /\ n.token = row[d].token /\ n.by = d /\ n.after = ClaimTokens
  BY DEF ClaimComment, Comment, TypeOK, Signed, ClaimTokens
<1>2. \A c \in comments : c.token # n.token /\ c.token \in n.after
  BY <1>1 DEF Posted, ClaimTokens
<1>3. comments' \subseteq Comment
  BY <1>1 DEF TypeOK
<1>4. comments' = comments \cup {n}
  OBVIOUS
<1> QED
  BY <1>1, <1>2, <1>3, <1>4 DEF ThreadOK, Signed
-----------------------------------------------------------------------------
\* Everything a daemon does with the thread: it posts, deletes or reports a start.
LEMMA ThreadNext ==
  ASSUME TypeOK, ThreadOK, UnpostedOK, [Next]_vars
  PROVE  ThreadOK' /\ comments' \subseteq Comment
<1>0. comments \subseteq Comment
  BY DEF TypeOK
<1>1. CASE comments' = comments
  BY <1>0, <1>1 DEF ThreadOK
<1>2. CASE \E T : comments' = Without(T)
  BY <1>0, <1>2, WithoutThread
<1>3. CASE comments' = Started
  BY <1>0, <1>3, StartedThread
<1>4. ASSUME NEW d \in Daemons, Post(d), comments' = comments \cup {ClaimComment(d)}
      PROVE  ThreadOK' /\ comments' \subseteq Comment
  BY <1>4, PostedThread DEF Post, UnpostedOK
<1>5. ASSUME NEW d \in Daemons, Work(d) \/ Crash(d)
      PROVE  \/ comments' = comments \/ comments' = Started
             \/ \E T : comments' = Without(T)
             \/ Post(d) /\ comments' = comments \cup {ClaimComment(d)}
  <2>1. CASE Post(d)
    BY <2>1 DEF Post
  <2>2. CASE Judge(d)
    <3> DEFINE stale == {c.token : c \in InCycle(mem[d].epoch) \ Live(d, mem[d].epoch)}
    <3>1. comments' = comments \/ comments' = Without(stale)
      BY <2>2, Zenon DEF Judge, Delete
    <3> QED
      BY <3>1
  <2>3. CASE Release(d)
    BY <2>3, Zenon DEF Release, Delete
  <2>4. CASE Start(d)
    BY <2>4 DEF Start
  <2>5. CASE Pick(d) \/ Get(d) \/ AddInProgress(d) \/ RemoveTrigger(d) \/ Rollback(d)
    BY <2>5, Zenon DEF Pick, Get, AddInProgress, RemoveTrigger, Rollback
  <2>6. CASE Mark(d) \/ End(d) \/ SettleRead(d) \/ SettleSwap(d) \/ Restart(d) \/ Crash(d)
    BY <2>6, Zenon DEF Mark, End, SettleRead, SettleSwap, Restart, Crash
  <2> QED
    BY <1>5, <2>1, <2>2, <2>3, <2>4, <2>5, <2>6, Zenon DEF Work
<1>6. AddTrigger \/ (\E t \in Rested \ aged : Age(t)) \/ UNCHANGED vars => comments' = comments
  BY Zenon DEF AddTrigger, Age, vars
<1> QED
  BY <1>1, <1>2, <1>3, <1>4, <1>5, <1>6, Zenon DEF Next

\* The types of the records.
Issue == [open : BOOLEAN, trigger : BOOLEAN, other : BOOLEAN, inprog : BOOLEAN]
Row == [here : BOOLEAN, token : Tokens \cup {NoToken}, claimed : BOOLEAN]
Mem == [epoch : Nat, before : SUBSET Tokens]
Hist == [wanted : BOOLEAN, owners : SUBSET Daemons, crashes : Nat, faults : Nat,
         unanswered : BOOLEAN]

\* What the steps put in the records is of their type.
LEMMA Puts ==
  /\ NoRow \in Row /\ NoMem \in Mem
  /\ \A t \in Tokens : [here |-> TRUE, token |-> t, claimed |-> FALSE] \in Row
  /\ \A r \in Row : [r EXCEPT !.claimed = TRUE] \in Row /\ [r EXCEPT !.token = NoToken] \in Row
  /\ \A i \in Issue, b \in BOOLEAN :
       /\ [i EXCEPT !.trigger = FALSE] \in Issue
       /\ [i EXCEPT !.inprog = b] \in Issue
       /\ [i EXCEPT !.trigger = FALSE, !.other = FALSE] \in Issue
       /\ [i EXCEPT !.inprog = FALSE, !.open = FALSE] \in Issue
       /\ [i EXCEPT !.inprog = FALSE, !.trigger = FALSE] \in Issue
       /\ [i EXCEPT !.inprog = TRUE, !.trigger = FALSE] \in Issue
       /\ [i EXCEPT !.trigger = TRUE, !.other = b] \in Issue
  /\ \A h \in Hist, d \in Daemons :
       /\ [h EXCEPT !.faults = @ + 1] \in Hist
       /\ [h EXCEPT !.crashes = @ + 1] \in Hist
       /\ [h EXCEPT !.wanted = FALSE] \in Hist
       /\ [h EXCEPT !.wanted = TRUE, !.owners = {}] \in Hist
       /\ [h EXCEPT !.owners = @ \cup {d}] \in Hist
       /\ [h EXCEPT !.faults = @ + 1, !.unanswered = TRUE] \in Hist
<1>1. /\ NoRow \in Row /\ NoMem \in Mem
      /\ \A t \in Tokens : [here |-> TRUE, token |-> t, claimed |-> FALSE] \in Row
  BY DEF NoRow, Row, NoMem, Mem
<1>2. \A r \in Row : [r EXCEPT !.claimed = TRUE] \in Row /\ [r EXCEPT !.token = NoToken] \in Row
  BY DEF Row
<1>3. \A i \in Issue, b \in BOOLEAN :
       /\ [i EXCEPT !.trigger = FALSE] \in Issue
       /\ [i EXCEPT !.inprog = b] \in Issue
       /\ [i EXCEPT !.trigger = FALSE, !.other = FALSE] \in Issue
       /\ [i EXCEPT !.inprog = FALSE, !.open = FALSE] \in Issue
       /\ [i EXCEPT !.inprog = FALSE, !.trigger = FALSE] \in Issue
       /\ [i EXCEPT !.inprog = TRUE, !.trigger = FALSE] \in Issue
       /\ [i EXCEPT !.trigger = TRUE, !.other = b] \in Issue
  BY DEF Issue
<1>4. ASSUME NEW h \in Hist, NEW d \in Daemons
      PROVE  /\ [h EXCEPT !.faults = @ + 1] \in Hist
             /\ [h EXCEPT !.crashes = @ + 1] \in Hist
             /\ [h EXCEPT !.wanted = FALSE] \in Hist
             /\ [h EXCEPT !.wanted = TRUE, !.owners = {}] \in Hist
             /\ [h EXCEPT !.owners = @ \cup {d}] \in Hist
             /\ [h EXCEPT !.faults = @ + 1, !.unanswered = TRUE] \in Hist
  <2>1. h.owners \cup {d} \in SUBSET Daemons /\ h.faults + 1 \in Nat /\ h.crashes + 1 \in Nat
    BY DEF Hist
  <2> QED
    BY <2>1 DEF Hist
<1> QED
  BY <1>1, <1>2, <1>3, <1>4, Zenon

\* TypeOK in two parts: the thread and the rest.
FieldsTyped ==
  /\ issue \in Issue /\ cycle \in Nat /\ aged \in SUBSET Tokens
  /\ row \in [Daemons -> Row] /\ pc \in [Daemons -> Steps] /\ mem \in [Daemons -> Mem]
  /\ inc \in [Daemons -> Nat] /\ hist \in Hist

LEMMA TypeParts == TypeOK <=> FieldsTyped /\ comments \subseteq Comment
  BY Zenon DEF TypeOK, FieldsTyped, Issue, Row, Mem, Hist

LEMMA TypedNext ==
  ASSUME TypeOK, [Next]_vars PROVE FieldsTyped'
<1>0. FieldsTyped /\ comments \subseteq Comment
  BY TypeParts
<1>1. \A s \in Claiming \cup Settling \cup {"idle", "won", "running", "down"} : s \in Steps
  BY DEF Steps
<1>2. ASSUME NEW d \in Daemons, Restart(d) PROVE inc' \in [Daemons -> Nat]
  BY <1>0, <1>2 DEF Restart, FieldsTyped
<1>3. ASSUME NEW o \in BOOLEAN, issue' = [issue EXCEPT !.trigger = TRUE, !.other = o]
      PROVE  issue' \in Issue
  BY <1>0, <1>3, Puts, Zenon DEF FieldsTyped
<1>4. AddTrigger => cycle' \in Nat
  BY <1>0 DEF AddTrigger, FieldsTyped
<1>5. Rested \subseteq Tokens
  BY <1>0 DEF Rested, ClaimTokens, Comment
<1> USE <1>0, <1>1, Puts DEF FieldsTyped, Claiming, Settling, Goto, Discard, Fault
<1>a. ASSUME NEW d \in Daemons, Pick(d) PROVE FieldsTyped'
  <2>1. FreshToken(d) \in Tokens
    BY <1>a DEF Pick, FreshToken, Unseen
  <2> QED
    BY <1>a, <2>1 DEF Pick
<1>b. ASSUME NEW d \in Daemons, Get(d) PROVE FieldsTyped'
  <2>1. Rested \in SUBSET Tokens
    BY DEF Rested, ClaimTokens, Comment
  <2>2. [mem EXCEPT ![d].before = Rested, ![d].epoch = cycle] \in [Daemons -> Mem]
    BY <2>1 DEF Mem
  <2>3. CASE mem' = [mem EXCEPT ![d].before = Rested, ![d].epoch = cycle] /\ Goto(d, "post")
                /\ UNCHANGED <<issue, row, hist>>
    BY <1>b, <2>2, <2>3 DEF Get
  <2>4. CASE Discard(d) /\ UNCHANGED <<issue, hist>>
    BY <1>b, <2>4 DEF Get
  <2>5. CASE /\ issue' = [issue EXCEPT !.trigger = FALSE, !.other = FALSE]
             /\ hist' = [hist EXCEPT !.wanted = FALSE] /\ Discard(d)
    BY <1>b, <2>5 DEF Get
  <2> QED
    BY <1>b, <2>3, <2>4, <2>5, Zenon DEF Get
<1>c. ASSUME NEW d \in Daemons, Post(d) PROVE FieldsTyped'
  BY <1>c DEF Post
<1>d. ASSUME NEW d \in Daemons, Judge(d) PROVE FieldsTyped'
  BY <1>d DEF Judge
<1>e. ASSUME NEW d \in Daemons, Release(d) PROVE FieldsTyped'
  BY <1>e DEF Release
<1>f. ASSUME NEW d \in Daemons, AddInProgress(d) PROVE FieldsTyped'
  BY <1>f DEF AddInProgress
<1>g. ASSUME NEW d \in Daemons, RemoveTrigger(d) PROVE FieldsTyped'
  BY <1>g DEF RemoveTrigger
<1>h. ASSUME NEW d \in Daemons, Rollback(d) PROVE FieldsTyped'
  BY <1>h DEF Rollback
<1>i. ASSUME NEW d \in Daemons, Mark(d) PROVE FieldsTyped'
  BY <1>i DEF Mark
<1>j. ASSUME NEW d \in Daemons, Start(d) PROVE FieldsTyped'
  BY <1>j DEF Start
<1>k. ASSUME NEW d \in Daemons, End(d) PROVE FieldsTyped'
  BY <1>k DEF End
<1>l. ASSUME NEW d \in Daemons, Crash(d) PROVE FieldsTyped'
  BY <1>l DEF Crash
<1>m. ASSUME NEW d \in Daemons, Restart(d) PROVE FieldsTyped'
  <2>1. inc' \in [Daemons -> Nat]
    BY <1>m, <1>2
  <2>2. pc' \in [Daemons -> Steps]
    BY <1>m DEF Restart
  <2> QED
    BY <1>m, <2>1, <2>2, Zenon DEF Restart
<1>s. ASSUME NEW d \in Daemons, Forget(d)
      PROVE  row' \in [Daemons -> Row] /\ mem' \in [Daemons -> Mem] /\ pc' \in [Daemons -> Steps]
  <2>1. [row[d] EXCEPT !.token = NoToken] \in Row
    OBVIOUS
  <2>2. row' = [row EXCEPT ![d] = [row[d] EXCEPT !.token = NoToken]]
    BY <1>s DEF Forget
  <2> QED
    BY <1>s, <2>1, <2>2 DEF Forget
<1>n. ASSUME NEW d \in Daemons, SettleRead(d) PROVE FieldsTyped'
  BY <1>n, <1>s DEF SettleRead
<1>o. ASSUME NEW d \in Daemons, SettleSwap(d) PROVE FieldsTyped'
  BY <1>o, <1>s DEF SettleSwap
<1>p. ASSUME AddTrigger PROVE FieldsTyped'
  <2>1. issue' \in Issue
    BY <1>p, <1>3, Zenon DEF AddTrigger
  <2>2. hist' \in Hist
    BY <1>p, DaemonsAssumption, Zenon DEF AddTrigger
  <2>3. cycle' \in Nat
    BY <1>p, <1>4
  <2> QED
    BY <1>p, <2>1, <2>2, <2>3, Zenon DEF AddTrigger
<1>q. ASSUME NEW t \in Rested \ aged, Age(t) PROVE FieldsTyped'
  <2>1. t \in Tokens
    BY <1>5, <1>q
  <2> QED
    BY <1>q, <2>1, Zenon DEF Age
<1>r. UNCHANGED vars => FieldsTyped'
  BY DEF vars
<1> QED
  BY <1>a, <1>b, <1>c, <1>d, <1>e, <1>f, <1>g, <1>h, <1>i, <1>j, <1>k, <1>l, <1>m, <1>n, <1>o,
     <1>p, <1>q, <1>r, Zenon DEF Next, Work

LEMMA TypeInit == Init => TypeOK /\ ThreadOK /\ UnpostedOK
<1> SUFFICES ASSUME Init PROVE TypeOK /\ ThreadOK /\ UnpostedOK
  OBVIOUS
<1>1. issue \in Issue /\ hist \in Hist
  BY DEF Init, Issue, Hist
<1>2. pc \in [Daemons -> Steps] /\ inc \in [Daemons -> Nat] /\ cycle \in Nat
  BY DEF Init, Steps
<1>3. row \in [Daemons -> Row] /\ mem \in [Daemons -> Mem]
  BY Puts DEF Init
<1>4. comments \subseteq Comment /\ aged \in SUBSET Tokens /\ ThreadOK
  BY DEF Init, ThreadOK
<1>5. UnpostedOK
  BY DEF Init, UnpostedOK
<1> QED
  BY <1>1, <1>2, <1>3, <1>4, <1>5, TypeParts DEF FieldsTyped

-----------------------------------------------------------------------------
(* What each step does, daemon by daemon.                                  *)

\* A daemon's step touches its own row, locals and place only.
LEMMA OthersStay ==
  ASSUME TypeOK, NEW d \in Daemons, NEW e \in Daemons, e # d, Work(d) \/ Crash(d)
  PROVE  pc'[e] = pc[e] /\ row'[e] = row[e] /\ mem'[e] = mem[e] /\ inc'[e] = inc[e]
<1> USE DEF TypeOK, Goto, Discard, Forget
<1>1. CASE Pick(d)
  BY <1>1 DEF Pick
<1>2. CASE Get(d)
  BY <1>2 DEF Get
<1>3. CASE Post(d) \/ Release(d)
  BY <1>3 DEF Post, Release
<1>4. CASE Judge(d)
  BY <1>4 DEF Judge
<1>5. CASE AddInProgress(d) \/ RemoveTrigger(d) \/ Rollback(d) \/ Mark(d) \/ Start(d) \/ End(d)
  BY <1>5 DEF AddInProgress, RemoveTrigger, Rollback, Mark, Start, End
<1>6. CASE SettleRead(d) \/ SettleSwap(d)
  BY <1>6 DEF SettleRead, SettleSwap
<1>7. CASE Restart(d) \/ Crash(d)
  BY <1>7 DEF Restart, Crash
<1> QED
  BY <1>1, <1>2, <1>3, <1>4, <1>5, <1>6, <1>7, Zenon DEF Work

LEMMA PickDoes ==
  ASSUME TypeOK, NEW d \in Daemons, Pick(d)
  PROVE  /\ pc[d] = "idle" /\ pc'[d] = "get"
         /\ row'[d].token \in Unseen(d) /\ ~row'[d].claimed
         /\ row[d].here \/ issue.trigger
         /\ aged' = aged \cap ClaimTokens
         /\ UNCHANGED <<issue, cycle, comments, mem, inc, hist>>
<1>1. FreshToken(d) \in Unseen(d)
  BY DEF Pick, FreshToken
<1> QED
  BY <1>1 DEF Pick, Goto, TypeOK

LEMMA DiscardDoes ==
  ASSUME TypeOK, NEW d \in Daemons, Discard(d)
  PROVE  pc'[d] = "idle" /\ row'[d] = NoRow /\ mem'[d] = NoMem
  BY DEF Discard, Goto, TypeOK

LEMMA GetDoes ==
  ASSUME TypeOK, NEW d \in Daemons, Get(d)
  PROVE  /\ pc[d] = "get"
         /\ UNCHANGED <<cycle, comments, aged, inc>>
         /\ \/ /\ issue.trigger /\ ~issue.other
               /\ mem'[d].before = Rested /\ mem'[d].epoch = cycle /\ pc'[d] = "post"
               /\ UNCHANGED <<issue, row, hist>>
            \/ Discard(d) /\ UNCHANGED <<issue, hist>>
            \/ /\ issue.trigger /\ issue.other
               /\ ~issue'.trigger /\ ~hist'.wanted
               /\ hist'.owners = hist.owners /\ hist'.crashes = hist.crashes
               /\ Discard(d)
<1>1. CASE /\ issue.open /\ issue.trigger /\ ~issue.other
           /\ mem' = [mem EXCEPT ![d].before = Rested, ![d].epoch = cycle]
           /\ Goto(d, "post")
           /\ UNCHANGED <<issue, row, hist>>
  <2>1. mem'[d].before = Rested /\ mem'[d].epoch = cycle /\ pc'[d] = "post"
    BY <1>1 DEF Goto, TypeOK
  <2> QED
    BY <1>1, <2>1, Zenon DEF Get
<1>2. CASE Discard(d) /\ UNCHANGED <<issue, hist>>
  BY <1>2, Zenon DEF Get
<1>3. CASE /\ issue.open /\ issue.trigger /\ issue.other
           /\ issue' = [issue EXCEPT !.trigger = FALSE, !.other = FALSE]
           /\ hist' = [hist EXCEPT !.wanted = FALSE]
           /\ Discard(d)
  <2>1. ~issue'.trigger /\ ~hist'.wanted /\ hist'.owners = hist.owners /\ hist'.crashes = hist.crashes
    BY <1>3 DEF TypeOK
  <2> QED
    BY <1>3, <2>1, Zenon DEF Get
<1> QED
  BY <1>1, <1>2, <1>3, Zenon DEF Get

\* A failed call is counted and changes nothing else the properties read.
LEMMA FaultDoes ==
  ASSUME TypeOK, Fault
  PROVE  /\ hist'.wanted = hist.wanted /\ hist'.owners = hist.owners
         /\ hist'.crashes = hist.crashes /\ hist'.unanswered = hist.unanswered
  BY DEF Fault, TypeOK

\* A step that neither answers nor gives away the request.
Calm == /\ hist'.wanted = hist.wanted /\ hist'.owners = hist.owners
        /\ hist'.crashes = hist.crashes /\ hist'.unanswered = hist.unanswered

LEMMA PostDoes ==
  ASSUME TypeOK, NEW d \in Daemons, Post(d)
  PROVE  /\ pc[d] = "post" /\ Calm
         /\ UNCHANGED <<issue, cycle, aged, inc>>
         /\ \/ /\ comments' = comments \cup {ClaimComment(d)} /\ pc'[d] = "judge"
               /\ UNCHANGED <<row, mem>>
            \/ /\ comments' \in {comments, comments \cup {ClaimComment(d)}}
               /\ Discard(d)
<1>1. CASE Fault
  BY <1>1, FaultDoes DEF Post, Goto, TypeOK, Calm
<1>2. CASE ~Fault
  BY <1>2 DEF Post, Goto, TypeOK, Calm
<1> QED
  BY <1>1, <1>2

\* The claims the judge releases.
StaleTokens(d) == {c.token : c \in InCycle(mem[d].epoch) \ Live(d, mem[d].epoch)}

LEMMA JudgeDoes ==
  ASSUME TypeOK, NEW d \in Daemons, Judge(d)
  PROVE  /\ pc[d] = "judge" /\ Calm
         /\ UNCHANGED <<issue, cycle, aged, inc>>
         /\ \/ /\ comments' = Without(StaleTokens(d)) \/ comments' = comments
               /\ pc'[d] = IF Wins(d, mem[d].epoch) THEN "add" ELSE "release"
               /\ mem'[d] = NoMem
               /\ UNCHANGED row
            \/ Discard(d) /\ UNCHANGED comments
<1>1. Calm
  <2>1. Fault \/ UNCHANGED hist
    BY Zenon DEF Judge
  <2> QED
    BY <2>1, FaultDoes DEF Calm
<1>2. CASE /\ \/ Delete(StaleTokens(d)) /\ UNCHANGED hist
              \/ StaleTokens(d) # {} /\ Fault /\ UNCHANGED comments
           /\ Goto(d, IF Wins(d, mem[d].epoch) THEN "add" ELSE "release")
           /\ mem' = [mem EXCEPT ![d] = NoMem]
           /\ UNCHANGED row
  <2>1. /\ pc'[d] = IF Wins(d, mem[d].epoch) THEN "add" ELSE "release"
        /\ mem'[d] = NoMem
    BY <1>2 DEF Goto, TypeOK
  <2> QED
    BY <1>1, <1>2, <2>1, Zenon DEF Judge, Delete
<1>3. CASE Fault /\ Discard(d) /\ UNCHANGED comments
  BY <1>1, <1>3, Zenon DEF Judge
<1> QED
  BY <1>2, <1>3, Zenon DEF Judge, StaleTokens

LEMMA ReleaseDoes ==
  ASSUME TypeOK, NEW d \in Daemons, Release(d)
  PROVE  /\ pc[d] = "release" /\ Calm /\ Discard(d)
         /\ UNCHANGED <<issue, cycle, aged, inc>>
         /\ comments' = Without({row[d].token}) \/ comments' = comments
<1>1. Calm
  <2>1. Fault \/ UNCHANGED hist
    BY Zenon DEF Release
  <2> QED
    BY <2>1, FaultDoes DEF Calm
<1> QED
  BY <1>1, Zenon DEF Release, Delete

LEMMA AddDoes ==
  ASSUME TypeOK, NEW d \in Daemons, AddInProgress(d)
  PROVE  /\ pc[d] = "add" /\ pc'[d] \in {"remove", "release"} /\ Calm
         /\ issue'.trigger = issue.trigger /\ issue'.other = issue.other
         /\ UNCHANGED <<cycle, comments, aged, row, mem, inc>>
<1>1. Calm
  <2>1. Fault \/ UNCHANGED hist
    BY Zenon DEF AddInProgress
  <2> QED
    BY <2>1, FaultDoes DEF Calm
<1>2. issue'.trigger = issue.trigger /\ issue'.other = issue.other
  BY DEF AddInProgress, TypeOK
<1> QED
  BY <1>1, <1>2 DEF AddInProgress, Goto, TypeOK

LEMMA RemoveDoes ==
  ASSUME TypeOK, NEW d \in Daemons, RemoveTrigger(d)
  PROVE  /\ pc[d] = "remove"
         /\ UNCHANGED <<cycle, comments, aged, row, mem, inc>>
         /\ \/ ~issue'.trigger /\ pc'[d] = "mark" /\ Calm
            \/ UNCHANGED issue /\ pc'[d] = "rollback" /\ Calm
            \/ /\ ~issue'.trigger /\ pc'[d] = "rollback"
               /\ hist'.unanswered
               /\ hist'.wanted = hist.wanted /\ hist'.owners = hist.owners
               /\ hist'.crashes = hist.crashes
<1>1. CASE issue' = [issue EXCEPT !.trigger = FALSE] /\ Goto(d, "mark") /\ UNCHANGED hist
  BY <1>1 DEF RemoveTrigger, Goto, TypeOK, Calm
<1>2. CASE Fault /\ UNCHANGED issue /\ Goto(d, "rollback")
  BY <1>2, FaultDoes DEF RemoveTrigger, Goto, TypeOK, Calm
<1>3. CASE /\ hist' = [hist EXCEPT !.faults = @ + 1, !.unanswered = TRUE]
           /\ issue' = [issue EXCEPT !.trigger = FALSE]
           /\ Goto(d, "rollback")
  BY <1>3 DEF RemoveTrigger, Goto, TypeOK
<1> QED
  BY <1>1, <1>2, <1>3, Zenon DEF RemoveTrigger

LEMMA RollbackDoes ==
  ASSUME TypeOK, NEW d \in Daemons, Rollback(d)
  PROVE  /\ pc[d] = "rollback" /\ pc'[d] = "release" /\ Calm
         /\ issue'.trigger = issue.trigger /\ issue'.other = issue.other
         /\ UNCHANGED <<cycle, comments, aged, row, mem, inc>>
<1>1. Calm
  <2>1. Fault \/ UNCHANGED hist
    BY Zenon DEF Rollback
  <2> QED
    BY <2>1, FaultDoes DEF Calm
<1>2. issue'.trigger = issue.trigger /\ issue'.other = issue.other
  BY DEF Rollback, TypeOK
<1> QED
  BY <1>1, <1>2 DEF Rollback, Goto, TypeOK

LEMMA MarkDoes ==
  ASSUME TypeOK, NEW d \in Daemons, Mark(d)
  PROVE  /\ pc[d] = "mark" /\ pc'[d] = "won"
         /\ row'[d].claimed /\ row'[d].token = row[d].token
         /\ hist'.owners = hist.owners \cup {d} /\ hist'.wanted = hist.wanted
         /\ hist'.crashes = hist.crashes /\ hist'.unanswered = hist.unanswered
         /\ UNCHANGED <<issue, cycle, comments, aged, mem, inc>>
  BY DEF Mark, Goto, TypeOK

LEMMA StartDoes ==
  ASSUME TypeOK, NEW d \in Daemons, Start(d)
  PROVE  /\ pc[d] = "won" /\ pc'[d] = "running" /\ Calm
         /\ comments' = Started \/ comments' = comments
         /\ UNCHANGED <<issue, cycle, aged, row, mem, inc>>
<1>1. Calm
  <2>1. Fault \/ UNCHANGED hist
    BY Zenon DEF Start
  <2> QED
    BY <2>1, FaultDoes DEF Calm
<1> QED
  BY <1>1 DEF Start, Goto, TypeOK

LEMMA EndDoes ==
  ASSUME TypeOK, NEW d \in Daemons, End(d)
  PROVE  /\ pc[d] = "running" /\ Discard(d)
         /\ issue'.trigger => issue.trigger
         /\ issue'.other = issue.other
         /\ ~hist'.wanted /\ hist'.owners = hist.owners
         /\ hist'.crashes = hist.crashes /\ hist'.unanswered = hist.unanswered
         /\ UNCHANGED <<cycle, comments, aged, inc>>
<1>1. (issue'.trigger => issue.trigger) /\ issue'.other = issue.other
  BY DEF End, TypeOK
<1>2. /\ ~hist'.wanted /\ hist'.owners = hist.owners
      /\ hist'.crashes = hist.crashes /\ hist'.unanswered = hist.unanswered
  BY DEF End, TypeOK
<1> QED
  BY <1>1, <1>2, Zenon DEF End

LEMMA AddTriggerDoes ==
  ASSUME TypeOK, AddTrigger
  PROVE  /\ ~issue.trigger /\ ~hist.wanted
         /\ \A d \in Daemons : pc[d] \notin (Claiming \ {"get"}) \cup Settling
         /\ issue'.trigger /\ hist'.wanted /\ hist'.owners = {} /\ hist'.crashes = hist.crashes
         /\ UNCHANGED <<comments, aged, row, pc, mem, inc>>
<1>1. issue'.trigger
  BY DEF AddTrigger, TypeOK
<1>2. hist'.wanted /\ hist'.owners = {} /\ hist'.crashes = hist.crashes
  BY DEF AddTrigger, TypeOK
<1> QED
  BY <1>1, <1>2, Zenon DEF AddTrigger

\* Where a comment of the next thread comes from.
LEMMA ThreadFrom ==
  ASSUME TypeOK, NEW d \in Daemons, Work(d) \/ Crash(d), NEW k \in comments'
  PROVE  \/ \E c \in comments : k.token = c.token /\ k.by = c.by /\ k.inc = c.inc
                                /\ k.cycle = c.cycle
         \/ Post(d) /\ k = ClaimComment(d)
<1>0. comments \subseteq Comment
  BY DEF TypeOK
<1>1. CASE Post(d)
  BY <1>1, PostDoes
<1>2. CASE Judge(d)
  BY <1>0, <1>2, JudgeDoes, WithoutKeeps
<1>3. CASE Release(d)
  <2>1. PICK T : T = {row[d].token}
    OBVIOUS
  <2>2. comments' = Without(T) \/ comments' = comments
    BY <1>3, <2>1, ReleaseDoes
  <2> QED
    BY <1>0, <2>2, WithoutKeeps
<1>4. CASE Start(d)
  BY <1>0, <1>4, StartDoes, StartedKeeps
<1>5. CASE Pick(d) \/ Get(d) \/ AddInProgress(d) \/ RemoveTrigger(d) \/ Rollback(d)
           \/ Mark(d) \/ End(d) \/ SettleRead(d) \/ SettleSwap(d) \/ Restart(d) \/ Crash(d)
  <2>1. comments' = comments
    BY <1>5, Zenon DEF Pick, Get, AddInProgress, RemoveTrigger, Rollback, Mark, End, SettleRead,
       SettleSwap, Restart, Crash
  <2> QED
    BY <2>1
<1> QED
  BY <1>1, <1>2, <1>3, <1>4, <1>5, Zenon DEF Work

\* The steps that leave a daemon before its post.
LEMMA UnpostedSteps ==
  ASSUME TypeOK, NEW d \in Daemons, Work(d) \/ Crash(d), pc'[d] \in {"get", "post"}
  PROVE  Pick(d) \/ (Get(d) /\ row' = row)
<1>1. CASE Get(d)
  <2>1. ~Discard(d)
    BY DiscardDoes
  <2> QED
    BY <1>1, <2>1, GetDoes
<1>2. ~Discard(d)
  BY DiscardDoes
<1>3. ~Post(d) /\ ~Release(d) /\ ~End(d)
  BY <1>2, PostDoes, ReleaseDoes, EndDoes
<1>4. ~Judge(d) /\ ~AddInProgress(d) /\ ~RemoveTrigger(d) /\ ~Rollback(d) /\ ~Mark(d) /\ ~Start(d)
  BY <1>2, JudgeDoes, AddDoes, RemoveDoes, RollbackDoes, MarkDoes, StartDoes
<1>5. ~Restart(d) /\ ~Crash(d) /\ ~SettleRead(d) /\ ~SettleSwap(d)
  BY DEF Restart, Crash, SettleRead, SettleSwap, Goto, Forget, TypeOK
<1> QED
  BY <1>1, <1>3, <1>4, <1>5, Zenon DEF Work

LEMMA UnpostedNext ==
  ASSUME TypeOK, UnpostedOK, [Next]_vars
  PROVE  UnpostedOK'
<1>1. ASSUME NEW d \in Daemons, Work(d) \/ Crash(d), NEW e \in Daemons, pc'[e] \in {"get", "post"}
      PROVE  row'[e].token \in Tokens /\ row'[e].token[1] = e /\ \A k \in comments' : k.token # row'[e].token
  <2>1. CASE e # d
    <3>1. pc'[e] = pc[e] /\ row'[e] = row[e]
      BY <1>1, <2>1, OthersStay
    <3>2. Signed(e) /\ \A c \in comments : c.token # row[e].token
      BY <1>1, <3>1 DEF UnpostedOK, Posted
    <3>3. Post(d) => ClaimComment(d).token[1] = d
      BY PostDoes DEF UnpostedOK, Signed, ClaimComment
    <3> QED
      BY <1>1, <2>1, <3>1, <3>2, <3>3, ThreadFrom DEF Signed
  <2>2. CASE e = d
    <3>1. CASE Pick(d)
      BY <2>2, <3>1, PickDoes DEF Unseen, ClaimTokens
    <3>2. CASE Get(d) /\ row' = row
      BY <2>2, <3>2, GetDoes DEF UnpostedOK, Signed, Posted
    <3> QED
      BY <1>1, <2>2, <3>1, <3>2, UnpostedSteps
  <2> QED
    BY <2>1, <2>2
<1>2. CASE \E d \in Daemons : Work(d) \/ Crash(d)
  BY <1>1, <1>2 DEF UnpostedOK, Signed, Posted
<1>3. CASE AddTrigger \/ (\E t \in Rested \ aged : Age(t)) \/ UNCHANGED vars
  <2>1. row' = row /\ comments' = comments /\ pc' = pc
    BY <1>3, Zenon DEF AddTrigger, Age, vars
  <2> QED
    BY <2>1 DEF UnpostedOK, Signed, Posted
<1> QED
  BY <1>2, <1>3, Zenon DEF Next

-----------------------------------------------------------------------------
\* A step of the behaviour in which no process has been killed.
LEMMA StaysUncrashed ==
  ASSUME TypeOK, Uncrashed => ProcsOK, [Next]_vars, Uncrashed'
  PROVE  /\ Uncrashed
         /\ \/ \E d \in Daemons :
                 \/ Pick(d) \/ Get(d) \/ Post(d) \/ Judge(d) \/ Release(d)
                 \/ AddInProgress(d) \/ RemoveTrigger(d) \/ Rollback(d) \/ Mark(d)
                 \/ Start(d) \/ End(d)
            \/ AddTrigger
            \/ \E t \in Rested \ aged : Age(t)
            \/ UNCHANGED vars
<1>0. hist.crashes \in Nat
  BY DEF TypeOK
<1>1. \A d \in Daemons : ~Crash(d)
  BY <1>0 DEF Crash, Uncrashed, TypeOK
<1>2. ASSUME NEW d \in Daemons, Work(d) PROVE hist'.crashes = hist.crashes
  <2>1. CASE Pick(d) \/ Get(d) \/ Mark(d) \/ End(d)
    BY <2>1, PickDoes, GetDoes, MarkDoes, EndDoes
  <2>2. CASE Post(d) \/ Judge(d) \/ Release(d) \/ AddInProgress(d) \/ Rollback(d) \/ Start(d)
    BY <2>2, PostDoes, JudgeDoes, ReleaseDoes, AddDoes, RollbackDoes, StartDoes DEF Calm
  <2>3. CASE RemoveTrigger(d)
    BY <2>3, RemoveDoes DEF Calm
  <2>4. CASE SettleRead(d) \/ SettleSwap(d)
    <3>1. UNCHANGED hist \/ Fault
      BY <2>4, Zenon DEF SettleRead, SettleSwap
    <3> QED
      BY <3>1, FaultDoes
  <2>5. CASE Restart(d)
    BY <2>5 DEF Restart
  <2> QED
    BY <1>2, <2>1, <2>2, <2>3, <2>4, <2>5, Zenon DEF Work
<1>3. AddTrigger => hist'.crashes = hist.crashes
  BY AddTriggerDoes
<1>4. (\E t \in Rested \ aged : Age(t)) \/ UNCHANGED vars => hist' = hist
  BY Zenon DEF Age, vars
<1>5. Uncrashed
  BY <1>1, <1>2, <1>3, <1>4 DEF Next, Uncrashed
<1>6. \A d \in Daemons : ~Restart(d) /\ ~SettleRead(d) /\ ~SettleSwap(d)
  BY <1>5 DEF ProcsOK, Restart, SettleRead, SettleSwap
<1> QED
  BY <1>1, <1>5, <1>6, Zenon DEF Next, Work

\* Nothing is down: every claim's process lives.
LEMMA NotStale ==
  ASSUME TypeOK, ProcsOK, NEW d \in Daemons, NEW c \in comments, c.token \notin aged
  PROVE  ~Stale(d, c)
  BY DEF TypeOK, ProcsOK, Stale, Alive, Comment

\* The steps of a daemon until a process is killed.
RaceStep(d) == \/ Pick(d) \/ Get(d) \/ Post(d) \/ Judge(d) \/ Release(d)
               \/ AddInProgress(d) \/ RemoveTrigger(d) \/ Rollback(d) \/ Mark(d)
               \/ Start(d) \/ End(d)

LEMMA RaceStepWorks == ASSUME NEW d \in Daemons, RaceStep(d) PROVE Work(d) \/ Crash(d)
  BY Zenon DEF RaceStep, Work

LEMMA ProcsNext ==
  ASSUME TypeOK, ThreadOK, UnpostedOK, ProcsOK, NEW d \in Daemons, RaceStep(d)
  PROVE  ProcsOK'
<1> DEFINE Good(e) == /\ inc'[e] = 0 /\ pc'[e] \notin {"down", "settle", "swap"}
                      /\ pc'[e] = "idle" => ~row'[e].here
                      /\ pc'[e] \in Claiming => row'[e].token \in Tokens /\ row'[e].token[1] = e
                      /\ row'[e].claimed <=> pc'[e] \in {"won", "running"}
<1>1. \A e \in Daemons : e # d => Good(e)
  BY RaceStepWorks, OthersStay DEF ProcsOK, Signed
<1>2. Good(d)
  <2>0. /\ inc[d] = 0 /\ (pc[d] \in Claiming => Signed(d))
        /\ row[d].claimed <=> pc[d] \in {"won", "running"}
    BY DEF ProcsOK
  <2>1. CASE Discard(d) /\ inc' = inc
    BY <2>0, <2>1, DiscardDoes DEF NoRow, Claiming
  <2>2. CASE Pick(d)
    BY <2>0, <2>2, PickDoes DEF Unseen
  <2>3. CASE Get(d) /\ ~Discard(d)
    BY <2>0, <2>3, GetDoes DEF Claiming, Signed
  <2>4. CASE Post(d) /\ ~Discard(d)
    BY <2>0, <2>4, PostDoes DEF Claiming, Signed
  <2>5. CASE Judge(d) /\ ~Discard(d)
    BY <2>0, <2>5, JudgeDoes DEF Claiming, Signed
  <2>6. CASE AddInProgress(d) \/ RemoveTrigger(d) \/ Rollback(d)
    BY <2>0, <2>6, AddDoes, RemoveDoes, RollbackDoes DEF Claiming, Signed
  <2>7. CASE Mark(d)
    BY <2>0, <2>7, MarkDoes DEF Claiming
  <2>8. CASE Start(d)
    BY <2>0, <2>8, StartDoes DEF Claiming, ProcsOK
  <2>9. Post(d) \/ Judge(d) \/ Release(d) \/ End(d) \/ Get(d) => inc' = inc
    BY PostDoes, JudgeDoes, ReleaseDoes, EndDoes, GetDoes
  <2>10. Release(d) \/ End(d) => Discard(d)
    BY ReleaseDoes, EndDoes
  <2> QED
    BY <2>1, <2>2, <2>3, <2>4, <2>5, <2>6, <2>7, <2>8, <2>9, <2>10, Zenon DEF RaceStep
<1>3. ASSUME NEW k \in comments' PROVE k.inc = 0
  <2>1. ClaimComment(d).inc = 0
    BY DEF ClaimComment, ProcsOK
  <2> QED
    BY <1>3, <2>1, RaceStepWorks, ThreadFrom DEF ProcsOK
<1> QED
  BY <1>1, <1>2, <1>3 DEF ProcsOK, Signed

\* A claim of a live process that has not aged survives; a release takes one's own.
LEMMA Survives ==
  ASSUME TypeOK, ThreadOK, ProcsOK, NEW d \in Daemons, RaceStep(d), NEW c \in comments,
         Judge(d) => c.token \notin aged,
         c.by = d => ~Release(d)
  PROVE  \E k \in comments' : k.token = c.token /\ k.by = c.by /\ k.cycle = c.cycle
<1>0. comments \subseteq Comment
  BY DEF TypeOK
<1>1. CASE Judge(d)
  <2>1. c.token \notin StaleTokens(d)
    <3> SUFFICES ASSUME NEW o \in InCycle(mem[d].epoch) \ Live(d, mem[d].epoch), o.token = c.token
                 PROVE  FALSE
      BY DEF StaleTokens
    <3>1. o \in comments
      BY DEF InCycle
    <3>2. o = c
      BY <3>1 DEF ThreadOK
    <3>3. ~Stale(d, c)
      BY <1>1, NotStale
    <3> QED
      BY <3>2, <3>3 DEF Live
  <2>2. comments' = Without(StaleTokens(d)) \/ comments' = comments
    BY <1>1, JudgeDoes
  <2> QED
    BY <1>0, <2>1, <2>2, KeptByWithout
<1>2. CASE Release(d)
  <2>1. PICK T : T = {row[d].token}
    OBVIOUS
  <2>2. comments' = Without(T) \/ comments' = comments
    BY <1>2, <2>1, ReleaseDoes
  <2>3. row[d].token[1] = d
    BY <1>2, ReleaseDoes DEF ProcsOK, Signed, Claiming
  <2>4. c.token \notin T
    BY <1>2, <2>1, <2>3 DEF ThreadOK
  <2> QED
    BY <1>0, <2>2, <2>4, KeptByWithout
<1>3. CASE Start(d)
  BY <1>0, <1>3, StartDoes, KeptByStarted
<1>4. CASE Post(d)
  BY <1>4, PostDoes
<1>5. CASE Pick(d) \/ Get(d) \/ AddInProgress(d) \/ RemoveTrigger(d) \/ Rollback(d) \/ Mark(d) \/ End(d)
  <2>1. comments' = comments
    BY <1>5, Zenon DEF Pick, Get, AddInProgress, RemoveTrigger, Rollback, Mark, End
  <2> QED
    BY <2>1
<1> QED
  BY <1>1, <1>2, <1>3, <1>4, <1>5, Zenon DEF RaceStep

\* What survives keeps its place before the claims that follow it.
LEMMA PlacesKept ==
  ASSUME TypeOK, NEW d \in Daemons, RaceStep(d), NEW k \in comments', NEW o \in comments'
  PROVE  \/ \E c \in comments : k.token = c.token /\ (o.token \in c.after => o.token \in k.after)
         \/ Post(d) /\ k = ClaimComment(d)
<1>0. comments \subseteq Comment
  BY DEF TypeOK
<1>1. CASE \E T : comments' = Without(T)
  <2>1. PICK T : comments' = Without(T)
    BY <1>1
  <2>2. o.token \notin T
    BY <1>0, <2>1, WithoutKeeps
  <2> QED
    BY <1>0, <2>1, <2>2, WithoutKeeps
<1>2. CASE comments' = comments
  BY <1>2
<1>3. CASE comments' = Started
  BY <1>0, <1>3, StartedKeeps
<1>4. CASE Post(d)
  BY <1>4, PostDoes
<1>5. Judge(d) => comments' = Without(StaleTokens(d)) \/ comments' = comments
  BY JudgeDoes
<1>6. Release(d) => comments' = Without({row[d].token}) \/ comments' = comments
  BY ReleaseDoes
<1>7. Start(d) => comments' = Started \/ comments' = comments
  BY StartDoes
<1>8. CASE Pick(d) \/ Get(d) \/ AddInProgress(d) \/ RemoveTrigger(d) \/ Rollback(d) \/ Mark(d) \/ End(d)
  <2>1. comments' = comments
    BY <1>8, Zenon DEF Pick, Get, AddInProgress, RemoveTrigger, Rollback, Mark, End
  <2> QED
    BY <1>2, <2>1
<1> QED
  BY <1>1, <1>2, <1>3, <1>4, <1>5, <1>6, <1>7, <1>8, Zenon DEF RaceStep

LEMMA AgedShrinks ==
  ASSUME TypeOK, NEW d \in Daemons, RaceStep(d)
  PROVE  aged' \subseteq aged /\ cycle' = cycle
<1>1. CASE Pick(d)
  BY <1>1, PickDoes
<1>2. CASE ~Pick(d)
  <2>1. aged' = aged /\ cycle' = cycle
    BY <1>2, Zenon DEF RaceStep, Get, Post, Judge, Release, AddInProgress, RemoveTrigger, Rollback,
       Mark, Start, End
  <2> QED
    BY <2>1
<1> QED
  BY <1>1, <1>2

\* A race step leaves the daemon claiming, or it is a pick, or it is over.
LEMMA ClaimingSteps ==
  ASSUME TypeOK, NEW d \in Daemons, RaceStep(d), pc'[d] \in Claiming
  PROVE  \/ Pick(d)
         \/ pc[d] \in Claiming /\ row'[d] = row[d] /\ aged' = aged /\ ~Pick(d)
<1>1. ~Discard(d)
  BY DiscardDoes DEF Claiming
<1>2. ~Release(d) /\ ~End(d) /\ ~Mark(d) /\ ~Start(d)
  BY <1>1, ReleaseDoes, EndDoes, MarkDoes, StartDoes DEF Claiming
<1>3. CASE Get(d)
  BY <1>1, <1>3, GetDoes, PickDoes DEF Claiming
<1>4. CASE Post(d)
  BY <1>1, <1>4, PostDoes, PickDoes DEF Claiming
<1>5. CASE Judge(d)
  BY <1>1, <1>5, JudgeDoes, PickDoes DEF Claiming
<1>6. CASE AddInProgress(d) \/ RemoveTrigger(d) \/ Rollback(d)
  BY <1>6, AddDoes, RemoveDoes, RollbackDoes, PickDoes DEF Claiming
<1> QED
  BY <1>2, <1>3, <1>4, <1>5, <1>6, Zenon DEF RaceStep

\* What a daemon remembers of the tokens before its own: nothing, what it did, or
\* what it has just read.
LEMMA MemSteps ==
  ASSUME TypeOK, NEW d \in Daemons, RaceStep(d)
  PROVE  \/ mem'[d] = mem[d]
         \/ mem'[d] = NoMem /\ pc'[d] \notin Racing
         \/ /\ Get(d) /\ mem'[d].before = Rested /\ mem'[d].epoch = cycle /\ pc'[d] = "post"
            /\ issue.trigger /\ UNCHANGED row
<1>1. CASE Discard(d)
  BY <1>1, DiscardDoes DEF Racing
<1>2. CASE Get(d) /\ ~Discard(d)
  BY <1>2, GetDoes
<1>3. CASE Judge(d) /\ ~Discard(d)
  BY <1>3, JudgeDoes DEF Racing
<1>4. CASE Post(d) /\ ~Discard(d)
  BY <1>4, PostDoes
<1>5. CASE Pick(d) \/ AddInProgress(d) \/ RemoveTrigger(d) \/ Rollback(d) \/ Mark(d) \/ Start(d)
  <2>1. mem' = mem
    BY <1>5, Zenon DEF Pick, AddInProgress, RemoveTrigger, Rollback, Mark, Start
  <2> QED
    BY <2>1
<1>6. Release(d) \/ End(d) => Discard(d)
  BY ReleaseDoes, EndDoes
<1> QED
  BY <1>1, <1>2, <1>3, <1>4, <1>5, <1>6, Zenon DEF RaceStep

\* The steps into a race and through it.
LEMMA RacingSteps ==
  ASSUME TypeOK, NEW d \in Daemons, RaceStep(d), pc'[d] \in Racing
  PROVE  \/ Get(d) /\ pc'[d] = "post"
         \/ /\ Post(d) /\ pc'[d] = "judge" /\ UNCHANGED <<row, mem>>
            /\ comments' = comments \cup {ClaimComment(d)}
<1>1. ~Discard(d)
  BY DiscardDoes DEF Racing
<1>2. ~Release(d) /\ ~End(d) /\ ~Mark(d) /\ ~Start(d) /\ ~Pick(d)
  BY <1>1, ReleaseDoes, EndDoes, MarkDoes, StartDoes, PickDoes DEF Racing
<1>3. ~Judge(d) /\ ~AddInProgress(d) /\ ~RemoveTrigger(d) /\ ~Rollback(d)
  BY <1>1, JudgeDoes, AddDoes, RemoveDoes, RollbackDoes DEF Racing
<1>4. CASE Get(d)
  BY <1>1, <1>4, GetDoes
<1>5. CASE Post(d)
  BY <1>1, <1>5, PostDoes
<1> QED
  BY <1>2, <1>3, <1>4, <1>5, Zenon DEF RaceStep

LEMMA ClaimsNext ==
  ASSUME TypeOK, ThreadOK, UnpostedOK, ProcsOK, ClaimsOK, NEW d \in Daemons, RaceStep(d)
  PROVE  ClaimsOK'
<1>0. aged' \subseteq aged /\ cycle' = cycle
  BY AgedShrinks
<1>w. Work(d) \/ Crash(d)
  BY RaceStepWorks
<1>1. ASSUME NEW e \in Daemons, pc'[e] \in Racing PROVE mem'[e].epoch = cycle
  <2>1. CASE e # d
    BY <1>1, <1>w, <2>1, OthersStay DEF ClaimsOK
  <2>2. CASE e = d
    <3>1. CASE Get(d)
      <4>1. pc[d] = "get" /\ pc'[d] = "post"
        BY <1>1, <2>2, <3>1, GetDoes, RacingSteps, PostDoes
      <4>2. ~Discard(d)
        BY <4>1, DiscardDoes
      <4> QED
        BY <2>2, <3>1, <4>2, GetDoes
    <3>2. CASE Post(d) /\ UNCHANGED mem
      BY <2>2, <3>2, PostDoes DEF ClaimsOK, Racing
    <3> QED
      BY <1>1, <2>2, <3>1, <3>2, RacingSteps
  <2> QED
    BY <2>1, <2>2
<1>2. ASSUME NEW e \in Daemons, pc'[e] \in Claiming PROVE row'[e].token \notin aged'
  <2>1. CASE e # d
    BY <1>0, <1>2, <1>w, <2>1, OthersStay DEF ClaimsOK
  <2>2. CASE e = d /\ Pick(d)
    BY <2>2, PickDoes DEF Unseen
  <2>3. CASE e = d /\ ~Pick(d)
    BY <1>2, <2>3, ClaimingSteps DEF ClaimsOK
  <2> QED
    BY <2>1, <2>2, <2>3
<1>3. ASSUME NEW x \in Daemons, NEW e \in Daemons, pc'[x] \in Claiming
      PROVE  row'[x].token \notin mem'[e].before
  <2>1. CASE x = d /\ Pick(d)
    <3>1. mem' = mem /\ row'[x].token \notin mem[e].before
      BY <2>1, PickDoes DEF Unseen
    <3> QED
      BY <3>1
  <2>2. CASE ~(x = d /\ Pick(d))
    <3>1. pc[x] \in Claiming /\ row'[x] = row[x]
      BY <1>3, <1>w, <2>2, OthersStay, ClaimingSteps
    <3>2. row[x].token \notin mem[e].before
      BY <3>1 DEF ClaimsOK
    <3>3. row[x].token \notin Rested
      BY <3>1 DEF Rested
    <3>4. CASE e # d
      BY <1>w, <3>1, <3>2, <3>4, OthersStay
    <3>5. CASE e = d
      BY <3>1, <3>2, <3>3, <3>5, MemSteps DEF NoMem
    <3> QED
      BY <3>4, <3>5
  <2> QED
    BY <2>1, <2>2
<1>4. ASSUME NEW e \in Daemons, pc'[e] \in Swapping \cup {"judge"}
      PROVE  \E k \in comments' : k.token = row'[e].token /\ k.by = e /\ k.cycle = cycle
  <2>1. CASE e = d /\ Post(d) /\ pc'[d] = "judge"
    <3>1. row' = row /\ ClaimComment(d) \in comments'
      BY <2>1, RacingSteps, GetDoes, PostDoes DEF Racing
    <3> QED
      BY <2>1, <3>1 DEF ClaimComment
  <2>2. CASE ~(e = d /\ Post(d) /\ pc'[d] = "judge")
    <3>1. pc'[e] \in Claiming
      BY <1>4 DEF Swapping, Claiming
    <3>2. /\ row'[e] = row[e] /\ pc[e] \in Claiming /\ row[e].token \notin aged
          /\ pc[e] \in Swapping \cup {"judge"}
          /\ e = d => ~Release(d)
      <4>1. CASE e # d
        BY <1>4, <1>w, <3>1, <4>1, OthersStay DEF ClaimsOK
      <4>2. CASE e = d
        <5>1. ~Discard(d) /\ ~Pick(d)
          BY <1>4, <4>2, DiscardDoes, PickDoes DEF Swapping
        <5>2. row'[e] = row[e] /\ pc[e] \in Claiming /\ row[e].token \notin aged
          BY <3>1, <4>2, <5>1, ClaimingSteps DEF ClaimsOK
        <5>3. ~Release(d) /\ ~End(d) /\ ~Get(d) /\ ~Post(d) /\ ~Start(d)
          BY <1>4, <2>2, <4>2, <5>1, ReleaseDoes, EndDoes, GetDoes, PostDoes, StartDoes DEF Swapping
        <5>4. ~Mark(d) /\ ~Rollback(d)
          BY <1>4, <4>2, MarkDoes, RollbackDoes DEF Swapping
        <5>5. Judge(d) \/ AddInProgress(d) \/ RemoveTrigger(d)
          BY <5>1, <5>3, <5>4, Zenon DEF RaceStep
        <5>6. pc[e] \in Swapping \cup {"judge"}
          BY <4>2, <5>5, JudgeDoes, AddDoes, RemoveDoes DEF Swapping
        <5> QED
          BY <5>2, <5>3, <5>6
      <4> QED
        BY <4>1, <4>2
    <3>3. PICK c \in comments : c.token = row[e].token /\ c.by = e /\ c.cycle = cycle
      BY <3>2 DEF ClaimsOK, Posted
    <3>4. c.token \notin aged /\ (c.by = d => ~Release(d))
      BY <3>2, <3>3
    <3>5. \E k \in comments' : k.token = c.token /\ k.by = c.by /\ k.cycle = c.cycle
      BY <3>4, Survives
    <3> QED
      BY <3>2, <3>3, <3>5
  <2> QED
    BY <2>1, <2>2
<1> QED
  BY <1>0, <1>1, <1>2, <1>3, <1>4 DEF ClaimsOK, Posted

-----------------------------------------------------------------------------
\* The claim that holds the request is live for every daemon in the race, and
\* before its own.
LEMMA HolderLive ==
  ASSUME TypeOK, ThreadOK, ProcsOK, ClaimsOK, HoldOK,
         NEW d \in Daemons, pc[d] = "judge", NEW x \in Daemons, x # d, Holding(x)
  PROVE  ~Wins(d, mem[d].epoch)
<1>1. PICK c \in comments : /\ c.by = x /\ c.cycle = cycle
                            /\ \A e \in Daemons : e # x /\ pc[e] \in Racing => Shields(c, e)
  BY DEF HoldOK, Held
<1>2. c.token \notin aged /\ \A k \in Posted(d) : c.token \in k.after
  BY <1>1 DEF Shields, Racing
<1>3. mem[d].epoch = cycle /\ cycle \in Nat
  BY DEF ClaimsOK, Racing, TypeOK
<1>4. c \in Live(d, mem[d].epoch)
  BY <1>1, <1>2, <1>3, NotStale DEF Live, InCycle
<1>5. Live(d, mem[d].epoch) \subseteq comments
  BY DEF Live, InCycle
<1> QED
  BY <1>2, <1>4, <1>5 DEF Wins, Posted

\* The winner's claim comes before that of every daemon still to judge.
LEMMA WinnerFirst ==
  ASSUME TypeOK, ThreadOK, ProcsOK, ClaimsOK, NEW d \in Daemons, pc[d] = "judge",
         Wins(d, mem[d].epoch), NEW e \in Daemons, e # d, pc[e] = "judge",
         NEW k \in Posted(e)
  PROVE  row[d].token \in k.after
<1>1. PICK c \in Live(d, mem[d].epoch) : /\ c.token = row[d].token
                                         /\ \A o \in Live(d, mem[d].epoch) : o.token \notin c.after
  BY DEF Wins
<1>2. c \in comments /\ k \in comments /\ k.token = row[e].token
  BY <1>1 DEF Live, InCycle, Posted
<1>3. row[d].token[1] = d /\ row[e].token[1] = e /\ row[e].token \notin aged
  BY DEF ProcsOK, ClaimsOK, Signed, Claiming
<1>4. c # k
  BY <1>1, <1>2, <1>3
<1>5. mem[d].epoch = cycle /\ cycle \in Nat
  BY DEF ClaimsOK, Racing, TypeOK
<1>6. PICK o \in comments : o.token = row[e].token /\ o.cycle = cycle
  BY DEF ClaimsOK, Posted
<1>7. o = k
  BY <1>2, <1>6 DEF ThreadOK
<1>8. k \in Live(d, mem[d].epoch)
  BY <1>2, <1>3, <1>5, <1>6, <1>7, NotStale DEF Live, InCycle
<1> QED
  BY <1>1, <1>2, <1>4, <1>8 DEF ThreadOK

\* Who holds the request after a race step held it before, or has just won.
LEMMA HoldingSteps ==
  ASSUME TypeOK, RequestOK, ProcsOK, NEW d \in Daemons, RaceStep(d),
         pc'[d] \in Swapping \/ d \in hist'.owners
  PROVE  /\ \/ Judge(d) /\ Wins(d, mem[d].epoch) /\ pc'[d] = "add" /\ row' = row
            \/ /\ Holding(d) /\ row'[d].token = row[d].token /\ ~Judge(d) /\ ~Pick(d) /\ ~Release(d)
            \/ /\ Holding(d) /\ pc'[d] \notin Swapping /\ ~Judge(d) /\ ~Pick(d) /\ ~Release(d)
<1>a. d \in hist.owners => pc[d] \in {"idle", "won", "running"} /\ ~issue.trigger
  BY DEF RequestOK
<1>1. CASE Pick(d)
  BY <1>a, <1>1, PickDoes DEF Swapping, ProcsOK
<1>2. CASE Get(d)
  BY <1>a, <1>2, GetDoes, DiscardDoes DEF Swapping
<1>3. CASE Post(d)
  BY <1>a, <1>3, PostDoes, DiscardDoes DEF Swapping, Calm
<1>4. CASE Judge(d)
  BY <1>a, <1>4, JudgeDoes, DiscardDoes DEF Swapping, Calm
<1>5. CASE Release(d)
  BY <1>a, <1>5, ReleaseDoes, DiscardDoes DEF Swapping, Calm
<1>6. CASE AddInProgress(d) \/ RemoveTrigger(d)
  BY <1>6, AddDoes, RemoveDoes, JudgeDoes, PickDoes, ReleaseDoes DEF Swapping, Holding
<1>7. CASE Rollback(d)
  BY <1>a, <1>7, RollbackDoes DEF Swapping, Calm
<1>8. CASE Mark(d)
  BY <1>8, MarkDoes, JudgeDoes, PickDoes, ReleaseDoes DEF Swapping, Holding
<1>9. CASE Start(d)
  BY <1>9, StartDoes, JudgeDoes, PickDoes, ReleaseDoes DEF Swapping, Holding, Calm
<1>10. CASE End(d)
  BY <1>10, EndDoes, DiscardDoes, JudgeDoes, PickDoes, ReleaseDoes DEF Swapping, Holding
<1> QED
  BY <1>1, <1>2, <1>3, <1>4, <1>5, <1>6, <1>7, <1>8, <1>9, <1>10, Zenon DEF RaceStep

LEMMA OwnersStep ==
  ASSUME TypeOK, NEW d \in Daemons, RaceStep(d), NEW x \in Daemons, x # d
  PROVE  x \in hist'.owners <=> x \in hist.owners
<1>1. CASE Pick(d) \/ Get(d) \/ Mark(d) \/ End(d)
  BY <1>1, PickDoes, GetDoes, MarkDoes, EndDoes
<1>2. CASE Post(d) \/ Judge(d) \/ Release(d) \/ AddInProgress(d) \/ Rollback(d) \/ Start(d)
  BY <1>2, PostDoes, JudgeDoes, ReleaseDoes, AddDoes, RollbackDoes, StartDoes DEF Calm
<1>3. CASE RemoveTrigger(d)
  BY <1>3, RemoveDoes DEF Calm
<1> QED
  BY <1>1, <1>2, <1>3, Zenon DEF RaceStep

\* A comment that shields a daemon's race from another's claim goes on doing so.
LEMMA ShieldKept ==
  ASSUME TypeOK, ThreadOK, UnpostedOK, ProcsOK, ClaimsOK, NEW d \in Daemons, RaceStep(d),
         NEW c \in comments, NEW o \in comments', o.token = c.token,
         NEW e \in Daemons, pc'[e] \in Racing, e # d, Shields(c, e)
  PROVE  /\ o.token \notin mem'[e].before /\ o.token \notin aged'
         /\ pc'[e] = "judge" => \A k \in comments' : k.token = row'[e].token => o.token \in k.after
<1>0. aged' \subseteq aged
  BY AgedShrinks
<1>1. pc'[e] = pc[e] /\ row'[e] = row[e] /\ mem'[e] = mem[e]
  BY RaceStepWorks, OthersStay
<1>2. ASSUME pc'[e] = "judge", NEW k \in comments', k.token = row[e].token PROVE o.token \in k.after
  <2>1. row[e].token[1] = e
    BY <1>1, <1>2 DEF ProcsOK, Signed, Claiming
  <2>2. ~(Post(d) /\ k = ClaimComment(d))
    BY <1>2, <2>1, PostDoes DEF UnpostedOK, Signed, ClaimComment
  <2>3. PICK l \in comments : k.token = l.token /\ (o.token \in l.after => o.token \in k.after)
    BY <1>2, <2>2, PlacesKept
  <2>4. c.token \in l.after
    BY <1>1, <1>2, <2>3 DEF Shields, Posted
  <2> QED
    BY <2>3, <2>4
<1> QED
  BY <1>0, <1>1, <1>2 DEF Shields

LEMMA HeldOther ==
  ASSUME TypeOK, ThreadOK, UnpostedOK, ProcsOK, ClaimsOK, HoldOK, RequestOK,
         NEW d \in Daemons, RaceStep(d), NEW x \in Daemons, x # d, Holding(x)
  PROVE  Held(x)'
<1>0. aged' \subseteq aged /\ cycle' = cycle
  BY AgedShrinks
<1>1. PICK c \in comments : /\ c.by = x /\ c.cycle = cycle
                            /\ pc[x] \in Swapping => c.token = row[x].token
                            /\ \A e \in Daemons : e # x /\ pc[e] \in Racing => Shields(c, e)
  BY DEF HoldOK, Held
<1>2. Judge(d) => c.token \notin aged
  BY <1>1, JudgeDoes DEF Racing, Shields
<1>3. PICK o \in comments' : o.token = c.token /\ o.by = c.by /\ o.cycle = c.cycle
  BY <1>1, <1>2, Survives
<1>4. pc'[x] = pc[x] /\ row'[x] = row[x]
  BY RaceStepWorks, OthersStay
<1>5. ASSUME NEW e \in Daemons, e # x, pc'[e] \in Racing
      PROVE  /\ o.token \notin mem'[e].before /\ o.token \notin aged'
             /\ pc'[e] = "judge" => \A k \in comments' : k.token = row'[e].token => o.token \in k.after
  <2>1. CASE e # d
    <3>1. pc[e] \in Racing
      BY <1>5, <2>1, RaceStepWorks, OthersStay
    <3> QED
      BY <1>1, <1>3, <1>5, <2>1, <3>1, ShieldKept
  <2>2. CASE e = d /\ Get(d) /\ pc'[d] = "post"
    <3>1. ~Discard(d)
      BY <2>2, DiscardDoes
    <3>2. issue.trigger /\ mem'[d].before = Rested
      BY <2>2, <3>1, GetDoes
    <3>3. pc[x] \in Swapping /\ x \notin hist.owners
      BY <3>2 DEF Holding, RequestOK
    <3>4. pc[x] \in Claiming
      BY <3>3 DEF Swapping, Claiming
    <3>5. c.token \notin Rested /\ c.token \notin aged
      BY <1>1, <3>3, <3>4 DEF Rested, ClaimsOK
    <3> QED
      BY <1>0, <1>3, <2>2, <3>2, <3>5
  <2>3. CASE /\ e = d /\ Post(d) /\ pc'[d] = "judge" /\ UNCHANGED <<row, mem>>
             /\ comments' = comments \cup {ClaimComment(d)}
    <3>1. pc[d] = "post"
      BY <2>3, PostDoes
    <3>2. Shields(c, d)
      BY <1>1, <3>1 DEF Racing
    <3>3. ASSUME NEW k \in comments', k.token = row[d].token PROVE c.token \in k.after
      <4>1. k \notin comments
        BY <3>1, <3>3 DEF UnpostedOK, Posted
      <4>2. k = ClaimComment(d)
        BY <2>3, <4>1
      <4> QED
        BY <4>2 DEF ClaimComment, ClaimTokens
    <3> QED
      BY <1>0, <1>3, <2>3, <3>2, <3>3 DEF Shields
  <2> QED
    BY <1>5, <2>1, <2>2, <2>3, RacingSteps
<1> QED
  BY <1>0, <1>1, <1>3, <1>4, <1>5 DEF Held, Shields, Posted

LEMMA HeldOwn ==
  ASSUME TypeOK, ThreadOK, UnpostedOK, ProcsOK, ClaimsOK, HoldOK, RequestOK,
         NEW d \in Daemons, RaceStep(d), pc'[d] \in Swapping \/ d \in hist'.owners
  PROVE  Held(d)'
<1>0. cycle' = cycle
  BY AgedShrinks
<1>1. CASE Judge(d) /\ Wins(d, mem[d].epoch) /\ pc'[d] = "add" /\ row' = row
  <2>0. pc[d] = "judge"
    BY <1>1, JudgeDoes
  <2>1. PICK c \in comments : c.token = row[d].token /\ c.by = d /\ c.cycle = cycle
    BY <2>0 DEF ClaimsOK, Posted
  <2>2. c.token \notin aged /\ ~Release(d)
    BY <2>0, <2>1, ReleaseDoes DEF ClaimsOK, Claiming
  <2>3. PICK o \in comments' : o.token = c.token /\ o.by = c.by /\ o.cycle = c.cycle
    BY <2>2, Survives
  <2>4. ASSUME NEW e \in Daemons, e # d, pc'[e] \in Racing
        PROVE  /\ o.token \notin mem'[e].before /\ o.token \notin aged'
               /\ pc'[e] = "judge" => \A k \in comments' : k.token = row'[e].token => o.token \in k.after
    <3>1. pc'[e] = pc[e]
      BY <2>4, RaceStepWorks, OthersStay
    <3>2. c.token \notin mem[e].before
      BY <2>0, <2>1 DEF ClaimsOK, Claiming
    <3>3. pc[e] = "judge" => \A k \in Posted(e) : c.token \in k.after
      BY <1>1, <2>0, <2>1, <2>4, WinnerFirst
    <3>4. Shields(c, e)
      BY <2>2, <3>2, <3>3 DEF Shields
    <3> QED
      BY <2>3, <2>4, <3>4, ShieldKept
  <2> QED
    BY <1>0, <1>1, <2>1, <2>3, <2>4 DEF Held, Shields, Posted
<1>2. CASE Holding(d) /\ (row'[d].token = row[d].token \/ pc'[d] \notin Swapping)
           /\ ~Judge(d) /\ ~Pick(d) /\ ~Release(d)
  <2>1. PICK c \in comments : /\ c.by = d /\ c.cycle = cycle
                              /\ pc[d] \in Swapping => c.token = row[d].token
                              /\ \A e \in Daemons : e # d /\ pc[e] \in Racing => Shields(c, e)
    BY <1>2 DEF HoldOK, Held
  <2>2. pc'[d] \in Swapping => pc[d] \in Swapping
    <3>1. ~Post(d) /\ ~Get(d)
      BY <1>2, PostDoes, GetDoes DEF Holding, RequestOK, Swapping
    <3>2. Start(d) \/ End(d) \/ Mark(d) \/ Rollback(d) => pc'[d] \notin Swapping
      BY StartDoes, EndDoes, DiscardDoes, MarkDoes, RollbackDoes DEF Swapping
    <3>3. AddInProgress(d) \/ RemoveTrigger(d) => pc[d] \in Swapping
      BY AddDoes, RemoveDoes DEF Swapping
    <3> QED
      BY <1>2, <3>1, <3>2, <3>3, Zenon DEF RaceStep
  <2>3. PICK o \in comments' : o.token = c.token /\ o.by = c.by /\ o.cycle = c.cycle
    BY <1>2, Survives
  <2>4. ASSUME NEW e \in Daemons, e # d, pc'[e] \in Racing
        PROVE  /\ o.token \notin mem'[e].before /\ o.token \notin aged'
               /\ pc'[e] = "judge" => \A k \in comments' : k.token = row'[e].token => o.token \in k.after
    <3>1. pc[e] \in Racing
      BY <2>4, RaceStepWorks, OthersStay
    <3> QED
      BY <2>1, <2>3, <2>4, <3>1, ShieldKept
  <2> QED
    BY <1>0, <1>2, <2>1, <2>2, <2>3, <2>4 DEF Held, Shields, Posted
<1> QED
  BY <1>1, <1>2, HoldingSteps

LEMMA HoldNext ==
  ASSUME TypeOK, ThreadOK, UnpostedOK, ProcsOK, ClaimsOK, HoldOK, RequestOK,
         NEW d \in Daemons, RaceStep(d)
  PROVE  HoldOK'
<1>1. ASSUME NEW x \in Daemons, x # d, pc'[x] \in Swapping \/ x \in hist'.owners PROVE Holding(x)
  BY <1>1, RaceStepWorks, OthersStay, OwnersStep DEF Holding
<1>2. ASSUME pc'[d] \in Swapping \/ d \in hist'.owners, NEW x \in Daemons, x # d, Holding(x) PROVE FALSE
  <2>1. Holding(d) => FALSE
    BY <1>2 DEF HoldOK
  <2>2. Judge(d) => ~Wins(d, mem[d].epoch)
    BY <1>2, HolderLive, JudgeDoes
  <2> QED
    BY <1>2, <2>1, <2>2, HoldingSteps
<1>3. ASSUME NEW x \in Daemons, Holding(x)' PROVE Held(x)'
  BY <1>1, <1>3, HeldOther, HeldOwn DEF Holding
<1>4. ASSUME NEW x \in Daemons, NEW y \in Daemons, Holding(x)', Holding(y)' PROVE x = y
  <2>1. CASE x # d /\ y # d
    BY <1>1, <1>4, <2>1 DEF HoldOK, Holding
  <2>2. CASE x = d \/ y = d
    BY <1>1, <1>2, <1>4, <2>2 DEF Holding
  <2> QED
    BY <2>1, <2>2
<1> QED
  BY <1>3, <1>4 DEF HoldOK

LEMMA RequestNext ==
  ASSUME TypeOK, ThreadOK, UnpostedOK, ProcsOK, ClaimsOK, HoldOK, RequestOK,
         NEW d \in Daemons, RaceStep(d)
  PROVE  RequestOK'
<1>o. \A e \in Daemons : e # d => pc'[e] = pc[e] /\ row'[e] = row[e]
  BY RaceStepWorks, OthersStay
<1>h. hist.owners \subseteq Daemons /\ hist.owners \in SUBSET Daemons
  BY DEF TypeOK
<1>c. \A e \in Daemons : row[e].claimed <=> pc[e] \in {"won", "running"}
  BY DEF ProcsOK
<1>k. \A e \in Daemons : row'[e].claimed <=> pc'[e] \in {"won", "running"}
  BY ProcsNext DEF ProcsOK
<1> USE <1>o, <1>h DEF RequestOK
\* A daemon that was neither serving nor about to leaves the request where it was.
<1>s. ASSUME pc[d] \notin {"mark", "won", "running"}
      PROVE  (\E e \in Daemons : pc[e] = "mark" \/ row[e].claimed)
              => (\E e \in Daemons : pc'[e] = "mark" \/ row'[e].claimed)
  BY <1>s, <1>c
<1>1. CASE Pick(d)
  <2>1. d \notin hist.owners
    BY <1>1, PickDoes DEF ProcsOK
  <2>3. issue' = issue /\ hist' = hist /\ pc'[d] = "get" /\ pc[d] = "idle"
    BY <1>1, PickDoes
  <2>4. issue.trigger
    BY <1>1, PickDoes DEF ProcsOK
  <2> QED
    BY <2>1, <2>3, <2>4 DEF Racing, Swapping, Claiming
<1>2. CASE Get(d)
  <2>0. pc[d] = "get" /\ d \notin hist.owners
    BY <1>2, GetDoes
  <2>1. CASE issue.trigger /\ ~issue.other /\ pc'[d] = "post" /\ UNCHANGED <<issue, row, hist>>
    BY <2>0, <2>1 DEF Racing, Swapping, Claiming
  <2>2. CASE Discard(d) /\ UNCHANGED <<issue, hist>>
    <3>1. pc'[d] = "idle"
      BY <2>2, DiscardDoes
    <3> QED
      BY <1>s, <2>0, <2>2, <3>1 DEF Racing, Swapping, Claiming
  <2>3. CASE /\ issue.trigger /\ issue.other /\ ~issue'.trigger /\ ~hist'.wanted
             /\ hist'.owners = hist.owners /\ Discard(d)
    <3>1. pc'[d] = "idle"
      BY <2>3, DiscardDoes
    <3>2. \A e \in Daemons : pc[e] \notin Racing \cup Swapping \cup {"won", "running"}
      BY <2>3 DEF Racing, Swapping, Claiming
    <3> QED
      BY <2>0, <2>3, <3>1, <3>2 DEF Racing, Swapping, Claiming
  <2> QED
    BY <1>2, <2>1, <2>2, <2>3, GetDoes
<1>3. CASE Post(d)
  <2>1. pc[d] = "post" /\ d \notin hist.owners /\ issue' = issue /\ Calm
    BY <1>3, PostDoes
  <2>2. pc'[d] \in {"judge", "idle"}
    BY <1>3, PostDoes, DiscardDoes
  <2> QED
    BY <1>s, <2>1, <2>2 DEF Racing, Swapping, Claiming, Calm
<1>4. CASE Judge(d)
  <2>1. pc[d] = "judge" /\ d \notin hist.owners /\ issue' = issue /\ Calm
    BY <1>4, JudgeDoes
  <2>2. pc'[d] \in {"release", "idle"} \/ (pc'[d] = "add" /\ Wins(d, mem[d].epoch))
    BY <1>4, JudgeDoes, DiscardDoes
  <2>3. Wins(d, mem[d].epoch) => hist.owners = {}
    BY <2>1, HolderLive DEF Holding
  <2>4. hist.wanted \/ hist.owners # {}
    BY <2>1 DEF Racing
  <2>5. CASE pc'[d] = "add"
    BY <1>s, <2>1, <2>2, <2>3, <2>4, <2>5 DEF Racing, Swapping, Claiming, Calm
  <2>6. CASE pc'[d] \in {"release", "idle"}
    BY <1>s, <2>1, <2>6 DEF Racing, Swapping, Claiming, Calm
  <2> QED
    BY <2>2, <2>5, <2>6
<1>5. CASE Release(d) \/ Rollback(d)
  <2>1. pc[d] \in {"release", "rollback"} /\ d \notin hist.owners /\ Calm
    BY <1>5, ReleaseDoes, RollbackDoes
  <2>2. pc'[d] \in {"release", "idle"}
    BY <1>5, ReleaseDoes, RollbackDoes, DiscardDoes
  <2>3. issue'.trigger = issue.trigger /\ issue'.other = issue.other
    BY <1>5, ReleaseDoes, RollbackDoes
  <2> QED
    BY <1>s, <2>1, <2>2, <2>3 DEF Racing, Swapping, Claiming, Calm
<1>6. CASE AddInProgress(d)
  <2>1. /\ pc[d] = "add" /\ pc'[d] \in {"remove", "release"} /\ d \notin hist.owners /\ Calm
        /\ issue'.trigger = issue.trigger /\ issue'.other = issue.other
    BY <1>6, AddDoes
  <2> QED
    BY <1>s, <2>1 DEF Racing, Swapping, Claiming, Calm
<1>7. CASE RemoveTrigger(d)
  <2>1. pc[d] = "remove" /\ d \notin hist.owners
    BY <1>7, RemoveDoes
  <2>2. CASE ~issue'.trigger /\ pc'[d] = "mark" /\ Calm
    BY <2>1, <2>2 DEF Racing, Swapping, Claiming, Calm
  <2>3. CASE UNCHANGED issue /\ pc'[d] = "rollback" /\ Calm
    BY <1>s, <2>1, <2>3 DEF Racing, Swapping, Claiming, Calm
  <2>4. CASE /\ ~issue'.trigger /\ pc'[d] = "rollback"
             /\ hist'.unanswered /\ hist'.wanted = hist.wanted /\ hist'.owners = hist.owners
    BY <2>1, <2>4 DEF Racing, Swapping, Claiming
  <2> QED
    BY <1>7, <2>2, <2>3, <2>4, RemoveDoes
<1>8. CASE Mark(d)
  <2>1. /\ pc[d] = "mark" /\ pc'[d] = "won" /\ row'[d].claimed /\ issue' = issue
        /\ hist'.owners = hist.owners \cup {d} /\ hist'.wanted = hist.wanted
    BY <1>8, MarkDoes
  <2> QED
    BY <2>1 DEF Racing, Swapping, Claiming
<1>9. CASE Start(d)
  <2>1. pc[d] = "won" /\ pc'[d] = "running" /\ Calm /\ issue' = issue /\ row' = row
    BY <1>9, StartDoes
  <2> QED
    BY <1>c, <2>1 DEF Racing, Swapping, Claiming, Calm
<1>10. CASE End(d)
  <2>1. /\ pc[d] = "running" /\ d \in hist.owners /\ ~hist'.wanted /\ hist'.owners = hist.owners
        /\ ~issue.trigger /\ ~issue'.trigger
    BY <1>10, EndDoes
  <2>2. pc'[d] = "idle"
    BY <1>10, EndDoes, DiscardDoes
  <2>3. \A e \in Daemons : e # d => pc[e] \notin Swapping \cup {"won", "running"}
    BY <2>1 DEF HoldOK, Holding
  <2> QED
    BY <2>1, <2>2, <2>3 DEF Racing, Swapping, Claiming
<1> QED
  BY <1>1, <1>2, <1>3, <1>4, <1>5, <1>6, <1>7, <1>8, <1>9, <1>10, Zenon DEF RaceStep

\* A person asks again when nobody is in the middle of a claim: a new cycle, nobody's.
LEMMA AskedAgain ==
  ASSUME TypeOK, ProcsOK, ClaimsOK, HoldOK, RequestOK, AddTrigger
  PROVE  Quiet'
<1>0. UNCHANGED <<comments, aged, row, pc, mem, inc>>
  BY AddTriggerDoes
<1>1. /\ \A d \in Daemons : pc[d] \notin (Claiming \ {"get"}) \cup Settling
      /\ ~hist.wanted
      /\ issue'.trigger /\ hist'.wanted /\ hist'.owners = {}
  BY AddTriggerDoes
<1>2. \A d \in Daemons : pc[d] \notin Racing \cup Swapping \cup {"won", "running"}
  BY <1>1 DEF RequestOK, Racing, Swapping, Claiming
<1>3. ProcsOK'
  BY <1>0 DEF ProcsOK, Signed
<1>4. ClaimsOK'
  BY <1>0, <1>2 DEF ClaimsOK, Racing, Swapping
<1>5. HoldOK'
  BY <1>0, <1>1, <1>2 DEF HoldOK, Holding
<1>6. RequestOK'
  <2>1. pc' = pc /\ row' = row
    BY <1>0
  <2>2. \A d \in Daemons : pc[d] # "mark" /\ pc[d] \notin Claiming \ {"get"}
    BY <1>1 DEF Claiming
  <2> QED
    BY <1>1, <1>2, <2>1, <2>2 DEF RequestOK
<1> QED
  BY <1>3, <1>4, <1>5, <1>6 DEF Quiet

\* A claim ages only when it was there before every race under way.
LEMMA Aged ==
  ASSUME TypeOK, Quiet, NEW t \in Rested, Age(t)
  PROVE  Quiet'
<1>0. /\ UNCHANGED <<issue, cycle, comments, row, pc, mem, inc, hist>>
      /\ aged' = aged \cup {t}
      /\ \A e \in Daemons : pc[e] \in Racing => t \in mem[e].before
  BY DEF Age, Racing
<1>1. ProcsOK' /\ RequestOK'
  BY <1>0 DEF Quiet, ProcsOK, RequestOK, Signed
<1>2. \A d \in Daemons : pc[d] \in Claiming => row[d].token # t
  BY DEF Rested
<1>3. ClaimsOK'
  <2>1. \A d \in Daemons : pc[d] \in Claiming => row[d].token \notin aged'
    BY <1>0, <1>2 DEF Quiet, ClaimsOK
  <2> QED
    BY <1>0, <2>1 DEF Quiet, ClaimsOK, Posted
<1>4. ASSUME NEW d \in Daemons, Holding(d) PROVE Held(d)'
  <2>1. PICK c \in comments : /\ c.by = d /\ c.cycle = cycle
                              /\ pc[d] \in Swapping => c.token = row[d].token
                              /\ \A e \in Daemons : e # d /\ pc[e] \in Racing => Shields(c, e)
    BY <1>4 DEF Quiet, HoldOK, Held
  <2>2. ASSUME NEW e \in Daemons, e # d, pc[e] \in Racing PROVE Shields(c, e)'
    BY <1>0, <2>1, <2>2 DEF Shields, Posted
  <2> QED
    BY <1>0, <2>1, <2>2 DEF Held
<1>5. HoldOK'
  BY <1>0, <1>4 DEF Quiet, HoldOK, Holding
<1> QED
  BY <1>1, <1>3, <1>5 DEF Quiet

\* The inductive invariant of the race.
LEMMA ClaimInvInit == Init => ClaimInv
<1> SUFFICES ASSUME Init PROVE Quiet
  BY TypeInit DEF ClaimInv
<1>1. ProcsOK
  BY DEF Init, ProcsOK, NoRow, Claiming
<1>2. ClaimsOK
  BY DEF Init, ClaimsOK, Racing, Claiming, Swapping
<1>3. HoldOK
  BY DEF Init, HoldOK, Holding, Swapping
<1>4. RequestOK
  BY DEF Init, RequestOK, Racing, Swapping, Claiming
<1> QED
  BY <1>1, <1>2, <1>3, <1>4 DEF Quiet

LEMMA ClaimInvNext == ClaimInv /\ [Next]_vars => ClaimInv'
<1> SUFFICES ASSUME ClaimInv, [Next]_vars PROVE ClaimInv'
  OBVIOUS
<1>1. TypeOK /\ ThreadOK /\ UnpostedOK
  BY DEF ClaimInv
<1>2. ThreadOK' /\ comments' \subseteq Comment /\ UnpostedOK' /\ FieldsTyped'
  BY <1>1, ThreadNext, UnpostedNext, TypedNext
<1>3. TypeOK'
  BY <1>2, Zenon DEF TypeOK, FieldsTyped, Issue, Row, Mem, Hist
<1>4. ASSUME Uncrashed' PROVE Quiet'
  <2>1. Uncrashed => ProcsOK
    BY DEF ClaimInv, Quiet
  <2>2. Uncrashed /\ \/ \E d \in Daemons : RaceStep(d)
                     \/ AddTrigger
                     \/ \E t \in Rested \ aged : Age(t)
                     \/ UNCHANGED vars
    BY <1>1, <1>4, <2>1, StaysUncrashed, Zenon DEF RaceStep
  <2>3. Quiet
    BY <2>2 DEF ClaimInv
  <2>4. ASSUME NEW d \in Daemons, RaceStep(d) PROVE Quiet'
    BY <1>1, <2>3, <2>4, ProcsNext, ClaimsNext, HoldNext, RequestNext DEF Quiet
  <2>5. AddTrigger => Quiet'
    BY <1>1, <2>3, AskedAgain DEF Quiet
  <2>6. ASSUME NEW t \in Rested \ aged, Age(t) PROVE Quiet'
    BY <1>1, <2>3, <2>6, Aged
  <2>7. CASE UNCHANGED vars
    <3>1. UNCHANGED <<issue, cycle, comments, aged, row, pc, mem, inc, hist>>
      BY <2>7 DEF vars
    <3>2. ProcsOK' /\ ClaimsOK' /\ RequestOK'
      BY <2>3, <3>1 DEF Quiet, ProcsOK, ClaimsOK, RequestOK, Signed, Posted
    <3>3. HoldOK'
      BY <2>3, <3>1 DEF Quiet, HoldOK, Holding, Held, Shields, Posted
    <3> QED
      BY <3>2, <3>3 DEF Quiet
  <2> QED
    BY <2>2, <2>4, <2>5, <2>6, <2>7
<1> QED
  BY <1>2, <1>3, <1>4 DEF ClaimInv

LEMMA OneOwnerFromInv == ClaimInv => OneOwner
<1> SUFFICES ASSUME ClaimInv, TwoOwners PROVE hist.crashes > 0
  BY DEF OneOwner
<1>1. hist.crashes \in Nat /\ hist.owners \subseteq Daemons
  BY DEF ClaimInv, TypeOK
<1>2. ~Quiet
  BY <1>1 DEF TwoOwners, Quiet, HoldOK, Holding
<1> QED
  BY <1>1, <1>2 DEF ClaimInv, Uncrashed

LEMMA NotOrphanedFromInv == ClaimInv => (Uncrashed => NeverOrphaned)
<1> SUFFICES ASSUME ClaimInv, Uncrashed, Orphaned PROVE hist.unanswered
  BY DEF NeverOrphaned
<1>1. \A d \in Daemons : pc[d] # "mark" /\ ~row[d].claimed
  BY DEF Orphaned, MayRun, Claiming
<1> QED
  BY <1>1 DEF ClaimInv, Quiet, RequestOK, Orphaned

\* The issue, its thread and every daemon's row, locals and place stay well typed through
\* claims, failed calls, killed processes and settlements.
THEOREM ClaimsTypeCorrect == Spec => []TypeOK
<1>1. ClaimInv => TypeOK
  BY DEF ClaimInv
<1> QED
  BY <1>1, ClaimInvInit, ClaimInvNext, PTL DEF Spec

\* "Proceed only if ours is the first claim comment of this trigger cycle" (claim): however
\* many daemons race, on whatever hosts, and whatever calls fail on the way, no two of them
\* own one request as long as no process has been killed.
THEOREM FirstClaimOwns == Spec => []OneOwner
  BY ClaimInvInit, ClaimInvNext, OneOwnerFromInv, PTL DEF Spec

\* "A failure part-way can never lose the item" (claim), for failed calls: until a process
\* is killed, any number of daemons and of failed calls leaves no wanted issue that no poll
\* finds and nobody serves, unless the answer to the trigger's removal itself was lost.
THEOREM FaultsNeverOrphan == Spec => [](Uncrashed => NeverOrphaned)
  BY ClaimInvInit, ClaimInvNext, NotOrphanedFromInv, PTL DEF Spec

-----------------------------------------------------------------------------
(***************************************************************************)
(* Killed processes.  With every call answered, a wanted issue whose       *)
(* trigger is off has an heir: a claimed row, or a claim in the thread     *)
(* whose daemon is past the race.                                          *)
(***************************************************************************)
Unfailing == hist.faults = 0

Entered == {"judge", "release", "add", "remove"}

\* What a daemon in the race knows of its own claim.
OwnOK ==
  /\ \A x \in Daemons : pc[x] \in Racing => mem[x].epoch = cycle
  /\ \A x \in Daemons : row[x].token \in Tokens => row[x].token[1] = x
  /\ \A x \in Daemons : pc[x] \in Entered \cup {"get", "post"} => Signed(x) /\ row[x].token \notin aged
  /\ \A x \in Daemons : pc[x] \in Entered =>
       \E c \in Posted(x) : c.by = x /\ c.cycle = cycle /\ c.inc = inc[x]
  /\ \A x \in Daemons : row[x].claimed => pc[x] \in {"won", "running", "down"}
  /\ \A x \in Daemons : pc[x] # "rollback"

\* Of a request that is wanted, each daemon has one claim in the thread at most, and
\* knows it.
CycleOK ==
  /\ \A c \in comments : c.cycle <= cycle /\ c.token \notin c.after
  /\ hist.wanted => \A c \in comments : c.cycle = cycle =>
       c.token = row[c.by].token /\ pc[c.by] \notin {"idle", "get", "post"}

Past == {"add", "remove", "mark", "swap", "down", "settle"}

Heir(x) == row[x].claimed \/ (pc[x] \in Past /\ HasClaim(x))

HeirOK ==
  hist.wanted => \/ issue.trigger /\ \A x \in Daemons : pc[x] # "swap"
                 \/ \E x \in Daemons : Heir(x)

LEMMA NoTokenApart == NoToken \notin Tokens
  BY DEF NoToken, Tokens

\* A fault is never forgotten.
LEMMA StaysUnfailing ==
  ASSUME TypeOK, [Next]_vars, Unfailing'
  PROVE  Unfailing /\ ~Fault /\ hist' # [hist EXCEPT !.faults = @ + 1, !.unanswered = TRUE]
<1>0. hist.faults \in Nat
  BY DEF TypeOK
<1>1. ~Fault
  BY <1>0 DEF Fault, Unfailing, TypeOK
<1>2. hist' # [hist EXCEPT !.faults = @ + 1, !.unanswered = TRUE]
  <2> SUFFICES ASSUME hist' = [hist EXCEPT !.faults = @ + 1, !.unanswered = TRUE] PROVE FALSE
    OBVIOUS
  <2>1. hist'.faults = hist.faults + 1
    BY DEF TypeOK
  <2> QED
    BY <1>0, <2>1 DEF Unfailing
<1>3. hist' = hist \/ hist'.faults = hist.faults
  <2>1. ASSUME NEW d \in Daemons, Work(d) PROVE hist' = hist \/ hist'.faults = hist.faults
    <3>1. CASE Get(d)
      BY <3>1 DEF Get, TypeOK
    <3>2. CASE Mark(d) \/ End(d)
      BY <3>2 DEF Mark, End, TypeOK
    <3>3. CASE RemoveTrigger(d)
      BY <1>1, <1>2, <3>3, Zenon DEF RemoveTrigger
    <3>4. CASE Judge(d)
      BY <1>1, <3>4, Zenon DEF Judge
    <3>5. CASE Pick(d) \/ Post(d) \/ Release(d) \/ AddInProgress(d) \/ Rollback(d) \/ Start(d)
               \/ SettleRead(d) \/ SettleSwap(d) \/ Restart(d)
      BY <1>1, <3>5, Zenon DEF Pick, Post, Release, AddInProgress, Rollback, Start, SettleRead,
         SettleSwap, Restart
    <3> QED
      BY <2>1, <3>1, <3>2, <3>3, <3>4, <3>5, Zenon DEF Work
  <2>2. ASSUME NEW d \in Daemons, Crash(d) PROVE hist'.faults = hist.faults
    BY <2>2 DEF Crash, TypeOK
  <2>3. AddTrigger => hist'.faults = hist.faults
    BY DEF AddTrigger, TypeOK
  <2>4. (\E t \in Rested \ aged : Age(t)) \/ UNCHANGED vars => hist' = hist
    BY Zenon DEF Age, vars
  <2> QED
    BY <2>1, <2>2, <2>3, <2>4, Zenon DEF Next
<1> QED
  BY <1>1, <1>2, <1>3 DEF Unfailing

\* What the steps do when every call is answered.
LEMMA PostAnswered ==
  ASSUME TypeOK, ~Fault, NEW d \in Daemons, Post(d)
  PROVE  /\ pc[d] = "post" /\ pc'[d] = "judge" /\ comments' = comments \cup {ClaimComment(d)}
         /\ UNCHANGED <<issue, cycle, aged, row, mem, inc, hist>>
  BY DEF Post, Goto, TypeOK

LEMMA JudgeAnswered ==
  ASSUME TypeOK, ~Fault, NEW d \in Daemons, Judge(d)
  PROVE  /\ pc[d] = "judge" /\ comments' = Without(StaleTokens(d))
         /\ pc'[d] = IF Wins(d, mem[d].epoch) THEN "add" ELSE "release"
         /\ UNCHANGED <<issue, cycle, aged, row, inc, hist>>
<1>1. /\ Delete(StaleTokens(d)) /\ UNCHANGED <<row, hist>>
      /\ Goto(d, IF Wins(d, mem[d].epoch) THEN "add" ELSE "release")
  BY Zenon DEF Judge, StaleTokens
<1>2. pc[d] = "judge" /\ UNCHANGED <<issue, cycle, aged, inc>>
  BY Zenon DEF Judge
<1> QED
  BY <1>1, <1>2 DEF Goto, Delete, TypeOK

LEMMA ReleaseAnswered ==
  ASSUME TypeOK, ~Fault, NEW d \in Daemons, Release(d)
  PROVE  /\ pc[d] = "release" /\ comments' = Without({row[d].token})
         /\ pc'[d] = "idle" /\ row'[d] = NoRow
         /\ UNCHANGED <<issue, cycle, aged, inc, hist>>
<1>1. pc'[d] = "idle" /\ row'[d] = NoRow
  BY ReleaseDoes, DiscardDoes
<1> QED
  BY <1>1, Zenon DEF Release, Delete

LEMMA LabelsAnswered ==
  ASSUME TypeOK, ~Fault, hist' # [hist EXCEPT !.faults = @ + 1, !.unanswered = TRUE],
         NEW d \in Daemons, AddInProgress(d) \/ RemoveTrigger(d)
  PROVE  /\ pc[d] \in {"add", "remove"}
         /\ pc[d] = "add" => pc'[d] = "remove"
         /\ pc[d] = "remove" => pc'[d] = "mark"
         /\ UNCHANGED <<cycle, comments, aged, row, mem, inc, hist>>
<1>1. CASE AddInProgress(d)
  BY <1>1 DEF AddInProgress, Goto, TypeOK
<1>2. CASE RemoveTrigger(d)
  <2>1. pc[d] = "remove" /\ Goto(d, "mark") /\ UNCHANGED <<cycle, comments, aged, row, mem, inc, hist>>
    BY <1>2, Zenon DEF RemoveTrigger
  <2> QED
    BY <2>1 DEF Goto, TypeOK
<1> QED
  BY <1>1, <1>2

LEMMA StartAnswered ==
  ASSUME TypeOK, ~Fault, NEW d \in Daemons, Start(d)
  PROVE  /\ pc[d] = "won" /\ pc'[d] = "running" /\ comments' = Started
         /\ UNCHANGED <<issue, cycle, aged, row, mem, inc, hist>>
  BY DEF Start, Goto, TypeOK

LEMMA SettleAnswered ==
  ASSUME TypeOK, ~Fault, NEW d \in Daemons, SettleRead(d)
  PROVE  /\ pc[d] = "settle" /\ UNCHANGED <<issue, cycle, comments, aged, inc, hist>>
         /\ \/ HasClaim(d) /\ pc'[d] = "swap" /\ UNCHANGED <<row, mem>>
            \/ /\ ~HasClaim(d) /\ pc'[d] = "idle"
               /\ row'[d].token = NoToken /\ row'[d].claimed = row[d].claimed
               /\ mem'[d] = NoMem
<1>1. CASE HasClaim(d) /\ Goto(d, "swap") /\ UNCHANGED <<row, mem, hist>>
  BY <1>1 DEF SettleRead, Goto, TypeOK
<1>2. CASE ~HasClaim(d) /\ Forget(d) /\ UNCHANGED hist
  BY <1>2 DEF SettleRead, Forget, Goto, TypeOK
<1> QED
  BY <1>1, <1>2, Zenon DEF SettleRead

LEMMA SwapAnswered ==
  ASSUME TypeOK, ~Fault, NEW d \in Daemons, SettleSwap(d)
  PROVE  /\ pc[d] = "swap" /\ pc'[d] = "mark"
         /\ UNCHANGED <<cycle, comments, aged, row, mem, inc, hist>>
<1>1. pc[d] = "swap" /\ Goto(d, "mark") /\ UNCHANGED <<cycle, comments, aged, row, mem, inc, hist>>
  BY Zenon DEF SettleSwap
<1> QED
  BY <1>1 DEF Goto, TypeOK

LEMMA CrashDoes ==
  ASSUME TypeOK, NEW d \in Daemons, Crash(d)
  PROVE  /\ pc'[d] = "down" /\ hist'.wanted = hist.wanted /\ mem'[d] = NoMem
         /\ UNCHANGED <<issue, cycle, comments, aged, row, inc>>
  BY DEF Crash, Goto, TypeOK

LEMMA RestartDoes ==
  ASSUME TypeOK, NEW d \in Daemons, Restart(d)
  PROVE  /\ pc[d] = "down"
         /\ pc'[d] = IF row[d].claimed THEN "won"
                     ELSE IF row[d].token # NoToken THEN "settle" ELSE "idle"
         /\ UNCHANGED <<issue, cycle, comments, aged, row, mem, hist>>
  BY DEF Restart, Goto, TypeOK

\* A step of a daemon when every call is answered.
Answered(d) == /\ Work(d) \/ Crash(d)
               /\ ~Fault /\ hist' # [hist EXCEPT !.faults = @ + 1, !.unanswered = TRUE]

LEMMA AgedAnswered ==
  ASSUME TypeOK, NEW d \in Daemons, Answered(d)
  PROVE  aged' \subseteq aged /\ cycle' = cycle
<1>1. CASE Pick(d)
  BY <1>1, PickDoes
<1>2. CASE ~Pick(d)
  <2>1. aged' = aged /\ cycle' = cycle
    BY <1>2, Zenon DEF Answered, Work, Get, Post, Judge, Release, AddInProgress, RemoveTrigger,
       Rollback, Mark, Start, End, SettleRead, SettleSwap, Restart, Crash
  <2> QED
    BY <2>1
<1> QED
  BY <1>1, <1>2

\* A judge drops no claim that it takes for live.
LEMMA NotDropped ==
  ASSUME ThreadOK, NEW d \in Daemons, NEW c \in comments, c.token = row[d].token \/ ~Stale(d, c)
  PROVE  c.token \notin StaleTokens(d)
<1> SUFFICES ASSUME NEW o \in InCycle(mem[d].epoch) \ Live(d, mem[d].epoch), o.token = c.token
             PROVE  FALSE
  BY DEF StaleTokens
<1>1. o \in comments
  BY DEF InCycle
<1>2. o = c
  BY <1>1 DEF ThreadOK
<1> QED
  BY <1>2 DEF Live

\* The claim of a daemon that has entered the race and lives is not taken from it.
LEMMA EnteredKept ==
  ASSUME TypeOK, ThreadOK, OwnOK, NEW d \in Daemons, Answered(d), NEW x \in Daemons,
         pc[x] \in Entered, ~(x = d /\ Release(d)),
         NEW c \in comments, c.token = row[x].token, c.by = x, c.inc = inc[x]
  PROVE  \E k \in comments' : k.token = c.token /\ k.by = c.by /\ k.inc = c.inc /\ k.cycle = c.cycle
<1>0. comments \subseteq Comment
  BY DEF TypeOK
<1>1. CASE Judge(d)
  <2>1. x # d => ~Stale(d, c)
    BY DEF OwnOK, Stale, Alive, Entered
  <2>2. c.token \notin StaleTokens(d)
    BY <2>1, NotDropped
  <2>3. comments' = Without(StaleTokens(d))
    BY <1>1, JudgeAnswered DEF Answered
  <2> QED
    BY <1>0, <2>2, <2>3, KeptByWithout
<1>2. CASE Release(d)
  <2>1. PICK T : T = {row[d].token}
    OBVIOUS
  <2>2. comments' = Without(T) /\ pc[d] = "release"
    BY <1>2, <2>1, ReleaseAnswered DEF Answered
  <2>3. row[d].token[1] = d /\ row[x].token[1] = x
    BY <2>2 DEF OwnOK, Entered, Signed
  <2>4. c.token \notin T
    BY <1>2, <2>1, <2>3
  <2> QED
    BY <1>0, <2>2, <2>4, KeptByWithout
<1>3. CASE Start(d)
  BY <1>0, <1>3, StartAnswered, KeptByStarted DEF Answered
<1>4. CASE Post(d)
  BY <1>4, PostAnswered DEF Answered
<1>5. CASE Pick(d) \/ Get(d) \/ AddInProgress(d) \/ RemoveTrigger(d) \/ Rollback(d) \/ Mark(d)
           \/ End(d) \/ SettleRead(d) \/ SettleSwap(d) \/ Restart(d) \/ Crash(d)
  <2>1. comments' = comments
    BY <1>5, Zenon DEF Pick, Get, AddInProgress, RemoveTrigger, Rollback, Mark, End, SettleRead,
       SettleSwap, Restart, Crash
  <2> QED
    BY <2>1
<1> QED
  BY <1>1, <1>2, <1>3, <1>4, <1>5, Zenon DEF Answered, Work

\* What the stepping daemon knows afterwards.
LEMMA OwnStep ==
  ASSUME TypeOK, UnpostedOK, OwnOK, NEW d \in Daemons, Answered(d)
  PROVE  /\ pc'[d] \in Racing => mem'[d].epoch = cycle
         /\ row'[d].token \in Tokens => row'[d].token[1] = d
         /\ pc'[d] \in Entered \cup {"get", "post"} =>
              row'[d].token \in Tokens /\ row'[d].token[1] = d /\ row'[d].token \notin aged'
         /\ row'[d].claimed => pc'[d] \in {"won", "running", "down"}
         /\ pc'[d] # "rollback"
         /\ pc'[d] \in Entered => /\ inc'[d] = inc[d]
                                  /\ Post(d) \/ (pc[d] \in Entered /\ ~Release(d) /\ row'[d] = row[d])
<1>a. ~Fault /\ hist' # [hist EXCEPT !.faults = @ + 1, !.unanswered = TRUE]
  BY DEF Answered
<1>b. NoRow.token \notin Tokens /\ ~NoRow.claimed /\ NoToken \notin Tokens
  BY NoTokenApart DEF NoRow
<1>c. /\ row[d].token \in Tokens => row[d].token[1] = d
      /\ row[d].claimed => pc[d] \in {"won", "running", "down"}
      /\ pc[d] \in Entered \cup {"get", "post"} => Signed(d) /\ row[d].token \notin aged
      /\ pc[d] \in Racing => mem[d].epoch = cycle
      /\ pc[d] # "rollback"
  BY DEF OwnOK
<1> USE DEF Racing, Entered, Signed
<1>1. CASE Pick(d)
  BY <1>1, PickDoes DEF Unseen
<1>2. CASE Get(d)
  <2>1. CASE Discard(d)
    BY <1>b, <2>1, DiscardDoes
  <2>2. CASE ~Discard(d)
    BY <1>2, <1>c, <2>2, GetDoes
  <2> QED
    BY <2>1, <2>2
<1>3. CASE Post(d)
  BY <1>3, <1>a, <1>c, PostAnswered
<1>4. CASE Judge(d)
  <2>1. ~Release(d)
    BY <1>4, <1>a, JudgeAnswered, ReleaseAnswered
  <2> QED
    BY <1>4, <1>a, <1>c, <2>1, JudgeAnswered
<1>5. CASE Release(d) \/ End(d)
  <2>1. pc'[d] = "idle" /\ row'[d] = NoRow
    BY <1>5, ReleaseDoes, EndDoes, DiscardDoes
  <2> QED
    BY <1>b, <2>1
<1>6. CASE AddInProgress(d) \/ RemoveTrigger(d)
  <2>1. /\ pc[d] \in {"add", "remove"} /\ pc'[d] \in {"remove", "mark"}
        /\ pc[d] = "remove" => pc'[d] = "mark"
        /\ row' = row /\ inc' = inc /\ aged' = aged
    BY <1>6, <1>a, LabelsAnswered
  <2>2. ~Release(d)
    BY <1>a, <2>1, ReleaseAnswered
  <2> QED
    BY <1>c, <2>1, <2>2
<1>7. CASE Mark(d)
  BY <1>7, <1>c, MarkDoes
<1>8. CASE Start(d)
  BY <1>8, <1>a, <1>c, StartAnswered
<1>9. CASE SettleRead(d)
  <2>1. ~row[d].claimed
    BY <1>9, <1>a, <1>c, SettleAnswered
  <2> QED
    BY <1>9, <1>a, <1>b, <1>c, <2>1, SettleAnswered
<1>10. CASE SettleSwap(d)
  BY <1>10, <1>a, <1>c, SwapAnswered
<1>11. CASE Restart(d)
  BY <1>11, <1>c, RestartDoes
<1>12. CASE Crash(d)
  BY <1>12, <1>c, CrashDoes
<1>13. ~Rollback(d)
  BY <1>c, RollbackDoes
<1> QED
  BY <1>1, <1>2, <1>3, <1>4, <1>5, <1>6, <1>7, <1>8, <1>9, <1>10, <1>11, <1>12, <1>13, Zenon
  DEF Answered, Work

LEMMA OwnNext ==
  ASSUME TypeOK, ThreadOK, UnpostedOK, OwnOK, NEW d \in Daemons, Answered(d)
  PROVE  OwnOK'
<1>0. aged' \subseteq aged /\ cycle' = cycle
  BY AgedAnswered
<1>1. \A x \in Daemons : x # d => /\ pc'[x] = pc[x] /\ row'[x] = row[x]
                                  /\ mem'[x] = mem[x] /\ inc'[x] = inc[x]
  BY OthersStay DEF Answered
<1>2. ASSUME NEW x \in Daemons, pc'[x] \in Entered
      PROVE  \E k \in comments' : k.token = row'[x].token /\ k.by = x /\ k.cycle = cycle /\ k.inc = inc'[x]
  <2>1. CASE x = d /\ Post(d)
    <3>1. ClaimComment(d) \in comments' /\ row' = row /\ inc' = inc
      BY <2>1, PostAnswered DEF Answered
    <3> QED
      BY <2>1, <3>1 DEF ClaimComment
  <2>2. CASE ~(x = d /\ Post(d))
    <3>1. pc[x] \in Entered /\ row'[x] = row[x] /\ inc'[x] = inc[x] /\ ~(x = d /\ Release(d))
      BY <1>1, <1>2, <2>2, OwnStep
    <3>2. PICK c \in comments : c.token = row[x].token /\ c.by = x /\ c.cycle = cycle /\ c.inc = inc[x]
      BY <3>1 DEF OwnOK, Posted
    <3>3. \E k \in comments' : k.token = c.token /\ k.by = c.by /\ k.inc = c.inc /\ k.cycle = c.cycle
      BY <3>1, <3>2, EnteredKept
    <3> QED
      BY <3>1, <3>2, <3>3
  <2> QED
    BY <2>1, <2>2
<1>3. ASSUME NEW x \in Daemons
      PROVE  /\ pc'[x] \in Racing => mem'[x].epoch = cycle
             /\ row'[x].token \in Tokens => row'[x].token[1] = x
             /\ pc'[x] \in Entered \cup {"get", "post"} =>
                  row'[x].token \in Tokens /\ row'[x].token[1] = x /\ row'[x].token \notin aged'
             /\ row'[x].claimed => pc'[x] \in {"won", "running", "down"}
             /\ pc'[x] # "rollback"
  <2>1. CASE x = d
    BY <2>1, OwnStep
  <2>2. CASE x # d
    BY <1>0, <1>1, <2>2 DEF OwnOK, Signed
  <2> QED
    BY <2>1, <2>2
<1> QED
  BY <1>0, <1>2, <1>3 DEF OwnOK, Signed, Posted

\* A request is wanted after a daemon's step only if it was before, and a run that
\* ends or a refusal answers it.
LEMMA WantedAnswered ==
  ASSUME TypeOK, NEW d \in Daemons, Answered(d), hist'.wanted
  PROVE  hist.wanted /\ ~End(d) /\ (Get(d) => issue' = issue)
<1>a. ~Fault /\ hist' # [hist EXCEPT !.faults = @ + 1, !.unanswered = TRUE]
  BY DEF Answered
<1>1. ~End(d)
  BY EndDoes
<1>2. Get(d) => issue' = issue /\ hist' = hist
  BY GetDoes
<1>3. hist' = hist \/ hist'.wanted = hist.wanted
  <2>1. CASE Mark(d) \/ Crash(d)
    BY <2>1, MarkDoes, CrashDoes
  <2>2. CASE Post(d) \/ Judge(d) \/ Release(d) \/ AddInProgress(d) \/ RemoveTrigger(d) \/ Start(d)
             \/ SettleRead(d) \/ SettleSwap(d)
    BY <1>a, <2>2, PostAnswered, JudgeAnswered, ReleaseAnswered, LabelsAnswered, StartAnswered,
       SettleAnswered, SwapAnswered
  <2>3. CASE Rollback(d)
    BY <2>3, RollbackDoes DEF Calm
  <2>4. CASE Pick(d) \/ Restart(d)
    BY <2>4, PickDoes, RestartDoes
  <2> QED
    BY <1>1, <1>2, <2>1, <2>2, <2>3, <2>4, Zenon DEF Answered, Work
<1> QED
  BY <1>1, <1>2, <1>3

LEMMA CycleNext ==
  ASSUME TypeOK, ThreadOK, UnpostedOK, OwnOK, CycleOK, NEW d \in Daemons, Answered(d)
  PROVE  CycleOK'
<1>0. comments \subseteq Comment /\ cycle \in Nat /\ cycle' = cycle
  BY AgedAnswered DEF TypeOK
<1>a. ~Fault /\ hist' # [hist EXCEPT !.faults = @ + 1, !.unanswered = TRUE]
  BY DEF Answered
<1>w. Work(d) \/ Crash(d)
  BY DEF Answered
<1>1. ASSUME NEW k \in comments' PROVE k.cycle <= cycle /\ k.token \notin k.after
  <2>1. CASE \E T : comments' = Without(T)
    <3>1. PICK c \in comments : k.token = c.token /\ k.cycle = c.cycle /\ k.after \subseteq c.after
      BY <1>0, <1>1, <2>1, WithoutKeeps
    <3> QED
      BY <3>1 DEF CycleOK
  <2>2. CASE comments' = Started
    BY <1>0, <1>1, <2>2, StartedKeeps DEF CycleOK
  <2>3. CASE comments' = comments
    BY <1>1, <2>3 DEF CycleOK
  <2>4. CASE Post(d)
    <3>1. k \in comments \/ k = ClaimComment(d)
      BY <1>1, <1>a, <2>4, PostAnswered
    <3>2. pc[d] = "post"
      BY <1>a, <2>4, PostAnswered
    <3>3. ClaimComment(d).cycle = cycle /\ ClaimComment(d).token \notin ClaimComment(d).after
      BY <3>2 DEF ClaimComment, UnpostedOK, Posted, ClaimTokens
    <3> QED
      BY <1>0, <3>1, <3>3 DEF CycleOK
  <2>5. Judge(d) => comments' = Without(StaleTokens(d))
    BY <1>a, JudgeAnswered
  <2>6. Release(d) => comments' = Without({row[d].token})
    BY <1>a, ReleaseAnswered
  <2>7. Start(d) => comments' = Started
    BY <1>a, StartAnswered
  <2>8. CASE Pick(d) \/ Get(d) \/ AddInProgress(d) \/ RemoveTrigger(d) \/ Rollback(d) \/ Mark(d)
           \/ End(d) \/ SettleRead(d) \/ SettleSwap(d) \/ Restart(d) \/ Crash(d)
    <3>1. comments' = comments
      BY <2>8, Zenon DEF Pick, Get, AddInProgress, RemoveTrigger, Rollback, Mark, End, SettleRead,
         SettleSwap, Restart, Crash
    <3> QED
      BY <2>3, <3>1
  <2> QED
    BY <1>w, <2>1, <2>2, <2>4, <2>5, <2>6, <2>7, <2>8, Zenon DEF Work
<1>2. ASSUME hist'.wanted, NEW k \in comments', k.cycle = cycle
      PROVE  k.token = row'[k.by].token /\ pc'[k.by] \notin {"idle", "get", "post"}
  <2>1. CASE Post(d) /\ k = ClaimComment(d)
    BY <1>a, <2>1, PostAnswered DEF ClaimComment
  <2>2. CASE ~(Post(d) /\ k = ClaimComment(d))
    <3>1. PICK c \in comments : k.token = c.token /\ k.by = c.by /\ k.cycle = c.cycle
      BY <1>2, <1>w, <2>2, ThreadFrom
    <3>2. hist.wanted
      BY <1>2, WantedAnswered
    <3>3. /\ c.token = row[c.by].token /\ pc[c.by] \notin {"idle", "get", "post"}
          /\ c.by \in Daemons /\ c.token \in Tokens
      BY <1>0, <1>2, <3>1, <3>2 DEF CycleOK, Comment
    <3>4. CASE c.by # d
      BY <1>w, <3>1, <3>3, <3>4, OthersStay
    <3>5. CASE c.by = d
      <4>1. ~Pick(d) /\ ~Get(d) /\ ~Post(d) /\ ~Rollback(d)
        BY <1>a, <3>3, <3>5, PickDoes, GetDoes, PostAnswered, RollbackDoes DEF OwnOK
      <4>2. ~End(d)
        BY <1>2, WantedAnswered
      <4>3. ~Release(d)
        <5> SUFFICES ASSUME Release(d) PROVE FALSE
          OBVIOUS
        <5>1. PICK T : T = {row[d].token}
          OBVIOUS
        <5>2. comments' = Without(T)
          BY <1>a, <5>1, ReleaseAnswered
        <5>3. k.token \notin T
          BY <1>0, <1>2, <5>2, WithoutKeeps
        <5> QED
          BY <3>1, <3>3, <3>5, <5>1, <5>3
      <4>4. CASE Judge(d) \/ AddInProgress(d) \/ RemoveTrigger(d) \/ Start(d) \/ SettleSwap(d)
        <5>1. row' = row /\ pc'[d] \notin {"idle", "get", "post"}
          BY <1>a, <4>4, JudgeAnswered, LabelsAnswered, StartAnswered, SwapAnswered
        <5> QED
          BY <3>1, <3>3, <3>5, <5>1
      <4>5. CASE Mark(d)
        BY <3>1, <3>3, <3>5, <4>5, MarkDoes
      <4>6. CASE Crash(d)
        BY <3>1, <3>3, <3>5, <4>6, CrashDoes
      <4>7. CASE Restart(d)
        BY <3>1, <3>3, <3>5, <4>7, RestartDoes, NoTokenApart
      <4>8. CASE SettleRead(d)
        <5>1. HasClaim(d)
          BY <1>0, <1>2, <3>1, <3>3, <3>5 DEF HasClaim, InCycle
        <5> QED
          BY <1>a, <3>1, <3>3, <3>5, <4>8, <5>1, SettleAnswered
      <4> QED
        BY <1>w, <4>1, <4>2, <4>3, <4>4, <4>5, <4>6, <4>7, <4>8, Zenon DEF Work
    <3> QED
      BY <3>4, <3>5
  <2> QED
    BY <2>1, <2>2
<1> QED
  BY <1>0, <1>1, <1>2 DEF CycleOK

-----------------------------------------------------------------------------
\* With a third daemon the heir's claim can be released by one that then loses to the
\* third, which is itself about to give up: the statement below does not hold for three.
AtMostTwo == \A x, y, z \in Daemons : x = y \/ y = z \/ x = z

\* Of two daemons, one that releases the other's claim of this cycle has won.
LEMMA DroppedThenWon ==
  ASSUME AtMostTwo, TypeOK, ThreadOK, OwnOK, CycleOK, hist.wanted,
         NEW d \in Daemons, pc[d] = "judge", NEW x \in Daemons, x # d,
         NEW c \in comments, c.token = row[x].token, c.cycle >= cycle, c.token \in StaleTokens(d)
  PROVE  Wins(d, mem[d].epoch)
<1>0. mem[d].epoch = cycle /\ cycle \in Nat /\ comments \subseteq Comment
  BY DEF OwnOK, Racing, TypeOK
<1>1. PICK o \in InCycle(mem[d].epoch) \ Live(d, mem[d].epoch) : o.token = c.token
  BY DEF StaleTokens
<1>2. o = c
  BY <1>1 DEF InCycle, ThreadOK
<1>3. PICK m \in comments : m.token = row[d].token /\ m.by = d /\ m.cycle = cycle
  BY DEF OwnOK, Entered, Posted
<1>4. m \in Live(d, mem[d].epoch)
  BY <1>0, <1>3 DEF Live, InCycle
<1>5. ASSUME NEW k \in Live(d, mem[d].epoch) PROVE k.token \notin m.after
  <2>1. k \in comments /\ k.cycle >= cycle /\ k # c
    BY <1>0, <1>1, <1>2, <1>5 DEF Live, InCycle
  <2>2. k.cycle = cycle /\ k.by \in Daemons
    BY <1>0, <2>1 DEF CycleOK, Comment
  <2>3. k.token = row[k.by].token
    BY <2>1, <2>2 DEF CycleOK
  <2>4. k.by # x
    BY <2>1, <2>3 DEF ThreadOK
  <2>5. k.by = d
    BY <2>2, <2>4 DEF AtMostTwo
  <2>6. k = m
    BY <1>3, <2>1, <2>3, <2>5 DEF ThreadOK
  <2> QED
    BY <1>3, <2>6 DEF CycleOK
<1> QED
  BY <1>3, <1>4, <1>5 DEF Wins

\* An heir keeps the claim it has, or the daemon that takes it has won and is one.
LEMMA HeirStays ==
  ASSUME AtMostTwo, TypeOK, ThreadOK, UnpostedOK, OwnOK, CycleOK, NEW d \in Daemons, Answered(d),
         hist'.wanted, NEW x \in Daemons, Heir(x)
  PROVE  \E y \in Daemons : Heir(y)'
<1>0. comments \subseteq Comment /\ cycle \in Nat /\ cycle' = cycle
  BY AgedAnswered DEF TypeOK
<1>a. ~Fault /\ hist' # [hist EXCEPT !.faults = @ + 1, !.unanswered = TRUE]
  BY DEF Answered
<1>w. (Work(d) \/ Crash(d)) /\ hist.wanted /\ ~End(d)
  BY WantedAnswered DEF Answered
<1>1. CASE x # d
  <2>1. pc'[x] = pc[x] /\ row'[x] = row[x]
    BY <1>1, <1>w, OthersStay
  <2>2. CASE row[x].claimed
    BY <2>1, <2>2 DEF Heir
  <2>3. CASE pc[x] \in Past /\ HasClaim(x)
    <3>1. PICK c \in comments : c.token = row[x].token /\ c.cycle >= cycle
      BY <2>3 DEF HasClaim, InCycle
    <3>2. CASE \E k \in comments' : k.token = c.token /\ k.cycle = c.cycle
      BY <1>0, <2>1, <2>3, <3>1, <3>2 DEF Heir, HasClaim, InCycle
    <3>3. CASE Judge(d)
      <4>1. comments' = Without(StaleTokens(d)) /\ pc[d] = "judge" /\ row' = row
        BY <1>a, <3>3, JudgeAnswered
      <4>2. CASE c.token \notin StaleTokens(d)
        BY <1>0, <3>2, <4>1, <4>2, KeptByWithout
      <4>3. CASE c.token \in StaleTokens(d)
        <5>1. pc'[d] = "add"
          BY <1>1, <1>a, <1>w, <3>1, <3>3, <4>1, <4>3, DroppedThenWon, JudgeAnswered
        <5>2. PICK m \in comments : m.token = row[d].token /\ m.cycle = cycle
          BY <4>1 DEF OwnOK, Entered, Posted
        <5>3. m.token \notin StaleTokens(d)
          BY <5>2, NotDropped
        <5>4. PICK n \in comments' : n.token = row'[d].token /\ n.cycle = cycle
          BY <1>0, <4>1, <5>2, <5>3, KeptByWithout
        <5>5. HasClaim(d)'
          BY <1>0, <5>4 DEF HasClaim, InCycle
        <5> QED
          BY <5>1, <5>5 DEF Heir, Past
      <4> QED
        BY <4>2, <4>3
    <3>4. CASE Release(d)
      <4>1. PICK T : T = {row[d].token}
        OBVIOUS
      <4>2. comments' = Without(T) /\ pc[d] = "release"
        BY <1>a, <3>4, <4>1, ReleaseAnswered
      <4>3. row[d].token[1] = d /\ row[x].token[1] = x
        BY <1>0, <3>1, <4>2 DEF OwnOK, Entered, Signed, Comment
      <4>4. c.token \notin T
        BY <1>1, <3>1, <4>1, <4>3
      <4> QED
        BY <1>0, <3>2, <4>2, <4>4, KeptByWithout
    <3>5. CASE Start(d)
      BY <1>0, <1>a, <3>2, <3>5, StartAnswered, KeptByStarted
    <3>6. CASE Post(d)
      BY <1>a, <3>2, <3>6, PostAnswered
    <3>7. CASE Pick(d) \/ Get(d) \/ AddInProgress(d) \/ RemoveTrigger(d) \/ Rollback(d) \/ Mark(d)
               \/ SettleRead(d) \/ SettleSwap(d) \/ Restart(d) \/ Crash(d)
      <4>1. comments' = comments
        BY <3>7, Zenon DEF Pick, Get, AddInProgress, RemoveTrigger, Rollback, Mark, SettleRead,
           SettleSwap, Restart, Crash
      <4> QED
        BY <3>2, <4>1
    <3> QED
      BY <1>w, <3>3, <3>4, <3>5, <3>6, <3>7, Zenon DEF Work
  <2> QED
    BY <2>2, <2>3 DEF Heir
<1>2. CASE x = d
  <2>0. pc[d] \in Past \cup {"won", "running"}
    BY <1>2 DEF Heir, Past, OwnOK
  <2>1. ~Pick(d) /\ ~Get(d) /\ ~Post(d) /\ ~Judge(d) /\ ~Release(d) /\ ~Rollback(d)
    BY <1>a, <2>0, PickDoes, GetDoes, PostAnswered, JudgeAnswered, ReleaseAnswered, RollbackDoes DEF Past
  <2>2. CASE AddInProgress(d) \/ RemoveTrigger(d) \/ SettleSwap(d)
    <3>1. pc'[d] \in {"remove", "mark"} /\ UNCHANGED <<row, comments, cycle>>
      BY <1>a, <2>2, LabelsAnswered, SwapAnswered
    <3> QED
      BY <1>2, <3>1 DEF Heir, HasClaim, InCycle, Past
  <2>3. CASE Mark(d)
    BY <2>3, MarkDoes DEF Heir
  <2>4. CASE Start(d)
    <3>1. row[d].claimed
      BY <1>2, <1>a, <2>4, StartAnswered DEF Heir, Past
    <3> QED
      BY <1>a, <2>4, <3>1, StartAnswered DEF Heir
  <2>5. CASE Crash(d)
    <3>1. pc'[d] = "down" /\ UNCHANGED <<row, comments, cycle>>
      BY <2>5, CrashDoes
    <3> QED
      BY <1>2, <3>1 DEF Heir, HasClaim, InCycle, Past
  <2>6. CASE Restart(d)
    <3>1. UNCHANGED <<row, comments, cycle>>
      BY <2>6, RestartDoes
    <3>2. CASE row[d].claimed
      BY <3>1, <3>2 DEF Heir
    <3>3. CASE ~row[d].claimed
      <4>1. HasClaim(d)
        BY <1>2, <3>3 DEF Heir
      <4>2. row[d].token # NoToken
        BY <1>0, <4>1, NoTokenApart DEF HasClaim, InCycle, Comment
      <4>3. pc'[d] = "settle"
        BY <2>6, <3>3, <4>2, RestartDoes
      <4> QED
        BY <3>1, <4>1, <4>3 DEF Heir, HasClaim, InCycle, Past
    <3> QED
      BY <3>2, <3>3
  <2>7. CASE SettleRead(d)
    <3>1. pc[d] = "settle"
      BY <1>a, <2>7, SettleAnswered
    <3>2. HasClaim(d)
      BY <1>2, <3>1 DEF Heir, OwnOK
    <3>3. pc'[d] = "swap" /\ UNCHANGED <<row, comments, cycle>>
      BY <1>a, <2>7, <3>2, SettleAnswered
    <3> QED
      BY <3>2, <3>3 DEF Heir, HasClaim, InCycle, Past
  <2> QED
    BY <1>w, <2>1, <2>2, <2>3, <2>4, <2>5, <2>6, <2>7, Zenon DEF Work
<1> QED
  BY <1>1, <1>2

LEMMA HeirNext ==
  ASSUME AtMostTwo, TypeOK, ThreadOK, UnpostedOK, OwnOK, CycleOK, HeirOK,
         NEW d \in Daemons, Answered(d)
  PROVE  HeirOK'
<1> SUFFICES ASSUME hist'.wanted, ~\E x \in Daemons : Heir(x)
             PROVE  issue'.trigger /\ \A x \in Daemons : pc'[x] # "swap"
  BY HeirStays DEF HeirOK
<1>0. cycle \in Nat
  BY DEF TypeOK
<1>a. ~Fault /\ hist' # [hist EXCEPT !.faults = @ + 1, !.unanswered = TRUE]
  BY DEF Answered
<1>w. (Work(d) \/ Crash(d)) /\ hist.wanted /\ ~End(d) /\ (Get(d) => issue' = issue)
  BY WantedAnswered DEF Answered
<1>1. issue.trigger /\ \A x \in Daemons : pc[x] # "swap"
  BY <1>w DEF HeirOK
<1>2. ~RemoveTrigger(d)
  <2> SUFFICES ASSUME RemoveTrigger(d) PROVE FALSE
    OBVIOUS
  <2>1. pc[d] = "remove"
    BY RemoveDoes
  <2>2. HasClaim(d)
    BY <1>0, <2>1 DEF OwnOK, Entered, Posted, HasClaim, InCycle
  <2> QED
    BY <2>1, <2>2 DEF Heir, Past
<1>3. ~SettleSwap(d)
  BY <1>1, SwapAnswered, <1>a
<1>4. issue'.trigger
  <2>1. CASE AddInProgress(d) \/ Rollback(d)
    BY <1>1, <2>1, AddDoes, RollbackDoes
  <2>2. CASE ~AddInProgress(d) /\ ~Rollback(d)
    <3>1. issue' = issue
      BY <1>2, <1>3, <1>w, <2>2, Zenon DEF Work, Pick, Post, Judge, Release, Mark, Start, SettleRead,
         Restart, Crash
    <3> QED
      BY <1>1, <3>1
  <2> QED
    BY <2>1, <2>2
<1>5. \A x \in Daemons : x # d => pc'[x] = pc[x]
  BY <1>w, OthersStay
<1>6. pc'[d] # "swap"
  <2>1. ~(SettleRead(d) /\ HasClaim(d))
    BY <1>a, SettleAnswered DEF Heir, Past
  <2>2. CASE SettleRead(d)
    BY <1>a, <2>1, <2>2, SettleAnswered
  <2>3. CASE Pick(d) \/ Get(d) \/ Post(d) \/ Judge(d) \/ Release(d)
    BY <1>a, <2>3, PickDoes, GetDoes, DiscardDoes, PostAnswered, JudgeAnswered, ReleaseAnswered
  <2>4. CASE AddInProgress(d) \/ Rollback(d) \/ Mark(d) \/ Start(d) \/ Restart(d) \/ Crash(d)
    BY <1>a, <2>4, AddDoes, RollbackDoes, MarkDoes, StartDoes, RestartDoes, CrashDoes
  <2> QED
    BY <1>2, <1>3, <1>w, <2>2, <2>3, <2>4, Zenon DEF Work
<1> QED
  BY <1>1, <1>4, <1>5, <1>6

\* The invariant of two daemons.
HeirInv == ClaimInv /\ (Unfailing => OwnOK /\ CycleOK /\ HeirOK)

LEMMA HeirInvInit == Init => HeirInv
<1> SUFFICES ASSUME Init PROVE OwnOK /\ CycleOK /\ HeirOK
  BY ClaimInvInit DEF HeirInv
<1>1. OwnOK
  BY NoTokenApart DEF Init, OwnOK, Racing, Entered, NoRow
<1>2. CycleOK /\ HeirOK
  BY DEF Init, CycleOK, HeirOK
<1> QED
  BY <1>1, <1>2

LEMMA HeirInvNext == AtMostTwo /\ HeirInv /\ [Next]_vars => HeirInv'
<1> SUFFICES ASSUME AtMostTwo, HeirInv, [Next]_vars PROVE HeirInv'
  OBVIOUS
<1>1. ClaimInv' /\ TypeOK /\ ThreadOK /\ UnpostedOK
  BY ClaimInvNext DEF HeirInv, ClaimInv
<1>2. ASSUME Unfailing' PROVE OwnOK' /\ CycleOK' /\ HeirOK'
  <2>1. Unfailing /\ ~Fault /\ hist' # [hist EXCEPT !.faults = @ + 1, !.unanswered = TRUE]
    BY <1>1, <1>2, StaysUnfailing
  <2>2. OwnOK /\ CycleOK /\ HeirOK
    BY <2>1 DEF HeirInv
  <2>3. ASSUME NEW d \in Daemons, Work(d) \/ Crash(d) PROVE OwnOK' /\ CycleOK' /\ HeirOK'
    <3>1. Answered(d)
      BY <2>1, <2>3 DEF Answered
    <3> QED
      BY <1>1, <2>2, <3>1, OwnNext, CycleNext, HeirNext
  <2>4. CASE AddTrigger
    <3>1. /\ UNCHANGED <<comments, aged, row, pc, mem, inc>>
          /\ \A d \in Daemons : pc[d] \notin (Claiming \ {"get"}) \cup Settling
          /\ issue'.trigger
      BY <1>1, <2>4, AddTriggerDoes
    <3>2. cycle' = cycle + 1 /\ cycle \in Nat /\ comments \subseteq Comment
      BY <1>1, <2>4 DEF AddTrigger, TypeOK
    <3>3. \A d \in Daemons : pc[d] \notin Racing \cup Entered /\ pc[d] # "swap"
      BY <3>1 DEF Racing, Entered, Claiming, Settling
    <3>4. OwnOK'
      BY <2>2, <3>1, <3>3 DEF OwnOK, Signed
    <3>5. \A c \in comments : c.cycle \in Nat /\ c.cycle <= cycle /\ c.token \notin c.after
      BY <2>2, <3>2 DEF CycleOK, Comment
    <3>6. CycleOK'
      BY <3>1, <3>2, <3>5 DEF CycleOK
    <3>7. HeirOK'
      BY <3>1, <3>3 DEF HeirOK
    <3> QED
      BY <3>4, <3>6, <3>7
  <2>5. ASSUME NEW t \in Rested \ aged, Age(t) PROVE OwnOK' /\ CycleOK' /\ HeirOK'
    <3>1. UNCHANGED <<issue, cycle, comments, row, pc, mem, inc, hist>> /\ aged' = aged \cup {t}
      BY <2>5 DEF Age
    <3>2. \A x \in Daemons : pc[x] \in Entered \cup {"get", "post"} => row[x].token \notin aged'
      BY <2>2, <2>5, <3>1 DEF OwnOK, Rested, Entered, Claiming
    <3>3. OwnOK'
      BY <2>2, <3>1, <3>2 DEF OwnOK, Signed, Posted
    <3> QED
      BY <2>2, <3>1, <3>3 DEF CycleOK, HeirOK, Heir, HasClaim, InCycle
  <2>6. CASE UNCHANGED vars
    <3>1. UNCHANGED <<issue, cycle, comments, aged, row, pc, mem, inc, hist>>
      BY <2>6 DEF vars
    <3>2. OwnOK'
      BY <2>2, <3>1 DEF OwnOK, Signed, Posted
    <3> QED
      BY <2>2, <3>1, <3>2 DEF CycleOK, HeirOK, Heir, HasClaim, InCycle
  <2> QED
    BY <2>3, <2>4, <2>5, <2>6, Zenon DEF Next
<1> QED
  BY <1>1, <1>2 DEF HeirInv

LEMMA NeverOrphanedFromInv == HeirInv => NeverOrphaned
<1> SUFFICES ASSUME HeirInv, Orphaned, ~hist.unanswered PROVE hist.crashes > 0 /\ hist.faults > 0
  BY DEF NeverOrphaned
<1>1. hist.crashes \in Nat /\ hist.faults \in Nat
  BY DEF HeirInv, ClaimInv, TypeOK
<1>2. ~Uncrashed
  BY NotOrphanedFromInv DEF HeirInv, NeverOrphaned, Uncrashed
<1>3. \A x \in Daemons : ~Heir(x)
  BY DEF Orphaned, MayRun, Heir, Past, Claiming
<1>4. ~Unfailing
  BY <1>3 DEF HeirInv, HeirOK, Orphaned
<1> QED
  BY <1>1, <1>2, <1>4 DEF Uncrashed, Unfailing

\* "A failure part-way can never lose the item" (claim and settle_claim), for killed
\* processes too: with two daemons, on one host or on two, any number of deaths and restarts
\* at any step, and any number of requests, leave no wanted issue unserved; only a death and
\* a failed call together, or a removal whose answer was lost, can.
THEOREM TwoNeverOrphan ==
  ASSUME AtMostTwo PROVE Spec => []NeverOrphaned
<1>1. HeirInv /\ [Next]_vars => HeirInv'
  BY HeirInvNext
<1> QED
  BY <1>1, HeirInvInit, NeverOrphanedFromInv, PTL DEF Spec
=============================================================================
