---------------------------- MODULE ParkingProofs ----------------------------
(***************************************************************************)
(* What parking guarantees for every number of runs, landing threads,      *)
(* verbs and crashes: its type invariant, that no step undoes a decision   *)
(* taken on a merge gate or a review hold, that one gate is landed by one  *)
(* thread at a time, and that an item is done only over a merged pull      *)
(* request.  The last section is about an instance without crashes and     *)
(* with approvals and the command line's abandon only: there, a parked     *)
(* item always has its way out.                                            *)
(***************************************************************************)
EXTENDS Parking, TLAPS

JobType == [do : Doing, run : Runs \cup {NoRun}, step : Nat, saw : RowStates]

\* A thread in the middle of anything but an abandon has a run in hand.  (An abandon
\* takes the pin it read, which may be none.)
Good(j) == j \in JobType /\ (j.do \notin {"idle", "abandon"} => j.run \in Runs)

JobsGood == job \in [Threads -> JobType] /\ \A t \in Threads : Good(job[t])

\* TypeOK without its jobs.
StateOK ==
  /\ row \in [state : RowStates, run : Runs \cup {NoRun}, kind : AllKinds]
  /\ gate \in [Runs -> GateStates]
  /\ hold \in [Runs -> HoldStates]
  /\ rec \in [Runs -> RecordStates]
  /\ pr \in [Runs -> {"none", "open", "landed", "by_hand", "closed"}]
  /\ verdict \in [Runs -> {"none", "approved", "changes"}]
  /\ waited \subseteq Runs
  /\ live \in Runs \cup {NoRun}
  /\ overtaken \subseteq Runs
  /\ daemon \in {"up", "down", "gates", "holds", "rows"}
  /\ used \in [verbs : Nat, crashes : Nat]

\* A running row names its run.
Pinned == row.state = "running" => row.run \in Runs

IInv == JobsGood /\ StateOK /\ Pinned

LEMMA IInvTypes == IInv => TypeOK
  BY DEF IInv, JobsGood, StateOK, TypeOK, JobType

-----------------------------------------------------------------------------
(* Jobs. *)

LEMMA IdleGood == Good(Idle)
  BY DEF Good, Idle, JobType, Doing, RowStates

LEMMA BeginGood ==
  ASSUME NEW do \in Doing, NEW r \in Runs
  PROVE  Good(Begin(do, r))
  BY DEF Good, Begin, JobType, RowStates

LEMMA AdvanceGood ==
  ASSUME JobsGood, NEW t \in Threads
  PROVE  Good(Advance(t))
<1>1. Good(job[t]) /\ job[t] \in JobType
  BY DEF JobsGood
<1>2. Good([job[t] EXCEPT !.step = @ + 1])
  BY <1>1 DEF Good, JobType
<1> QED
  BY <1>2, IdleGood DEF Advance

LEMMA PutGood ==
  ASSUME JobsGood, NEW t \in Threads, NEW j, Good(j),
         job' = [job EXCEPT ![t] = j]
  PROVE  JobsGood'
  BY DEF JobsGood, Good

LEMMA StepGood ==
  ASSUME JobsGood, NEW t \in Threads, Step(t)
  PROVE  JobsGood'
  BY AdvanceGood, PutGood DEF Step

LEMMA ThreadNames == "loop" \in Threads /\ "op" \in Threads /\ Landers \subseteq Threads
  BY DEF Threads

\* Only a plan other than idle and abandon has these steps, so there is a run.
LEMMA RunInHand ==
  ASSUME JobsGood, NEW t \in Threads, NEW s \in {"land", "claim", "fix", "requeue"},
         At(t, s)
  PROVE  job[t].run \in Runs
<1>1. job[t].do # "idle"
  <2>1. Plan("idle") = <<>>
    BY DEF Plan
  <2> QED
    BY <2>1 DEF At
<1>2. job[t].do # "abandon"
  <2> SUFFICES ASSUME job[t].do = "abandon" PROVE FALSE
    OBVIOUS
  <2>1. Plan(job[t].do) = <<"row", "dismiss">>
    BY DEF Plan
  <2> QED
    BY <2>1 DEF At
<1> QED
  BY <1>1, <1>2 DEF JobsGood, Good

-----------------------------------------------------------------------------
(* What the writes leave in a gate, a hold and the row. *)

LEMMA GateTyped ==
  ASSUME NEW t \in Threads, NEW g \in GateStates
  PROVE  GateAfter(t, g) \in GateStates
  BY DEF GateAfter, GateStates, OpenGate

LEMMA HoldTyped ==
  ASSUME NEW t \in Threads, NEW h \in HoldStates
  PROVE  HoldAfter(t, h) \in HoldStates
  BY DEF HoldAfter, HoldStates, OpenHold

LEMMA RowTyped ==
  ASSUME StateOK, Pinned, NEW t \in Threads
  PROVE  /\ RowAfter(t) \in [state : RowStates, run : Runs \cup {NoRun}, kind : AllKinds]
         /\ RowAfter(t).state = "running" => RowAfter(t).run \in Runs
  BY DEF StateOK, Pinned, RowAfter, Abandoned, Abandonable, RowStates

\* A finished gate stays finished through any write.
LEMMA GateStands ==
  ASSUME NEW t \in Threads, NEW g \in {"merged", "released", "dismissed"}
  PROVE  GateAfter(t, g) \notin OpenGate
  BY DEF GateAfter, OpenGate

\* A finished hold stays finished through any write.
LEMMA HoldStands ==
  ASSUME NEW t \in Threads, NEW h \in {"merged", "dismissed"}
  PROVE  HoldAfter(t, h) \notin OpenHold
  BY DEF HoldAfter, OpenHold

-----------------------------------------------------------------------------
(* The invariant, one lemma per group of actions. *)

LEMMA InitInv == Init => IInv
  BY ParkingAssumption DEF Init, IInv, JobsGood, StateOK, Pinned, Good, Idle, JobType, Doing, RowStates,
         GateStates, HoldStates, RecordStates

LEMMA TickInv ==
  ASSUME IInv, Tick
  PROVE  IInv'
<1> USE DEF IInv
<1>1. ASSUME NEW r \in Runs, Dispatch(r) PROVE IInv'
  BY <1>1 DEF Dispatch, parks, forge, JobsGood, StateOK, Pinned, RowStates, RecordStates
<1>2. ASSUME NEW r \in Runs, Wait(r) PROVE IInv'
  BY <1>2 DEF Wait, parks, JobsGood, StateOK, Pinned
<1>3. ASSUME NEW r \in Runs, Poll(r) PROVE IInv'
  <2>1. PICK do \in {"pause", "poll_closed", "poll_changes", "poll_approved"} :
          job' = [job EXCEPT !["loop"] = Begin(do, r)]
    BY <1>3 DEF Poll
  <2>2. JobsGood'
    BY <2>1, PutGood, BeginGood, ThreadNames DEF Doing
  <2>3. StateOK' /\ Pinned'
    BY <1>3 DEF Poll, parks, forge, StateOK, Pinned
  <2> QED
    BY <2>2, <2>3
<1>4. ASSUME NEW again \in BOOLEAN, SettleRun(again) PROVE IInv'
  <2>1. live \in Runs
    BY <1>4 DEF SettleRun, StateOK
  <2>2. Settlement(live, again) \in Doing
    BY <2>1 DEF Settlement, AllParks, Doing
  <2>3. JobsGood'
    <3>1. CASE OnRun(live)
      BY <1>4, <2>1, <2>2, <3>1, PutGood, BeginGood, ThreadNames DEF SettleRun
    <3>2. CASE ~OnRun(live)
      BY <1>4, <3>2 DEF SettleRun, JobsGood
    <3> QED
      BY <3>1, <3>2
  <2>4. StateOK' /\ Pinned'
    BY <1>4 DEF SettleRun, parks, forge, StateOK, Pinned
  <2> QED
    BY <2>3, <2>4
<1>5. ASSUME NEW again \in BOOLEAN, ResumeRefused(again) PROVE IInv'
  <2>1. row.run \in Runs
    BY <1>5 DEF ResumeRefused, StateOK
  <2>2. PICK do \in {"ended_retry", "ended_failed"} :
          job' = [job EXCEPT !["loop"] = Begin(do, row.run)]
    BY <1>5 DEF ResumeRefused
  <2>3. JobsGood'
    BY <2>1, <2>2, PutGood, BeginGood, ThreadNames DEF Doing
  <2>4. StateOK' /\ Pinned'
    BY <1>5 DEF ResumeRefused, parks, forge, StateOK, Pinned
  <2> QED
    BY <2>3, <2>4
<1> QED
  BY <1>1, <1>2, <1>3, <1>4, <1>5 DEF Tick

LEMMA EngineInv ==
  ASSUME IInv, Engine
  PROVE  IInv'
<1>1. PICK r \in Runs, how \in Parks \cup {"landed", "failed"} : EngineEnd(r, how)
  BY DEF Engine
<1>2. how \in RecordStates
  BY ParkingAssumption DEF RecordStates
<1> QED
  BY <1>1, <1>2 DEF EngineEnd, parks, IInv, JobsGood, StateOK, Pinned

LEMMA WriteInv ==
  ASSUME IInv, NEW t \in Threads, Write(t)
  PROVE  IInv'
<1> USE DEF IInv
<1>1. CASE WriteGate(t)
  <2>1. JobsGood'
    BY <1>1, StepGood DEF WriteGate
  <2>2. gate' \in [Runs -> GateStates]
    BY <1>1, GateTyped DEF WriteGate, StateOK
  <2>3. StateOK' /\ Pinned'
    BY <1>1, <2>2 DEF WriteGate, forge, StateOK, Pinned
  <2> QED
    BY <2>1, <2>3
<1>2. CASE WriteHold(t)
  <2>1. JobsGood'
    BY <1>2, StepGood DEF WriteHold
  <2>2. hold' \in [Runs -> HoldStates]
    BY <1>2, HoldTyped DEF WriteHold, StateOK
  <2>3. StateOK' /\ Pinned'
    BY <1>2, <2>2 DEF WriteHold, StateOK, Pinned
  <2> QED
    BY <2>1, <2>3
<1>3. CASE WriteRow(t)
  <2>1. JobsGood'
    BY <1>3, StepGood DEF WriteRow
  <2>2. Overtakes(t) => job[t].run \in Runs
    BY DEF Overtakes, JobsGood, Good
  <2>3. StateOK' /\ Pinned'
    BY <1>3, <2>2, RowTyped DEF WriteRow, parks, forge, StateOK, Pinned
  <2> QED
    BY <2>1, <2>3
<1> QED
  BY <1>1, <1>2, <1>3 DEF Write

LEMMA LoopInv ==
  ASSUME IInv, LoopStep
  PROVE  IInv'
<1> USE DEF IInv
<1>1. CASE Write("loop")
  BY <1>1, WriteInv, ThreadNames
<1>2. CASE ClaimHold
  <2> DEFINE r == job["loop"].run
  <2>1. r \in Runs
    BY <1>2, RunInHand, ThreadNames DEF ClaimHold
  <2>2. JobsGood'
    <3>1. CASE job' = [job EXCEPT !["loop"] = Idle]
      BY <3>1, PutGood, IdleGood, ThreadNames
    <3>2. CASE Step("loop")
      BY <3>2, StepGood, ThreadNames
    <3>3. ASSUME NEW t \in Landers,
                 job' = [job EXCEPT !["loop"] = Idle, ![t] = Begin("land_hold", r)]
          PROVE  JobsGood'
      <4>1. Good(Begin("land_hold", r))
        BY <2>1, BeginGood DEF Doing
      <4>2. t \in Threads
        BY ThreadNames
      <4> HIDE DEF r
      <4> QED
        BY <3>3, <4>1, <4>2, IdleGood, ThreadNames DEF JobsGood, Good
    <3> QED
      BY <1>2, <3>1, <3>2, <3>3 DEF ClaimHold
  <2>3. StateOK' /\ Pinned'
    BY <1>2, <2>1 DEF ClaimHold, forge, StateOK, Pinned, HoldStates
  <2> QED
    BY <2>2, <2>3
<1>3. CASE ResumeForFix
  <2>1. job["loop"].run \in Runs
    BY <1>3, RunInHand, ThreadNames DEF ResumeForFix
  <2>2. JobsGood'
    <3>1. CASE Step("loop")
      BY <3>1, StepGood, ThreadNames
    <3>2. CASE job' = [job EXCEPT !["loop"] = Begin("refix", job["loop"].run)]
      BY <2>1, <3>2, PutGood, BeginGood, ThreadNames DEF Doing
    <3> QED
      BY <1>3, <3>1, <3>2 DEF ResumeForFix
  <2>3. StateOK' /\ Pinned'
    BY <1>3 DEF ResumeForFix, parks, forge, StateOK, Pinned, RowStates
  <2> QED
    BY <2>2, <2>3
<1> QED
  BY <1>1, <1>2, <1>3 DEF LoopStep

LEMMA OpInv ==
  ASSUME IInv, OpStep
  PROVE  IInv'
<1> USE DEF IInv
<1>1. CASE Write("op")
  BY <1>1, WriteInv, ThreadNames
<1>2. CASE ClaimRelease
  <2>1. JobsGood'
    BY <1>2, StepGood, PutGood, IdleGood, ThreadNames DEF ClaimRelease
  <2>2. StateOK' /\ Pinned'
    BY <1>2 DEF ClaimRelease, forge, StateOK, Pinned, GateStates
  <2> QED
    BY <2>1, <2>2
<1>3. CASE ResumeForRelease
  <2>1. job["op"].run \in Runs
    BY <1>3, RunInHand, ThreadNames DEF ResumeForRelease
  <2>2. JobsGood'
    <3>1. CASE Step("op")
      BY <3>1, StepGood, ThreadNames
    <3>2. CASE job' = [job EXCEPT !["op"] = Begin("unrelease", job["op"].run)]
      BY <2>1, <3>2, PutGood, BeginGood, ThreadNames DEF Doing
    <3> QED
      BY <1>3, <3>1, <3>2 DEF ResumeForRelease
  <2>3. StateOK' /\ Pinned'
    BY <1>3 DEF ResumeForRelease, parks, forge, StateOK, Pinned, RowStates
  <2> QED
    BY <2>2, <2>3
<1>4. CASE AbandonRow
  <2>1. JobsGood'
    <3>1. PICK j \in {Advance("op"), Idle} : job' = [job EXCEPT !["op"] = j]
      BY <1>4 DEF AbandonRow
    <3>2. Good(j)
      BY AdvanceGood, IdleGood, ThreadNames
    <3> QED
      BY <3>1, <3>2, PutGood, ThreadNames
  <2>2. StateOK' /\ Pinned'
    BY <1>4 DEF AbandonRow, Abandoned, Abandonable, parks, forge, StateOK, Pinned, RowStates
  <2> QED
    BY <2>1, <2>2
<1>5. CASE Dismiss
  <2>1. JobsGood'
    BY <1>5, StepGood, ThreadNames DEF Dismiss
  <2>2. StateOK' /\ Pinned'
    BY <1>5 DEF Dismiss, forge, StateOK, Pinned, GateStates, HoldStates
  <2> QED
    BY <2>1, <2>2
<1> QED
  BY <1>1, <1>2, <1>3, <1>4, <1>5 DEF OpStep

LEMMA LanderInv ==
  ASSUME IInv, NEW t \in Landers, LanderStep(t)
  PROVE  IInv'
<1> USE DEF IInv
<1>0. t \in Threads
  BY ThreadNames
<1>1. CASE Write(t)
  BY <1>0, <1>1, WriteInv
<1>2. CASE WriteRecord(t)
  <2>1. JobsGood'
    BY <1>0, <1>2, StepGood DEF WriteRecord
  <2>2. StateOK' /\ Pinned'
    BY <1>2 DEF WriteRecord, parks, forge, StateOK, Pinned, RecordStates
  <2> QED
    BY <2>1, <2>2
<1>3. ASSUME NEW how \in {"landed", "closed", "refused"}, Landing(t, how) PROVE IInv'
  <2>1. job[t].run \in Runs
    BY <1>0, <1>3, RunInHand DEF Landing
  <2>2. PICK do \in {"gate_landed", "hold_landed", "gate_closed", "hold_closed",
                     "gate_refused", "hold_refused"} :
          job' = [job EXCEPT ![t] = Begin(do, job[t].run)]
    BY <1>3 DEF Landing
  <2>3. JobsGood'
    BY <1>0, <2>1, <2>2, PutGood, BeginGood DEF Doing
  <2>4. StateOK' /\ Pinned'
    BY <1>3 DEF Landing, parks, StateOK, Pinned
  <2> QED
    BY <2>3, <2>4
<1> QED
  BY <1>1, <1>2, <1>3 DEF LanderStep

LEMMA OperatorInv ==
  ASSUME IInv, Operator
  PROVE  IInv'
<1> USE DEF IInv
<1>1. ASSUME NEW r \in Runs, ApproveMerge(r) PROVE IInv'
  <2>1. PICK t \in Landers : job' = [job EXCEPT ![t] = Begin("land_gate", r)]
    BY <1>1 DEF ApproveMerge, Spawn
  <2>2. JobsGood'
    BY <2>1, PutGood, BeginGood, ThreadNames DEF Doing
  <2>3. StateOK' /\ Pinned'
    BY <1>1 DEF ApproveMerge, May, forge, StateOK, Pinned, GateStates
  <2> QED
    BY <2>2, <2>3
<1>2. ASSUME NEW r \in Runs, Release(r) PROVE IInv'
  <2>1. JobsGood'
    BY <1>2, PutGood, BeginGood, ThreadNames DEF Release, Doing
  <2>2. StateOK' /\ Pinned'
    BY <1>2 DEF Release, May, parks, forge, StateOK, Pinned
  <2> QED
    BY <2>1, <2>2
<1>3. ASSUME NEW r \in Runs, ResumeReview(r) PROVE IInv'
  <2>1. PICK do \in {"resume_paused", "resume_open"} :
          job' = [job EXCEPT !["op"] = Begin(do, r)]
    BY <1>3 DEF ResumeReview
  <2>2. JobsGood'
    BY <2>1, PutGood, BeginGood, ThreadNames DEF Doing
  <2>3. StateOK' /\ Pinned'
    BY <1>3 DEF ResumeReview, May, parks, forge, StateOK, Pinned
  <2> QED
    BY <2>2, <2>3
<1>4. CASE AbandonItem
  <2>1. Good([Begin("abandon", row.run) EXCEPT !.saw = row.state])
    BY DEF Good, Begin, JobType, Doing, StateOK, RowStates
  <2>2. JobsGood'
    BY <1>4, <2>1, PutGood, ThreadNames DEF AbandonItem
  <2>3. StateOK' /\ Pinned'
    BY <1>4 DEF AbandonItem, May, parks, forge, StateOK, Pinned
  <2> QED
    BY <2>2, <2>3
<1>5. CASE CliAbandon
  BY <1>5 DEF CliAbandon, Abandoned, Abandonable, May, parks, forge, JobsGood, StateOK, Pinned,
              RowStates
<1>6. CASE RetryItem
  <2>1. JobsGood'
    BY <1>6 DEF RetryItem, JobsGood
  <2>2. row' \in [state : RowStates, run : Runs \cup {NoRun}, kind : AllKinds] /\ row'.state = "queued"
    BY <1>6 DEF RetryItem, StateOK, RowStates
  <2>3. StateOK' /\ Pinned'
    BY <1>6, <2>2 DEF RetryItem, May, parks, forge, StateOK, Pinned
  <2> QED
    BY <2>1, <2>3
<1> QED
  BY <1>1, <1>2, <1>3, <1>4, <1>5, <1>6 DEF Operator

LEMMA ForgeInv ==
  ASSUME IInv, Forge
  PROVE  IInv'
<1>1. ASSUME NEW r \in Runs, NEW how \in {"closed", "by_hand"}, ForgeClose(r, how) PROVE IInv'
  BY <1>1 DEF ForgeClose, parks, IInv, JobsGood, StateOK, Pinned
<1>2. ASSUME NEW r \in Runs, NEW v \in {"approved", "changes"}, Review(r, v) PROVE IInv'
  BY <1>2 DEF Review, parks, IInv, JobsGood, StateOK, Pinned
<1> QED
  BY <1>1, <1>2 DEF Forge

LEMMA RecoverInv ==
  ASSUME IInv, Recover
  PROVE  IInv'
<1> USE DEF IInv
<1>1. CASE Restart
  BY <1>1 DEF Restart, parks, forge, JobsGood, StateOK, Pinned
<1>2. CASE ReconcileGates
  BY <1>2 DEF ReconcileGates, forge, JobsGood, StateOK, Pinned, GateStates
<1>3. CASE ReconcileHolds
  BY <1>3 DEF ReconcileHolds, forge, JobsGood, StateOK, Pinned, HoldStates
<1>4. ASSUME NEW again \in BOOLEAN, RecoverRow(again) PROVE IInv'
  <2>1. CASE row.state = "running" /\ rec[row.run] # "active"
    <3>1. row.run \in Runs
      BY <2>1 DEF Pinned
    <3>2. Settlement(row.run, again) \in Doing
      BY <3>1 DEF Settlement, AllParks, Doing
    <3>3. JobsGood'
      BY <1>4, <2>1, <3>1, <3>2, PutGood, BeginGood, ThreadNames DEF RecoverRow
    <3>4. StateOK' /\ Pinned'
      BY <1>4, <2>1 DEF RecoverRow, parks, forge, StateOK, Pinned
    <3> QED
      BY <3>3, <3>4
  <2>2. CASE ~(row.state = "running" /\ rec[row.run] # "active")
    BY <1>4, <2>2 DEF RecoverRow, parks, forge, JobsGood, StateOK, Pinned, RowStates
  <2> QED
    BY <2>1, <2>2
<1> QED
  BY <1>1, <1>2, <1>3, <1>4 DEF Recover

LEMMA CrashInv ==
  ASSUME IInv, Crash
  PROVE  IInv'
<1>1. JobsGood'
  BY IdleGood DEF Crash, JobsGood, Good
<1>2. StateOK' /\ Pinned'
  BY DEF Crash, parks, forge, IInv, StateOK, Pinned
<1> QED
  BY <1>1, <1>2 DEF IInv

LEMMA NextInv ==
  ASSUME IInv, [Next]_vars
  PROVE  IInv'
<1>1. CASE UNCHANGED vars
  BY <1>1 DEF vars, IInv, JobsGood, StateOK, Pinned, Good
<1> QED
  BY <1>1, TickInv, EngineInv, LoopInv, OperatorInv, OpInv, ForgeInv, RecoverInv, CrashInv,
     LanderInv DEF Next

\* Every reachable state is well typed, whatever the runs, landing threads, parks, verbs
\* and crashes: in particular a prompt is only ever up for a run, and a landing thread
\* never loses the run it lands (daemon/loop.py, daemon/store.py).
THEOREM TypeCorrect == Spec => []TypeOK
<1>1. Init => IInv
  BY InitInv
<1>2. IInv /\ [Next]_vars => IInv'
  BY NextInv
<1>3. IInv => TypeOK
  BY IInvTypes
<1> QED
  BY <1>1, <1>2, <1>3, PTL DEF Spec

-----------------------------------------------------------------------------
(* Decisions. *)

\* The writes to a gate or a hold outside WriteGate and WriteHold start from an open one,
\* or dismiss it.
LEMMA NextStands ==
  ASSUME StateOK, [Next]_vars
  PROVE  StandingStep
<1> SUFFICES ASSUME NEW r \in Runs
             PROVE  /\ gate[r] \in {"merged", "released", "dismissed"} => gate'[r] \notin OpenGate
                    /\ hold[r] \in {"merged", "dismissed"} => hold'[r] \notin OpenHold
  BY DEF StandingStep
<1>1. CASE gate' = gate /\ hold' = hold
  BY <1>1 DEF OpenGate, OpenHold
<1>2. ASSUME NEW t \in Threads, WriteGate(t)
      PROVE  hold' = hold /\ gate'[r] \in {gate[r], GateAfter(t, gate[r])}
  BY <1>2 DEF WriteGate, StateOK
<1>3. ASSUME NEW t \in Threads, WriteHold(t)
      PROVE  gate' = gate /\ hold'[r] \in {hold[r], HoldAfter(t, hold[r])}
  BY <1>3 DEF WriteHold, StateOK
<1>4. ASSUME NEW t \in Threads, Write(t)
      PROVE  \/ gate' = gate /\ hold' = hold
             \/ hold' = hold /\ gate'[r] \in {gate[r], GateAfter(t, gate[r])}
             \/ gate' = gate /\ hold'[r] \in {hold[r], HoldAfter(t, hold[r])}
  <2>1. WriteRow(t) => gate' = gate /\ hold' = hold
    BY DEF WriteRow, parks
  <2> QED
    BY <1>2, <1>3, <1>4, <2>1 DEF Write
<1>5. CASE \E t \in Threads : Write(t)
  BY <1>4, <1>5, GateStands, HoldStands DEF OpenGate, OpenHold
<1>6. CASE ClaimHold \/ ReconcileHolds
  BY <1>6 DEF ClaimHold, ReconcileHolds, StateOK, OpenGate, OpenHold
<1>7. CASE ClaimRelease \/ ReconcileGates \/ \E s \in Runs : ApproveMerge(s)
  BY <1>7 DEF ClaimRelease, ReconcileGates, Interrupted, ApproveMerge, StateOK, OpenGate, OpenHold
<1>8. CASE Dismiss
  BY <1>8 DEF Dismiss, StateOK, OpenGate, OpenHold
<1>9. CASE ResumeForFix \/ ResumeForRelease \/ AbandonRow
  BY <1>1, <1>9 DEF ResumeForFix, ResumeForRelease, AbandonRow, parks
<1>10. CASE Tick \/ Engine \/ Forge \/ Crash \/ UNCHANGED vars
  BY <1>1, <1>10 DEF Tick, Dispatch, Poll, Wait, SettleRun, ResumeRefused, Engine, EngineEnd,
                     Forge, ForgeClose, Review, Crash, parks, vars
<1>11. CASE Restart \/ \E again \in BOOLEAN : RecoverRow(again)
  BY <1>1, <1>11 DEF Restart, RecoverRow, parks
<1>12. ASSUME NEW t \in Landers,
              WriteRecord(t) \/ \E how \in {"landed", "closed", "refused"} : Landing(t, how)
       PROVE  gate' = gate /\ hold' = hold
  BY <1>12 DEF WriteRecord, Landing, parks
<1>13. CASE \/ \E s \in Runs : Release(s) \/ ResumeReview(s)
            \/ AbandonItem \/ CliAbandon \/ RetryItem
  BY <1>1, <1>13 DEF Release, ResumeReview, AbandonItem, CliAbandon, RetryItem, parks
<1>14. CASE \E t \in Landers : LanderStep(t)
  BY <1>1, <1>5, <1>12, <1>14, ThreadNames DEF LanderStep
<1>15. CASE LoopStep \/ OpStep
  BY <1>5, <1>6, <1>7, <1>8, <1>9, <1>15, ThreadNames DEF LoopStep, OpStep
<1>16. CASE Operator \/ Recover
  BY <1>6, <1>7, <1>11, <1>13, <1>16 DEF Operator, Recover
<1> QED
  BY <1>10, <1>14, <1>15, <1>16 DEF Next

\* A decision taken on a gate or a hold stands: whatever a late landing, a re-settle of the
\* run, a resume_review, an abandon, a crash and recover do, no step puts a finished gate or
\* hold back up (create_merge_gate, reopen_merge_gate, create_review_hold, reopen_review_hold).
THEOREM DecisionsStand == Spec => DecisionStands
<1>1. Init => IInv
  BY InitInv
<1>2. IInv /\ [Next]_vars => IInv'
  BY NextInv
<1>3. IInv /\ [Next]_vars => [StandingStep]_vars
  BY NextStands DEF IInv
<1> QED
  BY <1>1, <1>2, <1>3, PTL DEF Spec, DecisionStands

-----------------------------------------------------------------------------
(* Landings.  A gate that is being landed has left "open" for as long as a  *)
(* thread has it in hand, and what a thread lands has a pull request.       *)

\* A landing thread that has a gate in hand, from its claim to its last write.
GateJobs == {"land_gate", "gate_landed", "gate_closed", "gate_refused"}
\* Jobs on a run that put a pull request up, ...
OpenedJobs == {"gated", "held", "poll_approved", "land_gate", "land_hold", "gate_closed"}
\* ... and on one whose pull request is merged.
MergedJobs == {"gate_landed", "hold_landed", "ended_landed"}
Merged == {"landed", "by_hand"}

\* A gate in a thread's hand was claimed, by that thread alone.
ClaimedGate ==
  /\ \A t \in Threads : job[t].do \in GateJobs =>
       ~Held /\ gate[job[t].run] \notin {"none", "open"}
  /\ \A t, u \in Threads :
       job[t].do \in GateJobs /\ job[u].do \in GateJobs /\ job[t].run = job[u].run => t = u

\* Only a held publication is released.
OnlyHeldReleased == \A t \in Threads : job[t].do \in {"release", "unrelease"} => Held

\* Nobody is in the middle of anything while the daemon is down or recovering.
BootQuiet == daemon # "up" => \A t \in Threads : job[t] = Idle

ClaimInv == ClaimedGate /\ OnlyHeldReleased /\ BootQuiet

\* A code item's gate, and the record of a run that parked, stand for a pull request that
\* was opened; a record of a landing stands for one that was merged.
RecordsTrue ==
  ~Held => \A r \in Runs :
    /\ gate[r] # "none" => pr[r] # "none"
    /\ rec[r] \in AllParks => pr[r] # "none"
    /\ rec[r] = "landed" => pr[r] \in Merged

\* So is what a thread is about to write about it.
JobsTrue ==
  ~Held => \A t \in Threads :
    /\ job[t].do \in OpenedJobs => pr[job[t].run] # "none"
    /\ job[t].do \in MergedJobs => pr[job[t].run] \in Merged

LandInv == RecordsTrue /\ JobsTrue /\ DoneIsLanded

\* The jobs that start from nothing a landing rests on.
OtherJobs == {"awaiting_review", "ended_retry", "ended_failed", "pause", "poll_closed",
              "poll_changes", "refix", "abandon", "resume_open", "resume_paused",
              "hold_closed", "hold_refused"}

\* What thread t may turn to in a step, and what it rests on.
Turns(t) ==
  LET j == job[t]  k == job'[t] IN
  \/ k.do = "idle"
  \/ k.do = j.do /\ k.run = j.run
  \/ k.do \in OtherJobs
  \/ k.do \in {"gated", "held"} /\ rec[k.run] = k.do
  \/ k.do = "ended_landed" /\ rec[k.run] = "landed"
  \/ k.do = "poll_approved" /\ pr[k.run] # "none"
  \/ k.do = "land_hold" /\ \E u \in Threads : job[u].do = "poll_approved" /\ job[u].run = k.run
  \/ k.do \in {"gate_closed", "gate_refused"} /\ j.do = "land_gate" /\ k.run = j.run
  \/ /\ \/ k.do = "gate_landed" /\ j.do = "land_gate"
        \/ k.do = "hold_landed" /\ j.do = "land_hold"
     /\ k.run = j.run
     /\ pr[j.run] # "none" => pr'[j.run] \in Merged
  \/ k.do \in {"release", "unrelease"} /\ (Held \/ j.do = "release")
  \/ /\ k.do = "land_gate" /\ k.run \in Runs /\ ~Held /\ gate[k.run] = "open"
     /\ gate' = [gate EXCEPT ![k.run] = "approving"]
     /\ \A u \in Threads \ {t} : job'[u] = job[u]

LEMMA TurnsSame ==
  ASSUME NEW t \in Threads, job'[t] = job[t]
  PROVE  Turns(t)
  BY DEF Turns

LEMMA TurnsIdle ==
  ASSUME NEW t \in Threads, job'[t] = Idle
  PROVE  Turns(t)
  BY DEF Turns, Idle

\* A step through a plan is a turn, and nobody else's job changes.
LEMMA TurnsStep ==
  ASSUME JobsGood, NEW t \in Threads, Step(t)
  PROVE  \A u \in Threads : Turns(u)
<1> SUFFICES ASSUME NEW u \in Threads PROVE Turns(u)
  OBVIOUS
<1>1. CASE u # t
  BY <1>1, TurnsSame DEF Step, JobsGood
<1>2. CASE u = t
  <2>1. job'[t] = Advance(t)
    BY DEF Step, JobsGood
  <2>2. job[t] \in JobType
    BY DEF JobsGood
  <2>3. Advance(t) = Idle \/ (Advance(t).do = job[t].do /\ Advance(t).run = job[t].run)
    BY <2>2 DEF Advance, JobType
  <2> QED
    BY <1>2, <2>1, <2>3, TurnsIdle DEF Turns
<1> QED
  BY <1>1, <1>2

\* One thread begins something else.
LEMMA TurnsPut ==
  ASSUME JobsGood, NEW t \in Threads, NEW j, job' = [job EXCEPT ![t] = j],
         job'[t] = j => Turns(t)
  PROVE  \A u \in Threads : Turns(u)
<1>1. job'[t] = j /\ \A u \in Threads \ {t} : job'[u] = job[u]
  BY DEF JobsGood
<1> QED
  BY <1>1, TurnsSame

LEMMA BeginFields ==
  ASSUME NEW do, NEW r
  PROVE  Begin(do, r).do = do /\ Begin(do, r).run = r
  BY DEF Begin

\* A step named in a plan says which handler is at it.
LEMMA PlanNames ==
  ASSUME NEW do, NEW n \in DOMAIN Plan(do)
  PROVE  /\ Plan(do)[n] = "land" => do \in {"land_gate", "land_hold"}
         /\ Plan(do)[n] = "requeue" => do = "release"
         /\ Plan(do)[n] = "record" => do \in {"gate_landed", "hold_landed"}
  BY DEF Plan

LEMMA AtLand ==
  ASSUME NEW t \in Threads, At(t, "land")
  PROVE  job[t].do \in {"land_gate", "land_hold"}
  BY PlanNames DEF At

LEMMA AtRequeue ==
  ASSUME NEW t \in Threads, At(t, "requeue")
  PROVE  job[t].do = "release"
  BY PlanNames DEF At

LEMMA AtRecord ==
  ASSUME NEW t \in Threads, At(t, "record")
  PROVE  job[t].do \in {"gate_landed", "hold_landed"}
  BY PlanNames DEF At

LEMMA NotAtIdle ==
  ASSUME NEW t \in Threads, job[t] = Idle, NEW s, At(t, s)
  PROVE  FALSE
  BY DEF At, Plan, Idle

LEMMA TickTurns ==
  ASSUME IInv, Tick
  PROVE  \A t \in Threads : Turns(t)
<1> USE DEF IInv
<1>1. CASE job' = job
  BY <1>1, TurnsSame
<1>2. ASSUME NEW r \in Runs, Poll(r) PROVE \A t \in Threads : Turns(t)
  <2>1. PICK do \in {"pause", "poll_closed", "poll_changes", "poll_approved"} :
          /\ job' = [job EXCEPT !["loop"] = Begin(do, r)]
          /\ do = "poll_approved" => pr[r] # "none"
    BY <1>2 DEF Poll
  <2>2. job'["loop"] = Begin(do, r) => Turns("loop")
    BY <2>1, BeginFields DEF Turns, OtherJobs
  <2> QED
    BY <2>1, <2>2, TurnsPut, ThreadNames
<1>3. ASSUME NEW again \in BOOLEAN, SettleRun(again), OnRun(live)
      PROVE  \A t \in Threads : Turns(t)
  <2>1. job' = [job EXCEPT !["loop"] = Begin(Settlement(live, again), live)]
    BY <1>3 DEF SettleRun
  <2>2. job'["loop"] = Begin(Settlement(live, again), live) => Turns("loop")
    BY BeginFields DEF Turns, OtherJobs, Settlement, AllParks
  <2> QED
    BY <2>1, <2>2, TurnsPut, ThreadNames
<1>4. ASSUME NEW again \in BOOLEAN, ResumeRefused(again) PROVE \A t \in Threads : Turns(t)
  <2>1. PICK do \in {"ended_retry", "ended_failed"} :
          job' = [job EXCEPT !["loop"] = Begin(do, row.run)]
    BY <1>4 DEF ResumeRefused
  <2>2. job'["loop"] = Begin(do, row.run) => Turns("loop")
    BY BeginFields DEF Turns, OtherJobs
  <2> QED
    BY <2>1, <2>2, TurnsPut, ThreadNames
<1> QED
  BY <1>1, <1>2, <1>3, <1>4 DEF Tick, Dispatch, Wait, SettleRun

LEMMA WriteTurns ==
  ASSUME IInv, NEW t \in Threads, Write(t)
  PROVE  \A u \in Threads : Turns(u)
  BY TurnsStep DEF IInv, Write, WriteGate, WriteHold, WriteRow

LEMMA LoopTurns ==
  ASSUME IInv, LoopStep
  PROVE  \A t \in Threads : Turns(t)
<1> USE DEF IInv
<1>1. CASE Step("loop")
  BY <1>1, TurnsStep, ThreadNames
<1>2. CASE job' = [job EXCEPT !["loop"] = Idle]
  <2>1. job'["loop"] = Idle => Turns("loop")
    BY TurnsIdle, ThreadNames
  <2> QED
    BY <1>2, <2>1, TurnsPut, ThreadNames
<1>3. ASSUME NEW l \in Landers, job["loop"].do = "poll_approved",
             job' = [job EXCEPT !["loop"] = Idle, ![l] = Begin("land_hold", job["loop"].run)]
      PROVE  \A t \in Threads : Turns(t)
  <2>1. l # "loop" /\ l \in Threads
    BY ParkingAssumption, ThreadNames
  <2>2. job'["loop"] = Idle /\ job'[l] = Begin("land_hold", job["loop"].run)
    BY <1>3, <2>1, ThreadNames DEF JobsGood
  <2>3. \A u \in Threads \ {"loop", l} : job'[u] = job[u]
    BY <1>3 DEF JobsGood
  <2>4. Turns(l)
    <3>1. job'[l].do = "land_hold" /\ job'[l].run = job["loop"].run
      BY <2>2, BeginFields
    <3>2. \E u \in Threads : job[u].do = "poll_approved" /\ job[u].run = job'[l].run
      BY <1>3, <3>1, ThreadNames, Zenon
    <3> QED
      BY <3>1, <3>2, Zenon DEF Turns
  <2> QED
    BY <2>2, <2>3, <2>4, TurnsIdle, TurnsSame, ThreadNames
<1>4. CASE job' = [job EXCEPT !["loop"] = Begin("refix", job["loop"].run)]
  <2>1. job'["loop"] = Begin("refix", job["loop"].run) => Turns("loop")
    BY BeginFields DEF Turns, OtherJobs
  <2> QED
    BY <1>4, <2>1, TurnsPut, ThreadNames
<1>5. CASE Write("loop")
  BY <1>5, WriteTurns, ThreadNames
<1>6. CASE ClaimHold
  BY <1>1, <1>2, <1>3, <1>6 DEF ClaimHold
<1> QED
  BY <1>1, <1>4, <1>5, <1>6 DEF LoopStep, ResumeForFix

LEMMA OpTurns ==
  ASSUME IInv, OpStep
  PROVE  \A t \in Threads : Turns(t)
<1> USE DEF IInv
<1>1. CASE Step("op")
  BY <1>1, TurnsStep, ThreadNames
<1>2. CASE job' = [job EXCEPT !["op"] = Idle]
  <2>1. job'["op"] = Idle => Turns("op")
    BY TurnsIdle, ThreadNames
  <2> QED
    BY <1>2, <2>1, TurnsPut, ThreadNames
<1>3. CASE At("op", "requeue") /\ job' = [job EXCEPT !["op"] = Begin("unrelease", job["op"].run)]
  <2>1. job["op"].do = "release"
    BY <1>3, AtRequeue, ThreadNames
  <2>2. job'["op"] = Begin("unrelease", job["op"].run) => Turns("op")
    BY <2>1, BeginFields DEF Turns
  <2> QED
    BY <1>3, <2>2, TurnsPut, ThreadNames
<1>4. CASE Write("op")
  BY <1>4, WriteTurns, ThreadNames
<1>5. CASE AbandonRow
  BY <1>1, <1>2, <1>5 DEF AbandonRow, Step
<1> QED
  BY <1>1, <1>2, <1>3, <1>4, <1>5 DEF OpStep, ClaimRelease, ResumeForRelease, Dismiss

LEMMA LanderTurns ==
  ASSUME IInv, NEW t \in Landers, LanderStep(t)
  PROVE  \A u \in Threads : Turns(u)
<1> USE DEF IInv
<1>0. t \in Threads
  BY ThreadNames
<1>1. CASE Write(t)
  BY <1>0, <1>1, WriteTurns
<1>2. CASE WriteRecord(t)
  BY <1>0, <1>2, TurnsStep DEF WriteRecord
<1>3. ASSUME NEW how \in {"landed", "closed", "refused"}, Landing(t, how)
      PROVE  \A u \in Threads : Turns(u)
  <2>1. job[t].do \in {"land_gate", "land_hold"} /\ job[t].run \in Runs
    BY <1>0, <1>3, AtLand, RunInHand DEF Landing
  <2>2. PICK do \in {"gate_landed", "hold_landed", "gate_closed", "hold_closed",
                     "gate_refused", "hold_refused"} :
          /\ job' = [job EXCEPT ![t] = Begin(do, job[t].run)]
          /\ do \in {"gate_landed", "gate_closed", "gate_refused"} <=> job[t].do = "land_gate"
          /\ do \in {"gate_landed", "hold_landed"} =>
               pr[job[t].run] # "closed"
               /\ pr' = [pr EXCEPT ![job[t].run] = IF @ = "open" THEN "landed" ELSE @]
    BY <1>3, <2>1 DEF Landing
  <2>3. do \in {"gate_landed", "hold_landed"} =>
          (pr[job[t].run] # "none" => pr'[job[t].run] \in Merged)
    BY <2>1, <2>2 DEF StateOK, Merged
  <2>4. job'[t] = Begin(do, job[t].run) => Turns(t)
    BY <2>1, <2>2, <2>3, BeginFields DEF Turns, OtherJobs
  <2> QED
    BY <1>0, <2>2, <2>4, TurnsPut
<1> QED
  BY <1>1, <1>2, <1>3 DEF LanderStep

LEMMA OperatorTurns ==
  ASSUME IInv, Operator
  PROVE  \A t \in Threads : Turns(t)
<1> USE DEF IInv
<1>1. ASSUME NEW r \in Runs, ApproveMerge(r) PROVE \A t \in Threads : Turns(t)
  <2>1. PICK t \in Landers : job' = [job EXCEPT ![t] = Begin("land_gate", r)]
    BY <1>1 DEF ApproveMerge, Spawn
  <2>2. t \in Threads
    BY ThreadNames
  <2>3. \A u \in Threads \ {t} : job'[u] = job[u]
    BY <2>1 DEF JobsGood
  <2>4. gate[r] = "open" /\ gate' = [gate EXCEPT ![r] = "approving"] /\ ~Held
    BY <1>1 DEF ApproveMerge
  <2>5. ASSUME job'[t] = Begin("land_gate", r) PROVE Turns(t)
    <3>1. job'[t].do = "land_gate" /\ job'[t].run = r
      BY <2>5, BeginFields
    <3> QED
      BY <2>3, <2>4, <3>1, Zenon DEF Turns
  <2> QED
    BY <2>1, <2>2, <2>5, TurnsPut
<1>2. ASSUME NEW r \in Runs, NEW do \in {"resume_paused", "resume_open"},
             job' = [job EXCEPT !["op"] = Begin(do, r)]
      PROVE  \A t \in Threads : Turns(t)
  <2>1. job'["op"] = Begin(do, r) => Turns("op")
    BY BeginFields DEF Turns, OtherJobs
  <2> QED
    BY <1>2, <2>1, TurnsPut, ThreadNames
<1>3. ASSUME NEW r \in Runs, Release(r) PROVE \A t \in Threads : Turns(t)
  <2>1. job'["op"] = Begin("release", r) => Turns("op")
    BY <1>3, BeginFields DEF Turns, Release
  <2> QED
    BY <1>3, <2>1, TurnsPut, ThreadNames DEF Release
<1>4. CASE AbandonItem
  <2>1. PICK j : j = [Begin("abandon", row.run) EXCEPT !.saw = row.state]
    OBVIOUS
  <2>2. j.do = "abandon"
    BY <2>1 DEF Begin
  <2>3. job'["op"] = j => Turns("op")
    BY <2>2 DEF Turns, OtherJobs
  <2> QED
    BY <1>4, <2>1, <2>3, TurnsPut, ThreadNames DEF AbandonItem
<1>5. CASE CliAbandon \/ RetryItem
  BY <1>5, TurnsSame DEF CliAbandon, RetryItem
<1> QED
  BY <1>1, <1>2, <1>3, <1>4, <1>5 DEF Operator, ResumeReview

LEMMA RecoverTurns ==
  ASSUME IInv, Recover
  PROVE  \A t \in Threads : Turns(t)
<1> USE DEF IInv
<1>1. CASE job' = job
  BY <1>1, TurnsSame
<1>2. ASSUME NEW again \in BOOLEAN,
             job' = [job EXCEPT !["loop"] = Begin(Settlement(row.run, again), row.run)]
      PROVE  \A t \in Threads : Turns(t)
  <2>1. job'["loop"] = Begin(Settlement(row.run, again), row.run) => Turns("loop")
    BY BeginFields DEF Turns, OtherJobs, Settlement, AllParks
  <2> QED
    BY <1>2, <2>1, TurnsPut, ThreadNames
<1> QED
  BY <1>1, <1>2 DEF Recover, Restart, ReconcileGates, ReconcileHolds, RecoverRow

LEMMA NextTurns ==
  ASSUME IInv, [Next]_vars
  PROVE  \A t \in Threads : Turns(t)
<1>1. CASE Engine \/ Forge \/ UNCHANGED vars
  BY <1>1, TurnsSame DEF Engine, EngineEnd, Forge, ForgeClose, Review, vars
<1>2. CASE Crash
  BY <1>2, TurnsIdle DEF Crash
<1> QED
  BY <1>1, <1>2, TickTurns, LoopTurns, OperatorTurns, OpTurns, RecoverTurns, LanderTurns DEF Next

\* An item stays what it is.
LEMMA KindKept ==
  ASSUME IInv, [Next]_vars
  PROVE  Held' = Held
<1> USE DEF IInv
<1>1. CASE row' = row
  BY <1>1 DEF Held
<1>2. ASSUME NEW t \in Threads, Write(t) PROVE row'.kind = row.kind
  <2>1. RowAfter(t).kind = row.kind
    BY DEF RowAfter, Abandoned, StateOK
  <2> QED
    BY <1>2, <2>1 DEF Write, WriteGate, WriteHold, WriteRow
<1>3. Abandoned.kind = row.kind
  BY DEF Abandoned, StateOK
<1>4. CASE LoopStep
  <2>1. ResumeForFix => row'.kind = row.kind
    BY DEF ResumeForFix, StateOK
  <2> QED
    BY <1>1, <1>2, <1>4, <2>1, ThreadNames DEF LoopStep, ClaimHold, Held
<1>5. CASE OpStep
  <2>1. ResumeForRelease => row'.kind = row.kind
    BY DEF ResumeForRelease, StateOK
  <2> QED
    BY <1>1, <1>2, <1>3, <1>5, <2>1, ThreadNames
    DEF OpStep, ClaimRelease, AbandonRow, Dismiss, Held
<1>6. CASE Operator
  <2>1. RetryItem => row'.kind = row.kind
    BY DEF RetryItem, StateOK
  <2> QED
    BY <1>1, <1>3, <1>6, <2>1
    DEF Operator, ApproveMerge, Release, ResumeReview, AbandonItem, CliAbandon, Held
<1>7. CASE Tick
  <2>1. \A r \in Runs : Dispatch(r) => row'.kind = row.kind
    BY DEF Dispatch, StateOK
  <2> QED
    BY <1>1, <1>7, <2>1 DEF Tick, Poll, Wait, SettleRun, ResumeRefused, Held
<1>8. CASE Recover
  <2>1. \A again \in BOOLEAN : RecoverRow(again) => row'.kind = row.kind
    BY DEF RecoverRow, StateOK
  <2> QED
    BY <1>1, <1>8, <2>1 DEF Recover, Restart, ReconcileGates, ReconcileHolds, Held
<1>9. CASE \E t \in Landers : LanderStep(t)
  BY <1>1, <1>2, <1>9, ThreadNames DEF LanderStep, WriteRecord, Landing, Held
<1>10. CASE Engine \/ Forge \/ Crash \/ UNCHANGED vars
  BY <1>1, <1>10 DEF Engine, EngineEnd, Forge, ForgeClose, Review, Crash, vars
<1> QED
  BY <1>4, <1>5, <1>6, <1>7, <1>8, <1>9, <1>10 DEF Next

\* A pull request is never taken back, nor a merge undone.
LEMMA PullRequestKept ==
  ASSUME IInv, [Next]_vars, NEW r \in Runs
  PROVE  /\ pr[r] # "none" => pr'[r] # "none"
         /\ pr[r] \in Merged => pr'[r] \in Merged
<1> USE DEF IInv
<1>1. CASE pr' = pr
  BY <1>1
<1>2. ASSUME NEW s \in Runs, NEW how \in Parks \cup {"landed", "failed"}, EngineEnd(s, how)
      PROVE  /\ pr[r] # "none" => pr'[r] # "none"
             /\ pr[r] \in Merged => pr'[r] \in Merged
  <2>1. how # "failed" => pr[s] \notin Merged
    BY <1>2, ParkingAssumption DEF EngineEnd, Merged
  <2>2. pr' = pr \/ (how # "failed" /\ pr' = [pr EXCEPT ![s] = IF how = "landed" THEN "landed" ELSE "open"])
    BY <1>2 DEF EngineEnd
  <2> QED
    BY <1>1, <2>1, <2>2 DEF StateOK, Merged
<1>3. ASSUME NEW t \in Landers, NEW how, Landing(t, how)
      PROVE  /\ pr[r] # "none" => pr'[r] # "none"
             /\ pr[r] \in Merged => pr'[r] \in Merged
  BY <1>3 DEF Landing, StateOK, Merged
<1>4. ASSUME NEW s \in Runs, NEW how \in {"closed", "by_hand"}, ForgeClose(s, how)
      PROVE  /\ pr[r] # "none" => pr'[r] # "none"
             /\ pr[r] \in Merged => pr'[r] \in Merged
  BY <1>4 DEF ForgeClose, StateOK, Merged
<1>5. ASSUME NEW t \in Threads, Write(t) PROVE pr' = pr
  BY <1>5 DEF Write, WriteGate, WriteHold, WriteRow, forge
<1>6. CASE LoopStep \/ OpStep
  BY <1>1, <1>5, <1>6, ThreadNames DEF LoopStep, ClaimHold, ResumeForFix, OpStep,
     ClaimRelease, ResumeForRelease, AbandonRow, Dismiss, forge
<1>7. CASE Operator \/ Tick
  BY <1>1, <1>7 DEF Operator, ApproveMerge, Release, ResumeReview, AbandonItem, CliAbandon,
     RetryItem, Tick, Dispatch, Poll, Wait, SettleRun, ResumeRefused, forge
<1>8. CASE Recover \/ Crash \/ UNCHANGED vars
  BY <1>1, <1>8 DEF Recover, Restart, ReconcileGates, ReconcileHolds, RecoverRow, Crash, forge, vars
<1>9. CASE \E t \in Landers : LanderStep(t)
  BY <1>1, <1>3, <1>5, <1>9, ThreadNames DEF LanderStep, WriteRecord, forge
<1>10. CASE Forge
  BY <1>1, <1>4, <1>10 DEF Forge, Review
<1>11. CASE Engine
  BY <1>2, <1>11 DEF Engine
<1> QED
  BY <1>6, <1>7, <1>8, <1>9, <1>10, <1>11 DEF Next

\* With nobody in the middle of anything, only an up daemon begins something.
LEMMA BootQuietKept ==
  ASSUME IInv, BootQuiet, [Next]_vars
  PROVE  BootQuiet'
<1> SUFFICES ASSUME daemon' # "up" PROVE \A t \in Threads : job'[t] = Idle
  BY DEF BootQuiet
<1>1. CASE Crash
  BY <1>1 DEF Crash
<1>2. CASE daemon # "up" /\ job' = job
  BY <1>2 DEF BootQuiet
<1>3. ASSUME NEW t \in Threads, NEW s, At(t, s), daemon' = daemon PROVE FALSE
  BY <1>3, NotAtIdle DEF BootQuiet
<1>4. ASSUME NEW t \in Threads, Write(t) PROVE FALSE
  BY <1>3, <1>4 DEF Write, WriteGate, WriteHold, WriteRow
<1>5. CASE LoopStep
  BY <1>3, <1>4, <1>5, ThreadNames DEF LoopStep, ClaimHold, ResumeForFix
<1>6. CASE OpStep
  BY <1>3, <1>4, <1>6, ThreadNames DEF OpStep, ClaimRelease, ResumeForRelease, AbandonRow, Dismiss
<1>7. CASE Operator
  BY <1>2, <1>7 DEF Operator, ApproveMerge, Release, ResumeReview, AbandonItem, CliAbandon,
     RetryItem, OpFree
<1>8. CASE Tick
  BY <1>2, <1>8 DEF Tick, Dispatch, Poll, Wait, SettleRun, ResumeRefused, LoopFree
<1>9. CASE \E t \in Landers : LanderStep(t)
  BY <1>3, <1>4, <1>9, ThreadNames DEF LanderStep, WriteRecord, Landing
<1>10. CASE Recover
  BY <1>2, <1>10 DEF Recover, Restart, ReconcileGates, ReconcileHolds, RecoverRow
<1>11. CASE Engine \/ Forge \/ UNCHANGED vars
  BY <1>2, <1>11 DEF Engine, EngineEnd, Forge, ForgeClose, Review, vars
<1> QED
  BY <1>1, <1>5, <1>6, <1>7, <1>8, <1>9, <1>10, <1>11 DEF Next

\* A refused landing writes its gate and is over.
LEMMA RefusedEnds ==
  ASSUME NEW t \in Threads, At(t, "gate"), job[t].do = "gate_refused"
  PROVE  Advance(t) = Idle
<1>1. Plan(job[t].do) = <<"gate">>
  BY DEF Plan
<1>2. DOMAIN Plan(job[t].do) = {1}
  BY <1>1
<1> QED
  BY <1>2 DEF At, Advance

\* No write to a gate that a thread has in hand opens it, but that thread's own last one.
LEMMA GateInHand ==
  ASSUME IInv, ClaimInv, [Next]_vars, NEW t \in Threads, job[t].do \in GateJobs,
         job'[t].do \in GateJobs, NEW r \in Runs, job[t].run = r
  PROVE  gate'[r] \notin {"none", "open"}
<1> USE DEF IInv
<1>1. gate[r] \notin {"none", "open"} /\ ~Held
  BY DEF ClaimInv, ClaimedGate
<1>2. CASE gate' = gate
  BY <1>1, <1>2
<1>3. ASSUME NEW u \in Threads, WriteGate(u) PROVE gate'[r] \notin {"none", "open"}
  <2>1. gate'[r] = gate[r] \/ (job[u].run = r /\ gate'[r] = GateAfter(u, gate[r]))
    BY <1>3 DEF WriteGate, StateOK
  <2>2. CASE u = t
    <3>1. job[t].do # "gate_refused"
      <4> SUFFICES ASSUME job[t].do = "gate_refused" PROVE FALSE
        OBVIOUS
      <4>1. job'[t] = Idle
        BY <1>3, <2>2, RefusedEnds DEF WriteGate, Step, JobsGood
      <4> QED
        BY <4>1 DEF Idle, GateJobs
    <3> QED
      BY <1>1, <2>1, <2>2, <3>1 DEF GateAfter, GateJobs, OpenGate
  <2>3. CASE u # t /\ job[u].run = r
    <3>1. job[u].do \notin GateJobs
      BY <2>3 DEF ClaimInv, ClaimedGate
    <3>2. job[u].do # "unrelease"
      BY <1>1 DEF ClaimInv, OnlyHeldReleased
    <3> QED
      BY <1>1, <2>1, <3>1, <3>2 DEF GateAfter, GateJobs, OpenGate
  <2> QED
    BY <1>1, <2>1, <2>2, <2>3
<1>4. ASSUME NEW u \in Threads, Write(u) PROVE gate'[r] \notin {"none", "open"}
  BY <1>2, <1>3, <1>4 DEF Write, WriteHold, WriteRow, parks
<1>5. CASE LoopStep
  BY <1>2, <1>4, <1>5, ThreadNames DEF LoopStep, ClaimHold, ResumeForFix, parks
<1>6. CASE OpStep
  <2>1. CASE ClaimRelease
    BY <1>1, <2>1 DEF ClaimRelease, StateOK
  <2>2. CASE Dismiss
    BY <1>1, <2>2 DEF Dismiss, StateOK
  <2> QED
    BY <1>2, <1>4, <1>6, <2>1, <2>2, ThreadNames DEF OpStep, ResumeForRelease, AbandonRow, parks
<1>7. CASE Operator
  <2>1. ASSUME NEW s \in Runs, ApproveMerge(s) PROVE gate'[r] \notin {"none", "open"}
    BY <1>1, <2>1 DEF ApproveMerge, StateOK
  <2> QED
    BY <1>2, <1>7, <2>1
    DEF Operator, Release, ResumeReview, AbandonItem, CliAbandon, RetryItem, parks
<1>8. CASE Tick
  BY <1>2, <1>8 DEF Tick, Dispatch, Poll, Wait, SettleRun, ResumeRefused, parks
<1>9. CASE \E u \in Landers : LanderStep(u)
  BY <1>2, <1>4, <1>9, ThreadNames DEF LanderStep, WriteRecord, Landing, parks
<1>10. CASE Recover
  <2>1. daemon = "up"
    BY DEF ClaimInv, BootQuiet, Idle, GateJobs
  <2> QED
    BY <1>10, <2>1 DEF Recover, Restart, ReconcileGates, ReconcileHolds, RecoverRow
<1>11. CASE Engine \/ Forge \/ Crash \/ UNCHANGED vars
  BY <1>2, <1>11 DEF Engine, EngineEnd, Forge, ForgeClose, Review, Crash, parks, vars
<1> QED
  BY <1>5, <1>6, <1>7, <1>8, <1>9, <1>10, <1>11 DEF Next

\* A thread with a gate in hand had it already, or has just claimed it.
LEMMA GateTurns ==
  ASSUME NEW t \in Threads, Turns(t), job'[t].do \in GateJobs
  PROVE  \/ job[t].do \in GateJobs /\ job'[t].run = job[t].run
         \/ /\ job'[t].run \in Runs /\ ~Held /\ gate[job'[t].run] = "open"
            /\ gate' = [gate EXCEPT ![job'[t].run] = "approving"]
            /\ \A u \in Threads \ {t} : job'[u] = job[u]
  BY DEF Turns, GateJobs, OtherJobs

LEMMA ReleaseTurns ==
  ASSUME NEW t \in Threads, Turns(t), job'[t].do \in {"release", "unrelease"}
  PROVE  Held \/ job[t].do \in {"release", "unrelease"}
  BY DEF Turns, OtherJobs

LEMMA ClaimNext ==
  ASSUME IInv, ClaimInv, [Next]_vars
  PROVE  ClaimInv'
<1> USE DEF IInv
<1>1. \A t \in Threads : Turns(t)
  BY NextTurns
<1>2. Held' = Held
  BY KindKept
<1>3. BootQuiet'
  BY BootQuietKept DEF ClaimInv
<1>4. OnlyHeldReleased'
  <2> SUFFICES ASSUME NEW t \in Threads, job'[t].do \in {"release", "unrelease"} PROVE Held
    BY <1>2, Zenon DEF OnlyHeldReleased
  <2> QED
    BY <1>1, ReleaseTurns DEF ClaimInv, OnlyHeldReleased
<1>5. ASSUME NEW t \in Threads, job'[t].do \in GateJobs
      PROVE  ~Held /\ gate'[job'[t].run] \notin {"none", "open"}
  <2>1. CASE job[t].do \in GateJobs /\ job'[t].run = job[t].run
    <3>1. job[t].run \in Runs
      BY <2>1 DEF JobsGood, Good, GateJobs
    <3>2. PICK r \in Runs : r = job[t].run
      BY <3>1
    <3>3. gate'[r] \notin {"none", "open"}
      BY <1>5, <2>1, <3>2, GateInHand
    <3> QED
      BY <2>1, <3>2, <3>3 DEF ClaimInv, ClaimedGate
  <2>2. CASE /\ job'[t].run \in Runs /\ ~Held
             /\ gate' = [gate EXCEPT ![job'[t].run] = "approving"]
    BY <2>2 DEF StateOK
  <2> QED
    BY <1>1, <1>5, <2>1, <2>2, GateTurns
<1>6. ASSUME NEW t \in Threads, NEW u \in Threads, job'[t].do \in GateJobs,
             job'[u].do \in GateJobs, job'[t].run = job'[u].run
      PROVE  t = u
  <2>1. CASE /\ job[t].do \in GateJobs /\ job'[t].run = job[t].run
             /\ job[u].do \in GateJobs /\ job'[u].run = job[u].run
    BY <1>6, <2>1 DEF ClaimInv, ClaimedGate
  <2>2. ASSUME NEW v \in Threads, NEW w \in Threads, v # w, job'[w].do \in GateJobs,
               job'[v].run = job'[w].run, gate[job'[v].run] = "open",
               \A x \in Threads \ {v} : job'[x] = job[x]
        PROVE  FALSE
    BY <2>2 DEF ClaimInv, ClaimedGate
  <2>3. \/ job[t].do \in GateJobs /\ job'[t].run = job[t].run
        \/ gate[job'[t].run] = "open" /\ \A x \in Threads \ {t} : job'[x] = job[x]
    BY <1>1, <1>6, GateTurns
  <2>4. \/ job[u].do \in GateJobs /\ job'[u].run = job[u].run
        \/ gate[job'[u].run] = "open" /\ \A x \in Threads \ {u} : job'[x] = job[x]
    BY <1>1, <1>6, GateTurns
  <2> QED
    BY <1>6, <2>1, <2>2, <2>3, <2>4
<1>7. ClaimedGate'
  BY <1>2, <1>5, <1>6, Zenon DEF ClaimedGate
<1> QED
  BY <1>3, <1>4, <1>7 DEF ClaimInv

LEMMA ClaimInit == Init => ClaimInv
  BY DEF Init, ClaimInv, ClaimedGate, OnlyHeldReleased, BootQuiet, Idle, GateJobs

\* One approval, one landing, for any number of landing threads, clicks and crashes: two
\* threads never land one gate at once (claim_merge_gate, _complete_landing,
\* _reconcile_gates).
THEOREM OneClickWins == Spec => []OneLandingPerGate
<1>1. Init => IInv /\ ClaimInv
  BY InitInv, ClaimInit
<1>2. IInv /\ ClaimInv /\ [Next]_vars => IInv' /\ ClaimInv'
  BY NextInv, ClaimNext
<1>3. ClaimInv => OneLandingPerGate
  BY ThreadNames DEF ClaimInv, ClaimedGate, OneLandingPerGate, BothLand, GateJobs
<1> QED
  BY <1>1, <1>2, <1>3, PTL DEF Spec

\* A thread on a run with a pull request, or with a merged one, had it already, or turned
\* to it from what says so.
LEMMA OpenedTurns ==
  ASSUME NEW t \in Threads, Turns(t), job'[t].do \in OpenedJobs
  PROVE  \/ job[t].do \in OpenedJobs /\ job'[t].run = job[t].run
         \/ rec[job'[t].run] \in AllParks
         \/ pr[job'[t].run] # "none"
         \/ \E u \in Threads : job[u].do \in OpenedJobs /\ job[u].run = job'[t].run
         \/ job'[t].run \in Runs /\ gate[job'[t].run] = "open"
  BY DEF Turns, OpenedJobs, OtherJobs, AllParks

LEMMA MergedTurns ==
  ASSUME NEW t \in Threads, Turns(t), job'[t].do \in MergedJobs
  PROVE  \/ job[t].do \in MergedJobs /\ job'[t].run = job[t].run
         \/ rec[job'[t].run] = "landed"
         \/ /\ job[t].do \in OpenedJobs /\ job'[t].run = job[t].run
            /\ pr[job[t].run] # "none" => pr'[job[t].run] \in Merged
  BY DEF Turns, MergedJobs, OpenedJobs, OtherJobs

LEMMA JobsTrueKept ==
  ASSUME IInv, LandInv, ~Held, [Next]_vars
  PROVE  JobsTrue'
<1> USE DEF IInv
<1>1. \A t \in Threads : Turns(t)
  BY NextTurns
<1>2. IInv'
  BY NextInv
<1>3. RecordsTrue /\ JobsTrue
  BY DEF LandInv
<1>4. ASSUME NEW t \in Threads, job'[t].do \in OpenedJobs PROVE pr'[job'[t].run] # "none"
  <2>1. job'[t].run \in Runs
    BY <1>2, <1>4 DEF JobsGood, Good, OpenedJobs
  <2>2. PICK r \in Runs : r = job'[t].run
    BY <2>1
  <2>3. pr[r] # "none"
    BY <1>1, <1>3, <1>4, <2>2, OpenedTurns DEF RecordsTrue, JobsTrue
  <2>4. pr'[r] # "none"
    BY <2>3, PullRequestKept
  <2> QED
    BY <2>2, <2>4
<1>5. ASSUME NEW t \in Threads, job'[t].do \in MergedJobs PROVE pr'[job'[t].run] \in Merged
  <2>1. job'[t].run \in Runs
    BY <1>2, <1>5 DEF JobsGood, Good, MergedJobs
  <2>2. PICK r \in Runs : r = job'[t].run
    BY <2>1
  <2>3. pr[r] \in Merged \/ pr'[r] \in Merged
    BY <1>1, <1>3, <1>5, <2>2, MergedTurns DEF RecordsTrue, JobsTrue
  <2>4. pr'[r] \in Merged
    BY <2>3, PullRequestKept
  <2> QED
    BY <2>2, <2>4
<1> QED
  BY <1>4, <1>5, Zenon DEF JobsTrue

\* A gate that appears is that of a run with a pull request.
LEMMA GateTrueKept ==
  ASSUME IInv, LandInv, ~Held, [Next]_vars, NEW r \in Runs, gate'[r] # "none"
  PROVE  pr[r] # "none"
<1> USE DEF IInv
<1>1. gate[r] # "none" => pr[r] # "none"
  BY DEF LandInv, RecordsTrue
<1>2. CASE gate' = gate
  BY <1>1, <1>2
<1>3. ASSUME NEW t \in Threads, WriteGate(t) PROVE pr[r] # "none"
  <2>1. gate'[r] = gate[r] \/ (job[t].run = r /\ gate'[r] = GateAfter(t, gate[r]))
    BY <1>3 DEF WriteGate, StateOK
  <2>2. CASE job[t].do \in OpenedJobs \cup MergedJobs /\ job[t].run = r
    BY <2>2 DEF LandInv, JobsTrue, Merged
  <2>3. CASE job[t].do \notin OpenedJobs \cup MergedJobs
    <3>1. gate[r] = "none" => GateAfter(t, gate[r]) = "none"
      BY <2>3 DEF GateAfter, OpenedJobs, MergedJobs, OpenGate
    <3> QED
      BY <1>1, <2>1, <3>1
  <2> QED
    BY <1>1, <2>1, <2>2, <2>3
<1>4. ASSUME NEW t \in Threads, Write(t) PROVE pr[r] # "none"
  BY <1>2, <1>3, <1>4 DEF Write, WriteHold, WriteRow, parks
<1>5. CASE LoopStep
  BY <1>2, <1>4, <1>5, ThreadNames DEF LoopStep, ClaimHold, ResumeForFix, parks
<1>6. CASE OpStep
  <2>1. CASE ClaimRelease
    BY <1>1, <2>1 DEF ClaimRelease, StateOK
  <2>2. CASE Dismiss
    BY <1>1, <2>2 DEF Dismiss, StateOK, OpenGate
  <2> QED
    BY <1>2, <1>4, <1>6, <2>1, <2>2, ThreadNames DEF OpStep, ResumeForRelease, AbandonRow, parks
<1>7. CASE Operator
  <2>1. ASSUME NEW s \in Runs, ApproveMerge(s) PROVE pr[r] # "none"
    BY <1>1, <2>1 DEF ApproveMerge, StateOK
  <2> QED
    BY <1>2, <1>7, <2>1
    DEF Operator, Release, ResumeReview, AbandonItem, CliAbandon, RetryItem, parks
<1>8. CASE Tick
  BY <1>2, <1>8 DEF Tick, Dispatch, Poll, Wait, SettleRun, ResumeRefused, parks
<1>9. CASE \E u \in Landers : LanderStep(u)
  BY <1>2, <1>4, <1>9, ThreadNames DEF LanderStep, WriteRecord, Landing, parks
<1>10. CASE Recover
  <2>1. ReconcileGates => gate[r] # "none"
    BY DEF ReconcileGates, Interrupted
  <2> QED
    BY <1>1, <1>2, <1>10, <2>1 DEF Recover, Restart, ReconcileHolds, RecoverRow, parks
<1>11. CASE Engine \/ Forge \/ Crash \/ UNCHANGED vars
  BY <1>2, <1>11 DEF Engine, EngineEnd, Forge, ForgeClose, Review, Crash, parks, vars
<1> QED
  BY <1>5, <1>6, <1>7, <1>8, <1>9, <1>10, <1>11 DEF Next

\* A record that says parked, or landed, is true of the pull request.
LEMMA RecordTrueKept ==
  ASSUME IInv, LandInv, ~Held, [Next]_vars, NEW r \in Runs
  PROVE  /\ rec'[r] \in AllParks => pr'[r] # "none"
         /\ rec'[r] = "landed" => pr'[r] \in Merged
<1> USE DEF IInv
<1>0. /\ pr[r] # "none" => pr'[r] # "none"
      /\ pr[r] \in Merged => pr'[r] \in Merged
  BY PullRequestKept
<1>1. /\ rec[r] \in AllParks => pr[r] # "none"
      /\ rec[r] = "landed" => pr[r] \in Merged
  BY DEF LandInv, RecordsTrue
<1>2. CASE rec' = rec
  BY <1>0, <1>1, <1>2
<1>3. ASSUME NEW s \in Runs, Dispatch(s)
      PROVE  /\ rec'[r] \in AllParks => pr'[r] # "none"
             /\ rec'[r] = "landed" => pr'[r] \in Merged
  BY <1>0, <1>1, <1>3 DEF Dispatch, StateOK, AllParks
<1>4. ASSUME NEW s \in Runs, NEW how \in Parks \cup {"landed", "failed"}, EngineEnd(s, how)
      PROVE  /\ rec'[r] \in AllParks => pr'[r] # "none"
             /\ rec'[r] = "landed" => pr'[r] \in Merged
  <2>1. rec' = [rec EXCEPT ![s] = how]
    BY <1>4 DEF EngineEnd
  <2>2. CASE s # r
    BY <1>0, <1>1, <2>1, <2>2 DEF StateOK
  <2>3. CASE s = r /\ how = "failed"
    BY <2>1, <2>3 DEF StateOK, AllParks
  <2>4. CASE s = r /\ how # "failed"
    <3>1. pr'[r] = IF how = "landed" THEN "landed" ELSE "open"
      BY <1>4, <2>4 DEF EngineEnd, StateOK
    <3> QED
      BY <2>1, <2>4, <3>1 DEF StateOK, AllParks, Merged
  <2> QED
    BY <2>2, <2>3, <2>4
<1>5. ASSUME NEW t \in Landers, WriteRecord(t)
      PROVE  /\ rec'[r] \in AllParks => pr'[r] # "none"
             /\ rec'[r] = "landed" => pr'[r] \in Merged
  <2>1. job[t].do \in MergedJobs
    BY <1>5, AtRecord, ThreadNames DEF WriteRecord, MergedJobs
  <2>2. pr[job[t].run] \in Merged
    BY <2>1, ThreadNames DEF LandInv, JobsTrue
  <2> QED
    BY <1>0, <1>1, <1>5, <2>2 DEF WriteRecord, StateOK, AllParks
<1>6. ASSUME NEW t \in Threads, Write(t) PROVE rec' = rec
  BY <1>6 DEF Write, WriteGate, WriteHold, WriteRow
<1>7. CASE LoopStep \/ OpStep
  BY <1>2, <1>6, <1>7, ThreadNames DEF LoopStep, ClaimHold, ResumeForFix, OpStep,
     ClaimRelease, ResumeForRelease, AbandonRow, Dismiss
<1>8. CASE Operator
  BY <1>2, <1>8 DEF Operator, ApproveMerge, Release, ResumeReview, AbandonItem, CliAbandon, RetryItem
<1>9. CASE Tick
  BY <1>2, <1>3, <1>9 DEF Tick, Poll, Wait, SettleRun, ResumeRefused
<1>10. CASE Recover \/ Crash \/ Forge \/ UNCHANGED vars
  BY <1>2, <1>10 DEF Recover, Restart, ReconcileGates, ReconcileHolds, RecoverRow, Crash, Forge,
     ForgeClose, Review, vars
<1>11. CASE \E t \in Landers : LanderStep(t)
  BY <1>2, <1>5, <1>6, <1>11, ThreadNames DEF LanderStep, Landing
<1>12. CASE Engine
  BY <1>4, <1>12 DEF Engine
<1> QED
  BY <1>7, <1>8, <1>9, <1>10, <1>11, <1>12 DEF Next

\* Only a job on a merged pull request makes the row done.
LEMMA DoneKept ==
  ASSUME IInv, LandInv, ~Held, [Next]_vars, row'.state = "done"
  PROVE  \E r \in Runs : pr[r] \in Merged
<1> USE DEF IInv
<1>1. CASE row.state = "done"
  BY <1>1 DEF LandInv, DoneIsLanded, Merged
<1>2. CASE row' = row
  BY <1>1, <1>2
<1>3. Abandoned.state = "done" => row.state = "done"
  BY DEF Abandoned, StateOK
<1>4. ASSUME NEW t \in Threads, WriteRow(t) PROVE \E r \in Runs : pr[r] \in Merged
  <2>1. CASE job[t].do \in MergedJobs
    <3>1. pr[job[t].run] \in Merged /\ job[t].run \in Runs
      BY <2>1 DEF LandInv, JobsTrue, JobsGood, Good, MergedJobs
    <3> QED
      BY <3>1
  <2>2. CASE job[t].do \notin MergedJobs
    <3>1. RowAfter(t).state = "done" => row.state = "done"
      BY <1>3, <2>2 DEF RowAfter, MergedJobs, StateOK
    <3> QED
      BY <1>1, <1>4, <3>1 DEF WriteRow
  <2> QED
    BY <2>1, <2>2
<1>5. ASSUME NEW t \in Threads, Write(t) PROVE \E r \in Runs : pr[r] \in Merged
  BY <1>2, <1>4, <1>5 DEF Write, WriteGate, WriteHold
<1>6. CASE LoopStep
  <2>1. ResumeForFix => row' = row \/ row'.state = "queued"
    BY DEF ResumeForFix, StateOK
  <2> QED
    BY <1>2, <1>5, <1>6, <2>1, ThreadNames DEF LoopStep, ClaimHold
<1>7. CASE OpStep
  <2>1. ResumeForRelease => row' = row \/ row'.state = "queued"
    BY DEF ResumeForRelease, StateOK
  <2> QED
    BY <1>1, <1>2, <1>3, <1>5, <1>7, <2>1, ThreadNames
    DEF OpStep, ClaimRelease, AbandonRow, Dismiss
<1>8. CASE Operator
  <2>1. RetryItem => row'.state = "queued"
    BY DEF RetryItem, StateOK
  <2> QED
    BY <1>1, <1>2, <1>3, <1>8, <2>1
    DEF Operator, ApproveMerge, Release, ResumeReview, AbandonItem, CliAbandon
<1>9. CASE Tick
  <2>1. \A r \in Runs : Dispatch(r) => row'.state = "running"
    BY DEF Dispatch, StateOK
  <2> QED
    BY <1>2, <1>9, <2>1 DEF Tick, Poll, Wait, SettleRun, ResumeRefused
<1>10. CASE Recover
  <2>1. \A again \in BOOLEAN : RecoverRow(again) => row' = row \/ row'.state = "queued"
    BY DEF RecoverRow, StateOK
  <2> QED
    BY <1>2, <1>10, <2>1 DEF Recover, Restart, ReconcileGates, ReconcileHolds
<1>11. CASE \E t \in Landers : LanderStep(t)
  BY <1>2, <1>5, <1>11, ThreadNames DEF LanderStep, WriteRecord, Landing
<1>12. CASE Engine \/ Forge \/ Crash \/ UNCHANGED vars
  BY <1>2, <1>12 DEF Engine, EngineEnd, Forge, ForgeClose, Review, Crash, vars
<1> QED
  BY <1>6, <1>7, <1>8, <1>9, <1>10, <1>11, <1>12 DEF Next

LEMMA LandNext ==
  ASSUME IInv, LandInv, [Next]_vars
  PROVE  LandInv'
<1>1. Held' = Held
  BY KindKept
<1>2. CASE Held
  BY <1>1, <1>2, Zenon DEF LandInv, RecordsTrue, JobsTrue, DoneIsLanded
<1>3. CASE ~Held
  <2>1. JobsTrue'
    BY <1>3, JobsTrueKept
  <2>2. ASSUME NEW r \in Runs, gate'[r] # "none" PROVE pr'[r] # "none"
    BY <1>3, <2>2, GateTrueKept, PullRequestKept
  <2>3. RecordsTrue'
    BY <1>3, <2>2, RecordTrueKept, Zenon DEF RecordsTrue
  <2>4. ASSUME row'.state = "done" PROVE \E r \in Runs : pr'[r] \in Merged
    <3>1. PICK r \in Runs : pr[r] \in Merged
      BY <1>3, <2>4, DoneKept
    <3> QED
      BY <3>1, PullRequestKept
  <2>5. DoneIsLanded'
    BY <2>4, Zenon DEF DoneIsLanded, Merged
  <2> QED
    BY <2>1, <2>3, <2>5 DEF LandInv
<1> QED
  BY <1>2, <1>3

LEMMA LandInit == Init => LandInv
  BY DEF Init, LandInv, RecordsTrue, JobsTrue, DoneIsLanded, Idle, OpenedJobs, MergedJobs, AllParks

\* A code item is done only when the pull request of one of its runs is merged, whatever
\* was closed, abandoned, retried, resumed or interrupted while it was landing
\* (_complete_landing, _complete_review_landing, _settle).
THEOREM DoneMeansLanded == Spec => []DoneIsLanded
<1>1. Init => IInv /\ LandInv
  BY InitInv, LandInit
<1>2. IInv /\ LandInv /\ [Next]_vars => IInv' /\ LandInv'
  BY NextInv, LandNext
<1>3. LandInv => DoneIsLanded
  BY DEF LandInv
<1> QED
  BY <1>1, <1>2, <1>3, PTL DEF Spec

-----------------------------------------------------------------------------
(* Parks.  Without the verbs that go round the park (abandon_item,          *)
(* retry_item, resume_review) and without crashes, a parked row is always   *)
(* backed by a gate or a hold that is up, or by a thread that has it.       *)

Ends == {"ended_landed", "ended_retry", "ended_failed"}
ToGate == {"gated", "held"}
Settles == ToGate \cup {"awaiting_review"} \cup Ends
Polls == {"pause", "poll_closed", "poll_changes", "poll_approved", "refix"}
HoldJobs == {"land_hold", "hold_landed", "hold_closed", "hold_refused"}
Parked == {"gated"} \cup Waiting
Standing == {"open", "approving", "paused"}

\* Where in its handler each thread may be.
LoopShape(j) ==
  \/ j = Idle
  \/ j.do \in Ends \cup {"poll_closed"} /\ j.step \in {1, 2, 3}
  \/ j.do \in ToGate \cup {"awaiting_review", "pause", "poll_changes"} /\ j.step \in {1, 2}
  \/ j.do \in {"poll_approved", "refix"} /\ j.step = 1
OpShape(j) ==
  \/ j = Idle
  \/ j.do = "release" /\ j.step \in {1, 2}
  \/ j.do = "unrelease" /\ j.step = 1
LanderShape(j) ==
  \/ j = Idle
  \/ j.do \in {"gate_landed", "hold_landed"} /\ j.step \in {1, 2, 3}
  \/ j.do \in {"gate_closed", "hold_closed"} /\ j.step \in {1, 2}
  \/ j.do \in {"land_gate", "land_hold", "gate_refused", "hold_refused"} /\ j.step = 1

Shapes ==
  /\ daemon = "up"
  /\ LoopShape(job["loop"]) /\ OpShape(job["op"])
  /\ \A t \in Landers : LanderShape(job[t])

\* A landing thread with the gate, or the hold, of its run still to write.
HasGate(j) == j.do \in GateJobs /\ ~(j.do = "gate_landed" /\ j.step = 3)
                                   /\ ~(j.do = "gate_closed" /\ j.step = 2)
HasHold(j) == j.do \in HoldJobs /\ ~(j.do = "hold_landed" /\ j.step = 3)
                                   /\ ~(j.do = "hold_closed" /\ j.step = 2)

\* What has never run has never parked, and how a run parks is its item's kind.
ParkRecords ==
  /\ \A r \in Runs :
       /\ rec[r] = "new" => gate[r] = "none" /\ hold[r] = "none"
       /\ rec[r] \in {"gated", "awaiting_review"} => ~Held
       /\ rec[r] = "held" => Held
       /\ Held => hold[r] = "none"
  /\ row.run \in Runs => rec[row.run] # "new"

\* While a run is in flight nothing settles, and a run about to be held has no gate.
InFlight ==
  live \in Runs =>
    /\ job["loop"].do \notin Settles
    /\ rec[live] # "new"
    /\ rec[live] = "held" => gate[live] = "none"

\* A settle is of the run the row is pinned to; the park it makes is the run's first.
Settling ==
  LET j == job["loop"] IN
  j.do \in Settles =>
    /\ j.run = row.run
    /\ row.state \notin Parked
    /\ j.do \in {"gated", "awaiting_review"} => ~Held
    /\ j.do = "held" => Held
    /\ j.step = 1 \/ j.do \in ToGate => hold[j.run] \in {"none", "fixing"}
    /\ j.do \in Ends /\ j.step # 1 => hold[j.run] \notin OpenHold
    /\ j.do = "awaiting_review" /\ j.step = 2 => hold[j.run] = "open"
    /\ j.do \in ToGate /\ j.step = 1 => gate[j.run] = "none"
    /\ ~Held /\ j.do # "gated" => gate[j.run] = "none"

\* A poll is of the wait the row is pinned to.
Polling ==
  LET j == job["loop"] IN
  j.do \in Polls =>
    /\ j.run = row.run /\ ~Held
    /\ row.state \in Waiting \cup {"failed", "done"}
    /\ gate[j.run] = "none"
    /\ j.step = 1 /\ j.do # "refix" => hold[j.run] = "open"
    /\ j.do = "refix" \/ (j.do = "poll_changes" /\ j.step = 2) => hold[j.run] = "fixing"
    /\ j.do = "pause" /\ j.step = 2 => hold[j.run] = "paused"
    /\ j.do = "poll_closed" /\ j.step = 2 => hold[j.run] = "approving"
    /\ j.do = "poll_closed" /\ j.step = 2 =>
         \A t \in Landers : ~(HasHold(job[t]) /\ job[t].run = j.run)

\* A run to be resumed has no wait standing.
Resumable ==
  row.state \in {"queued", "running"} /\ row.run \in Runs /\ job["loop"].do \notin Settles =>
    hold[row.run] \in {"none", "fixing"}

\* A wait that stands is the pinned run's, and that run has no gate.
Holds ==
  \A r \in Runs : hold[r] \in Standing =>
    /\ row.run = r /\ gate[r] = "none"
    /\ \/ job["loop"].do = "awaiting_review" /\ job["loop"].step = 2
       \/ row.state \in Waiting \cup {"failed", "done"}

\* A code item's run with a gate is never resumed.
Gates ==
  ~Held /\ row.run \in Runs /\ gate[row.run] # "none" =>
    \/ row.state \in {"gated", "failed", "done"}
    \/ job["loop"].do = "gated" /\ job["loop"].step # 1

\* What a landing thread has in hand it claimed, and it alone.
Landings ==
  /\ \A t \in Landers :
       /\ HasGate(job[t]) => ~Held /\ gate[job[t].run] = "approving"
       /\ HasHold(job[t]) => hold[job[t].run] = "approving"
  /\ \A t, u \in Landers : job[t].run = job[u].run =>
       \/ t = u
       \/ ~(HasGate(job[t]) /\ HasGate(job[u])) /\ ~(HasHold(job[t]) /\ HasHold(job[u]))

\* A release is of a gate that was put up.
Releases == job["op"].do # "idle" => Held /\ gate[job["op"].run] # "none"

\* A gate is up, in somebody's hand, or was approved and landed before its row was written.
GateTended(r) ==
  \/ gate[r] = "open"
  \/ \E t \in Landers : job[t].do \in GateJobs /\ job[t].run = r
  \/ /\ gate[r] = "approving" /\ job["op"].run = r
     /\ \/ job["op"].do = "release" /\ job["op"].step = 2
        \/ job["op"].do = "unrelease"
  \/ r \in overtaken

\* The loop has put up the gate of the run it parks, and its row is still to be written.
RowDue == job["loop"].do \in ToGate /\ job["loop"].step # 1

\* The gate of a gated row, and of a row about to be, is tended.
GateUp == row.state = "gated" \/ RowDue => row.run \in Runs /\ GateTended(row.run)

\* A waiting row has its hold up, or somebody has the hold in hand.
HoldUp ==
  row.state \in Waiting =>
    /\ row.run \in Runs
    /\ \/ hold[row.run] \in {"open", "paused"}
       \/ \E t \in Landers : job[t].do \in HoldJobs /\ job[t].run = row.run
       \/ /\ job["loop"].run = row.run
          /\ job["loop"].do \in {"poll_closed", "poll_changes"} /\ job["loop"].step # 1

ParkInv ==
  /\ Shapes /\ ParkRecords /\ InFlight /\ Settling /\ Polling /\ Resumable /\ Holds /\ Gates
  /\ Landings /\ Releases /\ GateUp /\ HoldUp

\* Nobody disturbs the parks: approvals and the command line's abandon, and no crash.  (Each
\* of the other verbs, and a crash, strands a park; only retry without an abandon does not.)
QuietParks == Verbs \subseteq {"approve", "cli_abandon"} /\ MaxCrashes = 0

LEMMA IdleFields == Idle.do = "idle" /\ Idle.run = NoRun /\ Idle.step = 0
  BY DEF Idle

LEMMA BeginStep ==
  ASSUME NEW do, NEW r
  PROVE  Begin(do, r).do = do /\ Begin(do, r).run = r /\ Begin(do, r).step = 1
  BY DEF Begin

LEMMA Names ==
  /\ "loop" \in Threads /\ "op" \in Threads
  /\ \A t \in Landers : t \in Threads /\ t # "loop" /\ t # "op"
  BY ParkingAssumption DEF Threads

\* A step through a plan: the thread goes on to the next write, or is done.
LEMMA Moved ==
  ASSUME JobsGood, NEW t \in Threads, Step(t)
  PROVE  /\ \A u \in Threads : u # t => job'[u] = job[u]
         /\ job[t].step + 1 \in DOMAIN Plan(job[t].do) =>
              job'[t].do = job[t].do /\ job'[t].run = job[t].run /\ job'[t].step = job[t].step + 1
         /\ job[t].step + 1 \notin DOMAIN Plan(job[t].do) => job'[t] = Idle
<1>1. job'[t] = Advance(t) /\ \A u \in Threads : u # t => job'[u] = job[u]
  BY DEF Step, JobsGood
<1>2. job[t] \in JobType
  BY DEF JobsGood
<1> QED
  BY <1>1, <1>2 DEF Advance, JobType

LEMMA Plans ==
  /\ \A do \in ToGate : Plan(do) = <<"gate", "row">>
  /\ \A do \in Ends : Plan(do) = <<"hold", "gate", "row">>
  /\ Plan("awaiting_review") = <<"hold", "row">>
  /\ Plan("pause") = <<"hold", "row">>
  /\ Plan("poll_closed") = <<"claim", "hold", "row">>
  /\ Plan("poll_changes") = <<"claim", "fix">>
  /\ Plan("poll_approved") = <<"claim">>
  /\ Plan("refix") = <<"hold">>
  /\ Plan("release") = <<"claim", "requeue">>
  /\ Plan("unrelease") = <<"gate">>
  /\ Plan("land_gate") = <<"land">> /\ Plan("land_hold") = <<"land">>
  /\ Plan("gate_landed") = <<"record", "gate", "row">>
  /\ Plan("hold_landed") = <<"record", "hold", "row">>
  /\ Plan("gate_closed") = <<"gate", "row">> /\ Plan("hold_closed") = <<"hold", "row">>
  /\ Plan("gate_refused") = <<"gate">> /\ Plan("hold_refused") = <<"hold">>
  /\ Plan("idle") = <<>>
  BY DEF Plan, ToGate, Ends

\* The loop's write at s: which handler, and what is left of it.
LEMMA LoopMoves ==
  ASSUME JobsGood, LoopShape(job["loop"]), NEW s, At("loop", s), Step("loop"),
         NEW j, j = job["loop"], NEW k, k = job'["loop"]
  PROVE  /\ j.do # "idle" /\ j.run \in Runs
         /\ k = Idle \/ (k.do = j.do /\ k.run = j.run /\ k.step = j.step + 1)
         /\ j.do \in ToGate => \/ j.step = 1 /\ s = "gate" /\ k.do = j.do /\ k.run = j.run /\ k.step = 2
                               \/ j.step = 2 /\ s = "row" /\ k = Idle
         /\ j.do \in Ends => \/ j.step = 1 /\ s = "hold" /\ k.do = j.do /\ k.run = j.run /\ k.step = 2
                             \/ j.step = 2 /\ s = "gate" /\ k.do = j.do /\ k.run = j.run /\ k.step = 3
                             \/ j.step = 3 /\ s = "row" /\ k = Idle
         /\ j.do \in {"awaiting_review", "pause"} =>
              \/ j.step = 1 /\ s = "hold" /\ k.do = j.do /\ k.run = j.run /\ k.step = 2
              \/ j.step = 2 /\ s = "row" /\ k = Idle
         /\ j.do = "poll_closed" =>
              \/ j.step = 1 /\ s = "claim" /\ k.do = j.do /\ k.run = j.run /\ k.step = 2
              \/ j.step = 2 /\ s = "hold" /\ k.do = j.do /\ k.run = j.run /\ k.step = 3
              \/ j.step = 3 /\ s = "row" /\ k = Idle
         /\ j.do = "poll_changes" =>
              \/ j.step = 1 /\ s = "claim" /\ k.do = j.do /\ k.run = j.run /\ k.step = 2
              \/ j.step = 2 /\ s = "fix" /\ k = Idle
         /\ j.do = "poll_approved" => j.step = 1 /\ s = "claim" /\ k = Idle
         /\ j.do = "refix" => j.step = 1 /\ s = "hold" /\ k = Idle
         /\ j.do \in Settles \cup Polls
<1>1. "loop" \in Threads
  BY Names
<1>2. /\ j.step + 1 \in DOMAIN Plan(j.do) => k.do = j.do /\ k.run = j.run /\ k.step = j.step + 1
      /\ j.step + 1 \notin DOMAIN Plan(j.do) => k = Idle
  BY <1>1, Moved
<1>3. j.step \in DOMAIN Plan(j.do) /\ Plan(j.do)[j.step] = s
  BY DEF At
<1>4. j.do # "idle"
  BY <1>3, Plans
<1>5. j # Idle /\ Good(j)
  BY <1>1, <1>4, IdleFields DEF JobsGood
<1>6. LoopShape(j)
  OBVIOUS
<1>7. j.do # "abandon"
  BY <1>5, <1>6 DEF LoopShape, ToGate, Ends
<1>8. j.run \in Runs
  BY <1>4, <1>5, <1>7 DEF Good
<1>9. CASE j.do \in ToGate
  <2>1. Plan(j.do) = <<"gate", "row">> /\ j.step \in {1, 2}
    BY <1>5, <1>6, <1>9, Plans DEF LoopShape, ToGate, Ends
  <2> QED
    BY <1>2, <1>3, <1>4, <1>8, <1>9, <2>1 DEF ToGate, Ends, Settles
<1>10. CASE j.do \in Ends
  <2>1. Plan(j.do) = <<"hold", "gate", "row">> /\ j.step \in {1, 2, 3}
    BY <1>5, <1>6, <1>10, Plans DEF LoopShape, ToGate, Ends
  <2> QED
    BY <1>2, <1>3, <1>4, <1>8, <1>10, <2>1 DEF ToGate, Ends, Settles
<1>11. CASE j.do = "poll_closed"
  <2>1. Plan(j.do) = <<"claim", "hold", "row">> /\ j.step \in {1, 2, 3}
    BY <1>5, <1>6, <1>11, Plans DEF LoopShape, ToGate, Ends
  <2> QED
    BY <1>2, <1>3, <1>4, <1>8, <1>11, <2>1 DEF ToGate, Ends, Polls
<1>12. CASE j.do \in {"awaiting_review", "pause"}
  <2>1. Plan(j.do) = <<"hold", "row">> /\ j.step \in {1, 2}
    BY <1>5, <1>6, <1>12, Plans DEF LoopShape, ToGate, Ends
  <2> QED
    BY <1>2, <1>3, <1>4, <1>8, <1>12, <2>1 DEF ToGate, Ends, Polls, Settles
<1>13. CASE j.do = "poll_changes"
  <2>1. Plan(j.do) = <<"claim", "fix">> /\ j.step \in {1, 2}
    BY <1>5, <1>6, <1>13, Plans DEF LoopShape, ToGate, Ends
  <2> QED
    BY <1>2, <1>3, <1>4, <1>8, <1>13, <2>1 DEF ToGate, Ends, Polls
<1>14. CASE j.do \in {"poll_approved", "refix"}
  <2>1. j.step = 1 /\ (j.do = "refix" => Plan(j.do) = <<"hold">>)
                   /\ (j.do = "poll_approved" => Plan(j.do) = <<"claim">>)
    BY <1>5, <1>6, <1>14, Plans DEF LoopShape, ToGate, Ends
  <2> QED
    BY <1>2, <1>3, <1>4, <1>8, <1>14, <2>1 DEF ToGate, Ends, Polls
<1> QED
  BY <1>5, <1>6, <1>9, <1>10, <1>11, <1>12, <1>13, <1>14 DEF LoopShape

LEMMA OpMoves ==
  ASSUME JobsGood, OpShape(job["op"]), NEW s, At("op", s),
         NEW o, o = job["op"]
  PROVE  /\ o.do # "idle" /\ o.run \in Runs
         /\ \/ o.do = "release" /\ o.step = 1 /\ s = "claim"
            \/ o.do = "release" /\ o.step = 2 /\ s = "requeue"
            \/ o.do = "unrelease" /\ o.step = 1 /\ s = "gate"
         /\ Step("op") /\ o.do = "release" /\ o.step = 1 =>
              job'["op"].do = "release" /\ job'["op"].run = o.run /\ job'["op"].step = 2
         /\ Step("op") /\ ~(o.do = "release" /\ o.step = 1) => job'["op"] = Idle
<1>1. "op" \in Threads
  BY Names
<1>2. Step("op") =>
      /\ o.step + 1 \in DOMAIN Plan(o.do) => /\ job'["op"].do = o.do /\ job'["op"].run = o.run
                                             /\ job'["op"].step = o.step + 1
      /\ o.step + 1 \notin DOMAIN Plan(o.do) => job'["op"] = Idle
  BY <1>1, Moved
<1>3. o.step \in DOMAIN Plan(o.do) /\ Plan(o.do)[o.step] = s
  BY DEF At
<1>4. o.do # "idle"
  BY <1>3, Plans
<1>5. o # Idle /\ Good(o) /\ OpShape(o)
  BY <1>1, <1>4, IdleFields DEF JobsGood
<1>6. o.run \in Runs
  BY <1>5 DEF OpShape, Good
<1>7. CASE o.do = "release"
  <2>1. Plan(o.do) = <<"claim", "requeue">> /\ o.step \in {1, 2}
    BY <1>5, <1>7, Plans DEF OpShape
  <2> QED
    BY <1>2, <1>3, <1>4, <1>6, <1>7, <2>1
<1>8. CASE o.do = "unrelease"
  <2>1. Plan(o.do) = <<"gate">> /\ o.step = 1
    BY <1>5, <1>8, Plans DEF OpShape
  <2> QED
    BY <1>2, <1>3, <1>4, <1>6, <1>8, <2>1
<1> QED
  BY <1>5, <1>7, <1>8 DEF OpShape

LEMMA LanderMoves ==
  ASSUME JobsGood, NEW t \in Landers, LanderShape(job[t]), NEW s, At(t, s),
         NEW j, j = job[t]
  PROVE  /\ j.do # "idle" /\ j.run \in Runs
         /\ \/ j.do \in {"land_gate", "land_hold"} /\ j.step = 1 /\ s = "land"
            \/ j.do \in {"gate_landed", "hold_landed"} /\ j.step = 1 /\ s = "record"
            \/ j.do = "gate_landed" /\ j.step = 2 /\ s = "gate"
            \/ j.do = "hold_landed" /\ j.step = 2 /\ s = "hold"
            \/ j.do \in {"gate_landed", "hold_landed"} /\ j.step = 3 /\ s = "row"
            \/ j.do = "gate_closed" /\ j.step = 1 /\ s = "gate"
            \/ j.do = "hold_closed" /\ j.step = 1 /\ s = "hold"
            \/ j.do \in {"gate_closed", "hold_closed"} /\ j.step = 2 /\ s = "row"
            \/ j.do = "gate_refused" /\ j.step = 1 /\ s = "gate"
            \/ j.do = "hold_refused" /\ j.step = 1 /\ s = "hold"
         /\ Step(t) =>
              \/ /\ job'[t].do = j.do /\ job'[t].run = j.run /\ job'[t].step = j.step + 1
                 /\ s \in {"record", "gate", "hold"} /\ j.do \notin {"gate_refused", "hold_refused"}
              \/ /\ job'[t] = Idle
                 /\ \/ s = "row"
                    \/ j.do \notin {"gate_landed", "hold_landed", "gate_closed", "hold_closed"}
<1>1. t \in Threads
  BY Names
<1>2. Step(t) =>
      /\ j.step + 1 \in DOMAIN Plan(j.do) =>
           job'[t].do = j.do /\ job'[t].run = j.run /\ job'[t].step = j.step + 1
      /\ j.step + 1 \notin DOMAIN Plan(j.do) => job'[t] = Idle
  BY <1>1, Moved
<1>3. j.step \in DOMAIN Plan(j.do) /\ Plan(j.do)[j.step] = s
  BY DEF At
<1>4. j.do # "idle"
  BY <1>3, Plans
<1>5. j # Idle /\ Good(j) /\ LanderShape(j)
  BY <1>1, <1>4, IdleFields DEF JobsGood
<1>6. j.run \in Runs
  BY <1>5 DEF LanderShape, Good
<1>7. CASE j.do \in {"gate_landed", "hold_landed"}
  <2>1. /\ Plan(j.do) = <<"record", IF j.do = "gate_landed" THEN "gate" ELSE "hold", "row">>
        /\ j.step \in {1, 2, 3}
    BY <1>5, <1>7, Plans DEF LanderShape
  <2> QED
    BY <1>2, <1>3, <1>4, <1>6, <1>7, <2>1
<1>8. CASE j.do \in {"gate_closed", "hold_closed"}
  <2>1. /\ Plan(j.do) = <<IF j.do = "gate_closed" THEN "gate" ELSE "hold", "row">>
        /\ j.step \in {1, 2}
    BY <1>5, <1>8, Plans DEF LanderShape
  <2> QED
    BY <1>2, <1>3, <1>4, <1>6, <1>8, <2>1
<1>9. CASE j.do \in {"land_gate", "land_hold", "gate_refused", "hold_refused"}
  <2>1. /\ Plan(j.do) = <<IF j.do = "gate_refused" THEN "gate"
                           ELSE IF j.do = "hold_refused" THEN "hold" ELSE "land">>
        /\ j.step = 1
    BY <1>5, <1>9, Plans DEF LanderShape
  <2> QED
    BY <1>2, <1>3, <1>4, <1>6, <1>9, <2>1
<1> QED
  BY <1>5, <1>7, <1>8, <1>9 DEF LanderShape

LEMMA ParkInit == Init => ParkInv
<1> SUFFICES ASSUME Init PROVE ParkInv
  OBVIOUS
<1>1. job["loop"] = Idle /\ job["op"] = Idle /\ \A t \in Landers : job[t] = Idle
  BY Names DEF Init
<1>2. row.state = "queued" /\ row.run = NoRun /\ NoRun \notin Runs /\ live = NoRun
  BY ParkingAssumption DEF Init
<1>3. \A r \in Runs : gate[r] = "none" /\ hold[r] = "none" /\ rec[r] = "new"
  BY DEF Init
<1>4. daemon = "up"
  BY DEF Init
<1> QED
  BY <1>1, <1>2, <1>3, <1>4, IdleFields
  DEF ParkInv, Shapes, LoopShape, OpShape, LanderShape, ParkRecords, InFlight, Settling, Polling,
      Resumable, Holds, Gates, Landings, Releases, GateUp, GateTended, RowDue, HoldUp, HasGate, HasHold, GateJobs,
      HoldJobs, Settles, ToGate, Ends, Polls, Waiting, Standing

\* Steps of the forge, and a wait running out, touch nothing of it.
LEMMA ParkSame ==
  ASSUME ParkInv, UNCHANGED <<row, gate, hold, rec, live, job, daemon, overtaken>>
  PROVE  ParkInv'
  BY DEF ParkInv, Shapes, ParkRecords, InFlight, Settling, Polling, Held,
      Resumable, Holds, Gates, Landings, Releases, GateUp, GateTended, RowDue, HoldUp

LEMMA ParkEngine ==
  ASSUME IInv, ParkInv, Engine
  PROVE  ParkInv'
<1>1. PICK r \in Runs, how \in Parks \cup {"landed", "failed"} : EngineEnd(r, how)
  BY DEF Engine
<1>2. UNCHANGED <<row, gate, hold, live, job, daemon, overtaken>>
  BY <1>1 DEF EngineEnd, parks
<1>3. /\ live = r /\ rec' = [rec EXCEPT ![r] = how] /\ how # "new"
      /\ how = "held" => Held /\ gate[r] = "none"
      /\ how \in {"gated", "awaiting_review"} => ~Held
  BY <1>1, ParkingAssumption DEF EngineEnd, AllParks
<1>4. rec \in [Runs -> RecordStates]
  BY DEF IInv, StateOK
<1>5. ParkRecords' /\ InFlight'
  BY <1>2, <1>3, <1>4 DEF ParkInv, ParkRecords, InFlight, Held
<1> QED
  BY <1>2, <1>5 DEF ParkInv, Shapes, Settling, Polling, Held,
      Resumable, Holds, Gates, Landings, Releases, GateUp, GateTended, RowDue, HoldUp

LEMMA ParkDispatch ==
  ASSUME IInv, ParkInv, NEW r \in Runs, Dispatch(r)
  PROVE  ParkInv'
<1>1. UNCHANGED <<gate, hold, job, daemon, overtaken>>
  BY DEF Dispatch, parks
<1>2. /\ job["loop"] = Idle /\ live' = r /\ row.state = "queued"
      /\ IF row.run = NoRun THEN rec[r] = "new" ELSE row.run = r
      /\ rec' = [rec EXCEPT ![r] = "active"]
  BY DEF Dispatch, LoopFree
<1>3. row'.state = "running" /\ row'.run = r /\ Held' = Held
  BY DEF Dispatch, Held, IInv, StateOK
<1>4. rec \in [Runs -> RecordStates] /\ NoRun \notin Runs
  BY ParkingAssumption DEF IInv, StateOK
<1>5. ParkRecords' /\ InFlight'
  BY <1>1, <1>2, <1>3, <1>4, IdleFields DEF ParkInv, ParkRecords, InFlight, Settles, ToGate, Ends
<1>6. Settling' /\ Polling'
  BY <1>1, <1>2, <1>3, IdleFields DEF Settling, Polling, Settles, ToGate, Ends, Polls
<1>7. Resumable'
  BY <1>1, <1>2, <1>3, <1>4, IdleFields DEF ParkInv, ParkRecords, Resumable, Settles, ToGate, Ends
<1>8. Holds'
  BY <1>1, <1>2, <1>3, <1>4, IdleFields DEF ParkInv, ParkRecords, Holds, Waiting, Standing
<1>9. Gates'
  BY <1>1, <1>2, <1>3, <1>4, IdleFields DEF ParkInv, ParkRecords, Gates
<1>10. Shapes' /\ Landings' /\ Releases'
  BY <1>1, <1>3 DEF ParkInv, Shapes, Landings, Releases
<1>11. GateUp' /\ HoldUp'
  BY <1>1, <1>2, <1>3, IdleFields DEF GateUp, GateTended, RowDue, HoldUp, Waiting, ToGate
<1> QED
  BY <1>5, <1>6, <1>7, <1>8, <1>9, <1>10, <1>11 DEF ParkInv

LEMMA ParkPoll ==
  ASSUME IInv, ParkInv, NEW r \in Runs, Poll(r)
  PROVE  ParkInv'
<1>1. UNCHANGED <<row, gate, hold, rec, live, daemon, overtaken>>
  BY DEF Poll, parks, forge
<1>2. PICK do \in {"pause", "poll_closed", "poll_changes", "poll_approved"} :
          job' = [job EXCEPT !["loop"] = Begin(do, r)]
  BY DEF Poll
<1>3. job["loop"] = Idle /\ hold[r] = "open"
  BY DEF Poll, LoopFree
<1>4. PICK k : k = job'["loop"] /\ k.do = do /\ k.run = r /\ k.step = 1
  BY <1>2, Names, BeginStep DEF IInv, JobsGood
<1>5. job'["op"] = job["op"] /\ \A t \in Landers : job'[t] = job[t]
  BY <1>2, Names DEF IInv, JobsGood
<1>6. Held' = Held
  BY <1>1 DEF Held
<1>7. Polling'
  <2>1. row.run = r /\ gate[r] = "none" /\ row.state \in Waiting \cup {"failed", "done"} /\ ~Held
    BY <1>3, IdleFields DEF ParkInv, Holds, ParkRecords, Standing
  <2> QED
    BY <1>1, <1>3, <1>4, <1>6, <2>1 DEF Polling
<1>8. Shapes'
  BY <1>1, <1>4, <1>5 DEF ParkInv, Shapes, LoopShape
<1>9. ParkRecords' /\ InFlight' /\ Settling' /\ Resumable' /\ Holds'
  BY <1>1, <1>3, <1>4, <1>5, <1>6, IdleFields
  DEF ParkInv, ParkRecords, InFlight, Settling, Resumable, Holds, Settles, ToGate, Ends
<1>10. Gates' /\ Landings' /\ Releases'
  BY <1>1, <1>3, <1>4, <1>5, <1>6, IdleFields
  DEF ParkInv, Gates, Landings, Releases
<1>11. GateUp' /\ HoldUp'
  BY <1>1, <1>3, <1>4, <1>5, <1>6, IdleFields
  DEF ParkInv, GateUp, GateTended, RowDue, HoldUp
<1> QED
  BY <1>7, <1>8, <1>9, <1>10, <1>11 DEF ParkInv

LEMMA ParkSettle ==
  ASSUME IInv, ParkInv, NEW do \in Settles, row.run \in Runs,
         job["loop"] = Idle, row.state \in {"queued", "running"},
         do \in {"gated", "held", "awaiting_review"} => rec[row.run] = do /\ row.run = live,
         job' = [job EXCEPT !["loop"] = Begin(do, row.run)], live' = NoRun,
         UNCHANGED <<row, gate, hold, rec, daemon, overtaken>>
  PROVE  ParkInv'
<1>1. PICK k : k = job'["loop"] /\ k.do = do /\ k.run = row.run /\ k.step = 1
  BY Names, BeginStep DEF IInv, JobsGood
<1>2. job'["op"] = job["op"] /\ \A t \in Landers : job'[t] = job[t]
  BY Names DEF IInv, JobsGood
<1>3. Held' = Held
  BY DEF Held
<1>4. Settling'
  <2>1. hold[row.run] \in {"none", "fixing"}
    BY IdleFields DEF ParkInv, Resumable, Settles, ToGate, Ends
  <2>2. ~Held => gate[row.run] = "none"
    BY IdleFields DEF ParkInv, Gates
  <2>3. do \in {"gated", "awaiting_review"} => ~Held
    BY DEF ParkInv, ParkRecords
  <2>4. do = "held" => Held /\ gate[row.run] = "none"
    BY DEF ParkInv, ParkRecords, InFlight
  <2> QED
    BY <1>1, <1>3, <2>1, <2>2, <2>3, <2>4 DEF Settling, ToGate, Ends, Parked, Waiting
<1>5. Shapes'
  BY <1>1, <1>2 DEF ParkInv, Shapes, LoopShape, Settles
<1>6. ParkRecords' /\ InFlight' /\ Polling' /\ Resumable'
  BY <1>1, <1>2, <1>3, ParkingAssumption
  DEF ParkInv, ParkRecords, InFlight, Polling, Resumable, Settles, ToGate, Ends, Polls
<1>7. Holds' /\ Gates' /\ Landings' /\ Releases'
  BY <1>1, <1>2, <1>3, IdleFields
  DEF ParkInv, Holds, Gates, Landings, Releases
<1>8. GateUp' /\ HoldUp'
  BY <1>1 DEF GateUp, GateTended, RowDue, HoldUp, Waiting
<1> QED
  BY <1>4, <1>5, <1>6, <1>7, <1>8 DEF ParkInv

LEMMA ParkTick ==
  ASSUME IInv, ParkInv, Tick
  PROVE  ParkInv'
<1>1. ASSUME NEW r \in Runs, Wait(r) PROVE ParkInv'
  BY <1>1, ParkSame DEF Wait, parks
<1>2. ASSUME NEW again \in BOOLEAN, SettleRun(again) PROVE ParkInv'
  <2>1. /\ live \in Runs /\ job["loop"] = Idle /\ live' = NoRun
        /\ UNCHANGED <<row, gate, hold, rec, daemon, overtaken>>
    BY <1>2 DEF SettleRun, LoopFree, parks, IInv, StateOK
  <2>2. CASE OnRun(live)
    <3>1. PICK do : do = Settlement(live, again)
      OBVIOUS
    <3>2. do \in Settles /\ (do \in {"gated", "held", "awaiting_review"} => rec[live] = do)
      BY <3>1 DEF Settlement, AllParks, Settles, ToGate, Ends
    <3>3. row.run = live /\ row.state = "running"
      BY <2>2 DEF OnRun
    <3>4. job' = [job EXCEPT !["loop"] = Begin(do, row.run)]
      BY <1>2, <2>2, <3>1, <3>3 DEF SettleRun
    <3> QED
      BY <2>1, <3>2, <3>3, <3>4, ParkSettle
  <2>3. CASE ~OnRun(live)
    <3>1. job' = job
      BY <1>2, <2>3 DEF SettleRun
    <3> QED
      BY <2>1, <3>1, ParkingAssumption DEF ParkInv, Shapes, ParkRecords, InFlight, Settling, Polling, Held,
         Resumable, Holds, Gates, Landings, Releases, GateUp, GateTended, RowDue, HoldUp
  <2> QED
    BY <2>2, <2>3
<1>3. ASSUME NEW again \in BOOLEAN, ResumeRefused(again) PROVE ParkInv'
  <2>1. /\ row.run \in Runs /\ job["loop"] = Idle /\ live' = NoRun /\ row.state = "queued"
        /\ UNCHANGED <<row, gate, hold, rec, daemon, overtaken>>
    BY <1>3 DEF ResumeRefused, LoopFree, parks, IInv, StateOK
  <2>2. PICK do \in {"ended_retry", "ended_failed"} :
          job' = [job EXCEPT !["loop"] = Begin(do, row.run)]
    BY <1>3 DEF ResumeRefused
  <2>3. do \in Settles /\ do \notin {"gated", "held", "awaiting_review"}
    BY DEF Settles, Ends
  <2> QED
    BY <2>1, <2>2, <2>3, ParkSettle
<1> QED
  BY <1>1, <1>2, <1>3, ParkDispatch, ParkPoll DEF Tick

\* What is in a thread's hand is a run.
LEMMA Hands ==
  ASSUME IInv, ParkInv
  PROVE  /\ job["op"].do # "idle" => job["op"].run \in Runs
         /\ job["loop"].do \in Settles \cup Polls => job["loop"].run \in Runs
         /\ \A t \in Landers : HasGate(job[t]) \/ HasHold(job[t]) => job[t].run \in Runs
<1>1. job["op"].do # "abandon"
  BY IdleFields DEF ParkInv, Shapes, OpShape
<1>2. \A t \in Threads : job[t].do \notin {"idle", "abandon"} => job[t].run \in Runs
  BY DEF IInv, JobsGood, Good
<1> QED
  BY <1>1, <1>2, Names
  DEF HasGate, HasHold, GateJobs, HoldJobs, Settles, ToGate, Ends, Polls, IInv, StateOK

-----------------------------------------------------------------------------
(* The loop thread's writes. *)

LEMMA ParkLoopGate ==
  ASSUME IInv, ParkInv, WriteGate("loop")
  PROVE  ParkInv'
<1>1. PICK j : j = job["loop"]
  OBVIOUS
<1>2. PICK k : k = job'["loop"]
  OBVIOUS
<1>3. /\ j.run \in Runs
      /\ \/ j.do \in ToGate /\ j.step = 1 /\ k.do = j.do /\ k.run = j.run /\ k.step = 2
         \/ j.do \in Ends /\ j.step = 2 /\ k.do = j.do /\ k.run = j.run /\ k.step = 3
  BY <1>1, <1>2, LoopMoves
  DEF WriteGate, IInv, ParkInv, Shapes, Settles, ToGate, Ends, Polls
<1>4. job'["op"] = job["op"] /\ \A t \in Landers : job'[t] = job[t]
  BY Names, Moved DEF WriteGate, IInv
<1>5. UNCHANGED <<row, hold, rec, live, daemon>> /\ Held' = Held
  BY DEF WriteGate, Held
<1>6. /\ gate' = [gate EXCEPT ![j.run] = GateAfter("loop", gate[j.run])]
      /\ gate \in [Runs -> GateStates]
  BY <1>1 DEF WriteGate, IInv, StateOK
<1>7. /\ j.run = row.run /\ row.state \notin Parked /\ rec[j.run] # "new"
      /\ hold[j.run] \notin Standing /\ live \notin Runs
  BY <1>1, <1>3 DEF ParkInv, Settling, ParkRecords, InFlight, Settles, ToGate, Ends, OpenHold, Standing
<1>8. /\ k.do = j.do /\ k.run = j.run /\ k.do \in Settles /\ k.do \notin Polls
      /\ j.do \in Settles
  BY <1>3 DEF Settles, ToGate, Ends, Polls
<1>9. PICK g \in GateStates : /\ g = GateAfter("loop", gate[j.run])
                              /\ gate'[j.run] = g
                              /\ \A r \in Runs : r # j.run => gate'[r] = gate[r]
  BY <1>3, <1>6, GateTyped, Names
<1>10. CASE j.do \in ToGate
  <2>1. gate[j.run] = "none" /\ g = "open"
    BY <1>1, <1>3, <1>9, <1>10 DEF ParkInv, Settling, Settles, ToGate, Ends, GateAfter
  <2>3. Settling'
    BY <1>1, <1>2, <1>3, <1>4, <1>5, <1>6, <1>7, <1>8, <1>9, <1>10, <2>1
    DEF ParkInv, Settling, ToGate, Ends
  <2>4. Landings' /\ Releases' /\ Gates'
    <3>1. Landings'
      BY Hands, <1>4, <1>5, <1>9, <2>1 DEF ParkInv, Landings
    <3>2. Releases'
      BY Hands, <1>4, <1>5, <1>6, <1>9, <2>1 DEF ParkInv, Releases
    <3>3. Gates'
      BY <1>1, <1>2, <1>3, <1>5, <1>7, <1>8, <1>9, <1>10 DEF Gates, Settling, ToGate, Ends, ParkInv
    <3> QED
      BY <3>1, <3>2, <3>3
  <2> QED
    BY <1>1, <1>2, <1>3, <1>4, <1>5, <1>7, <1>8, <1>9, <1>10, <2>1, <2>3, <2>4
    DEF ParkInv, Shapes, LoopShape, ParkRecords, InFlight, Polling, Resumable, Holds, GateUp, GateTended, RowDue, HoldUp,
        Parked, Waiting, ToGate
<1>11. CASE j.do \in Ends
  <2>1. /\ gate[j.run] = "none" <=> g = "none"
        /\ ~Held => g = gate[j.run]
        /\ g = "approving" => gate[j.run] = "approving"
        /\ gate[j.run] = "approving" => g = "approving" \/ Held
        /\ ~Held => g = "none"
    BY <1>1, <1>3, <1>8, <1>9, <1>11 DEF ParkInv, Settling, ToGate, Ends, GateAfter, OpenGate
  <2>3. Settling'
    BY <1>1, <1>2, <1>3, <1>4, <1>5, <1>6, <1>7, <1>8, <1>9, <1>11, <2>1
    DEF ParkInv, Settling, ToGate, Ends
  <2>4. Landings' /\ Releases' /\ Gates'
    BY Hands, <1>1, <1>2, <1>3, <1>4, <1>5, <1>6, <1>7, <1>9, <1>11, <2>1
    DEF ParkInv, Landings, Releases, Gates, ToGate, Ends
  <2> QED
    BY <1>1, <1>2, <1>3, <1>4, <1>5, <1>7, <1>8, <1>9, <1>11, <2>1, <2>3, <2>4
    DEF ParkInv, Shapes, LoopShape, ParkRecords, InFlight, Polling, Resumable, Holds, GateUp,
        GateTended, RowDue, HoldUp, Parked, Waiting, Ends, ToGate
<1> QED
  BY <1>3, <1>10, <1>11

LEMMA ParkLoopRow ==
  ASSUME IInv, ParkInv, WriteRow("loop")
  PROVE  ParkInv'
<1>1. PICK j : j = job["loop"]
  OBVIOUS
<1>2. PICK k : k = job'["loop"]
  OBVIOUS
<1>3. /\ j.run \in Runs
      /\ \/ j.do \in ToGate /\ j.step = 2 /\ k = Idle
         \/ j.do \in Ends /\ j.step = 3 /\ k = Idle
         \/ j.do = "awaiting_review" /\ j.step = 2 /\ k = Idle
         \/ j.do = "pause" /\ j.step = 2 /\ k = Idle
         \/ j.do = "poll_closed" /\ j.step = 3 /\ k = Idle
  BY <1>1, <1>2, LoopMoves
  DEF WriteRow, IInv, ParkInv, Shapes, Settles, ToGate, Ends, Polls
<1>4. job'["op"] = job["op"] /\ \A t \in Landers : job'[t] = job[t]
  BY Names, Moved DEF WriteRow, IInv
<1>5. UNCHANGED <<gate, hold, rec, live, daemon, overtaken>>
  BY <1>1, <1>3, Names DEF WriteRow, Overtakes, parks, ToGate, Ends
<1>6. PICK w : /\ w = row' /\ w = RowAfter("loop") /\ w.kind = row.kind
               /\ w.state = "running" => w.run \in Runs
  BY Names, RowTyped DEF WriteRow, IInv, RowAfter, Abandoned, StateOK
<1>7. Held' = Held
  BY <1>6 DEF Held
<1>8. /\ j.run = row.run /\ rec[j.run] # "new"
      /\ j.do \in Settles => live \notin Runs
  BY <1>1, <1>3 DEF ParkInv, Settling, Polling, ParkRecords, InFlight, Settles, ToGate, Ends, Polls
<1>9. CASE j.do \in ToGate
  <2>1. w.state = "gated" /\ w.run = row.run
    BY <1>1, <1>6, <1>9 DEF RowAfter, ToGate, IInv, StateOK
  <2>2. GateTended(j.run) /\ hold[j.run] \in {"none", "fixing"} /\ k = Idle
    BY <1>1, <1>3, <1>8, <1>9 DEF ParkInv, Settling, Settles, ToGate, Ends, GateUp, RowDue
  <2>3. k.do = "idle" /\ k.run = NoRun /\ LoopShape(k)
    BY <2>2, IdleFields DEF LoopShape
  <2>4. GateUp'
    BY <1>3, <1>4, <1>5, <1>6, <1>8, <2>1, <2>2 DEF GateUp, GateTended
  <2> QED
    BY <1>1, <1>2, <1>3, <1>4, <1>5, <1>6, <1>7, <1>8, <1>9, <2>1, <2>2, <2>3, <2>4
    DEF ParkInv, Shapes, ParkRecords, InFlight, Settling, Polling, Resumable, Holds, Gates,
        Landings, Releases, HoldUp, Settles, ToGate, Ends, Polls, Standing, Waiting
<1>10. CASE j.do \in Ends
  <2>1. /\ w.state \in {"done", "failed", "queued"}
        /\ w.run = row.run \/ w.run = NoRun
        /\ w.state = "queued" => w.run = NoRun
    BY <1>1, <1>6, <1>10 DEF RowAfter, ToGate, Ends, IInv, StateOK
  <2>2. hold[j.run] \notin OpenHold /\ k = Idle
    BY <1>1, <1>3, <1>10 DEF ParkInv, Settling, Settles, ToGate, Ends
  <2>3. k.do = "idle" /\ k.run = NoRun /\ LoopShape(k)
    BY <2>2, IdleFields DEF LoopShape
  <2>4. /\ ParkRecords' /\ InFlight' /\ Settling' /\ Polling' /\ Resumable'
        /\ GateUp' /\ HoldUp' /\ Shapes' /\ Landings' /\ Releases'
    BY <1>1, <1>2, <1>4, <1>5, <1>6, <1>7, <1>8, <1>10, <2>1, <2>3, ParkingAssumption
    DEF ParkInv, Shapes, ParkRecords, InFlight, Settling, Polling, Resumable,
        Landings, Releases, GateUp, GateTended, RowDue, HoldUp, Settles, ToGate, Ends, Polls, Waiting
  <2>5. Holds'
    BY <1>1, <1>5, <1>8, <1>10, <2>1, <2>2, <1>6
    DEF ParkInv, Holds, OpenHold, Standing, Ends
  <2>6. Gates'
    BY <1>5, <1>6, <1>7, <2>1, ParkingAssumption DEF Gates
  <2> QED
    BY <2>4, <2>5, <2>6 DEF ParkInv
<1>11. CASE j.do \in {"awaiting_review", "pause"}
  <2>1. w.state \in Waiting /\ w.run = row.run
    BY <1>1, <1>6, <1>11 DEF RowAfter, ToGate, Ends, IInv, StateOK, Waiting
  <2>2. hold[j.run] \in {"open", "paused"} /\ k = Idle /\ gate[j.run] = "none"
    BY <1>1, <1>3, <1>11 DEF ParkInv, Settling, Polling, Polls, Settles, ToGate, Ends
  <2>3. k.do = "idle" /\ k.run = NoRun /\ LoopShape(k)
    BY <2>2, IdleFields DEF LoopShape
  <2> QED
    BY <1>1, <1>2, <1>4, <1>5, <1>6, <1>7, <1>8, <1>3, <2>1, <2>2, <2>3
    DEF ParkInv, Shapes, ParkRecords, InFlight, Settling, Polling, Resumable, Holds, Gates,
        Landings, Releases, GateUp, GateTended, RowDue, HoldUp, Settles, ToGate, Ends, Polls, Standing, Waiting
<1>12. CASE j.do = "poll_closed"
  <2>1. w.state \in {"failed", "done"} /\ w.run = row.run
    BY <1>1, <1>6, <1>12 DEF ParkInv, Polling, Polls, RowAfter, Abandoned, Abandonable, ToGate, Ends, IInv,
       StateOK, Waiting
  <2>2. k = Idle
    BY <1>3, <1>12 DEF ToGate, Ends
  <2>3. k.do = "idle" /\ k.run = NoRun /\ LoopShape(k)
    BY <2>2, IdleFields DEF LoopShape
  <2> QED
    BY <1>1, <1>2, <1>4, <1>5, <1>6, <1>7, <1>8, <1>12, <2>1, <2>3
    DEF ParkInv, Shapes, ParkRecords, InFlight, Settling, Polling, Resumable, Holds, Gates,
        Landings, Releases, GateUp, GateTended, RowDue, HoldUp, Settles, ToGate, Ends, Polls, Standing, Waiting
<1> QED
  BY <1>3, <1>9, <1>10, <1>11, <1>12

LEMMA ParkLoopHold ==
  ASSUME IInv, ParkInv, WriteHold("loop")
  PROVE  ParkInv'
<1>1. PICK j : j = job["loop"]
  OBVIOUS
<1>2. PICK k : k = job'["loop"]
  OBVIOUS
<1>3. /\ j.run \in Runs
      /\ \/ j.do \in Ends \cup {"awaiting_review", "pause"} /\ j.step = 1
              /\ k.do = j.do /\ k.run = j.run /\ k.step = 2
         \/ j.do = "poll_closed" /\ j.step = 2 /\ k.do = j.do /\ k.run = j.run /\ k.step = 3
         \/ j.do = "refix" /\ j.step = 1 /\ k = Idle
  BY <1>1, <1>2, LoopMoves
  DEF WriteHold, IInv, ParkInv, Shapes, Settles, ToGate, Ends, Polls
<1>4. job'["op"] = job["op"] /\ \A t \in Landers : job'[t] = job[t]
  BY Names, Moved DEF WriteHold, IInv
<1>5. UNCHANGED <<row, gate, rec, live, daemon, overtaken>> /\ Held' = Held
  BY DEF WriteHold, Held
<1>6. PICK h \in HoldStates : /\ h = HoldAfter("loop", hold[j.run])
                              /\ hold'[j.run] = h
                              /\ \A r \in Runs : r # j.run => hold'[r] = hold[r]
  BY <1>1, <1>3, HoldTyped, Names DEF WriteHold, IInv, StateOK
<1>7. /\ j.run = row.run /\ rec[j.run] # "new" /\ hold[j.run] \in HoldStates
      /\ j.do \in Settles => live \notin Runs
      /\ ~Held => gate[j.run] = "none"
  BY <1>1, <1>3 DEF ParkInv, Settling, Polling, ParkRecords, InFlight, Settles, ToGate, Ends, Polls,
                    IInv, StateOK
<1>8. CASE j.do \in Ends
  <2>1. /\ hold[j.run] \in {"none", "fixing"} /\ row.state \notin Parked
        /\ h \notin OpenHold /\ (Held => h = "none")
    BY <1>1, <1>3, <1>6, <1>7, <1>8
    DEF ParkInv, Settling, ParkRecords, Settles, ToGate, Ends, HoldAfter, OpenHold
  <2>2. k.do \in Ends /\ k.do = j.do /\ k.run = j.run /\ k.step = 2
    BY <1>3, <1>8 DEF Ends
  <2>3. Settling'
    BY <1>1, <1>2, <1>3, <1>4, <1>5, <1>6, <1>7, <1>8, <2>1, <2>2
    DEF ParkInv, Settling, Settles, ToGate, Ends
  <2>4. Landings'
    BY Hands, <1>4, <1>5, <1>6, <2>1 DEF ParkInv, Landings
  <2> QED
    BY <1>1, <1>2, <1>3, <1>4, <1>5, <1>6, <1>7, <1>8, <2>1, <2>2, <2>3, <2>4
    DEF ParkInv, Shapes, LoopShape, ParkRecords, InFlight, Polling, Resumable, Holds, Gates,
        Releases, GateUp, GateTended, RowDue, HoldUp, Settles, ToGate, Ends, Polls, Standing, Waiting, Parked, OpenHold
<1>9. CASE j.do = "awaiting_review"
  <2>1. /\ hold[j.run] \in {"none", "fixing"} /\ row.state \notin Parked
        /\ h = "open" /\ ~Held
    BY <1>1, <1>3, <1>6, <1>7, <1>9
    DEF ParkInv, Settling, ParkRecords, Settles, ToGate, Ends, HoldAfter, OpenHold
  <2>2. k.do = "awaiting_review" /\ k.run = j.run /\ k.step = 2
    BY <1>3, <1>9 DEF Ends
  <2>3. Settling'
    BY <1>1, <1>2, <1>3, <1>4, <1>5, <1>6, <1>7, <1>9, <2>1, <2>2
    DEF ParkInv, Settling, Settles, ToGate, Ends
  <2>4. Landings'
    BY Hands, <1>4, <1>5, <1>6, <2>1 DEF ParkInv, Landings
  <2> QED
    BY <1>1, <1>2, <1>3, <1>4, <1>5, <1>6, <1>7, <1>9, <2>1, <2>2, <2>3, <2>4
    DEF ParkInv, Shapes, LoopShape, ParkRecords, InFlight, Polling, Resumable, Holds, Gates,
        Releases, GateUp, GateTended, RowDue, HoldUp, Settles, ToGate, Ends, Polls, Standing, Waiting, Parked, OpenHold
<1>10. CASE j.do \in {"pause", "poll_closed", "refix"}
  <2>1. /\ row.state \in Waiting \cup {"failed", "done"} /\ ~Held /\ j.do \notin Settles
        /\ gate[j.run] = "none"
    BY <1>1, <1>7, <1>10 DEF ParkInv, Polling, Polls, Settles, ToGate, Ends
  <2>2. /\ j.do = "pause" => hold[j.run] = "open" /\ h = "paused"
        /\ j.do = "poll_closed" => hold[j.run] = "approving" /\ h = "dismissed"
        /\ j.do = "refix" => hold[j.run] = "fixing" /\ h = "open"
    BY <1>1, <1>3, <1>6, <1>10
    DEF ParkInv, Polling, Polls, Ends, HoldAfter, OpenHold
  <2>3. /\ j.do = "pause" => k.do = "pause" /\ k.run = j.run /\ k.step = 2
        /\ j.do = "poll_closed" => k.do = "poll_closed" /\ k.run = j.run /\ k.step = 3
        /\ j.do = "refix" => k = Idle /\ k.do = "idle"
        /\ k.do \notin Settles
    BY <1>3, <1>10, IdleFields DEF Ends, Settles, ToGate
  <2>4. Landings'
    BY Hands, <1>1, <1>3, <1>4, <1>5, <1>6, <1>10, <2>2 DEF ParkInv, Landings, Polling, Polls, Ends
  <2>5. Polling'
    BY <1>1, <1>2, <1>3, <1>4, <1>5, <1>6, <1>7, <1>10, <2>1, <2>2, <2>3
    DEF ParkInv, Polling, Polls
  <2>6. HoldUp'
    BY <1>1, <1>2, <1>3, <1>4, <1>5, <1>6, <1>7, <1>10, <2>1, <2>2, <2>3
    DEF ParkInv, HoldUp
  <2>7. Shapes' /\ Settling' /\ ParkRecords' /\ InFlight'
    BY <1>1, <1>2, <1>3, <1>4, <1>5, <1>6, <1>7, <1>10, <2>1, <2>2, <2>3
    DEF ParkInv, Shapes, LoopShape, ParkRecords, InFlight, Settling
  <2> QED
    BY <1>1, <1>2, <1>3, <1>4, <1>5, <1>6, <1>7, <1>10, <2>1, <2>2, <2>3, <2>4, <2>5, <2>6, <2>7
    DEF ParkInv, Resumable, Holds, Gates, Releases, GateUp, GateTended, RowDue, Standing, Waiting,
        OpenHold, Settles
<1> QED
  BY <1>3, <1>8, <1>9, <1>10

LEMMA ParkClaimHold ==
  ASSUME IInv, ParkInv, ClaimHold
  PROVE  ParkInv'
<1>1. PICK j : j = job["loop"]
  OBVIOUS
<1>2. PICK k : k = job'["loop"]
  OBVIOUS
<1>3. UNCHANGED <<row, gate, rec, live, daemon, overtaken>> /\ Held' = Held
  BY DEF ClaimHold, forge, Held
<1>4. j.do \in {"poll_closed", "poll_changes", "poll_approved"} /\ j.step = 1 /\ j.run \in Runs
  <2>1. j.step \in DOMAIN Plan(j.do) /\ Plan(j.do)[j.step] = "claim"
    BY <1>1 DEF ClaimHold, At
  <2>2. LoopShape(j) /\ j.do # "idle" /\ j # Idle
    BY <1>1, <2>1, Plans, IdleFields DEF ParkInv, Shapes
  <2>3. j.do \in {"poll_closed", "poll_changes", "poll_approved"} /\ j.step = 1
    BY <2>1, <2>2, Plans DEF LoopShape, ToGate, Ends
  <2> QED
    BY <1>1, <2>3, Names DEF IInv, JobsGood, Good
<1>5. /\ hold[j.run] = "open" /\ j.run = row.run /\ ~Held /\ gate[j.run] = "none"
      /\ row.state \in Waiting \cup {"failed", "done"} /\ rec[j.run] # "new"
  BY <1>1, <1>4 DEF ParkInv, Polling, Polls, ParkRecords
<1>6. PICK h : /\ h = (IF j.do = "poll_changes" THEN "fixing" ELSE "approving")
               /\ hold'[j.run] = h /\ \A r \in Runs : r # j.run => hold'[r] = hold[r]
  BY <1>1, <1>4, <1>5 DEF ClaimHold, IInv, StateOK
<1>7. \A t \in Landers : ~(HasHold(job[t]) /\ job[t].run = j.run)
  BY <1>5 DEF ParkInv, Landings
<1>8. CASE j.do = "poll_approved"
  <2>1. PICK t \in Landers :
          /\ job[t] = Idle
          /\ job' = [job EXCEPT !["loop"] = Idle, ![t] = Begin("land_hold", j.run)]
    BY <1>1, <1>5, <1>8 DEF ClaimHold
  <2>2. k = Idle /\ k.do = "idle" /\ job'["op"] = job["op"]
    BY <1>2, <2>1, Names, IdleFields DEF IInv, JobsGood
  <2>3. PICK l : l = job'[t] /\ l.do = "land_hold" /\ l.run = j.run /\ l.step = 1
    BY <2>1, Names, BeginStep DEF IInv, JobsGood
  <2>4. \A u \in Landers : u # t => job'[u] = job[u]
    BY <2>1, Names DEF IInv, JobsGood
  <2>5. HasHold(l) /\ ~HasGate(l) /\ LanderShape(l)
    BY <2>3 DEF HasHold, HasGate, HoldJobs, GateJobs, LanderShape
  <2>6. Shapes'
    BY <1>2, <1>3, <2>2, <2>3, <2>4, <2>5 DEF ParkInv, Shapes, LoopShape
  <2>7. Landings'
    <3>1. \A u \in Landers : /\ HasGate(job'[u]) => ~Held' /\ gate'[job'[u].run] = "approving"
                             /\ HasHold(job'[u]) => hold'[job'[u].run] = "approving"
      BY Hands, <1>3, <1>4, <1>6, <1>7, <1>8, <2>3, <2>4, <2>5 DEF ParkInv, Landings
    <3>2. \A u, v \in Landers : job'[u].run = job'[v].run =>
            \/ u = v
            \/ ~(HasGate(job'[u]) /\ HasGate(job'[v])) /\ ~(HasHold(job'[u]) /\ HasHold(job'[v]))
      BY <1>7, <2>3, <2>4, <2>5 DEF ParkInv, Landings
    <3> QED
      BY <3>1, <3>2 DEF Landings, HasGate, HasHold
  <2>8. GateUp'
    BY <1>1, <1>2, <1>3, <1>5, <2>2 DEF GateUp, GateTended, RowDue, Waiting, ToGate
  <2>9. HoldUp'
    BY <1>3, <1>4, <1>5, <2>3 DEF HoldUp, HoldJobs
  <2> QED
    BY <1>1, <1>2, <1>3, <1>4, <1>5, <1>6, <1>8, <2>2, <2>6, <2>7, <2>8, <2>9
    DEF ParkInv, ParkRecords, InFlight, Settling, Polling, Resumable, Holds, Gates,
        Releases, Settles, ToGate, Ends, Polls, Waiting, Standing
<1>9. CASE j.do # "poll_approved"
  <2>1. Step("loop")
    BY <1>1, <1>5, <1>9 DEF ClaimHold
  <2>2. k.do = j.do /\ k.run = j.run /\ k.step = 2
    BY <1>1, <1>2, <1>4, <1>9, <2>1, LoopMoves
    DEF ClaimHold, IInv, ParkInv, Shapes
  <2>3. job'["op"] = job["op"] /\ \A t \in Landers : job'[t] = job[t]
    BY <2>1, Names, Moved DEF IInv
  <2>4. Landings'
    BY Hands, <1>3, <1>4, <1>6, <1>7, <2>3 DEF ParkInv, Landings
  <2>5. Polling'
    BY <1>2, <1>3, <1>4, <1>5, <1>6, <1>7, <1>9, <2>2, <2>3 DEF Polling
  <2>6. HoldUp' /\ GateUp'
    BY <1>2, <1>3, <1>4, <1>5, <1>9, <2>2 DEF HoldUp, GateUp, GateTended, RowDue, Waiting, ToGate
  <2> QED
    BY <1>1, <1>2, <1>3, <1>4, <1>5, <1>6, <1>9, <2>2, <2>3, <2>4, <2>5, <2>6
    DEF ParkInv, Shapes, LoopShape, ParkRecords, InFlight, Settling, Resumable, Holds, Gates,
        Releases, Settles, ToGate, Ends, Waiting, Standing
<1> QED
  BY <1>8, <1>9

LEMMA ParkResumeForFix ==
  ASSUME IInv, ParkInv, ResumeForFix
  PROVE  ParkInv'
<1>1. PICK j : j = job["loop"]
  OBVIOUS
<1>2. PICK k : k = job'["loop"]
  OBVIOUS
<1>3. UNCHANGED <<gate, hold, rec, live, daemon, overtaken>>
  BY DEF ResumeForFix, parks, forge
<1>4. j.do = "poll_changes" /\ j.step = 2 /\ j.run \in Runs
  <2>1. j.step \in DOMAIN Plan(j.do) /\ Plan(j.do)[j.step] = "fix"
    BY <1>1 DEF ResumeForFix, At
  <2>2. LoopShape(j) /\ j.do # "idle" /\ j # Idle
    BY <1>1, <2>1, Plans, IdleFields DEF ParkInv, Shapes
  <2>3. j.do = "poll_changes" /\ j.step = 2
    BY <2>1, <2>2, Plans DEF LoopShape, ToGate, Ends
  <2> QED
    BY <1>1, <2>3, Names DEF IInv, JobsGood, Good
<1>5. /\ hold[j.run] = "fixing" /\ j.run = row.run /\ ~Held /\ gate[j.run] = "none"
      /\ row.state \in Waiting \cup {"failed", "done"} /\ rec[j.run] # "new"
  BY <1>1, <1>4 DEF ParkInv, Polling, Polls, ParkRecords
<1>6. CASE row.state \in Waiting
  <2>1. Step("loop") /\ row' = [row EXCEPT !.state = "queued"]
    BY <1>1, <1>5, <1>6 DEF ResumeForFix, Waiting
  <2>2. k = Idle /\ k.do = "idle"
    BY <1>1, <1>2, <1>4, <2>1, LoopMoves, IdleFields
    DEF ResumeForFix, IInv, ParkInv, Shapes
  <2>3. job'["op"] = job["op"] /\ \A t \in Landers : job'[t] = job[t]
    BY <2>1, Names, Moved DEF IInv
  <2>4. row'.state = "queued" /\ row'.run = row.run /\ Held' = Held
    BY <2>1 DEF Held, IInv, StateOK
  <2> QED
    BY <1>1, <1>2, <1>3, <1>4, <1>5, <2>2, <2>3, <2>4
    DEF ParkInv, Shapes, LoopShape, ParkRecords, InFlight, Settling, Polling, Resumable, Holds, Gates,
        Landings, Releases, GateUp, GateTended, RowDue, HoldUp, Settles, ToGate, Ends, Polls, Waiting, Standing
<1>7. CASE row.state \notin Waiting
  <2>1. job' = [job EXCEPT !["loop"] = Begin("refix", j.run)] /\ row' = row
    BY <1>1, <1>7 DEF ResumeForFix, Waiting
  <2>2. k.do = "refix" /\ k.run = j.run /\ k.step = 1
    BY <1>2, <2>1, Names, BeginStep DEF IInv, JobsGood
  <2>3. job'["op"] = job["op"] /\ \A t \in Landers : job'[t] = job[t]
    BY <2>1, Names DEF IInv, JobsGood
  <2>4. Held' = Held
    BY <2>1 DEF Held
  <2> QED
    BY <1>1, <1>2, <1>3, <1>4, <1>5, <1>7, <2>1, <2>2, <2>3, <2>4
    DEF ParkInv, Shapes, LoopShape, ParkRecords, InFlight, Settling, Polling, Resumable, Holds, Gates,
        Landings, Releases, GateUp, GateTended, RowDue, HoldUp, Settles, ToGate, Ends, Polls, Waiting, Standing
<1> QED
  BY <1>6, <1>7

LEMMA ParkLoop ==
  ASSUME IInv, ParkInv, LoopStep
  PROVE  ParkInv'
  BY ParkLoopGate, ParkLoopHold, ParkLoopRow, ParkClaimHold, ParkResumeForFix
  DEF LoopStep, Write

-----------------------------------------------------------------------------
(* A landing thread's writes. *)

LEMMA ParkLanderGate ==
  ASSUME IInv, ParkInv, NEW t \in Landers, WriteGate(t)
  PROVE  ParkInv'
<1>1. PICK j : j = job[t]
  OBVIOUS
<1>2. PICK k : k = job'[t]
  OBVIOUS
<1>3. /\ j.run \in Runs
      /\ \/ j.do = "gate_landed" /\ j.step = 2 /\ k.do = j.do /\ k.run = j.run /\ k.step = 3
         \/ j.do = "gate_closed" /\ j.step = 1 /\ k.do = j.do /\ k.run = j.run /\ k.step = 2
         \/ j.do = "gate_refused" /\ j.step = 1 /\ k = Idle /\ k.do = "idle"
  BY <1>1, <1>2, LanderMoves, IdleFields DEF WriteGate, IInv, ParkInv, Shapes
<1>4. /\ job'["op"] = job["op"] /\ job'["loop"] = job["loop"]
      /\ \A u \in Landers : u # t => job'[u] = job[u]
  BY Names, Moved DEF WriteGate, IInv
<1>5. UNCHANGED <<row, hold, rec, live, daemon, overtaken>> /\ Held' = Held
  BY DEF WriteGate, Held
<1>6. HasGate(j) /\ ~HasHold(j) /\ ~HasGate(k) /\ ~HasHold(k) /\ LanderShape(k)
  BY <1>3 DEF HasGate, HasHold, GateJobs, HoldJobs, LanderShape
<1>7. ~Held /\ gate[j.run] = "approving" /\ job["op"].do = "idle"
  BY <1>1, <1>6 DEF ParkInv, Landings, Releases
<1>8. PICK g : /\ gate'[j.run] = g /\ g # "none"
               /\ j.do = "gate_refused" => g = "open"
               /\ \A r \in Runs : r # j.run => gate'[r] = gate[r]
  BY <1>1, <1>3, <1>7 DEF WriteGate, GateAfter, OpenGate, IInv, StateOK
<1>9. Shapes'
  BY <1>2, <1>4, <1>5, <1>6 DEF ParkInv, Shapes
<1>10. Landings'
  <2>1. \A u \in Landers : /\ HasGate(job'[u]) => ~Held' /\ gate'[job'[u].run] = "approving"
                           /\ HasHold(job'[u]) => hold'[job'[u].run] = "approving"
    BY Hands, <1>1, <1>2, <1>3, <1>4, <1>5, <1>6, <1>7, <1>8 DEF ParkInv, Landings
  <2>2. \A u, v \in Landers : job'[u].run = job'[v].run =>
            \/ u = v
            \/ ~(HasGate(job'[u]) /\ HasGate(job'[v])) /\ ~(HasHold(job'[u]) /\ HasHold(job'[v]))
    BY <1>2, <1>4, <1>6 DEF ParkInv, Landings
  <2> QED
    BY <2>1, <2>2 DEF Landings, HasGate, HasHold
<1>11. GateUp'
  <2>1. CASE j.run = row.run /\ j.do = "gate_refused"
    BY <1>3, <1>5, <1>8, <2>1 DEF GateUp, GateTended, RowDue
  <2>2. CASE j.run = row.run /\ j.do # "gate_refused"
    BY <1>2, <1>3, <1>5, <2>2 DEF GateUp, GateTended, RowDue, GateJobs
  <2>3. CASE j.run # row.run
    BY <1>1, <1>4, <1>5, <1>8, <2>3 DEF ParkInv, GateUp, GateTended, RowDue
  <2> QED
    BY <2>1, <2>2, <2>3
<1>12. HoldUp'
  BY <1>1, <1>3, <1>4, <1>5 DEF ParkInv, HoldUp, HoldJobs
<1>13. Settling'
  BY Hands, <1>3, <1>4, <1>5, <1>7, <1>8 DEF ParkInv, Settling, ParkRecords
<1>14. Polling'
  <2>1. \A u \in Landers : HasHold(job'[u]) => HasHold(job[u]) /\ job'[u] = job[u]
    BY <1>2, <1>4, <1>6
  <2> QED
    BY Hands, <1>3, <1>4, <1>5, <1>7, <1>8, <2>1 DEF ParkInv, Polling, ParkRecords
<1> QED
  BY <1>3, <1>4, <1>5, <1>7, <1>8, <1>9, <1>10, <1>11, <1>12, <1>13, <1>14, Hands
  DEF ParkInv, ParkRecords, InFlight, Resumable, Holds, Gates, Releases

LEMMA ParkLanderHold ==
  ASSUME IInv, ParkInv, NEW t \in Landers, WriteHold(t)
  PROVE  ParkInv'
<1>1. PICK j : j = job[t]
  OBVIOUS
<1>2. PICK k : k = job'[t]
  OBVIOUS
<1>3. /\ j.run \in Runs
      /\ \/ j.do = "hold_landed" /\ j.step = 2 /\ k.do = j.do /\ k.run = j.run /\ k.step = 3
         \/ j.do = "hold_closed" /\ j.step = 1 /\ k.do = j.do /\ k.run = j.run /\ k.step = 2
         \/ j.do = "hold_refused" /\ j.step = 1 /\ k = Idle /\ k.do = "idle"
  BY <1>1, <1>2, LanderMoves, IdleFields DEF WriteHold, IInv, ParkInv, Shapes
<1>4. /\ job'["op"] = job["op"] /\ job'["loop"] = job["loop"]
      /\ \A u \in Landers : u # t => job'[u] = job[u]
  BY Names, Moved DEF WriteHold, IInv
<1>5. UNCHANGED <<row, gate, rec, live, daemon, overtaken>> /\ Held' = Held
  BY DEF WriteHold, Held
<1>6. HasHold(j) /\ ~HasGate(j) /\ ~HasGate(k) /\ ~HasHold(k) /\ LanderShape(k)
  BY <1>3 DEF HasGate, HasHold, GateJobs, HoldJobs, LanderShape
<1>7. hold[j.run] = "approving" /\ ~Held /\ row.run = j.run
  BY <1>1, <1>3, <1>6 DEF ParkInv, Landings, ParkRecords, Holds, Standing
<1>8. PICK h : /\ hold'[j.run] = h
               /\ j.do = "hold_refused" => h = "open"
               /\ j.do # "hold_refused" => h \in {"merged", "dismissed"}
               /\ \A r \in Runs : r # j.run => hold'[r] = hold[r]
  BY <1>1, <1>3, <1>7 DEF WriteHold, HoldAfter, OpenHold, IInv, StateOK
<1>9. Shapes'
  BY <1>2, <1>4, <1>5, <1>6 DEF ParkInv, Shapes
<1>10. Landings'
  <2>1. \A u \in Landers : /\ HasGate(job'[u]) => ~Held' /\ gate'[job'[u].run] = "approving"
                           /\ HasHold(job'[u]) => hold'[job'[u].run] = "approving"
    BY Hands, <1>1, <1>2, <1>3, <1>4, <1>5, <1>6, <1>7, <1>8 DEF ParkInv, Landings
  <2>2. \A u, v \in Landers : job'[u].run = job'[v].run =>
            \/ u = v
            \/ ~(HasGate(job'[u]) /\ HasGate(job'[v])) /\ ~(HasHold(job'[u]) /\ HasHold(job'[v]))
    BY <1>2, <1>4, <1>6 DEF ParkInv, Landings
  <2> QED
    BY <2>1, <2>2 DEF Landings, HasGate, HasHold
<1>11. HoldUp'
  <2>1. CASE j.do = "hold_refused"
    BY <1>3, <1>5, <1>7, <1>8, <2>1 DEF HoldUp
  <2>2. CASE j.do # "hold_refused"
    BY <1>2, <1>3, <1>5, <1>7, <2>2 DEF HoldUp, HoldJobs
  <2> QED
    BY <2>1, <2>2
<1>12. GateUp'
  BY <1>1, <1>3, <1>4, <1>5 DEF ParkInv, GateUp, GateTended, RowDue, GateJobs
<1>13. Settling'
  BY <1>3, <1>4, <1>5, <1>7, <1>8 DEF ParkInv, Settling, OpenHold, Settles, ToGate, Ends
<1>14. Polling'
  <2>1. \A u \in Landers : HasHold(job'[u]) => HasHold(job[u]) /\ job'[u] = job[u]
    BY <1>2, <1>4, <1>6
  <2>2. ~(job["loop"].do = "poll_closed" /\ job["loop"].step = 2)
    BY <1>1, <1>6, <1>7 DEF ParkInv, Polling, Polls
  <2> QED
    BY <1>3, <1>4, <1>5, <1>7, <1>8, <2>1, <2>2 DEF ParkInv, Polling
<1> QED
  BY <1>3, <1>4, <1>5, <1>7, <1>8, <1>9, <1>10, <1>11, <1>12, <1>13, <1>14
  DEF ParkInv, ParkRecords, InFlight, Resumable, Holds, Gates, Releases, Standing

\* Giving the row up, or calling it done, leaves no park behind.
LEMMA ParkClosed ==
  ASSUME IInv, ParkInv, NEW w, w = row', w.state \in {"failed", "done"}, w.run = row.run,
         w.kind = row.kind, UNCHANGED <<gate, hold, rec, live, daemon>>, GateUp',
         job'["op"] = job["op"], job'["loop"] = job["loop"],
         \A u \in Landers : LanderShape(job'[u]) /\ (job'[u] = job[u] \/ job'[u].do = "idle")
  PROVE  ParkInv'
<1>1. Held' = Held
  BY DEF Held
<1>2. \A u \in Landers : /\ HasGate(job'[u]) => HasGate(job[u]) /\ job'[u] = job[u]
                         /\ HasHold(job'[u]) => HasHold(job[u]) /\ job'[u] = job[u]
  BY DEF HasGate, HasHold, GateJobs, HoldJobs
<1>3. Landings'
  <2>1. \A u \in Landers : /\ HasGate(job'[u]) => ~Held' /\ gate'[job'[u].run] = "approving"
                           /\ HasHold(job'[u]) => hold'[job'[u].run] = "approving"
    BY <1>1, <1>2 DEF ParkInv, Landings
  <2>2. \A u, v \in Landers : job'[u].run = job'[v].run =>
            \/ u = v
            \/ ~(HasGate(job'[u]) /\ HasGate(job'[v])) /\ ~(HasHold(job'[u]) /\ HasHold(job'[v]))
    BY <1>2 DEF ParkInv, Landings
  <2> QED
    BY <2>1, <2>2 DEF Landings, HasGate, HasHold
<1>4. Settling'
  BY <1>1 DEF ParkInv, Settling, Parked, Waiting
<1>5. Polling'
  BY <1>1, <1>2 DEF ParkInv, Polling
<1> QED
  BY <1>1, <1>3, <1>4, <1>5
  DEF ParkInv, Shapes, ParkRecords, InFlight, Resumable, Holds, Gates, Releases, HoldUp, Waiting

LEMMA ParkLanderRow ==
  ASSUME IInv, ParkInv, NEW t \in Landers, WriteRow(t)
  PROVE  ParkInv'
<1>1. PICK j : j = job[t]
  OBVIOUS
<1>2. PICK k : k = job'[t]
  OBVIOUS
<1>3. /\ j.do \in {"gate_landed", "hold_landed", "gate_closed", "hold_closed"}
      /\ k = Idle /\ k.do = "idle"
  BY <1>1, <1>2, LanderMoves, IdleFields DEF WriteRow, IInv, ParkInv, Shapes
<1>4. /\ job'["op"] = job["op"] /\ job'["loop"] = job["loop"]
      /\ \A u \in Landers : u # t => job'[u] = job[u]
  BY Names, Moved DEF WriteRow, IInv
<1>5. UNCHANGED <<gate, hold, rec, live, daemon>>
  BY DEF WriteRow, parks
<1>6. PICK w : w = row' /\ w.state \in {"failed", "done"} /\ w.run = row.run /\ w.kind = row.kind
  BY <1>1, <1>3 DEF WriteRow, RowAfter, Abandoned, Abandonable, IInv, StateOK, RowStates
<1>7. \A u \in Landers : LanderShape(job'[u]) /\ (job'[u] = job[u] \/ job'[u].do = "idle")
  BY <1>2, <1>3, <1>4 DEF ParkInv, Shapes, LanderShape
<1>8. GateUp'
  <2> SUFFICES ASSUME RowDue, NEW r, r = row.run
               PROVE  r \in Runs /\ GateTended(r)'
    BY <1>4, <1>6 DEF GateUp, RowDue
  <2>1. r \in Runs /\ GateTended(r) /\ job["loop"].run = r
    BY DEF ParkInv, GateUp, RowDue, Settling, Settles
  <2>2. overtaken' = IF Overtakes(t) THEN overtaken \cup {j.run} ELSE overtaken
    BY <1>1 DEF WriteRow
  <2>3. CASE j.do \in GateJobs /\ j.run = r
    <3>1. Overtakes(t)
      BY <1>1, <1>3, <2>1, <2>3 DEF Overtakes, RowDue, ToGate, GateJobs
    <3>2. r \in overtaken'
      BY <2>2, <2>3, <3>1
    <3> QED
      BY <2>1, <3>2 DEF GateTended
  <2>4. CASE ~(j.do \in GateJobs /\ j.run = r)
    <3>1. r \in overtaken => r \in overtaken'
      BY <2>2
    <3>2. ASSUME NEW u \in Landers, job[u].do \in GateJobs, job[u].run = r
          PROVE  job'[u].do \in GateJobs /\ job'[u].run = r
      BY <1>1, <1>4, <2>4, <3>2
    <3> QED
      BY <1>4, <1>5, <2>1, <3>1, <3>2 DEF GateTended
  <2> QED
    BY <2>3, <2>4
<1> QED
  BY <1>4, <1>5, <1>6, <1>7, <1>8, ParkClosed

\* A landing thread goes on to another job on the same park.
LEMMA ParkLanderOn ==
  ASSUME IInv, ParkInv, NEW t \in Landers, NEW j, j = job[t], NEW k, k = job'[t],
         j.run = k.run, LanderShape(k), HasGate(k) <=> HasGate(j), HasHold(k) <=> HasHold(j),
         k.do \in GateJobs <=> j.do \in GateJobs, k.do \in HoldJobs <=> j.do \in HoldJobs,
         job'["op"] = job["op"], job'["loop"] = job["loop"],
         \A u \in Landers : u # t => job'[u] = job[u],
         UNCHANGED <<row, gate, hold, live, daemon, overtaken>>,
         \A r \in Runs : rec'[r] = rec[r] \/ rec'[r] = "landed"
  PROVE  ParkInv'
<1>1. Held' = Held
  BY DEF Held
<1>2. Landings'
  <2>1. \A u \in Landers : /\ HasGate(job'[u]) => ~Held' /\ gate'[job'[u].run] = "approving"
                           /\ HasHold(job'[u]) => hold'[job'[u].run] = "approving"
    BY <1>1 DEF ParkInv, Landings
  <2>2. \A u, v \in Landers : job'[u].run = job'[v].run =>
            \/ u = v
            \/ ~(HasGate(job'[u]) /\ HasGate(job'[v])) /\ ~(HasHold(job'[u]) /\ HasHold(job'[v]))
    BY DEF ParkInv, Landings
  <2> QED
    BY <2>1, <2>2 DEF Landings, HasGate, HasHold
<1>3. Polling'
  <2>1. \A u \in Landers : (HasHold(job'[u]) <=> HasHold(job[u])) /\ job'[u].run = job[u].run
    OBVIOUS
  <2> QED
    BY <1>1, <2>1 DEF ParkInv, Polling
<1>4. \A u \in Landers : /\ job'[u].do \in GateJobs <=> job[u].do \in GateJobs
                         /\ job'[u].do \in HoldJobs <=> job[u].do \in HoldJobs
                         /\ job'[u].run = job[u].run
  OBVIOUS
<1>5. GateUp' /\ HoldUp'
  BY <1>4 DEF ParkInv, GateUp, GateTended, RowDue, HoldUp
<1> QED
  BY <1>1, <1>2, <1>3, <1>5
  DEF ParkInv, Shapes, ParkRecords, InFlight, Settling, Resumable, Holds, Gates, Releases

LEMMA ParkLander ==
  ASSUME IInv, ParkInv, NEW t \in Landers, LanderStep(t)
  PROVE  ParkInv'
<1>1. PICK j : j = job[t]
  OBVIOUS
<1>2. PICK k : k = job'[t]
  OBVIOUS
<1>3. CASE WriteRecord(t)
  <2>1. j.do \in {"gate_landed", "hold_landed"} /\ j.step = 1 /\ j.run \in Runs
        /\ k.do = j.do /\ k.run = j.run /\ k.step = 2
    BY <1>1, <1>2, <1>3, LanderMoves DEF WriteRecord, IInv, ParkInv, Shapes
  <2>2. /\ job'["op"] = job["op"] /\ job'["loop"] = job["loop"]
        /\ \A u \in Landers : u # t => job'[u] = job[u]
    BY <1>3, Names, Moved DEF WriteRecord, IInv
  <2>3. /\ LanderShape(k) /\ (HasGate(k) <=> HasGate(j)) /\ (HasHold(k) <=> HasHold(j))
        /\ k.do \in GateJobs <=> j.do \in GateJobs
        /\ k.do \in HoldJobs <=> j.do \in HoldJobs
    BY <2>1 DEF HasGate, HasHold, GateJobs, HoldJobs, LanderShape
  <2>4. UNCHANGED <<row, gate, hold, live, daemon, overtaken>>
        /\ \A r \in Runs : rec'[r] = rec[r] \/ rec'[r] = "landed"
    BY <1>3 DEF WriteRecord, parks, IInv, StateOK
  <2> QED
    BY <1>1, <1>2, <2>1, <2>2, <2>3, <2>4, ParkLanderOn
<1>4. ASSUME NEW how \in {"landed", "closed", "refused"}, Landing(t, how) PROVE ParkInv'
  <2>1. j.do \in {"land_gate", "land_hold"} /\ j.step = 1 /\ j.run \in Runs
    BY <1>1, <1>4, LanderMoves DEF Landing, IInv, ParkInv, Shapes
  <2>2. PICK do : /\ job' = [job EXCEPT ![t] = Begin(do, j.run)]
                  /\ j.do = "land_gate" => do \in {"gate_landed", "gate_closed", "gate_refused"}
                  /\ j.do = "land_hold" => do \in {"hold_landed", "hold_closed", "hold_refused"}
    BY <1>1, <1>4, <2>1 DEF Landing
  <2>3. k.do = do /\ k.run = j.run /\ k.step = 1
    BY <1>2, <2>2, Names, BeginStep DEF IInv, JobsGood
  <2>4. /\ job'["op"] = job["op"] /\ job'["loop"] = job["loop"]
        /\ \A u \in Landers : u # t => job'[u] = job[u]
    BY <2>2, Names DEF IInv, JobsGood
  <2>5. /\ LanderShape(k) /\ (HasGate(k) <=> HasGate(j)) /\ (HasHold(k) <=> HasHold(j))
        /\ k.do \in GateJobs <=> j.do \in GateJobs
        /\ k.do \in HoldJobs <=> j.do \in HoldJobs
    BY <2>1, <2>2, <2>3 DEF HasGate, HasHold, GateJobs, HoldJobs, LanderShape
  <2>6. UNCHANGED <<row, gate, hold, live, daemon, overtaken>> /\ rec' = rec
    BY <1>4 DEF Landing, parks
  <2> QED
    BY <1>1, <1>2, <2>3, <2>4, <2>5, <2>6, ParkLanderOn
<1> QED
  BY <1>3, <1>4, ParkLanderGate, ParkLanderHold, ParkLanderRow DEF LanderStep, Write

-----------------------------------------------------------------------------
(* The operator's verbs. *)

LEMMA ParkApprove ==
  ASSUME IInv, ParkInv, NEW r \in Runs, ApproveMerge(r)
  PROVE  ParkInv'
<1>1. /\ ~Held /\ gate[r] = "open" /\ gate \in [Runs -> GateStates]
      /\ gate' = [gate EXCEPT ![r] = "approving"]
      /\ UNCHANGED <<row, hold, rec, live, daemon, overtaken>>
  BY DEF ApproveMerge, forge, IInv, StateOK
<1>2. PICK t \in Landers : job[t] = Idle /\ job' = [job EXCEPT ![t] = Begin("land_gate", r)]
  BY DEF ApproveMerge, Spawn
<1>3. PICK k : k = job'[t] /\ k.do = "land_gate" /\ k.run = r /\ k.step = 1
  BY <1>2, Names, BeginStep DEF IInv, JobsGood
<1>4. /\ job'["op"] = job["op"] /\ job'["loop"] = job["loop"]
      /\ \A u \in Landers : u # t => job'[u] = job[u]
  BY <1>2, Names DEF IInv, JobsGood
<1>5. Held' = Held
  BY <1>1 DEF Held
<1>6. HasGate(k) /\ ~HasHold(k) /\ LanderShape(k)
  BY <1>3 DEF HasGate, HasHold, GateJobs, HoldJobs, LanderShape
<1>7. gate'[r] = "approving" /\ \A s \in Runs : s # r => gate'[s] = gate[s]
  BY <1>1
<1>8. \A u \in Landers : ~(HasGate(job[u]) /\ job[u].run = r)
  BY <1>1 DEF ParkInv, Landings
<1>9. Landings'
  <2>1. \A u \in Landers : /\ HasGate(job'[u]) => ~Held' /\ gate'[job'[u].run] = "approving"
                           /\ HasHold(job'[u]) => hold'[job'[u].run] = "approving"
    BY Hands, <1>1, <1>3, <1>4, <1>5, <1>6, <1>7 DEF ParkInv, Landings
  <2>2. \A u, v \in Landers : job'[u].run = job'[v].run =>
            \/ u = v
            \/ ~(HasGate(job'[u]) /\ HasGate(job'[v])) /\ ~(HasHold(job'[u]) /\ HasHold(job'[v]))
    BY <1>3, <1>4, <1>6, <1>8 DEF ParkInv, Landings
  <2> QED
    BY <2>1, <2>2 DEF Landings, HasGate, HasHold
<1>10. Polling'
  <2>1. \A u \in Landers : HasHold(job'[u]) => HasHold(job[u]) /\ job'[u] = job[u]
    BY <1>3, <1>4, <1>6
  <2> QED
    BY Hands, <1>1, <1>4, <1>5, <1>7, <2>1 DEF ParkInv, Polling
<1>11. Settling'
  BY Hands, <1>1, <1>4, <1>5, <1>7 DEF ParkInv, Settling, ToGate
<1>12. GateUp'
  <2>1. CASE row.run = r
    BY <1>1, <1>3, <2>1 DEF GateUp, GateTended, RowDue, GateJobs
  <2>2. CASE row.run # r
    <3>1. job[t].do \notin GateJobs
      BY <1>2, IdleFields DEF GateJobs
    <3> QED
      BY <1>1, <1>4, <1>7, <2>2, <3>1 DEF ParkInv, GateUp, GateTended, RowDue
  <2> QED
    BY <2>1, <2>2
<1>13. HoldUp'
  <2>1. job[t].do \notin HoldJobs
    BY <1>2, IdleFields DEF HoldJobs
  <2> QED
    BY <1>1, <1>4, <2>1 DEF ParkInv, HoldUp
<1> QED
  BY Hands, <1>1, <1>3, <1>4, <1>5, <1>6, <1>7, <1>9, <1>10, <1>11, <1>12, <1>13
  DEF ParkInv, Shapes, ParkRecords, InFlight, Resumable, Holds, Gates, Releases

\* The operator's thread goes on; nothing else moves.
LEMMA ParkOperatorOn ==
  ASSUME IInv, ParkInv, NEW p, p = job'["op"], job'["loop"] = job["loop"],
         OpShape(p), p.do # "idle" => Held /\ gate[p.run] # "none",
         (row.state = "gated" \/ RowDue) /\ job["op"].run = row.run =>
             \/ p.run = row.run /\ p.do = "unrelease"
             \/ ~(job["op"].do = "release" /\ job["op"].step = 2) /\ job["op"].do # "unrelease",
         \A t \in Landers : job'[t] = job[t],
         UNCHANGED <<row, gate, hold, rec, live, daemon, overtaken>>
  PROVE  ParkInv'
<1>1. Held' = Held
  BY DEF Held
<1>2. Settling'
  BY <1>1, Hands, ParkingAssumption DEF ParkInv, Settling
<1>3. GateUp'
  BY DEF ParkInv, GateUp, GateTended, RowDue
<1> QED
  BY <1>1, <1>2, <1>3
  DEF ParkInv, Shapes, ParkRecords, InFlight, Polling, Resumable, Holds, Gates, Landings,
      Releases, HoldUp

LEMMA ParkOperator ==
  ASSUME QuietParks, IInv, ParkInv, Operator
  PROVE  ParkInv'
<1>1. ASSUME NEW r \in Runs, Release(r) PROVE ParkInv'
  <2>1. /\ Held /\ gate[r] \in OpenGate /\ job["op"] = Idle
        /\ job' = [job EXCEPT !["op"] = Begin("release", r)]
        /\ UNCHANGED <<row, gate, hold, rec, live, daemon, overtaken>>
    BY <1>1 DEF Release, OpFree, parks, forge
  <2>2. PICK p : p = job'["op"] /\ p.do = "release" /\ p.run = r /\ p.step = 1
    BY <2>1, Names, BeginStep DEF IInv, JobsGood
  <2>3. job'["loop"] = job["loop"] /\ \A t \in Landers : job'[t] = job[t]
    BY <2>1, Names DEF IInv, JobsGood
  <2>4. OpShape(p) /\ gate[p.run] # "none"
    BY <2>1, <2>2 DEF OpShape, OpenGate
  <2>5. job["op"].do = "idle" /\ job["op"].run = NoRun
    BY <2>1, IdleFields
  <2> QED
    BY <2>1, <2>2, <2>3, <2>4, <2>5, ParkOperatorOn
<1>2. CASE CliAbandon
  <2>1. /\ row' = [row EXCEPT !.state = "failed"]
        /\ UNCHANGED <<gate, hold, rec, live, job, daemon, overtaken>>
    BY <1>2 DEF CliAbandon, Abandoned, parks, forge
  <2>2. PICK w : w = row' /\ w.state = "failed" /\ w.run = row.run /\ w.kind = row.kind
    BY <2>1 DEF IInv, StateOK
  <2>3. \A u \in Landers : LanderShape(job'[u])
    BY <2>1 DEF ParkInv, Shapes
  <2>4. GateUp'
    BY <2>1, <2>2 DEF ParkInv, GateUp, GateTended, RowDue
  <2> QED
    BY <2>1, <2>2, <2>3, <2>4, ParkClosed
<1>3. ~May("abandon") /\ ~May("retry") /\ ~May("resume_review")
  BY DEF QuietParks, May
<1> QED
  BY <1>1, <1>2, <1>3, ParkApprove DEF Operator, AbandonItem, RetryItem, ResumeReview

LEMMA ParkOpGate ==
  ASSUME IInv, ParkInv, WriteGate("op")
  PROVE  ParkInv'
<1>1. PICK o : o = job["op"]
  OBVIOUS
<1>2. PICK p : p = job'["op"]
  OBVIOUS
<1>3. o.run \in Runs /\ o.do = "unrelease" /\ o.step = 1 /\ p = Idle
  BY <1>1, <1>2, OpMoves DEF WriteGate, IInv, ParkInv, Shapes
<1>4. job'["loop"] = job["loop"] /\ \A t \in Landers : job'[t] = job[t]
  BY Names, Moved DEF WriteGate, IInv
<1>5. UNCHANGED <<row, hold, rec, live, daemon, overtaken>> /\ Held' = Held
  BY DEF WriteGate, Held
<1>6. Held /\ gate[o.run] # "none" /\ gate[o.run] \in GateStates
  BY <1>1, <1>3 DEF ParkInv, Releases, IInv, StateOK
<1>7. PICK g : /\ gate'[o.run] = g /\ g # "none"
               /\ gate[o.run] \in OpenGate => g = "open"
               /\ \A r \in Runs : r # o.run => gate'[r] = gate[r]
  BY <1>1, <1>3, <1>6 DEF WriteGate, GateAfter, IInv, StateOK
<1>8. p.do = "idle" /\ p.run = NoRun /\ OpShape(p)
  BY <1>3, IdleFields DEF OpShape
<1>9. Settling'
  BY Hands, <1>1, <1>2, <1>3, <1>4, <1>5, <1>6, <1>7, <1>8, ParkingAssumption
  DEF ParkInv, Settling, Settles, ToGate, OpenGate
<1>10. GateUp'
  BY <1>1, <1>2, <1>3, <1>4, <1>5, <1>6, <1>7, <1>8 DEF ParkInv, GateUp, GateTended, RowDue, OpenGate
<1>11. Landings' /\ Polling'
  BY <1>4, <1>5, <1>6 DEF ParkInv, Landings, Polling, ParkRecords
<1> QED
  BY Hands, <1>1, <1>2, <1>3, <1>4, <1>5, <1>6, <1>7, <1>8, <1>9, <1>10, <1>11
  DEF ParkInv, Shapes, ParkRecords, InFlight, Resumable, Holds, Gates, Releases, HoldUp, Standing

LEMMA ParkClaimRelease ==
  ASSUME IInv, ParkInv, ClaimRelease
  PROVE  ParkInv'
<1>1. PICK o : o = job["op"]
  OBVIOUS
<1>2. PICK p : p = job'["op"]
  OBVIOUS
<1>3. o.run \in Runs /\ o.do = "release" /\ o.step = 1
  BY <1>1, OpMoves DEF ClaimRelease, IInv, ParkInv, Shapes
<1>4. UNCHANGED <<row, hold, rec, live, daemon, overtaken>> /\ Held' = Held
  BY DEF ClaimRelease, forge, Held
<1>5. Held /\ gate[o.run] # "none"
  BY <1>1, <1>3 DEF ParkInv, Releases
<1>6. CASE gate[o.run] # "open"
  <2>1. job' = [job EXCEPT !["op"] = Idle] /\ gate' = gate
    BY <1>1, <1>6 DEF ClaimRelease
  <2>2. p.do = "idle" /\ p.run = NoRun /\ OpShape(p)
    BY <1>2, <2>1, Names, IdleFields DEF OpShape, IInv, JobsGood
  <2>3. job'["loop"] = job["loop"] /\ \A t \in Landers : job'[t] = job[t]
    BY <2>1, Names DEF IInv, JobsGood
  <2> QED
    BY <1>1, <1>2, <1>3, <1>4, <2>1, <2>2, <2>3, ParkOperatorOn
<1>7. CASE gate[o.run] = "open"
  <2>1. Step("op") /\ gate' = [gate EXCEPT ![o.run] = "approving"] /\ gate \in [Runs -> GateStates]
    BY <1>1, <1>7 DEF ClaimRelease, IInv, StateOK
  <2>2. p.do = "release" /\ p.run = o.run /\ p.step = 2
    BY <1>1, <1>2, <1>3, <2>1, OpMoves DEF ClaimRelease, IInv, ParkInv, Shapes
  <2>3. job'["loop"] = job["loop"] /\ \A t \in Landers : job'[t] = job[t]
    BY <2>1, Names, Moved DEF IInv
  <2>4. gate'[o.run] = "approving" /\ \A r \in Runs : r # o.run => gate'[r] = gate[r]
    BY <1>3, <2>1
  <2>5. Settling'
    BY Hands, <1>1, <1>2, <1>3, <1>4, <1>5, <1>7, <2>2, <2>3, <2>4
    DEF ParkInv, Settling, ToGate
  <2>6. GateUp'
    BY <1>1, <1>2, <1>3, <1>4, <1>7, <2>2, <2>3, <2>4 DEF ParkInv, GateUp, GateTended, RowDue
  <2>7. Landings' /\ Polling'
    BY <1>4, <1>5, <2>3 DEF ParkInv, Landings, Polling, ParkRecords
  <2> QED
    BY Hands, <1>1, <1>2, <1>3, <1>4, <1>5, <1>7, <2>2, <2>3, <2>4, <2>5, <2>6, <2>7
    DEF ParkInv, Shapes, OpShape, ParkRecords, InFlight, Resumable, Holds, Gates, Releases, HoldUp,
        Standing
<1> QED
  BY <1>6, <1>7

LEMMA ParkResumeForRelease ==
  ASSUME IInv, ParkInv, ResumeForRelease
  PROVE  ParkInv'
<1>1. PICK o : o = job["op"]
  OBVIOUS
<1>2. PICK p : p = job'["op"]
  OBVIOUS
<1>3. o.run \in Runs /\ o.do = "release" /\ o.step = 2
  BY <1>1, OpMoves DEF ResumeForRelease, IInv, ParkInv, Shapes
<1>4. UNCHANGED <<gate, hold, rec, live, daemon, overtaken>>
  BY DEF ResumeForRelease, parks, forge
<1>5. Held /\ gate[o.run] # "none"
  BY <1>1, <1>3 DEF ParkInv, Releases
<1>6. CASE row.state = "gated" /\ row.run = o.run
  <2>1. Step("op") /\ row' = [row EXCEPT !.state = "queued"]
    BY <1>1, <1>6 DEF ResumeForRelease
  <2>2. p = Idle
    BY <1>1, <1>2, <1>3, <2>1, OpMoves DEF ResumeForRelease, IInv, ParkInv, Shapes
  <2>3. job'["loop"] = job["loop"] /\ \A t \in Landers : job'[t] = job[t]
    BY <2>1, Names, Moved DEF IInv
  <2>4. row'.state = "queued" /\ row'.run = row.run /\ Held' = Held
    BY <2>1 DEF Held, IInv, StateOK
  <2>5. p.do = "idle" /\ p.run = NoRun /\ OpShape(p)
    BY <2>2, IdleFields DEF OpShape
  <2>6. job["loop"].do \notin Settles
    BY <1>1, <1>6 DEF ParkInv, Settling, Parked, Settles, ToGate, Ends
  <2>7. Settling' /\ Polling'
    BY <1>5, <2>3, <2>4, <2>6 DEF ParkInv, Settling, Polling
  <2> QED
    BY <1>1, <1>2, <1>3, <1>4, <1>5, <1>6, <2>3, <2>4, <2>5, <2>6, <2>7
    DEF ParkInv, Shapes, ParkRecords, InFlight, Resumable, Holds, Gates, Landings, Releases,
        GateUp, GateTended, RowDue, HoldUp, Waiting, Standing, Settles
<1>7. CASE ~(row.state = "gated" /\ row.run = o.run)
  <2>1. job' = [job EXCEPT !["op"] = Begin("unrelease", o.run)] /\ row' = row
    BY <1>1, <1>7 DEF ResumeForRelease
  <2>2. p.do = "unrelease" /\ p.run = o.run /\ p.step = 1
    BY <1>2, <2>1, Names, BeginStep DEF IInv, JobsGood
  <2>3. job'["loop"] = job["loop"] /\ \A t \in Landers : job'[t] = job[t]
    BY <2>1, Names DEF IInv, JobsGood
  <2>4. OpShape(p)
    BY <2>2 DEF OpShape
  <2> QED
    BY <1>1, <1>2, <1>4, <1>5, <1>7, <2>1, <2>2, <2>3, <2>4, ParkOperatorOn
<1> QED
  BY <1>6, <1>7

LEMMA ParkOp ==
  ASSUME IInv, ParkInv, OpStep
  PROVE  ParkInv'
<1>1. ASSUME NEW s, At("op", s) PROVE s \in {"claim", "requeue", "gate"}
  BY <1>1, OpMoves DEF IInv, ParkInv, Shapes
<1>2. ~WriteHold("op") /\ ~WriteRow("op") /\ ~AbandonRow /\ ~Dismiss
  BY <1>1 DEF WriteHold, WriteRow, AbandonRow, Dismiss
<1> QED
  BY <1>2, ParkOpGate, ParkClaimRelease, ParkResumeForRelease DEF OpStep, Write

-----------------------------------------------------------------------------
LEMMA ParkNext ==
  ASSUME QuietParks, IInv, ParkInv, [Next]_vars
  PROVE  ParkInv'
<1>1. CASE Forge \/ UNCHANGED vars
  BY <1>1, ParkSame DEF Forge, ForgeClose, Review, parks, vars
<1>2. ~Crash
  BY DEF QuietParks, Crash, IInv, StateOK
<1>3. ~Recover
  BY DEF ParkInv, Shapes, Recover, Restart, ReconcileGates, ReconcileHolds, RecoverRow
<1> QED
  BY <1>1, <1>2, <1>3, ParkTick, ParkEngine, ParkLoop, ParkOperator, ParkOp, ParkLander DEF Next

\* With every thread at rest nobody has anything in hand.
LEMMA ParkRests == IInv /\ ParkInv => NoStrandedPark
<1> SUFFICES ASSUME IInv, ParkInv, AtRest
             PROVE  /\ row.state = "gated" => GateStanding \/ row.run \in overtaken
                    /\ row.state \in Waiting => HoldStanding
  BY DEF NoStrandedPark
<1>1. \A t \in Landers : job[t].do = "idle"
  BY Names, IdleFields DEF AtRest
<1>2. job["loop"].do = "idle" /\ job["op"].do = "idle"
  BY Names, IdleFields DEF AtRest
<1> QED
  BY <1>1, <1>2 DEF ParkInv, GateUp, GateTended, RowDue, HoldUp, GateJobs, HoldJobs, Waiting,
     GateStanding, HoldStanding

\* A parked item has its way out (create_merge_gate, create_review_hold, claim_merge_gate,
\* claim_review_hold, _release_hold, resume_for_fix): for any number of runs, landing threads
\* and approvals, and however often lantern daemon abandon closes the row under the daemon,
\* a gated row at rest has an open gate and a waiting one a hold that is polled or paused.
\* The only other gated row is one whose landing was approved and over before mark_gated.
THEOREM ParksHaveAWayOut ==
  ASSUME QuietParks
  PROVE  Spec => []NoStrandedPark
<1>1. Init => IInv /\ ParkInv
  BY InitInv, ParkInit
<1>2. IInv /\ ParkInv /\ [Next]_vars => IInv' /\ ParkInv'
  BY NextInv, ParkNext
<1>3. IInv /\ ParkInv => NoStrandedPark
  BY ParkRests
<1> QED
  BY <1>1, <1>2, <1>3, PTL DEF Spec
=============================================================================
