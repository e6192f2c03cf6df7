-------------------------- MODULE DaemonLoopProofs --------------------------
(***************************************************************************)
(* What the loop guarantees for every set of items and runs, every number  *)
(* of slots, attempts, resumes, verbs and crashes: its type invariant,     *)
(* that two code runs never work one repository at once, that no more runs *)
(* are in flight than there are slots, that no row is stranded in          *)
(* "running", that an abandon of a run in flight is final, that a merged   *)
(* item stays merged, that attempts and resumes stay within what was paid  *)
(* for, that a merge is reported, and that no record is left open by       *)
(* everybody.                                                              *)
(*                                                                         *)
(* None is inductive.  Admission is decided at the pick, and the claim,    *)
(* the marks and the sandbox sweep come between it and the launch: IInv    *)
(* says what a launch in progress may rely on meanwhile (LaunchReady),     *)
(* which needs to know that rows, runs in flight and jobs name the items   *)
(* the ledger says (Pinned, LiveOwned, JobsNamed).  A settle decides first *)
(* and writes the row several writes later: RowInv says in which states    *)
(* that write may still find the row.  It is shown in two parts: what a    *)
(* step may do to a row, to the loop's job, to a handle and to the process *)
(* (Moves), action by action, and that nothing a step may do breaks it.    *)
(* ChurnInv counts, beside the attempts and resumes an item has had, those *)
(* that nobody has to pay for again.  HeardInv says whom a debt is owed    *)
(* to, PhantomInv who will close a record that nobody executes.            *)
(***************************************************************************)
EXTENDS DaemonLoop, FiniteSetTheorems, TLAPS

\* A row's pinned run is a run of that item.
Pinned == \A i \in Items : row[i].run # NoRun => ledger[row[i].run].item = i

\* A run in flight is in the ledger.
LiveOwned == \A r \in Runs : Live(r) => ledger[r].item \in Items

\* A thread in the middle of something works on an item.
JobsNamed == \A t \in Threads : job[t].do # "idle" => job[t].item \in Items

\* Until the handle is registered no run in flight conflicts with the item picked and a
\* slot is free; the run to launch is fresh until it is marked, the item's own after.
LaunchReady ==
  LET j == job["loop"] IN
  /\ j.do \in Launching => \A s \in Runs : Live(s) => ~Conflict(j.item, ledger[s].item)
  /\ j.do \in Launching => Room
  /\ j.do = "start" => /\ j.run \in Runs
                       /\ IF j.step = 1 THEN Fresh(j.run) ELSE ledger[j.run].item = j.item
  /\ j.do \in {"resume", "provider_resume"} => j.run \in Runs /\ ledger[j.run].item = j.item

IInv == /\ TypeOK /\ Pinned /\ LiveOwned /\ JobsNamed /\ LaunchReady
        /\ OneCodeRunPerRepo /\ ConcurrencyLimit

-----------------------------------------------------------------------------
(* What the plans contain. *)

LEMMA MarkIsFirst ==
  ASSUME NEW do \in Doing, NEW n \in 1..Len(Plan(do)), Plan(do)[n] = "mark"
  PROVE  do = "start" /\ n = 1
  BY DEF Plan, Doing, Launching, Settling, Recovering, Verbing

LEMMA LaunchIsLast ==
  ASSUME NEW do \in Doing, NEW n \in 1..Len(Plan(do)), Plan(do)[n] = "launch"
  PROVE  do \in {"start", "resume", "provider_resume"} /\ n = Len(Plan(do)) /\ n > 1
  BY DEF Plan, Doing, Launching, Settling, Recovering, Verbing

LEMMA LedgerResult ==
  ASSUME NEW do \in Doing, NEW n \in 1..Len(Plan(do)), Plan(do)[n] = "ledger"
  PROVE  LedgerAfter(do) \in Results
  BY DEF Plan, Doing, Launching, Settling, Recovering, Verbing, LedgerAfter, Results

LEMMA LookIsSettling ==
  ASSUME NEW do \in Doing, NEW n \in 1..Len(Plan(do)), Plan(do)[n] = "look"
  PROVE  do \notin Launching
  BY DEF Plan, Doing, Launching, Settling, Recovering, Verbing

LEMMA ClaimIsAlone ==
  ASSUME NEW do \in Doing, NEW n \in 1..Len(Plan(do)), Plan(do)[n] = "claim"
  PROVE  do = "claim"
  BY DEF Plan, Doing, Launching, Settling, Recovering, Verbing

\* Only a plan that is not "idle" has a write.
LEMMA IdleHasNoPlan == Plan("idle") = <<>>
  BY DEF Plan

-----------------------------------------------------------------------------
(* Steps that neither launch nor mark: nothing they do can bring two runs  *)
(* of one repository together.                                             *)

\* Pins are kept or dropped, the ledger's items stay, and no run joins those in flight.
Tame ==
  /\ \A i \in Items : row'[i].run = row[i].run \/ row'[i].run = NoRun
  /\ \A r \in Runs : ledger'[r].item = ledger[r].item
  /\ \A r \in Runs : Live(r)' => Live(r)

\* The loop's job is the one it was, the same plan further on (past its first write),
\* or no launch.
TameJob ==
  \/ job'["loop"] = job["loop"]
  \/ job'["loop"].do \notin Launching
  \/ /\ job["loop"].do \in {"resume", "provider_resume"}
     /\ job'["loop"].do = job["loop"].do
     /\ job'["loop"].item = job["loop"].item /\ job'["loop"].run = job["loop"].run

LEMMA FewerRuns ==
  ASSUME Tame
  PROVE  /\ Cardinality(LiveRuns) \in Nat /\ Cardinality(LiveRuns') \in Nat
         /\ Cardinality(LiveRuns') <= Cardinality(LiveRuns)
<1>1. LiveRuns' \subseteq LiveRuns /\ LiveRuns \subseteq Runs
  BY DEF Tame, LiveRuns
<1>2. IsFiniteSet(LiveRuns) /\ IsFiniteSet(LiveRuns')
  BY <1>1, FS_Subset, ConstantsAssumption
<1> QED
  BY <1>1, <1>2, FS_Subset, FS_CardinalityType

LEMMA TameKeeps ==
  ASSUME IInv, TypeOK', JobsNamed', Tame, TameJob
  PROVE  IInv'
<1>1. Pinned'
  BY DEF IInv, Pinned, Tame, TypeOK, RowType
<1>2. LiveOwned'
  BY DEF IInv, LiveOwned, Tame
<1>3. LaunchReady'
  <2>1. Room => Room'
    BY FewerRuns, ConstantsAssumption DEF Room
  <2> QED
    BY <2>1 DEF IInv, LaunchReady, Tame, TameJob, Fresh, Launching, Conflict, LiveOwned
<1>4. OneCodeRunPerRepo'
  BY DEF IInv, OneCodeRunPerRepo, LiveRuns, Tame, Conflict
<1>5. ConcurrencyLimit'
  BY FewerRuns, ConstantsAssumption DEF IInv, ConcurrencyLimit
<1> QED
  BY <1>1, <1>2, <1>3, <1>4, <1>5 DEF IInv

-----------------------------------------------------------------------------
LEMMA IInvInit == Init => IInv
<1> SUFFICES ASSUME Init PROVE IInv
  OBVIOUS
<1>1. TypeOK
  BY ConstantsAssumption
  DEF Init, TypeOK, RowType, HandleType, JobType, Idle, Doing, Debts, ItemStates, Results,
      RecordStates, Phases, Threads
<1>2. Pinned /\ LiveOwned /\ JobsNamed /\ LaunchReady /\ OneCodeRunPerRepo
  BY ConstantsAssumption
  DEF Init, Pinned, LiveOwned, JobsNamed, LaunchReady, OneCodeRunPerRepo, LiveRuns, Live, Idle,
      Launching, Threads
<1>3. ConcurrencyLimit
  <2>1. LiveRuns = {}
    BY DEF Init, LiveRuns, Live
  <2> QED
    BY <2>1, FS_EmptySet, ConstantsAssumption DEF ConcurrencyLimit
<1> QED
  BY <1>1, <1>2, <1>3 DEF IInv

-----------------------------------------------------------------------------
(* Moving through a plan. *)

LEMMA IdleType == Idle \in JobType
  BY ConstantsAssumption DEF Idle, JobType, Doing, Debts

LEMMA StartPlans ==
  ASSUME NEW do \in {"start", "claim"}, NEW n \in 1..Len(Plan(do))
  PROVE  Plan(do)[n] \in {"mark", "launch", "claim"}
  BY DEF Plan

\* A thread at a write is at a write of a plan, for an item.
LEMMA AtWrite ==
  ASSUME IInv, NEW t \in Threads, NEW s, At(t, s)
  PROVE  /\ job[t] \in JobType /\ job[t].do \in Doing
         /\ job[t].do # "idle" /\ job[t].item \in Items
         /\ s \notin {"mark", "launch", "claim"} => job[t].do \notin {"start", "claim"}
<1>1. job[t] \in JobType /\ job[t].do \in Doing
  BY DEF IInv, TypeOK, JobType
<1>2. job[t].do # "idle"
  BY IdleHasNoPlan, <1>1 DEF At, JobType
<1>3. job[t].item \in Items
  BY <1>2 DEF IInv, JobsNamed
<1>4. s \notin {"mark", "launch", "claim"} => job[t].do \notin {"start", "claim"}
  BY StartPlans DEF At
<1> QED
  BY <1>1, <1>2, <1>3, <1>4

\* Going on to the next write keeps the job.
LEMMA StepKeeps ==
  ASSUME IInv, NEW t \in Threads, NEW s, At(t, s), Step(t)
  PROVE  /\ job' \in [Threads -> JobType] /\ JobsNamed'
         /\ s \notin {"mark", "launch", "claim"} => TameJob
<1>1. job[t] \in JobType /\ job[t].item \in Items
      /\ (s \notin {"mark", "launch", "claim"} => job[t].do \notin {"start", "claim"})
  BY AtWrite
<1>2. Advance(t) = Idle \/ Advance(t) = [job[t] EXCEPT !.step = @ + 1]
  BY DEF Advance
<1>3. Advance(t) \in JobType /\ (Advance(t).do # "idle" => Advance(t).item \in Items)
  BY <1>1, <1>2, IdleType DEF JobType, Idle
<1>4. job' \in [Threads -> JobType] /\ JobsNamed'
  BY <1>3 DEF IInv, TypeOK, Step, JobsNamed
<1>5. ASSUME s \notin {"mark", "launch", "claim"}
      PROVE  TameJob
  <2>1. CASE t = "op"
    BY <2>1 DEF Step, TameJob, IInv, TypeOK, Threads
  <2>2. CASE t = "loop" /\ Advance(t) = Idle
    BY <2>2 DEF Step, TameJob, IInv, TypeOK, Threads, Idle, Launching
  <2>3. CASE t = "loop" /\ Advance(t) = [job[t] EXCEPT !.step = @ + 1]
    BY <1>1, <1>5, <2>3 DEF Step, TameJob, IInv, TypeOK, Threads, Launching, JobType
  <2> QED
    BY <1>2, <2>1, <2>2, <2>3 DEF Threads
<1> QED
  BY <1>4, <1>5

\* Beginning something that is no launch, or ending it.
LEMMA NewJobKeeps ==
  ASSUME IInv, NEW t \in Threads, NEW j \in JobType,
         j.do = "idle" \/ j.item \in Items,
         t = "loop" => j.do \notin Launching,
         job' = [job EXCEPT ![t] = j]
  PROVE  job' \in [Threads -> JobType] /\ JobsNamed' /\ TameJob
  BY DEF IInv, TypeOK, JobsNamed, TameJob, Threads

LEMMA FinishKeeps ==
  ASSUME IInv, NEW t \in Threads, Finish(t)
  PROVE  job' \in [Threads -> JobType] /\ JobsNamed' /\ TameJob
<1>1. Idle.do = "idle" /\ Idle.do \notin Launching
  BY DEF Idle, Launching
<1> QED
  BY NewJobKeeps, IdleType, <1>1 DEF Finish

LEMMA BeginType ==
  ASSUME NEW do \in Doing, NEW i \in Items, NEW r \in Runs \cup {NoRun}, NEW kind \in Debts
  PROVE  /\ Begin(do, i, r, kind) \in JobType
         /\ Begin(do, i, r, kind).item = i /\ Begin(do, i, r, kind).do = do
         /\ Begin(do, i, r, kind).run = r /\ Begin(do, i, r, kind).step = 1
  BY DEF Begin, JobType

LEMMA BeginKeeps ==
  ASSUME IInv, NEW t \in Threads, NEW do \in Doing, NEW i \in Items,
         NEW r \in Runs \cup {NoRun}, NEW kind \in Debts,
         t = "loop" => do \notin Launching,
         job' = [job EXCEPT ![t] = Begin(do, i, r, kind)]
  PROVE  job' \in [Threads -> JobType] /\ JobsNamed' /\ TameJob
<1> DEFINE j == Begin(do, i, r, kind)
<1>1. j \in JobType /\ j.item = i /\ j.do = do
  BY BeginType
<1> HIDE DEF j
<1>2. j.do = "idle" \/ j.item \in Items
  BY <1>1
<1>3. t = "loop" => j.do \notin Launching
  BY <1>1
<1>4. job' = [job EXCEPT ![t] = j]
  BY DEF j
<1> QED
  BY <1>1, <1>2, <1>3, <1>4, NewJobKeeps

LEMMA SameJobKeeps ==
  ASSUME IInv, UNCHANGED job
  PROVE  job' \in [Threads -> JobType] /\ JobsNamed' /\ TameJob
  BY DEF IInv, TypeOK, JobsNamed, TameJob

-----------------------------------------------------------------------------
(* The actions.  DataOK is TypeOK without the jobs. *)

DataOK ==
  /\ row \in [Items -> RowType]
  /\ resumes \in [Items -> Nat]
  /\ ledger \in [Runs -> [item : Items \cup {NoItem}, result : Results]]
  /\ rec \in [Runs -> RecordStates]
  /\ rounds \in [Runs -> {"fresh", "exhausted", "granted", "spent"}]
  /\ boxes \subseteq Runs
  /\ handle \in [Runs -> HandleType]
  /\ cancels \in [Runs -> {"none", "cancel", "retry"}]
  /\ daemon \in Phases
  /\ heard \in [Items -> Debts \cup {"retry", "cancelled"}]
  /\ decided \in [Items -> {"no", "queued", "live", "other"}]
  /\ verbs \in Nat
  /\ crashes \in Nat

LEMMA TypeParts ==
  /\ TypeOK <=> DataOK /\ job \in [Threads -> JobType]
  /\ TypeOK' <=> DataOK' /\ job' \in [Threads -> JobType]
  BY DEF TypeOK, DataOK

LEMMA TameStep ==
  ASSUME IInv, DataOK', Tame, job' \in [Threads -> JobType], JobsNamed', TameJob
  PROVE  IInv'
  BY TypeParts, TameKeeps

\* Overwriting one row with a row that keeps or drops the pin.
RowKept == row' \in [Items -> RowType]
           /\ \A i \in Items : row'[i].run = row[i].run \/ row'[i].run = NoRun

LEMMA RowUpdate ==
  ASSUME row \in [Items -> RowType], NEW i \in Items, NEW w \in RowType,
         w.run = row[i].run \/ w.run = NoRun,
         row' = [row EXCEPT ![i] = w]
  PROVE  RowKept
  BY DEF RowKept

LEMMA SameRow ==
  ASSUME row \in [Items -> RowType], UNCHANGED row
  PROVE  RowKept
  BY DEF RowKept

\* The debt paid.
LEMMA OwedUpdate ==
  ASSUME row \in [Items -> RowType], NEW i \in Items, NEW owed \in Debts,
         row' = [row EXCEPT ![i] = [@ EXCEPT !.owed = owed]]
  PROVE  RowKept
<1>1. [row[i] EXCEPT !.owed = owed] \in RowType
      /\ [row[i] EXCEPT !.owed = owed].run = row[i].run
  BY DEF RowType
<1> QED
  BY <1>1 DEF RowKept

\* Everything but row and job is left alone.
LEMMA OnlyRowAndJob ==
  ASSUME IInv, RowKept, UNCHANGED <<resumes, ledger, records, process, external, bounds>>
  PROVE  DataOK' /\ Tame
  BY TypeParts DEF IInv, DataOK, Tame, RowKept, Live, process, bounds, external, records

\* The writes of a plan, by either thread.
LEMMA WriteKeeps ==
  ASSUME IInv, NEW t \in Threads, Write(t)
  PROVE  IInv'
<1> DEFINE i == job[t].item
<1> DEFINE r == job[t].run
<1> DEFINE do == job[t].do
<1>0. DataOK
  BY TypeParts DEF IInv
<1>1. CASE Sweep(t)
  <2>1. At(t, "sweep") /\ Step(t)
    BY <1>1 DEF Sweep
  <2>2. DataOK' /\ Tame
    BY <1>0, <1>1 DEF Sweep, DataOK, Tame, Live, process, bounds, external
  <2> QED
    BY <2>1, <2>2, StepKeeps, TameStep
<1>2. CASE WriteRecord(t)
  <2>1. At(t, "record") /\ Step(t)
    BY <1>2 DEF WriteRecord
  <2>2. DataOK' /\ Tame
    BY <1>0, <1>2 DEF WriteRecord, RecordAfter, RecordStates, DataOK, Tame, Live, process,
                      bounds, external
  <2> QED
    BY <2>1, <2>2, StepKeeps, TameStep
<1>3. CASE WriteLedger(t)
  <2>1. At(t, "ledger") /\ Step(t)
    BY <1>3 DEF WriteLedger
  <2>2. LedgerAfter(do) \in Results
    BY <2>1, AtWrite, LedgerResult DEF At
  <2>3. DataOK' /\ Tame
    BY <1>0, <1>3, <2>2, ZenonT(40) DEF WriteLedger, DataOK, Tame, Live, process, bounds, external, records
  <2> QED
    BY <2>1, <2>3, StepKeeps, TameStep
<1>4. CASE WriteRow(t)
  <2>1. At(t, "row") /\ Step(t)
    BY <1>4 DEF WriteRow
  <2>2. i \in Items /\ row \in [Items -> RowType]
    BY <1>0, <2>1, AtWrite DEF DataOK
  <2>3. RowAfter(do, row[i]) \in RowType /\ RowAfter(do, row[i]).run \in {row[i].run, NoRun}
    BY <2>2 DEF RowAfter, RowType, ItemStates, Debts
  <2>4. RowKept
    BY <1>4, <2>2, <2>3 DEF WriteRow, RowKept
  <2>5. DataOK' /\ Tame
    BY <1>4, <2>4, OnlyRowAndJob DEF WriteRow
  <2> QED
    BY <2>1, <2>5, StepKeeps, TameStep
<1>5. CASE TellOutcome(t)
  <2>1. At(t, "pay") /\ Step(t)
    BY <1>5 DEF TellOutcome
  <2>2. DataOK' /\ Tame
    BY <1>0, <1>5 DEF TellOutcome, Outcomes, Debts, DataOK, Tame, Live, process, bounds, records
  <2> QED
    BY <2>1, <2>2, StepKeeps, TameStep
<1>6. CASE OutcomeRefused(t)
  <2>1. Finish(t) /\ RowKept
    BY <1>0, <1>6, SameRow DEF OutcomeRefused, DataOK
  <2>2. DataOK' /\ Tame
    BY <1>6, <2>1, OnlyRowAndJob DEF OutcomeRefused
  <2> QED
    BY <2>1, <2>2, FinishKeeps, TameStep
<1>7. CASE TakeOutcome(t)
  <2>1. At(t, "paid") /\ Finish(t)
    BY <1>7 DEF TakeOutcome
  <2>2. i \in Items /\ "none" \in Debts
    BY <2>1, AtWrite DEF Debts
  <2>3. RowKept
    BY <1>0, <1>7, <2>2, OwedUpdate DEF TakeOutcome, DataOK
  <2>4. DataOK' /\ Tame
    BY <1>7, <2>3, OnlyRowAndJob DEF TakeOutcome
  <2> QED
    BY <2>1, <2>4, FinishKeeps, TameStep
<1>8. CASE TakeDecision(t)
  <2>1. At(t, "pay")
    BY <1>8 DEF TakeDecision
  <2>2. i \in Items /\ "none" \in Debts
    BY <2>1, AtWrite DEF Debts
  <2>3. RowKept
    BY <1>0, <1>8, <2>2, OwedUpdate, SameRow DEF TakeDecision, DataOK
  <2>4. DataOK' /\ Tame
    BY <1>8, <2>3, OnlyRowAndJob DEF TakeDecision
  <2>5. CASE Step(t)
    BY <2>1, <2>4, <2>5, StepKeeps, TameStep
  <2>6. CASE Finish(t)
    BY <2>4, <2>6, FinishKeeps, TameStep
  <2> QED
    BY <1>8, <2>5, <2>6 DEF TakeDecision
<1>9. CASE TellDecision(t)
  <2>1. Finish(t)
    BY <1>9 DEF TellDecision
  <2>2. DataOK' /\ Tame
    BY <1>0, <1>9 DEF TellDecision, Decisions, Debts, DataOK, Tame, Live, process, bounds, records
  <2> QED
    BY <2>1, <2>2, FinishKeeps, TameStep
<1> QED
  BY <1>1, <1>2, <1>3, <1>4, <1>5, <1>6, <1>7, <1>8, <1>9 DEF Write

\* What dies with the process.
LEMMA DieKeeps ==
  ASSUME IInv, NEW how \in Phases, Die(how), verbs' \in Nat, crashes' \in Nat
  PROVE  IInv'
<1>1. DataOK
  BY TypeParts DEF IInv
<1>2. DataOK'
  BY <1>1 DEF DataOK, Die, NoHandles, HandleType, external, records
<1>3. Tame
  BY <1>1 DEF Tame, Live, Die, NoHandles, HandleType, DataOK
<1>4. job' \in [Threads -> JobType] /\ JobsNamed' /\ TameJob
  BY IdleType DEF Die, JobsNamed, TameJob, Idle, Launching, Threads
<1> QED
  BY <1>2, <1>3, <1>4, TameStep

LEMMA RetriedType ==
  ASSUME NEW w \in RowType, NEW owed \in Debts
  PROVE  Retried(w, owed) \in RowType /\ Retried(w, owed).run = NoRun
<1> DEFINE w1 == [w EXCEPT !.state = "queued", !.attempts = 0]
<1>1. w1 \in RowType
  BY DEF RowType, ItemStates
<1>2. Retried(w, owed) = [w1 EXCEPT !.run = NoRun, !.owed = owed]
  BY Zenon DEF Retried
<1> HIDE DEF w1
<1>3. [w1 EXCEPT !.run = NoRun, !.owed = owed] \in RowType
      /\ [w1 EXCEPT !.run = NoRun, !.owed = owed].run = NoRun
  BY <1>1 DEF RowType
<1> QED
  BY <1>2, <1>3

\* The rest of a settle's or a cancel's writes.
LEMMA SettleWritesKeep ==
  ASSUME IInv, CancelledAgain \/ Report \/ LookUp
  PROVE  IInv'
<1> DEFINE i == job["loop"].item
<1>0. DataOK /\ "loop" \in Threads
  BY TypeParts DEF IInv, Threads
<1>1. CASE CancelledAgain
  <2>1. At("loop", "again") /\ Step("loop")
    BY <1>1 DEF CancelledAgain
  <2>2. i \in Items /\ row \in [Items -> RowType]
    BY <1>0, <2>1, AtWrite DEF DataOK
  <2>3. Retried(row[i], "none") \in RowType /\ Retried(row[i], "none").run = NoRun
    BY <2>2, RetriedType DEF Debts
  <2>4. RowKept
    BY <1>1, <2>2, <2>3 DEF CancelledAgain, RowKept
  <2>5. DataOK' /\ Tame
    BY <1>1, <2>4, OnlyRowAndJob DEF CancelledAgain
  <2> QED
    BY <1>0, <2>1, <2>5, StepKeeps, TameStep
<1>2. CASE Report
  <2>1. At("loop", "report") /\ Step("loop")
    BY <1>2 DEF Report
  <2>2. heard' \in [Items -> Debts \cup {"retry", "cancelled"}]
    BY <1>0, <1>2 DEF Report, Debts, DataOK
  <2>3. DataOK' /\ Tame
    BY <1>0, <1>2, <2>2 DEF Report, DataOK, Tame, Live, process, bounds, records
  <2> QED
    BY <1>0, <2>1, <2>3, StepKeeps, TameStep
<1>3. CASE LookUp
  <2>1. At("loop", "look")
    BY <1>3 DEF LookUp
  <2>2. i \in Items /\ job["loop"] \in JobType /\ job["loop"].do \notin {"start", "claim"}
    BY <1>0, <2>1, AtWrite
  <2>3. row[i].owed \in Debts
    BY <1>0, <2>2 DEF DataOK, RowType
  <2> DEFINE j == [Advance("loop") EXCEPT !.kind = row[i].owed]
  <2>4. Advance("loop") = Idle \/ Advance("loop") = [job["loop"] EXCEPT !.step = @ + 1]
    BY DEF Advance
  <2>5. j \in JobType /\ (j.do = "idle" \/ j.item \in Items)
    BY <2>2, <2>3, <2>4, IdleType DEF JobType, Idle
  <2>6. j.do \notin Launching
    <3>1. job["loop"].do \notin Launching
      BY <2>1, <2>2, LookIsSettling DEF At, JobType
    <3> QED
      BY <2>2, <2>4, <3>1, IdleType DEF JobType, Idle, Launching
  <2>7. job' = [job EXCEPT !["loop"] = j]
    BY <1>3 DEF LookUp
  <2> HIDE DEF j
  <2>8. job' \in [Threads -> JobType] /\ JobsNamed' /\ TameJob
    BY <1>0, <2>5, <2>6, <2>7, NewJobKeeps
  <2>9. DataOK' /\ Tame
    BY <1>0, <1>3, SameRow, OnlyRowAndJob DEF LookUp, DataOK
  <2> QED
    BY <2>8, <2>9, TameStep
<1> QED
  BY <1>1, <1>2, <1>3

-----------------------------------------------------------------------------
(* Picking, claiming, marking and launching: the steps LaunchReady is for. *)

\* A launch begun with rows, ledger items and handles as they are.
LEMMA BeginLaunch ==
  ASSUME IInv, DataOK', RowKept,
         UNCHANGED <<ledger, handle>>,
         NEW do \in Launching, NEW i \in Items, NEW r \in Runs \cup {NoRun},
         \A s \in Runs : Live(s) => ~Conflict(i, ledger[s].item),
         Room,
         do = "start" => r \in Runs /\ Fresh(r),
         do \in {"resume", "provider_resume"} => r \in Runs /\ ledger[r].item = i,
         job' = [job EXCEPT !["loop"] = Begin(do, i, r, "none")]
  PROVE  IInv'
<1> DEFINE j == Begin(do, i, r, "none")
<1>1. do \in Doing /\ "none" \in Debts /\ "loop" \in Threads
  BY DEF Doing, Debts, Threads
<1>2. j \in JobType /\ j.item = i /\ j.do = do /\ j.run = r /\ j.step = 1
  BY <1>1, BeginType
<1> HIDE DEF j
<1>3. job'["loop"] = j /\ job' \in [Threads -> JobType] /\ job'["op"] = job["op"]
  BY <1>1, <1>2 DEF j, IInv, TypeOK, Threads
<1>4. TypeOK'
  BY <1>3, TypeParts
<1>5. JobsNamed'
  BY <1>2, <1>3 DEF IInv, JobsNamed, Threads
<1>6. LaunchReady'
  BY <1>2, <1>3 DEF LaunchReady, Room, LiveRuns, Live, Fresh, Launching, Conflict
<1>7. Pinned' /\ LiveOwned' /\ OneCodeRunPerRepo' /\ ConcurrencyLimit'
  BY DEF IInv, Pinned, LiveOwned, OneCodeRunPerRepo, ConcurrencyLimit, LiveRuns, Live, RowKept, TypeOK, RowType,
         Conflict
<1> QED
  BY <1>4, <1>5, <1>6, <1>7 DEF IInv

LEMMA ClaimUpdate ==
  ASSUME row \in [Items -> RowType], NEW i \in Items, NEW c \in {"no", "posting", "yes"},
         row' = [row EXCEPT ![i] = [@ EXCEPT !.claim = c]]
  PROVE  RowKept
<1>1. [row[i] EXCEPT !.claim = c] \in RowType /\ [row[i] EXCEPT !.claim = c].run = row[i].run
  BY DEF RowType
<1> QED
  BY <1>1 DEF RowKept

\* _dispatch_pass: admission is decided against the runs in flight.
LEMMA PickKeeps ==
  ASSUME IInv, NEW i \in Items, Pick(i)
  PROVE  IInv'
<1> DEFINE do == Dispatch(i)
<1>0. DataOK /\ row[i] \in RowType /\ row[i].run \in Runs \cup {NoRun}
  BY TypeParts DEF IInv, DataOK, RowType
<1>1. do \in Doing
  BY <1>0 DEF Dispatch, Failure, Doing, Launching, Settling
<1>2. Room /\ \A s \in Runs : Live(s) => ~Conflict(i, ledger[s].item)
  BY DEF Pick, AdmissionBlocked, LiveRuns
<1>3. RowKept
  BY <1>0, ClaimUpdate, SameRow DEF Pick, DataOK
<1>4. DataOK' /\ Tame
  BY <1>3, OnlyRowAndJob DEF Pick
<1>5. do \in {"resume", "provider_resume"} => row[i].run \in Runs /\ ledger[row[i].run].item = i
  BY <1>0 DEF Dispatch, Failure, IInv, Pinned
<1>6. UNCHANGED <<ledger, handle>>
  BY DEF Pick, process
<1>7. CASE do = "start"
  <2>1. PICK r \in Runs : Fresh(r) /\ job' = [job EXCEPT !["loop"] = Begin(do, i, r, "none")]
    BY <1>7 DEF Pick
  <2>2. do \in Launching
    BY <1>7 DEF Launching
  <2> HIDE DEF do
  <2> QED
    BY <1>2, <1>3, <1>4, <1>6, <1>7, <2>1, <2>2, BeginLaunch
<1>8. CASE do # "start"
  <2>1. job' = [job EXCEPT !["loop"] = Begin(do, i, row[i].run, "none")]
    BY <1>8 DEF Pick
  <2> HIDE DEF do
  <2>2. CASE do \in Launching
    BY <1>0, <1>2, <1>3, <1>4, <1>5, <1>6, <1>8, <2>1, <2>2, BeginLaunch
  <2>3. CASE do \notin Launching
    <3>1. "loop" \in Threads /\ "none" \in Debts
      BY DEF Threads, Debts
    <3> QED
      BY <1>0, <1>1, <1>4, <2>1, <2>3, <3>1, BeginKeeps, TameStep
  <2> QED
    BY <2>2, <2>3
<1> QED
  BY <1>7, <1>8

\* The claim's answer: the launch goes on with a fresh run, or the row is dropped.
LEMMA ClaimKeeps ==
  ASSUME IInv, ClaimWon \/ ClaimLost
  PROVE  IInv'
<1> DEFINE i == job["loop"].item
<1>0. DataOK /\ "loop" \in Threads
  BY TypeParts DEF IInv, Threads
<1>1. At("loop", "claim") /\ i \in Items /\ job["loop"].do \in Doing
  BY <1>0, AtWrite DEF ClaimWon, ClaimLost
<1>2. CASE ClaimWon
  <2>1. job["loop"].do = "claim"
    BY <1>1, ClaimIsAlone DEF At
  <2>2. Room /\ \A s \in Runs : Live(s) => ~Conflict(i, ledger[s].item)
    BY <2>1 DEF IInv, LaunchReady, Launching
  <2>3. RowKept
    BY <1>0, <1>1, <1>2, ClaimUpdate DEF ClaimWon, DataOK
  <2>4. DataOK'
    BY <1>2, <2>3, OnlyRowAndJob DEF ClaimWon
  <2>5. UNCHANGED <<ledger, handle>>
    BY <1>2 DEF ClaimWon, process
  <2>6. PICK r \in Runs : Fresh(r) /\ job' = [job EXCEPT !["loop"] = Begin("start", i, r, "none")]
    BY <1>2 DEF ClaimWon
  <2>7. "start" \in Launching
    BY DEF Launching
  <2> QED
    BY <1>1, <2>2, <2>3, <2>4, <2>5, <2>6, <2>7, BeginLaunch
<1>3. CASE ClaimLost
  <2>1. RowKept
    <3> DEFINE w == [state |-> "absent", run |-> NoRun, attempts |-> 0, claim |-> "no",
                     owed |-> "none"]
    <3>1. w \in RowType /\ w.run = NoRun
      BY DEF RowType, ItemStates, Debts
    <3>2. row' = row \/ row' = [row EXCEPT ![i] = w]
      BY <1>3 DEF ClaimLost
    <3> HIDE DEF w
    <3> QED
      BY <1>0, <1>1, <3>1, <3>2, RowUpdate, SameRow DEF DataOK
  <2>2. DataOK' /\ Tame
    BY <1>3, <2>1, OnlyRowAndJob DEF ClaimLost
  <2> QED
    BY <1>0, <1>3, <2>2, FinishKeeps, TameStep DEF ClaimLost
<1> QED
  BY <1>2, <1>3

LEMMA StateUpdate ==
  ASSUME row \in [Items -> RowType], NEW i \in Items, NEW state \in ItemStates,
         row' = [row EXCEPT ![i] = [@ EXCEPT !.state = state]]
  PROVE  RowKept
<1>1. [row[i] EXCEPT !.state = state] \in RowType
      /\ [row[i] EXCEPT !.state = state].run = row[i].run
  BY DEF RowType
<1> QED
  BY <1>1 DEF RowKept

LEMMA RunningRow ==
  ASSUME NEW w \in RowType, NEW r \in Runs, NEW n \in Nat
  PROVE  /\ [w EXCEPT !.state = "running", !.run = r, !.attempts = n] \in RowType
         /\ [w EXCEPT !.state = "running", !.run = r, !.attempts = n].run = r
  BY DEF RowType, ItemStates

\* mark_running: the fresh run becomes the item's, in the row and in the ledger.
LEMMA MarkRunningKeeps ==
  ASSUME IInv, MarkRunning
  PROVE  IInv'
<1> DEFINE i == job["loop"].item
<1> DEFINE r == job["loop"].run
<1>0. DataOK /\ "loop" \in Threads /\ job["loop"] \in JobType /\ i \in Items
      /\ At("loop", "mark") /\ Step("loop")
  BY TypeParts, AtWrite DEF MarkRunning, Threads, IInv
<1>1. job["loop"].do = "start" /\ job["loop"].step = 1
  BY <1>0, MarkIsFirst DEF At, JobType
<1>2. r \in Runs /\ Fresh(r) /\ ~Live(r)
  BY <1>1, ConstantsAssumption DEF IInv, LaunchReady, LiveOwned, Fresh
<1>3. /\ row' = [row EXCEPT ![i] = [row[i] EXCEPT !.state = "running", !.run = r,
                                                  !.attempts = row[i].attempts + 1]]
      /\ ledger' = [ledger EXCEPT ![r] = [item |-> i, result |-> "open"]]
      /\ UNCHANGED <<resumes, records, process, external, bounds>>
  BY DEF MarkRunning
<1>4. row' \in [Items -> RowType] /\ row'[i].run = r
      /\ \A j \in Items \ {i} : row'[j] = row[j]
  <2> HIDE DEF i, r
  <2> DEFINE w == [row[i] EXCEPT !.state = "running", !.run = r,
                                 !.attempts = row[i].attempts + 1]
  <2>1. row[i] \in RowType /\ row[i].attempts + 1 \in Nat
    BY <1>0 DEF DataOK, RowType
  <2>2. w \in RowType /\ w.run = r
    BY <1>2, <2>1, RunningRow
  <2>3. row' = [row EXCEPT ![i] = w]
    BY Zenon, <1>3
  <2> HIDE DEF w
  <2> QED
    BY <1>0, <2>2, <2>3 DEF DataOK
<1>5. ledger' \in [Runs -> [item : Items \cup {NoItem}, result : Results]] /\ ledger'[r].item = i
      /\ \A s \in Runs \ {r} : ledger'[s] = ledger[s]
  BY <1>0, <1>2, <1>3 DEF DataOK, Results
<1>6. handle' = handle
  BY <1>3 DEF process
<1>7. job' \in [Threads -> JobType] /\ JobsNamed'
  BY <1>0, StepKeeps
<1>8. TypeOK'
  <2>1. DataOK'
    BY <1>0, <1>3, <1>4, <1>5 DEF DataOK, records, process, external, bounds
  <2> QED
    BY <1>7, <2>1, TypeParts
<1>9. job'["loop"].do = "start" /\ job'["loop"].item = i /\ job'["loop"].run = r
      /\ job'["loop"].step = 2
  <2>1. Len(Plan("start")) = 2
    BY DEF Plan
  <2>2. ~(job["loop"].step >= Len(Plan(job["loop"].do)))
    BY <1>1, <2>1
  <2>3. Advance("loop") = [job["loop"] EXCEPT !.step = @ + 1]
    BY Zenon, <2>2 DEF Advance
  <2> QED
    BY <1>0, <1>1, <2>3 DEF Step, IInv, TypeOK, JobType
<1>10. Pinned'
  BY <1>0, <1>2, <1>4, <1>5, ConstantsAssumption DEF IInv, Pinned, Fresh, DataOK, RowType
<1>11. LiveOwned'
  BY <1>0, <1>5, <1>6 DEF IInv, LiveOwned, Live
<1>12. LaunchReady'
  BY <1>1, <1>2, <1>5, <1>6, <1>9 DEF IInv, LaunchReady, Room, LiveRuns, Live, Fresh, Launching, Conflict
<1>13. OneCodeRunPerRepo' /\ ConcurrencyLimit'
  BY <1>2, <1>5, <1>6 DEF IInv, OneCodeRunPerRepo, ConcurrencyLimit, LiveRuns, Live, Conflict
<1> QED
  BY <1>7, <1>8, <1>10, <1>11, <1>12, <1>13 DEF IInv

\* mark_resuming: the pin is the one the launch began with.
LEMMA MarkResumingKeeps ==
  ASSUME IInv, MarkResuming
  PROVE  IInv'
<1> DEFINE i == job["loop"].item
<1>0. DataOK /\ "loop" \in Threads /\ i \in Items /\ At("loop", "remark") /\ Step("loop")
  BY TypeParts, AtWrite DEF MarkResuming, Threads, IInv
<1>1. RowKept
  <2>1. row[i] \in RowType /\ "running" \in ItemStates
    BY <1>0 DEF DataOK, ItemStates
  <2>2. row' = [row EXCEPT ![i] = [@ EXCEPT !.state = "running"]]
    BY DEF MarkResuming
  <2> QED
    BY <1>0, <2>1, <2>2, StateUpdate DEF DataOK
<1>2. resumes' \in [Items -> Nat]
  BY <1>0 DEF MarkResuming, DataOK
<1>3. DataOK' /\ Tame
  BY <1>0, <1>1, <1>2
  DEF MarkResuming, RowKept, DataOK, Tame, Live, records, process, external, bounds
<1> QED
  BY <1>0, <1>3, StepKeeps, TameStep

\* _launch: the one step that adds a run to those in flight.
LEMMA LaunchKeeps ==
  ASSUME IInv, Launch
  PROVE  IInv'
<1> DEFINE i == job["loop"].item
<1> DEFINE r == job["loop"].run
<1> DEFINE h == [at |-> "running", how |-> "none", stop |-> FALSE]
<1>0. DataOK /\ "loop" \in Threads /\ job["loop"] \in JobType /\ i \in Items
      /\ At("loop", "launch") /\ Step("loop")
  BY TypeParts, AtWrite DEF Launch, Threads, IInv
<1>1. job["loop"].do \in {"start", "resume", "provider_resume"} /\ job["loop"].step # 1
      /\ job["loop"].step = Len(Plan(job["loop"].do))
  BY <1>0, LaunchIsLast DEF At, JobType
<1>2. r \in Runs /\ ledger[r].item = i
      /\ Room /\ \A s \in Runs : Live(s) => ~Conflict(i, ledger[s].item)
  BY <1>1 DEF IInv, LaunchReady, Launching
<1>3. handle' = [handle EXCEPT ![r] = h]
      /\ UNCHANGED <<row, resumes, ledger, records, cancels, daemon, external, bounds>>
  BY DEF Launch
<1>4. h \in HandleType /\ h.at = "running"
  BY DEF HandleType
<1> HIDE DEF h
<1>5. handle' \in [Runs -> HandleType] /\ \A s \in Runs \ {r} : handle'[s] = handle[s]
  BY <1>0, <1>2, <1>3, <1>4 DEF DataOK
<1>6. DataOK'
  BY <1>0, <1>3, <1>5 DEF DataOK, records, external, bounds
<1>7. job' \in [Threads -> JobType] /\ JobsNamed'
  BY <1>0, StepKeeps
<1>8. job'["loop"] = Idle
  <2>1. Advance("loop") = Idle
    BY <1>0, <1>1 DEF Advance, JobType
  <2> QED
    BY <1>0, <2>1 DEF Step, IInv, TypeOK
<1>9. TypeOK' /\ Pinned' /\ LaunchReady'
  BY <1>3, <1>6, <1>7, <1>8, TypeParts DEF IInv, Pinned, LaunchReady, Idle, Launching
<1>10. LiveOwned'
  BY <1>0, <1>2, <1>3, <1>5 DEF IInv, LiveOwned, Live
<1>11. OneCodeRunPerRepo'
  BY <1>2, <1>3, <1>5 DEF IInv, OneCodeRunPerRepo, LiveRuns, Live, Conflict
<1>12. ConcurrencyLimit'
  <2>1. LiveRuns' = LiveRuns \cup {r} /\ LiveRuns \subseteq Runs
    BY <1>0, <1>2, <1>3, <1>4, <1>5 DEF LiveRuns, Live, DataOK
  <2>2. IsFiniteSet(LiveRuns)
    BY <2>1, FS_Subset, ConstantsAssumption
  <2>3. Cardinality(LiveRuns \cup {r}) <= Cardinality(LiveRuns) + 1
        /\ Cardinality(LiveRuns) \in Nat /\ Cardinality(LiveRuns \cup {r}) \in Nat
    <3>1. IsFiniteSet(LiveRuns \cup {r})
          /\ (\/ Cardinality(LiveRuns \cup {r}) = Cardinality(LiveRuns)
              \/ Cardinality(LiveRuns \cup {r}) = Cardinality(LiveRuns) + 1)
      BY <2>2, FS_AddElement
    <3>2. Cardinality(LiveRuns) \in Nat /\ Cardinality(LiveRuns \cup {r}) \in Nat
      BY <2>2, <3>1, FS_CardinalityType
    <3> QED
      BY <3>1, <3>2
  <2> QED
    BY <1>2, <2>1, <2>3, ConstantsAssumption DEF ConcurrencyLimit, Room
<1> QED
  BY <1>7, <1>9, <1>10, <1>11, <1>12 DEF IInv

-----------------------------------------------------------------------------
(* The rest of the tick, and the engine's threads. *)

\* No run joins those in flight.
HandleKept == handle' \in [Runs -> HandleType]
              /\ \A r \in Runs : handle'[r].at # "none" => handle[r].at # "none"

LEMMA HandleUpdate ==
  ASSUME handle \in [Runs -> HandleType], NEW r \in Runs, NEW h \in HandleType,
         h.at = "none" \/ handle[r].at # "none",
         handle' = [handle EXCEPT ![r] = h]
  PROVE  HandleKept
  BY DEF HandleKept

LEMMA StopType ==
  ASSUME NEW h \in HandleType
  PROVE  [h EXCEPT !.stop = TRUE] \in HandleType /\ [h EXCEPT !.stop = TRUE].at = h.at
  BY DEF HandleType

LEMMA StopUpdate ==
  ASSUME handle \in [Runs -> HandleType], NEW r \in Runs,
         handle' = [handle EXCEPT ![r] = [@ EXCEPT !.stop = TRUE]]
  PROVE  HandleKept
<1>1. handle[r] \in HandleType
  OBVIOUS
<1>2. [handle[r] EXCEPT !.stop = TRUE] \in HandleType
      /\ [handle[r] EXCEPT !.stop = TRUE].at = handle[r].at
  BY <1>1, StopType
<1> QED
  BY <1>2 DEF HandleKept

\* A step that leaves rows and ledger alone.
LEMMA OnlyProcess ==
  ASSUME IInv, HandleKept, UNCHANGED <<row, ledger>>, DataOK'
  PROVE  Tame
  BY DEF Tame, HandleKept, Live

\* _settle_run: the verdict is no launch, and its item is the ledger's.
LEMMA SettleRunKeeps ==
  ASSUME IInv, NEW r \in Runs, SettleRun(r)
  PROVE  IInv'
<1> DEFINE i == ledger[r].item
<1> DEFINE h == [at |-> "none", how |-> "none", stop |-> FALSE]
<1> DEFINE kind == IF Verdict(r) = "overridden" THEN row[i].owed ELSE "none"
<1>0. DataOK /\ "loop" \in Threads
  BY TypeParts DEF IInv, Threads
<1>1. i \in Items
  BY DEF SettleRun, IInv, LiveOwned, Live
<1>2. Verdict(r) \in Doing /\ Verdict(r) \notin Launching
  <2>1. Verdict(r) \in Settling
    BY DEF Verdict, Outcome, Failure, Settling
  <2> QED
    BY <2>1 DEF Doing, Settling, Launching
<1>3. kind \in Debts
  BY <1>0, <1>1 DEF DataOK, RowType, Debts
<1>4. job' = [job EXCEPT !["loop"] = Begin(Verdict(r), i, r, kind)]
  BY DEF SettleRun
<1>5. job' \in [Threads -> JobType] /\ JobsNamed' /\ TameJob
  <2> HIDE DEF i, kind
  <2> QED
    BY <1>0, <1>1, <1>2, <1>3, <1>4, BeginKeeps
<1>6. h \in HandleType /\ h.at = "none"
  BY DEF HandleType
<1>7. HandleKept
  <2>1. handle' = [handle EXCEPT ![r] = h]
    BY DEF SettleRun
  <2> HIDE DEF h
  <2> QED
    BY <1>0, <1>6, <2>1, HandleUpdate DEF DataOK
<1>8. DataOK'
  BY <1>0, <1>7 DEF SettleRun, DataOK, HandleKept, records, external, bounds
<1>9. Tame
  BY <1>7, <1>8, OnlyProcess DEF SettleRun
<1> QED
  BY <1>5, <1>8, <1>9, TameStep

LEMMA TickKeeps ==
  ASSUME IInv, Tick
  PROVE  IInv'
<1>0. DataOK /\ "loop" \in Threads
  BY TypeParts DEF IInv, Threads
<1>1. ASSUME NEW i \in Items, Discover(i) PROVE IInv'
  <2>1. RowKept
    BY <1>0, <1>1, StateUpdate DEF Discover, DataOK, ItemStates
  <2>2. DataOK' /\ Tame
    BY <1>1, <2>1, OnlyRowAndJob DEF Discover
  <2> QED
    BY <1>1, <2>2, SameJobKeeps, TameStep DEF Discover
<1>2. ASSUME NEW i \in Items, DeliverPending(i) PROVE IInv'
  <2>1. RowKept
    BY <1>0, <1>2, SameRow DEF DeliverPending, DataOK
  <2>2. DataOK' /\ Tame
    BY <1>2, <2>1, OnlyRowAndJob DEF DeliverPending
  <2>3. row[i].owed \in Debts /\ "deliver" \in Doing /\ "deliver" \notin Launching
    BY <1>0 DEF DataOK, RowType, Doing, Launching
  <2>4. job' \in [Threads -> JobType] /\ JobsNamed' /\ TameJob
    BY <1>0, <1>2, <2>3, BeginKeeps DEF DeliverPending
  <2> QED
    BY <2>2, <2>4, TameStep
<1>3. ASSUME NEW r \in Runs, PollOverride(r) PROVE IInv'
  <2>1. HandleKept
    BY <1>0, <1>3, StopUpdate DEF PollOverride, DataOK
  <2>2. DataOK'
    BY <1>0, <1>3, <2>1 DEF PollOverride, DataOK, HandleKept, records, external, bounds
  <2>3. Tame
    BY <1>3, <2>1, <2>2, OnlyProcess DEF PollOverride
  <2> QED
    BY <1>3, <2>2, <2>3, SameJobKeeps, TameStep DEF PollOverride
<1>4. ASSUME NEW r \in Runs, StaleSweep(r) PROVE IInv'
  <2>1. DataOK' /\ Tame
    BY <1>0, <1>4
    DEF StaleSweep, Reconciled, RecordStates, DataOK, Tame, Live, process, external, bounds
  <2> QED
    BY <1>4, <2>1, SameJobKeeps, TameStep DEF StaleSweep
<1> QED
  BY <1>1, <1>2, <1>3, <1>4, PickKeeps, SettleRunKeeps DEF Tick

LEMMA EngineKeeps ==
  ASSUME IInv, Engine
  PROVE  IInv'
<1>0. DataOK
  BY TypeParts DEF IInv
<1>1. ASSUME NEW r \in Runs, EngineBegin(r) PROVE IInv'
  <2>1. DataOK' /\ Tame
    BY <1>0, <1>1
    DEF EngineBegin, RecordStates, DataOK, Tame, Live, process, external, bounds
  <2> QED
    BY <1>1, <2>1, SameJobKeeps, TameStep DEF EngineBegin
<1>2. ASSUME NEW r \in Runs, NEW how \in Ends, EngineEnd(r, how) PROVE IInv'
  <2> DEFINE h == [handle[r] EXCEPT !.at = "ended", !.how = how]
  <2>1. handle[r] \in HandleType /\ how \in AllEnds
    BY <1>0, <1>2, ConstantsAssumption DEF DataOK
  <2>2. h \in HandleType
    BY <2>1 DEF HandleType
  <2>3. HandleKept
    <3>1. handle' = [handle EXCEPT ![r] = h] /\ handle[r].at # "none"
      BY <1>2 DEF EngineEnd
    <3> HIDE DEF h
    <3> QED
      BY <1>0, <2>2, <3>1, HandleUpdate DEF DataOK
  <2>4. rec' \in [Runs -> RecordStates]
    BY <1>0, <1>2, <2>1 DEF EngineEnd, DataOK, RecordStates, AllEnds
  <2>5. rounds' \in [Runs -> {"fresh", "exhausted", "granted", "spent"}] /\ boxes' \subseteq Runs
    BY <1>0, <1>2 DEF EngineEnd, DataOK
  <2>6. DataOK'
    BY <1>0, <1>2, <2>3, <2>4, <2>5 DEF EngineEnd, DataOK, HandleKept, external, bounds
  <2>7. Tame
    BY <1>2, <2>3, <2>6, OnlyProcess DEF EngineEnd
  <2> QED
    BY <1>2, <2>6, <2>7, SameJobKeeps, TameStep DEF EngineEnd
<1> QED
  BY <1>1, <1>2 DEF Engine

-----------------------------------------------------------------------------
(* The operator's verbs. *)

LEMMA RowFacts ==
  ASSUME NEW w \in RowType
  PROVE  /\ Abandoned(w) \in RowType /\ Abandoned(w).run = w.run
         /\ Requeued(w) \in RowType /\ Requeued(w).run = NoRun
         /\ [w EXCEPT !.state = "queued"] \in RowType
         /\ [w EXCEPT !.state = "queued"].run = w.run
  BY DEF Abandoned, Requeued, RowType, ItemStates, Debts

\* A verb that writes one row, the history and its bound.
LEMMA RowVerb ==
  ASSUME IInv, RowKept, decided' \in [Items -> {"no", "queued", "live", "other"}],
         verbs' \in Nat,
         UNCHANGED <<resumes, ledger, records, process, heard, crashes>>
  PROVE  DataOK' /\ Tame
  BY TypeParts DEF IInv, DataOK, Tame, RowKept, Live, process, records

LEMMA VerbsBound ==
  ASSUME IInv, NEW verb, May(verb)
  PROVE  verbs' \in Nat
  BY DEF IInv, TypeOK, May

\* abandon_item, retry_item, requeue_item and their command-line forms.
LEMMA ItemVerbsKeep ==
  ASSUME IInv, NEW i \in Items,
         \/ AbandonItem(i) \/ CliAbandon(i) \/ RetryItem(i) \/ CliRetry(i)
         \/ RequeueItem(i) \/ CliRequeue(i)
  PROVE  IInv'
<1>0. DataOK /\ row[i] \in RowType /\ row[i].run \in Runs \cup {NoRun} /\ "op" \in Threads
      /\ row \in [Items -> RowType]
  BY TypeParts DEF IInv, DataOK, RowType, Threads
<1>1. verbs' \in Nat
  BY VerbsBound DEF AbandonItem, CliAbandon, RetryItem, CliRetry, RequeueItem, CliRequeue
<1>2. decided' \in [Items -> {"no", "queued", "live", "other"}]
  BY <1>0 DEF AbandonItem, CliAbandon, RetryItem, CliRetry, RequeueItem, CliRequeue, DataOK,
              WhenAbandoned, external
<1>3. RowKept
  <2>0. "requeued" \in Debts
    BY DEF Debts
  <2>1. \A w \in {Abandoned(row[i]), Requeued(row[i]), Retried(row[i], "requeued")} :
          w \in RowType /\ (w.run = row[i].run \/ w.run = NoRun)
    <3>1. Abandoned(row[i]) \in RowType /\ Abandoned(row[i]).run = row[i].run
      BY <1>0, RowFacts
    <3>2. Requeued(row[i]) \in RowType /\ Requeued(row[i]).run = NoRun
      BY <1>0, RowFacts
    <3>3. Retried(row[i], "requeued") \in RowType /\ Retried(row[i], "requeued").run = NoRun
      BY <1>0, <2>0, RetriedType
    <3> QED
      BY <3>1, <3>2, <3>3
  <2>2. \E w \in {Abandoned(row[i]), Requeued(row[i]), Retried(row[i], "requeued")} :
          row' = [row EXCEPT ![i] = w]
    BY DEF AbandonItem, CliAbandon, RetryItem, CliRetry, RequeueItem, CliRequeue
  <2> QED
    BY <1>0, <2>1, <2>2, RowUpdate
<1>4. DataOK' /\ Tame
  BY <1>1, <1>2, <1>3, RowVerb
  DEF AbandonItem, CliAbandon, RetryItem, CliRetry, RequeueItem, CliRequeue, external
<1>5. \/ UNCHANGED job
      \/ \E do \in {"abandon", "deliver", "requeue"}, r \in Runs \cup {NoRun},
            kind \in {"abandoned", "requeued", "none"} :
           job' = [job EXCEPT !["op"] = Begin(do, i, r, kind)]
  BY <1>0
  DEF AbandonItem, CliAbandon, RetryItem, CliRetry, RequeueItem, CliRequeue, OpBegins
<1>6. {"abandon", "deliver", "requeue"} \subseteq Doing
      /\ {"abandoned", "requeued", "none"} \subseteq Debts /\ "op" # "loop"
  BY DEF Doing, Verbing, Debts
<1>7. job' \in [Threads -> JobType] /\ JobsNamed' /\ TameJob
  BY <1>0, <1>5, <1>6, BeginKeeps, SameJobKeeps
<1> QED
  BY <1>4, <1>7, TameStep

\* A re-applied label, resume_run, cancel_run, grant_rounds and shutdown.
LEMMA RunVerbsKeep ==
  ASSUME IInv,
         \/ \E i \in Items : Relabel(i)
         \/ \E r \in Runs : ResumeRun(r) \/ CancelPending(r) \/ GrantRounds(r)
         \/ \E r \in Runs, retry \in BOOLEAN : CancelRun(r, retry)
         \/ \E now \in BOOLEAN : StopDaemon(now)
  PROVE  IInv'
<1>0. DataOK /\ "op" \in Threads /\ row \in [Items -> RowType] /\ handle \in [Runs -> HandleType]
  BY TypeParts DEF IInv, DataOK, Threads
<1>1. ASSUME NEW i \in Items, Relabel(i) PROVE IInv'
  <2> DEFINE w == [state |-> "queued", run |-> NoRun, attempts |-> 0, claim |-> "no",
                   owed |-> "none"]
  <2>1. w \in RowType /\ w.run = NoRun
    BY DEF RowType, ItemStates, Debts
  <2>2. row' = [row EXCEPT ![i] = w]
    BY <1>1 DEF Relabel
  <2> HIDE DEF w
  <2>3. RowKept
    BY <1>0, <2>1, <2>2, RowUpdate
  <2>4. DataOK' /\ Tame
    BY <1>0, <1>1, <2>3, RowVerb DEF Relabel, DataOK
  <2> QED
    BY <1>1, <2>4, SameJobKeeps, TameStep DEF Relabel
<1>2. ASSUME NEW r \in Runs, ResumeRun(r) PROVE IInv'
  <2>1. ledger[r].item \in Items
    BY <1>0, <1>2 DEF ResumeRun, Fresh, DataOK
  <2>2. RowKept
    BY <1>0, <1>2, <2>1, StateUpdate DEF ResumeRun, ItemStates
  <2>3. verbs' \in Nat
    BY <1>2, VerbsBound DEF ResumeRun
  <2>4. DataOK' /\ Tame
    BY <1>0, <1>2, <2>2, <2>3, RowVerb DEF ResumeRun, DataOK
  <2> QED
    BY <1>2, <2>4, SameJobKeeps, TameStep DEF ResumeRun
<1>3. ASSUME NEW r \in Runs, CancelPending(r) \/ GrantRounds(r) PROVE IInv'
  <2>1. ledger[r].item \in Items
    BY <1>0, <1>3 DEF CancelPending, GrantRounds, Fresh, DataOK
  <2>2. verbs' \in Nat
    BY <1>3, VerbsBound DEF CancelPending, GrantRounds
  <2>3. RowKept
    BY <1>0, <1>3, SameRow DEF CancelPending, GrantRounds
  <2>4. DataOK' /\ Tame
    BY <1>0, <1>3, <2>2, <2>3, RowVerb DEF CancelPending, GrantRounds, external, DataOK
  <2>5. \E do \in {"cancel_pending", "grant"} :
          job' = [job EXCEPT !["op"] = Begin(do, ledger[r].item, r, "none")]
    BY <1>3 DEF CancelPending, GrantRounds, OpBegins
  <2>6. {"cancel_pending", "grant"} \subseteq Doing /\ "none" \in Debts /\ "op" # "loop"
    BY DEF Doing, Verbing, Debts
  <2>7. job' \in [Threads -> JobType] /\ JobsNamed' /\ TameJob
    BY <1>0, <2>1, <2>5, <2>6, BeginKeeps
  <2> QED
    BY <2>4, <2>7, TameStep
<1>4. ASSUME NEW r \in Runs, NEW retry \in BOOLEAN, CancelRun(r, retry) PROVE IInv'
  <2>1. HandleKept
    BY <1>0, <1>4, StopUpdate DEF CancelRun
  <2>2. verbs' \in Nat
    BY <1>4, VerbsBound DEF CancelRun
  <2>3. cancels' \in [Runs -> {"none", "cancel", "retry"}]
    BY <1>0, <1>4 DEF CancelRun, DataOK
  <2>4. DataOK'
    BY <1>0, <1>4, <2>1, <2>2, <2>3 DEF CancelRun, DataOK, HandleKept, records, external
  <2>5. Tame
    BY <1>4, <2>1, <2>4, OnlyProcess DEF CancelRun
  <2> QED
    BY <1>4, <2>4, <2>5, SameJobKeeps, TameStep DEF CancelRun
<1>5. ASSUME NEW now \in BOOLEAN, StopDaemon(now) PROVE IInv'
  <2>1. HandleKept
    <3>1. \A r \in Runs : handle'[r] = handle[r] \/ handle'[r] = [handle[r] EXCEPT !.stop = TRUE]
      BY <1>5 DEF StopDaemon
    <3>2. \A r \in Runs : handle'[r] \in HandleType /\ handle'[r].at = handle[r].at
      BY <1>0, <3>1, StopType
    <3> QED
      BY <1>5, <3>2 DEF HandleKept, StopDaemon
  <2>2. verbs' \in Nat
    BY <1>5, VerbsBound DEF StopDaemon
  <2>3. DataOK'
    BY <1>0, <1>5, <2>1, <2>2 DEF StopDaemon, DataOK, HandleKept, records, external, Phases
  <2>4. Tame
    BY <1>5, <2>1, <2>3, OnlyProcess DEF StopDaemon
  <2> QED
    BY <1>5, <2>3, <2>4, SameJobKeeps, TameStep DEF StopDaemon
<1> QED
  BY <1>1, <1>2, <1>3, <1>4, <1>5

LEMMA OpStepKeeps ==
  ASSUME IInv, OpStep
  PROVE  IInv'
<1> DEFINE i == job["op"].item
<1>0. DataOK /\ "op" \in Threads /\ row \in [Items -> RowType] /\ handle \in [Runs -> HandleType]
      /\ "op" # "loop"
  BY TypeParts DEF IInv, DataOK, Threads
<1>1. ASSUME NEW s, At("op", s)
      PROVE  i \in Items /\ job["op"] \in JobType /\ Advance("op") \in JobType
             /\ (Advance("op").do # "idle" => Advance("op").item \in Items)
  <2>1. i \in Items /\ job["op"] \in JobType
    BY <1>0, <1>1, AtWrite
  <2>2. Advance("op") = Idle \/ Advance("op") = [job["op"] EXCEPT !.step = @ + 1]
    BY DEF Advance
  <2> QED
    BY <2>1, <2>2, IdleType DEF JobType, Idle
<1>2. CASE StopCurrent
  <2>1. HandleKept
    <3>1. \A r \in Runs : handle'[r] = handle[r] \/ handle'[r] = [handle[r] EXCEPT !.stop = TRUE]
      BY <1>2 DEF StopCurrent
    <3>2. \A r \in Runs : handle'[r] \in HandleType /\ handle'[r].at = handle[r].at
      BY <1>0, <3>1, StopType
    <3> QED
      BY <1>2, <3>2 DEF HandleKept, StopCurrent
  <2>2. DataOK'
    BY <1>0, <1>2, <2>1 DEF StopCurrent, DataOK, HandleKept, records, external, bounds
  <2>3. Tame
    BY <1>2, <2>1, <2>2, OnlyProcess DEF StopCurrent
  <2>4. i \in Items /\ Advance("op") \in JobType
        /\ (Advance("op").do # "idle" => Advance("op").item \in Items)
    BY <1>1, <1>2 DEF StopCurrent
  <2>5. Begin("deliver", i, NoRun, "abandoned") \in JobType
        /\ Begin("deliver", i, NoRun, "abandoned").item = i
    BY <2>4, BeginType DEF Doing, Debts
  <2>6. \E j \in {Idle, Advance("op"), Begin("deliver", i, NoRun, "abandoned")} :
          job' = [job EXCEPT !["op"] = j]
    BY <1>2 DEF StopCurrent
  <2>7. Idle.do = "idle"
    BY DEF Idle
  <2>8. job' \in [Threads -> JobType] /\ JobsNamed' /\ TameJob
    BY <1>0, <2>4, <2>5, <2>6, <2>7, IdleType, NewJobKeeps
  <2> QED
    BY <2>2, <2>3, <2>8, TameStep
<1>3. CASE Regrant
  <2> DEFINE owed == IF row[i].state = "failed" THEN "requeued" ELSE row[i].owed
  <2> DEFINE w == [row[i] EXCEPT !.state = "queued", !.owed = owed]
  <2> DEFINE j == [Advance("op") EXCEPT !.kind = owed]
  <2>1. i \in Items /\ Advance("op") \in JobType
        /\ (Advance("op").do # "idle" => Advance("op").item \in Items)
    BY <1>1, <1>3 DEF Regrant
  <2>2. row[i] \in RowType /\ owed \in Debts
    BY <1>0, <2>1 DEF RowType, Debts
  <2>3. w \in RowType /\ w.run = row[i].run
    <3> HIDE DEF owed
    <3> QED
      BY <2>2 DEF RowType, ItemStates
  <2>4. j \in JobType /\ (j.do = "idle" \/ j.item \in Items)
    <3> HIDE DEF owed
    <3> QED
      BY <2>1, <2>2 DEF JobType
  <2>5. \/ row' = [row EXCEPT ![i] = w] /\ job' = [job EXCEPT !["op"] = j]
           /\ decided' = [decided EXCEPT ![i] = "no"]
        \/ UNCHANGED <<row, decided>> /\ Finish("op")
    BY <1>3 DEF Regrant
  <2> HIDE DEF w, j
  <2>6. RowKept
    BY <1>0, <2>1, <2>3, <2>5, RowUpdate, SameRow
  <2>7. job' \in [Threads -> JobType] /\ JobsNamed' /\ TameJob
    BY <1>0, <2>4, <2>5, NewJobKeeps, FinishKeeps
  <2>8. decided' \in [Items -> {"no", "queued", "live", "other"}]
    BY <1>0, <2>5 DEF DataOK
  <2>9. DataOK' /\ Tame
    BY <1>0, <1>3, <2>6, <2>8, RowVerb DEF Regrant, bounds, DataOK
  <2> QED
    BY <2>7, <2>9, TameStep
<1> QED
  BY <1>0, <1>2, <1>3, WriteKeeps DEF OpStep

-----------------------------------------------------------------------------
(* Shutdown, crash, restart and recovery. *)

LEMMA RecoverKeeps ==
  ASSUME IInv, Recover
  PROVE  IInv'
<1>0. DataOK /\ "loop" \in Threads /\ row \in [Items -> RowType] /\ "none" \in Debts
  BY TypeParts DEF IInv, DataOK, Threads, Debts
<1>1. CASE Restart \/ RecoverNext
  <2>1. DataOK' /\ Tame
    BY <1>0, <1>1
    DEF Restart, RecoverNext, Phases, DataOK, Tame, Live, records, external, bounds
  <2> QED
    BY <1>1, <2>1, SameJobKeeps, TameStep DEF Restart, RecoverNext
<1>2. ASSUME NEW i \in Items, RecoverRunning(i) PROVE IInv'
  <2>1. Recovery(i) \in Doing /\ Recovery(i) \notin Launching
    BY DEF Recovery, Failure, Doing, Settling, Recovering, Launching
  <2>2. DataOK' /\ Tame
    BY <1>0, <1>2, SameRow, OnlyRowAndJob DEF RecoverRunning
  <2>3. row[i].run \in Runs \cup {NoRun}
    BY <1>0 DEF RowType
  <2>4. job' \in [Threads -> JobType] /\ JobsNamed' /\ TameJob
    BY <1>0, <1>2, <2>1, <2>3, BeginKeeps DEF RecoverRunning
  <2> QED
    BY <2>2, <2>4, TameStep
<1>3. ASSUME NEW i \in Items, NEW landed \in BOOLEAN, SettleHalfClaim(i, landed) PROVE IInv'
  <2>1. RowKept
    BY <1>0, <1>3, ClaimUpdate DEF SettleHalfClaim
  <2>2. DataOK' /\ Tame
    BY <1>3, <2>1, OnlyRowAndJob DEF SettleHalfClaim
  <2> QED
    BY <1>3, <2>2, SameJobKeeps, TameStep DEF SettleHalfClaim
<1>4. ASSUME NEW r \in Runs, SettleOffline(r) PROVE IInv'
  <2>1. ledger[r].item \in Items
    BY <1>0, <1>4 DEF SettleOffline, OfflineAbandon, OfflineRequeue, Unsettled, Fresh, DataOK
  <2>2. DataOK' /\ Tame
    BY <1>0, <1>4, SameRow, OnlyRowAndJob DEF SettleOffline
  <2>3. \E do \in {"close_abandoned", "close_requeued"} :
          job' = [job EXCEPT !["loop"] = Begin(do, ledger[r].item, r, "none")]
    BY <1>4 DEF SettleOffline
  <2>4. \A do \in {"close_abandoned", "close_requeued"} : do \in Doing /\ do \notin Launching
    BY DEF Doing, Recovering, Launching
  <2>5. job' \in [Threads -> JobType] /\ JobsNamed' /\ TameJob
    BY <1>0, <2>1, <2>3, <2>4, BeginKeeps
  <2> QED
    BY <2>2, <2>5, TameStep
<1>5. ASSUME NEW r \in Runs, ReconcileOrphan(r) PROVE IInv'
  <2>1. DataOK' /\ Tame
    BY <1>0, <1>5
    DEF ReconcileOrphan, Reconciled, RecordStates, DataOK, Tame, Live, process, external, bounds
  <2> QED
    BY <1>5, <2>1, SameJobKeeps, TameStep DEF ReconcileOrphan
<1> QED
  BY <1>1, <1>2, <1>3, <1>4, <1>5 DEF Recover

LEMMA IInvNext == IInv /\ [Next]_vars => IInv'
<1> SUFFICES ASSUME IInv, [Next]_vars PROVE IInv'
  OBVIOUS
<1>0. "loop" \in Threads /\ {"down", "raised"} \subseteq Phases /\ verbs \in Nat /\ crashes \in Nat
  BY DEF Threads, Phases, IInv, TypeOK
<1>1. CASE LoopStep
  <2>1. CASE MarkResumingRaises
    BY <1>0, <2>1, DieKeeps DEF MarkResumingRaises, bounds
  <2> QED
    BY <1>0, <1>1, <2>1, ClaimKeeps, MarkRunningKeeps, MarkResumingKeeps, LaunchKeeps, WriteKeeps,
       SettleWritesKeep DEF LoopStep
<1>2. CASE Operator
  BY <1>2, ItemVerbsKeep, RunVerbsKeep DEF Operator
<1>3. CASE Exit
  BY <1>0, <1>3, DieKeeps DEF Exit, bounds
<1>4. CASE Crash
  BY <1>0, <1>4, DieKeeps DEF Crash
<1>5. CASE UNCHANGED vars
  BY <1>5 DEF vars, IInv, TypeOK, Pinned, LiveOwned, JobsNamed, LaunchReady, OneCodeRunPerRepo,
              ConcurrencyLimit, Room, LiveRuns, Live, Fresh, Conflict
<1> QED
  BY <1>1, <1>2, <1>3, <1>4, <1>5, TickKeeps, EngineKeeps, OpStepKeeps, RecoverKeeps DEF Next

-----------------------------------------------------------------------------
\* Every variable keeps its type through every dispatch, settle, verb, crash and
\* recovery; in particular finish_ledger only ever writes a known result.
THEOREM TypeCorrect == Spec => []TypeOK
<1>1. IInv => TypeOK
  BY DEF IInv
<1> QED
  BY IInvInit, IInvNext, <1>1, PTL DEF Spec

\* Two code runs never work one repository's checkout at once: what _admission_blocked
\* decided at the pick still holds when _launch registers the run, whatever operators
\* abandon, retry, requeue, cancel or resume in between, and whatever a crash left.
THEOREM RepoExclusive == Spec => []OneCodeRunPerRepo
<1>1. IInv => OneCodeRunPerRepo
  BY DEF IInv
<1> QED
  BY IInvInit, IInvNext, <1>1, PTL DEF Spec

\* No more runs are in flight than max_concurrent_runs: a run keeps its slot until
\* _settle_run frees it, however early an operator took its row away, and the slot
\* counted at the pick is still free when _launch fills it.
THEOREM SlotsRespected == Spec => []ConcurrencyLimit
<1>1. IInv => ConcurrencyLimit
  BY DEF IInv
<1> QED
  BY IInvInit, IInvNext, <1>1, PTL DEF Spec
-----------------------------------------------------------------------------
(* Rows that run.  The loop's job may still have to write its item's row:  *)
(* until then nobody but an operator moves that row, and nothing is live   *)
(* on the run that is being settled.                                       *)

\* The place in a plan of its last write of the row (mark, remark, row, again); 0: none.
LastRowWrite(do) ==
  CASE do \in {"claim", "start", "provider_resume", "resume_pending", "unstarted",
               "cancel_pending"}                                           -> 1
    [] do \in {"resume", "done", "blocked", "handed_over"}                 -> 2
    [] do \in {"cancelled", "provider_held", "failed", "given_up", "exhausted"} -> 3
    [] do = "cancelled_retry"                                              -> 4
    [] OTHER                                                               -> 0

RowAhead(j) == j.step \in 1..LastRowWrite(j.do)

\* The place of the write that takes a settled row out of "running".
RowWrite(do) == IF do = "cancelled_retry" THEN 3 ELSE LastRowWrite(do)

RowDue(j) == j.do \in Settling /\ j.step \in 1..RowWrite(j.do)

\* A running row names its run.
RunningPinned == \A i \in Items : row[i].state = "running" => row[i].run \in Runs

\* A row the loop is about to write runs only on the run being settled, which is over;
\* and it is not done.
RowAwaited ==
  LET j == job["loop"] IN
  RowAhead(j) =>
    /\ row[j.item].state # "done"
    /\ row[j.item].state = "running" =>
         j.do \notin Launching /\ row[j.item].run = j.run /\ ~Live(j.run)

\* A row that runs while the daemon is up has somebody who will take it further.
RunningOwned ==
  LET j == job["loop"] IN
  daemon = "up" => \A i \in Items : row[i].state = "running" =>
    \/ Live(row[i].run)
    \/ j.item = i /\ j.run = row[i].run /\ j.do \in Launching
    \/ j.item = i /\ RowDue(j)

\* Recovery starts with nothing live, launches nothing, and leaves no row running.
BootClean ==
  /\ ~Up => (\A r \in Runs : ~Live(r)) /\ job["loop"].do \notin Launching
  /\ daemon \in {"offline", "orphans"} => \A i \in Items : row[i].state # "running"

\* An abandon of a live run has ended its item, and no write of the loop is on its way to it.
AbandonKept ==
  LET j == job["loop"] IN
  \A i \in Items : decided[i] = "live" =>
    row[i].state \in Terminal /\ ~(j.item = i /\ RowAhead(j))

RowInv == RunningPinned /\ RowAwaited /\ RunningOwned /\ BootClean /\ AbandonKept

\* Where a plan's writes stand to its writes of the row.
LEMMA PlanRows ==
  ASSUME NEW do \in Doing, NEW n \in 1..Len(Plan(do))
  PROVE  /\ Plan(do)[n] \in {"claim", "mark", "remark", "row", "again"} => n <= LastRowWrite(do)
         /\ Plan(do)[n] \in {"mark", "remark", "launch"} => do \in Launching
         /\ Plan(do)[n] \in {"mark", "remark"} => n = LastRowWrite(do) /\ n < Len(Plan(do))
         /\ Plan(do)[n] = "launch" => n = Len(Plan(do)) /\ n > LastRowWrite(do)
  BY DEF Plan, Doing, Launching, Settling, Recovering, Verbing, LastRowWrite

LEMMA PlanSettles ==
  ASSUME NEW do \in Doing, NEW n \in 1..Len(Plan(do))
  PROVE  /\ Plan(do)[n] = "row" => n = RowWrite(do)
         /\ do \in Settling /\ n = RowWrite(do) => Plan(do)[n] = "row"
         /\ Plan(do)[n] \in {"again", "report", "look", "pay", "paid"} => n > RowWrite(do)
         /\ do = "done" => (Plan(do)[n] = "row" <=> n = LastRowWrite(do))
         /\ do \in Settling => RowWrite(do) <= Len(Plan(do))
  BY DEF Plan, Doing, Launching, Settling, Recovering, Verbing, LastRowWrite, RowWrite

LEMMA RowWriteNat ==
  ASSUME NEW do
  PROVE  LastRowWrite(do) \in Nat /\ RowWrite(do) \in Nat
         /\ RowWrite(do) <= LastRowWrite(do) /\ LastRowWrite("idle") = 0
  BY DEF LastRowWrite, RowWrite

LEMMA AtPlace ==
  ASSUME IInv, NEW t \in Threads, NEW s, At(t, s)
  PROVE  /\ job[t] \in JobType /\ job[t].do \in Doing /\ job[t].do # "idle"
         /\ job[t].item \in Items
         /\ job[t].step \in 1..Len(Plan(job[t].do)) /\ Plan(job[t].do)[job[t].step] = s
  BY AtWrite DEF At

LEMMA PlanLen ==
  ASSUME NEW do \in Doing
  PROVE  Len(Plan(do)) \in Nat
  BY DEF Plan

\* Going on: the row is ahead only if it was, and is due still unless this was its write.
LEMMA AdvanceRow ==
  ASSUME IInv, NEW t \in Threads, NEW s, At(t, s)
  PROVE  /\ RowAhead(Advance(t)) =>
              /\ RowAhead(job[t])
              /\ Advance(t).do = job[t].do /\ Advance(t).item = job[t].item
              /\ Advance(t).run = job[t].run
         /\ RowDue(job[t]) /\ s # "row" => RowDue(Advance(t)) /\ Advance(t).item = job[t].item
         /\ Advance(t).do \in Launching =>
              /\ job[t].do \in Launching
              /\ Advance(t).item = job[t].item /\ Advance(t).run = job[t].run
<1> DEFINE j == job[t]
<1> DEFINE n == Len(Plan(j.do))
<1>1. /\ j \in JobType /\ j.do \in Doing /\ j.do # "idle" /\ j.step \in 1..n
      /\ Plan(j.do)[j.step] = s
  BY AtPlace
<1>2. n \in Nat /\ j.step \in Nat
  BY <1>1, PlanLen DEF JobType
<1>3. /\ LastRowWrite(j.do) \in Nat /\ RowWrite(j.do) \in Nat
      /\ j.do \in Settling /\ j.step = RowWrite(j.do) => s = "row"
      /\ j.do \in Settling => RowWrite(j.do) <= n
  BY <1>1, RowWriteNat, PlanSettles
<1> HIDE DEF n
<1>4. CASE j.step >= n
  <2>1. Advance(t) = Idle
    BY <1>4 DEF Advance, n
  <2>2. ~RowAhead(Idle) /\ Idle.do \notin Launching
    BY RowWriteNat DEF RowAhead, Idle, Launching
  <2>3. ~(RowDue(j) /\ s # "row")
    BY <1>1, <1>2, <1>3, <1>4 DEF RowDue
  <2> QED
    BY <2>1, <2>2, <2>3
<1>5. CASE j.step < n
  <2>1. PICK k : k = Advance(t)
    OBVIOUS
  <2>2. k = [j EXCEPT !.step = @ + 1]
    BY <1>2, <1>5, <2>1 DEF Advance, n
  <2>3. k.do = j.do /\ k.item = j.item /\ k.run = j.run /\ k.step = j.step + 1
    BY <1>1, <2>2 DEF JobType
  <2>4. RowAhead(k) => RowAhead(j)
    BY <1>1, <1>2, <1>3, <2>3 DEF RowAhead
  <2>5. RowDue(j) /\ s # "row" => RowDue(k)
    BY <1>1, <1>2, <1>3, <2>3 DEF RowDue
  <2> QED
    BY <2>1, <2>3, <2>4, <2>5
<1> QED
  BY <1>2, <1>4, <1>5

LEMMA IdleRow == ~RowAhead(Idle) /\ ~RowDue(Idle) /\ Idle.do \notin Launching
  BY RowWriteNat DEF RowAhead, RowDue, Idle, Launching, Settling

-----------------------------------------------------------------------------
(* How a step moves a row, the loop's job, a handle, the daemon and the    *)
(* operator's job.                                                         *)

\* A row is left alone, written by the loop's plan, put back in the queue by a verb that
\* re-opens it, by a requeue or a first sight, abandoned, or cancelled while it waits.
RowMoves(i) ==
  LET j == job["loop"]  k == job'["loop"]  w == row[i]  v == row'[i] IN
  \/ v.state = w.state /\ v.run = w.run /\ decided'[i] = decided[i]
  \/ /\ j.item = i /\ RowAhead(j) /\ decided'[i] = decided[i]
     /\ \/ /\ v.state = "running" /\ v.run = j.run /\ v.run \in Runs
           /\ k.do \in Launching /\ k.item = i /\ k.run = j.run /\ ~RowAhead(k)
        \/ v.state # "running" /\ (v.state = "done" => ~RowAhead(k))
  \/ v.state = "queued" /\ decided'[i] = "no"
  \/ w.state \in {"absent", "queued", "running"} /\ v.state = "queued" /\ decided'[i] = decided[i]
  \/ w.state \in Abandonable /\ v.state = "failed" /\ decided'[i] = WhenAbandoned(i) /\ k = j
  \/ v.state = "cancelled" /\ LateCancel(i) /\ decided'[i] = decided[i]

\* The loop's job stays, goes on or is over, is dispatched after its claim, begins on a
\* queued or discarded row, on a running one, or on no row at all, or dies with the process.
LoopMoves ==
  LET j == job["loop"]  k == job'["loop"] IN
  \/ k = j
  \/ /\ RowAhead(k) => RowAhead(j) /\ k.do = j.do /\ k.item = j.item /\ k.run = j.run
     /\ RowDue(j) => (RowDue(k) /\ k.item = j.item) \/ row'[j.item].state # "running"
     /\ j.do \in Launching => \/ k.do \in Launching /\ k.item = j.item /\ k.run = j.run
                              \/ handle'[j.run].at # "none"
                              \/ RowAhead(j)
     /\ k.do \in Launching => j.do \in Launching
  \/ RowAhead(j) /\ j.do = "claim" /\ k.item = j.item
  \/ /\ j = Idle /\ k.item \in Items /\ (k.do \in Launching => daemon = "up")
     /\ row[k.item].state \in {"queued", "absent"} /\ row'[k.item].state = row[k.item].state
  \/ /\ j = Idle /\ k.do \notin Launching /\ row' = row /\ k.item \in Items
     /\ row[k.item].state = "running" /\ k.run = row[k.item].run /\ handle'[k.run].at = "none"
  \/ j = Idle /\ k.do \notin Launching /\ ~RowAhead(k)
  \/ k = Idle /\ daemon' \in {"down", "raised"}

\* A run joins those in flight by a launch; it leaves them settled, or with the process.
LiveMoves(r) ==
  /\ handle'[r].at # "none" => \/ Live(r)
                               \/ job["loop"].do \in Launching /\ job'["loop"] = Idle /\ Up'
  /\ Live(r) => \/ handle'[r].at # "none"
                \/ daemon' \in {"down", "raised"}
                \/ \A i \in Items : row[i].state = "running" /\ row[i].run = r =>
                     daemon = "stopping" \/ (job'["loop"].item = i /\ RowDue(job'["loop"]))

DaemonMoves ==
  \/ daemon' = daemon
  \/ daemon = "up" /\ daemon' = "stopping"
  \/ daemon' \in {"down", "raised"} /\ handle' = NoHandles /\ job'["loop"] = Idle
  \/ /\ row' = row /\ UNCHANGED <<handle, job>>
     /\ \/ daemon' \in {"claims", "running"} /\ ~Up
        \/ daemon' = "offline" /\ ~Up /\ \A i \in Items : row[i].state # "running"
        \/ daemon = "offline" /\ daemon' = "orphans"
        \/ daemon = "orphans" /\ daemon' = "up"

OpMoves ==
  \/ job'["op"].do = job["op"].do
  \/ job'["op"].do \in {"idle", "deliver", "abandon", "requeue", "grant"}
  \/ job'["op"].do = "cancel_pending" /\ "cancel_pending" \in Verbs

RowsMove == \A i \in Items : RowMoves(i)
HandlesMove == \A r \in Runs : LiveMoves(r)
Moves == RowsMove /\ LoopMoves /\ HandlesMove /\ DaemonMoves /\ OpMoves

LEMMA SameRowsMove ==
  ASSUME \A i \in Items : row'[i].state = row[i].state /\ row'[i].run = row[i].run,
         decided' = decided
  PROVE  RowsMove
  BY DEF RowsMove, RowMoves

LEMMA OneRowMoves ==
  ASSUME IInv, NEW i \in Items, NEW w, row' = [row EXCEPT ![i] = w],
         \/ decided' = decided
         \/ \E d : decided' = [decided EXCEPT ![i] = d],
         row'[i] = w => RowMoves(i)
  PROVE  RowsMove
<1>1. row'[i] = w /\ \A x \in Items \ {i} : row'[x] = row[x] /\ decided'[x] = decided[x]
  BY DEF IInv, TypeOK
<1> QED
  BY <1>1 DEF RowsMove, RowMoves

LEMMA SameHandlesMove ==
  ASSUME \A r \in Runs : handle'[r].at = handle[r].at
  PROVE  HandlesMove
  BY DEF HandlesMove, LiveMoves, Live

LEMMA SameLoopMoves ==
  ASSUME job'["loop"] = job["loop"]
  PROVE  LoopMoves
  BY DEF LoopMoves

LEMMA SameJobMoves ==
  ASSUME job' = job
  PROVE  LoopMoves /\ OpMoves
  BY DEF LoopMoves, OpMoves

LEMMA LaunchPlans ==
  ASSUME NEW do \in Launching
  PROVE  /\ Plan(do)[Len(Plan(do))] \in {"launch", "claim"}
         /\ \A n \in 1..Len(Plan(do)) : Plan(do)[n] \notin {"pay", "paid"}
  BY DEF Plan, Launching

\* A thread goes on, ...
LEMMA StepMoves ==
  ASSUME IInv, NEW t \in Threads, NEW s, At(t, s), Step(t),
         t = "loop" => s \notin {"launch", "claim"},
         t = "loop" /\ s = "row" => row'[job[t].item].state # "running"
  PROVE  LoopMoves /\ OpMoves
<1>1. job'[t] = Advance(t) /\ \A u \in Threads \ {t} : job'[u] = job[u]
  BY DEF Step, IInv, TypeOK
<1>2. job[t] \in JobType /\ job[t].do \in Doing /\ job[t].step \in 1..Len(Plan(job[t].do))
      /\ Plan(job[t].do)[job[t].step] = s
  BY AtPlace
<1>3. CASE t = "op"
  <2>1. Advance("op").do \in {job["op"].do, "idle"}
    BY <1>2, <1>3 DEF Advance, JobType, Idle
  <2>2. "loop" \in Threads \ {t}
    BY <1>3 DEF Threads
  <2> QED
    BY <1>1, <1>3, <2>1, <2>2, SameLoopMoves DEF OpMoves
<1>4. CASE t = "loop"
  <2>1. "op" \in Threads \ {t}
    BY <1>4 DEF Threads
  <2>2. ASSUME job["loop"].do \in Launching
        PROVE  /\ Advance("loop").do \in Launching
               /\ Advance("loop").item = job["loop"].item /\ Advance("loop").run = job["loop"].run
    <3>1. job["loop"].step # Len(Plan(job["loop"].do))
      BY <1>2, <1>4, <2>2, LaunchPlans
    <3>2. ~(job["loop"].step >= Len(Plan(job["loop"].do)))
      BY <1>2, <1>4, <3>1, PlanLen
    <3> QED
      BY <1>2, <1>4, <2>2, <3>2 DEF Advance, JobType
  <2>3. /\ RowAhead(Advance("loop")) =>
             /\ RowAhead(job["loop"])
             /\ Advance("loop").do = job["loop"].do /\ Advance("loop").item = job["loop"].item
             /\ Advance("loop").run = job["loop"].run
        /\ RowDue(job["loop"]) /\ s # "row" =>
             RowDue(Advance("loop")) /\ Advance("loop").item = job["loop"].item
        /\ Advance("loop").do \in Launching => job["loop"].do \in Launching
    BY <1>4, AdvanceRow
  <2>4. LoopMoves
    BY <1>1, <1>4, <2>2, <2>3, Zenon DEF LoopMoves
  <2> QED
    BY <1>1, <2>1, <2>4 DEF OpMoves
<1> QED
  BY <1>3, <1>4 DEF Threads

\* ... or is done.
LEMMA FinishMoves ==
  ASSUME IInv, NEW t \in Threads, NEW s, At(t, s), Finish(t),
         t = "loop" => s \in {"claim", "pay", "paid"}
  PROVE  LoopMoves /\ OpMoves
<1>1. job'[t] = Idle /\ \A u \in Threads \ {t} : job'[u] = job[u]
  BY DEF Finish, IInv, TypeOK
<1>2. job[t] \in JobType /\ job[t].do \in Doing /\ job[t].step \in 1..Len(Plan(job[t].do))
      /\ Plan(job[t].do)[job[t].step] = s
  BY AtPlace
<1>3. CASE t = "op"
  <2>1. "loop" \in Threads \ {t} /\ Idle.do = "idle"
    BY <1>3 DEF Threads, Idle
  <2> QED
    BY <1>1, <1>3, <2>1, SameLoopMoves DEF OpMoves
<1>4. CASE t = "loop"
  <2>1. "op" \in Threads \ {t}
    BY <1>4 DEF Threads
  <2>2. ~RowDue(job["loop"])
    <3>1. CASE s \in {"pay", "paid"}
      BY <1>2, <1>4, <3>1, PlanSettles, RowWriteNat DEF RowDue, JobType
    <3>2. CASE s = "claim"
      BY <1>2, <1>4, <3>2, ClaimIsAlone DEF RowDue, Settling
    <3> QED
      BY <1>4, <3>1, <3>2
  <2>3. job["loop"].do \in Launching => RowAhead(job["loop"])
    <3>1. s \in {"pay", "paid"} => job["loop"].do \notin Launching
      BY <1>2, <1>4, LaunchPlans
    <3>2. s = "claim" => RowAhead(job["loop"])
      BY <1>2, <1>4, PlanRows, RowWriteNat, PlanLen DEF RowAhead, JobType
    <3> QED
      BY <1>4, <3>1, <3>2
  <2>4. LoopMoves
    BY <1>1, <1>4, <2>2, <2>3, IdleRow, Zenon DEF LoopMoves
  <2> QED
    BY <1>1, <2>1, <2>4 DEF OpMoves
<1> QED
  BY <1>3, <1>4 DEF Threads

\* The operator's thread only ever works through the operator's plans.
OpPlans == job["op"].do \in {"idle", "deliver"} \cup Verbing

LEMMA RowTaken ==
  ASSUME NEW do \in Doing, NEW w \in RowType
  PROVE  /\ RowAfter(do, w).state # "running"
         /\ RowAfter(do, w).state = "done" => do = "done"
         /\ do = "cancel_pending" => RowAfter(do, w).state = "cancelled"
  BY DEF RowAfter, RowType, Doing, Launching, Settling, Recovering, Verbing

LEMMA RowOfVerb ==
  ASSUME NEW do \in {"idle", "deliver"} \cup Verbing, NEW n \in 1..Len(Plan(do)), Plan(do)[n] = "row"
  PROVE  do = "cancel_pending"
  BY DEF Plan, Verbing

LEMMA ClaimOnly ==
  ASSUME NEW n \in 1..Len(Plan("claim"))
  PROVE  Plan("claim")[n] = "claim"
  BY DEF Plan

LEMMA WriteMoves ==
  ASSUME IInv, OpPlans, NEW t \in Threads, Write(t)
  PROVE  Moves
<1> DEFINE i == job[t].item
<1>0. DataOK /\ row \in [Items -> RowType]
  BY TypeParts DEF IInv, DataOK
<1>1. CASE \/ Sweep(t) \/ WriteRecord(t) \/ WriteLedger(t) \/ TellOutcome(t) \/ OutcomeRefused(t)
           \/ TellDecision(t)
  <2>1. row' = row /\ decided' = decided /\ handle' = handle /\ daemon' = daemon
    BY <1>1 DEF Sweep, WriteRecord, WriteLedger, TellOutcome, OutcomeRefused, TellDecision,
       process, external
  <2>2. \/ \E s \in {"sweep", "record", "ledger", "pay"} : At(t, s) /\ Step(t)
        \/ \E s \in {"pay", "paid"} : At(t, s) /\ Finish(t)
    BY <1>1 DEF Sweep, WriteRecord, WriteLedger, TellOutcome, OutcomeRefused, TellDecision
  <2>3. LoopMoves /\ OpMoves
    BY <2>2, StepMoves, FinishMoves
  <2> QED
    BY <2>1, <2>3, SameRowsMove, SameHandlesMove DEF Moves, DaemonMoves
<1>2. CASE TakeOutcome(t) \/ TakeDecision(t)
  <2>1. \/ \E s \in {"pay"} : At(t, s) /\ Step(t)
        \/ \E s \in {"pay", "paid"} : At(t, s) /\ Finish(t)
    BY <1>2 DEF TakeOutcome, TakeDecision
  <2>2. LoopMoves /\ OpMoves
    BY <2>1, StepMoves, FinishMoves
  <2>3. i \in Items
    BY <2>1, AtWrite
  <2>4. \/ row' = row
        \/ row' = [row EXCEPT ![i] = [@ EXCEPT !.owed = "none"]]
    BY <1>2 DEF TakeOutcome, TakeDecision
  <2>5. \A x \in Items : row'[x].state = row[x].state /\ row'[x].run = row[x].run
    BY <1>0, <2>3, <2>4 DEF RowType
  <2>6. decided' = decided /\ handle' = handle /\ daemon' = daemon
    BY <1>2 DEF TakeOutcome, TakeDecision, process, external
  <2> QED
    BY <2>2, <2>5, <2>6, SameRowsMove, SameHandlesMove DEF Moves, DaemonMoves
<1>3. CASE WriteRow(t)
  <2>1. At(t, "row") /\ Step(t)
    BY <1>3 DEF WriteRow
  <2>2. /\ job[t] \in JobType /\ job[t].do \in Doing /\ i \in Items
        /\ job[t].step \in 1..Len(Plan(job[t].do)) /\ Plan(job[t].do)[job[t].step] = "row"
    BY <2>1, AtPlace
  <2>3. row' = row \/ row' = [row EXCEPT ![i] = RowAfter(job[t].do, row[i])]
    BY <1>3 DEF WriteRow
  <2>4. row[i].state = "absent" => row' = row
    BY <1>3 DEF WriteRow
  <2>5. row[i].state # "absent" => row' = [row EXCEPT ![i] = RowAfter(job[t].do, row[i])]
    BY <1>3 DEF WriteRow
  <2>6. row'[i].state # "running"
    BY <1>0, <2>2, <2>4, <2>5, RowTaken
  <2>7. LoopMoves /\ OpMoves
    BY <2>1, <2>6, StepMoves
  <2>8. decided' = decided /\ handle' = handle /\ daemon' = daemon
    BY <1>3 DEF WriteRow, process, external
  <2>9. RowsMove
    <3>1. CASE row' = row
      BY <2>8, <3>1, SameRowsMove
    <3>2. CASE row' = [row EXCEPT ![i] = RowAfter(job[t].do, row[i])]
      <4>1. PICK x \in Items : x = i
        BY <2>2
      <4>2. PICK w : w = RowAfter(job[t].do, row[i])
        OBVIOUS
      <4>3. /\ w.state # "running" /\ (w.state = "done" => job[t].do = "done")
            /\ job[t].do = "cancel_pending" => w.state = "cancelled"
        BY <1>0, <2>2, <4>2, RowTaken
      <4>4. CASE t = "op"
        <5>1. job["op"].do = "cancel_pending" /\ LateCancel(x)
          BY <2>2, <4>1, <4>4, RowOfVerb DEF OpPlans, LateCancel
        <5>2. row'[x] = w => RowMoves(x)
          BY <2>8, <4>3, <4>4, <5>1 DEF RowMoves
        <5> QED
          BY <2>8, <3>2, <4>1, <4>2, <5>2, OneRowMoves
      <4>5. CASE t = "loop"
        <5>1. RowAhead(job["loop"])
          BY <2>2, <4>5, PlanRows, PlanLen, RowWriteNat DEF RowAhead, JobType
        <5>2. job'["loop"] = Advance("loop")
          BY <2>1, <4>5 DEF Step, IInv, TypeOK
        <5>3. job["loop"].do = "done" => ~RowAhead(Advance("loop"))
          <6> SUFFICES ASSUME job["loop"].do = "done" PROVE ~RowAhead(Advance("loop"))
            OBVIOUS
          <6>1. job["loop"].step = LastRowWrite("done")
            BY <2>2, <4>5, PlanSettles
          <6>2. LastRowWrite("done") = 2
            BY DEF LastRowWrite
          <6>3. Advance("loop") = Idle
                \/ (Advance("loop").do = "done" /\ Advance("loop").step = 3)
            BY <2>2, <4>5, <6>1, <6>2 DEF Advance, JobType
          <6> QED
            BY <6>2, <6>3, IdleRow DEF RowAhead
        <5>4. row'[x] = w => RowMoves(x)
          BY <2>8, <4>1, <4>3, <4>5, <5>1, <5>2, <5>3, Zenon DEF RowMoves
        <5> QED
          BY <2>8, <3>2, <4>1, <4>2, <5>4, OneRowMoves
      <4> QED
        BY <4>4, <4>5 DEF Threads
    <3> QED
      BY <2>3, <3>1, <3>2
  <2> QED
    BY <2>7, <2>8, <2>9, SameHandlesMove DEF Moves, DaemonMoves
<1> QED
  BY <1>1, <1>2, <1>3 DEF Write

\* The end of the process.
LEMMA DieMoves ==
  ASSUME IInv, NEW how \in {"down", "raised"}, Die(how)
  PROVE  Moves
<1>1. /\ daemon' = how /\ handle' = NoHandles /\ row' = row /\ decided' = decided
      /\ job' = [t \in Threads |-> Idle]
  BY DEF Die, external
<1>2. job'["loop"] = Idle /\ job'["op"] = Idle
  BY <1>1 DEF Threads
<1>3. HandlesMove
  BY <1>1 DEF HandlesMove, LiveMoves, NoHandles
<1>4. LoopMoves /\ DaemonMoves /\ OpMoves
  BY <1>1, <1>2, IdleRow DEF LoopMoves, DaemonMoves, OpMoves, Idle
<1> QED
  BY <1>1, <1>3, <1>4, SameRowsMove DEF Moves

\* _start_item, _resume and _launch.
LEMMA LaunchingMoves ==
  ASSUME IInv, BootClean,
         ClaimWon \/ ClaimLost \/ MarkRunning \/ MarkResuming \/ MarkResumingRaises \/ Launch
  PROVE  Moves
<1>0. /\ DataOK /\ row \in [Items -> RowType] /\ "loop" \in Threads /\ "op" \in Threads \ {"loop"}
      /\ "loop" \in Threads \ {"op"}
  BY TypeParts DEF IInv, DataOK, Threads
<1>1. CASE ClaimWon
  <2>1. PICK i \in Items : i = job["loop"].item
    BY <1>0, <1>1, AtWrite DEF ClaimWon
  <2>2. row' = [row EXCEPT ![i] = [@ EXCEPT !.claim = "yes"]]
    BY <1>1, <2>1 DEF ClaimWon
  <2>3. \A x \in Items : row'[x].state = row[x].state /\ row'[x].run = row[x].run
    BY <1>0, <2>2 DEF RowType
  <2>4. PICK r \in Runs : job' = [job EXCEPT !["loop"] = Begin("start", i, r, "none")]
    BY <1>1, <2>1 DEF ClaimWon
  <2>5. job'["loop"].item = i /\ job'["op"] = job["op"]
    BY <1>0, <2>4 DEF Begin, IInv, TypeOK
  <2>6. RowAhead(job["loop"]) /\ job["loop"].do = "claim"
    BY <1>0, <1>1, AtPlace, PlanRows, PlanLen, RowWriteNat, ClaimIsAlone
    DEF ClaimWon, RowAhead, JobType
  <2>7. LoopMoves /\ OpMoves
    BY <2>1, <2>5, <2>6 DEF LoopMoves, OpMoves
  <2>8. decided' = decided /\ handle' = handle /\ daemon' = daemon
    BY <1>1 DEF ClaimWon, process, external
  <2> QED
    BY <2>3, <2>7, <2>8, SameRowsMove, SameHandlesMove DEF Moves, DaemonMoves
<1>2. CASE ClaimLost
  <2>1. At("loop", "claim") /\ Finish("loop")
    BY <1>2 DEF ClaimLost
  <2>2. LoopMoves /\ OpMoves
    BY <1>0, <2>1, FinishMoves
  <2>3. PICK i \in Items : i = job["loop"].item
    BY <1>0, <2>1, AtWrite
  <2>4. RowAhead(job["loop"])
    BY <1>0, <2>1, AtPlace, PlanRows, PlanLen, RowWriteNat DEF RowAhead, JobType
  <2>5. decided' = decided /\ handle' = handle /\ daemon' = daemon
    BY <1>2 DEF ClaimLost, process, external
  <2>6. PICK w : w = [state |-> "absent", run |-> NoRun, attempts |-> 0, claim |-> "no",
                      owed |-> "none"]
    OBVIOUS
  <2>7. w.state = "absent"
    BY <2>6
  <2>8. row' = row \/ row' = [row EXCEPT ![i] = w]
    BY <1>2, <2>3, <2>6 DEF ClaimLost
  <2>9. row'[i] = w => RowMoves(i)
    BY <2>3, <2>4, <2>5, <2>7 DEF RowMoves
  <2>10. RowsMove
    BY <2>5, <2>8, <2>9, SameRowsMove, OneRowMoves
  <2> QED
    BY <2>2, <2>5, <2>10, SameHandlesMove DEF Moves, DaemonMoves
<1>3. CASE MarkRunning \/ MarkResuming
  <2>1. PICK s \in {"mark", "remark"} : At("loop", s) /\ Step("loop")
    BY <1>3 DEF MarkRunning, MarkResuming
  <2>2. LoopMoves /\ OpMoves
    BY <1>0, <2>1, StepMoves
  <2>3. /\ job["loop"] \in JobType /\ job["loop"].do \in Doing /\ job["loop"].item \in Items
        /\ job["loop"].step \in 1..Len(Plan(job["loop"].do))
        /\ Plan(job["loop"].do)[job["loop"].step] = s
    BY <1>0, <2>1, AtPlace
  <2>4. PICK i \in Items : i = job["loop"].item
    BY <2>3
  <2>5. /\ job["loop"].do \in Launching
        /\ job["loop"].step = LastRowWrite(job["loop"].do)
        /\ job["loop"].step < Len(Plan(job["loop"].do))
    BY <2>3, PlanRows
  <2>6. PICK k : k = Advance("loop")
    OBVIOUS
  <2>7. k = [job["loop"] EXCEPT !.step = @ + 1]
    BY <2>3, <2>5, <2>6, PlanLen DEF Advance, JobType
  <2>8. /\ k.do = job["loop"].do /\ k.item = i /\ k.run = job["loop"].run
        /\ k.step = LastRowWrite(job["loop"].do) + 1
    BY <2>3, <2>4, <2>5, <2>7 DEF JobType
  <2>9. ~RowAhead(k) /\ RowAhead(job["loop"])
    BY <2>3, <2>5, <2>8, RowWriteNat DEF RowAhead, JobType
  <2>10. job'["loop"] = k
    BY <1>0, <2>1, <2>6 DEF Step, IInv, TypeOK
  <2>11. job["loop"].run \in Runs
    <3>1. job["loop"].do # "claim"
      BY <2>3, ClaimOnly
    <3> QED
      BY <2>5, <3>1 DEF IInv, LaunchReady, Launching
  <2>12. PICK w \in RowType : row' = [row EXCEPT ![i] = w] /\ w.state = "running"
                              /\ w.run = job["loop"].run
    <3>1. CASE MarkRunning
      <4>1. row' = [row EXCEPT ![i] = [row[i] EXCEPT !.state = "running", !.run = job["loop"].run,
                                                     !.attempts = row[i].attempts + 1]]
        BY <2>4, <3>1 DEF MarkRunning
      <4>2. row[i].attempts + 1 \in Nat
        BY <1>0 DEF RowType
      <4>3. PICK n \in Nat, r \in Runs : n = row[i].attempts + 1 /\ r = job["loop"].run
        BY <2>11, <4>2
      <4>4. PICK v : v = [row[i] EXCEPT !.state = "running", !.run = r, !.attempts = n]
        OBVIOUS
      <4>5. v \in RowType /\ v.state = "running" /\ v.run = job["loop"].run
        BY <1>0, <4>3, <4>4 DEF RowType, ItemStates
      <4>6. row' = [row EXCEPT ![i] = v]
        BY <4>1, <4>3, <4>4
      <4> QED
        BY <4>5, <4>6, Zenon
    <3>2. CASE MarkResuming
      <4>1. row' = [row EXCEPT ![i] = [row[i] EXCEPT !.state = "running"]]
            /\ row[i].run = job["loop"].run
        BY <2>4, <3>2 DEF MarkResuming
      <4>2. /\ [row[i] EXCEPT !.state = "running"] \in RowType
            /\ [row[i] EXCEPT !.state = "running"].state = "running"
            /\ [row[i] EXCEPT !.state = "running"].run = row[i].run
        BY <1>0 DEF RowType, ItemStates
      <4> QED
        BY <4>1, <4>2
    <3> QED
      BY <1>3, <3>1, <3>2
  <2>13. decided' = decided /\ handle' = handle /\ daemon' = daemon
    BY <1>3 DEF MarkRunning, MarkResuming, process, external
  <2>14. row'[i] = w => RowMoves(i)
    BY <2>4, <2>5, <2>8, <2>9, <2>10, <2>11, <2>12, <2>13, Zenon DEF RowMoves
  <2>15. RowsMove
    BY <2>12, <2>13, <2>14, OneRowMoves
  <2> QED
    BY <2>2, <2>13, <2>15, SameHandlesMove DEF Moves, DaemonMoves
<1>4. CASE MarkResumingRaises
  BY <1>4, DieMoves DEF MarkResumingRaises
<1>5. CASE Launch
  <2>1. At("loop", "launch") /\ Step("loop")
    BY <1>5 DEF Launch
  <2>2. /\ job["loop"] \in JobType /\ job["loop"].do \in Doing
        /\ job["loop"].step \in 1..Len(Plan(job["loop"].do))
        /\ Plan(job["loop"].do)[job["loop"].step] = "launch"
    BY <1>0, <2>1, AtPlace
  <2>3. job["loop"].step = Len(Plan(job["loop"].do)) /\ job["loop"].do \in Launching
        /\ job["loop"].do # "claim"
    BY <2>2, PlanRows, LaunchIsLast
  <2>4. Advance("loop") = Idle
    BY <2>2, <2>3, PlanLen DEF Advance
  <2>5. job'["loop"] = Idle /\ job'["op"] = job["op"]
    BY <1>0, <2>1, <2>4 DEF Step, IInv, TypeOK
  <2>6. PICK r \in Runs : r = job["loop"].run
    BY <2>3 DEF IInv, LaunchReady, Launching
  <2>7. handle' = [handle EXCEPT ![r] = [at |-> "running", how |-> "none", stop |-> FALSE]]
    BY <1>5, <2>6 DEF Launch
  <2>8. handle'[r].at = "running" /\ \A s \in Runs \ {r} : handle'[s] = handle[s]
    BY <1>0, <2>7 DEF DataOK
  <2>9. row' = row /\ decided' = decided /\ daemon' = daemon
    BY <1>5 DEF Launch, external
  <2>10. Up /\ Up'
    BY <2>3, <2>9 DEF BootClean, Up
  <2>11. HandlesMove
    BY <2>3, <2>5, <2>8, <2>10 DEF HandlesMove, LiveMoves, Live
  <2>12. ~RowDue(job["loop"])
    BY <2>3 DEF RowDue, Launching, Settling
  <2>13. LoopMoves
    BY <2>3, <2>5, <2>6, <2>8, <2>12, IdleRow DEF LoopMoves
  <2> QED
    BY <2>5, <2>9, <2>11, <2>13, SameRowsMove DEF Moves, DaemonMoves, OpMoves
<1> QED
  BY <1>1, <1>2, <1>3, <1>4, <1>5

\* The other writes of a settle.
LEMMA SettlingMoves ==
  ASSUME IInv, CancelledAgain \/ Report \/ LookUp
  PROVE  Moves
<1>0. /\ DataOK /\ row \in [Items -> RowType] /\ "loop" \in Threads /\ "op" \in Threads \ {"loop"}
  BY TypeParts DEF IInv, DataOK, Threads
<1>1. CASE CancelledAgain
  <2>1. At("loop", "again") /\ Step("loop")
    BY <1>1 DEF CancelledAgain
  <2>2. LoopMoves /\ OpMoves
    BY <1>0, <2>1, StepMoves
  <2>3. PICK i \in Items : i = job["loop"].item
    BY <1>0, <2>1, AtWrite
  <2>4. RowAhead(job["loop"])
    BY <1>0, <2>1, AtPlace, PlanRows, PlanLen, RowWriteNat DEF RowAhead, JobType
  <2>5. decided' = decided /\ handle' = handle /\ daemon' = daemon
    BY <1>1 DEF CancelledAgain, process, external
  <2>6. PICK w : w = Retried(row[i], "none")
    OBVIOUS
  <2>7. w.state = "queued"
    BY <1>0, <2>6 DEF Retried, RowType
  <2>8. row' = row \/ row' = [row EXCEPT ![i] = w]
    BY <1>1, <2>3, <2>6 DEF CancelledAgain
  <2>9. row'[i] = w => RowMoves(i)
    BY <2>3, <2>4, <2>5, <2>7 DEF RowMoves
  <2>10. RowsMove
    BY <2>5, <2>8, <2>9, SameRowsMove, OneRowMoves
  <2> QED
    BY <2>2, <2>5, <2>10, SameHandlesMove DEF Moves, DaemonMoves
<1>2. CASE Report
  <2>1. At("loop", "report") /\ Step("loop")
    BY <1>2 DEF Report
  <2>2. LoopMoves /\ OpMoves
    BY <1>0, <2>1, StepMoves
  <2>3. row' = row /\ decided' = decided /\ handle' = handle /\ daemon' = daemon
    BY <1>2 DEF Report, process
  <2> QED
    BY <2>2, <2>3, SameRowsMove, SameHandlesMove DEF Moves, DaemonMoves
<1>3. CASE LookUp
  <2>1. At("loop", "look")
    BY <1>3 DEF LookUp
  <2>2. PICK k : k = Advance("loop")
    OBVIOUS
  <2>3. PICK d : d = row[job["loop"].item].owed
    OBVIOUS
  <2>4. PICK m : m = [k EXCEPT !.kind = d]
    OBVIOUS
  <2>5. job["loop"] \in JobType /\ job["loop"].do \notin Launching
    BY <1>0, <2>1, AtPlace, LookIsSettling
  <2>6. k \in JobType
    BY <2>2, <2>5, IdleType DEF Advance, JobType
  <2>7. m.do = k.do /\ m.item = k.item /\ m.run = k.run /\ m.step = k.step
    BY <2>4, <2>6 DEF JobType
  <2>8. job'["loop"] = m /\ job'["op"] = job["op"]
    BY <1>0, <1>3, <2>2, <2>3, <2>4 DEF LookUp, IInv, TypeOK
  <2>9. /\ RowAhead(k) => /\ RowAhead(job["loop"])
                          /\ k.do = job["loop"].do /\ k.item = job["loop"].item
                          /\ k.run = job["loop"].run
        /\ RowDue(job["loop"]) => RowDue(k) /\ k.item = job["loop"].item
        /\ k.do \in Launching => job["loop"].do \in Launching
    BY <1>0, <2>1, <2>2, AdvanceRow
  <2>10. (RowAhead(m) <=> RowAhead(k)) /\ (RowDue(m) <=> RowDue(k))
    BY <2>7 DEF RowAhead, RowDue
  <2>11. LoopMoves
    BY <2>5, <2>7, <2>8, <2>9, <2>10, Zenon DEF LoopMoves
  <2>12. row' = row /\ decided' = decided /\ handle' = handle /\ daemon' = daemon
    BY <1>3 DEF LookUp, process, external
  <2> QED
    BY <2>8, <2>11, <2>12, SameRowsMove, SameHandlesMove DEF Moves, DaemonMoves, OpMoves
<1> QED
  BY <1>1, <1>2, <1>3

\* The loop begins something.
LEMMA LoopBegins ==
  ASSUME IInv, NEW do \in Doing, NEW i \in Items, NEW r, NEW kind,
         job' = [job EXCEPT !["loop"] = Begin(do, i, r, kind)]
  PROVE  /\ job'["loop"].do = do /\ job'["loop"].item = i /\ job'["loop"].run = r
         /\ job'["loop"].step = 1 /\ job'["op"] = job["op"] /\ OpMoves
  BY DEF IInv, TypeOK, Threads, Begin, OpMoves

\* _settle_run.
LEMMA SettleMoves ==
  ASSUME IInv, NEW r \in Runs, SettleRun(r)
  PROVE  Moves
<1>0. /\ DataOK /\ row' = row /\ decided' = decided /\ daemon' = daemon
      /\ handle' = [handle EXCEPT ![r] = [at |-> "none", how |-> "none", stop |-> FALSE]]
      /\ job["loop"] = Idle
  BY TypeParts DEF IInv, SettleRun, external
<1>1. PICK i \in Items : i = ledger[r].item
  BY DEF IInv, LiveOwned, Live, SettleRun
<1>2. PICK v : v = Verdict(r)
  OBVIOUS
<1>3. PICK kind : job' = [job EXCEPT !["loop"] = Begin(v, i, r, kind)]
  BY <1>1, <1>2 DEF SettleRun
<1>4. v \in Settling
  BY <1>2 DEF Verdict, Outcome, Failure, Settling
<1>5. v \in Doing /\ v \notin Launching
  BY <1>4 DEF Settling, Doing, Launching
<1>6. PICK k : k = job'["loop"]
  OBVIOUS
<1>7. /\ k.do = v /\ k.item = i /\ k.run = r /\ k.step = 1 /\ OpMoves
  BY <1>3, <1>5, <1>6, LoopBegins
<1>8. handle'[r].at = "none" /\ \A s \in Runs \ {r} : handle'[s] = handle[s]
  BY <1>0 DEF DataOK
<1>9. CASE Overridden(r)
  <2>1. v \in {"overridden", "dropped"}
    BY <1>2, <1>9 DEF Verdict
  <2>2. ~RowAhead(k)
    BY <1>7, <2>1 DEF RowAhead, LastRowWrite
  <2>3. LoopMoves
    BY <1>0, <1>5, <1>6, <1>7, <2>2 DEF LoopMoves
  <2>4. \A x \in Items : ~(row[x].state = "running" /\ row[x].run = r)
    BY <1>9, ConstantsAssumption DEF Overridden, OnRun, IInv, Pinned
  <2>5. HandlesMove
    BY <1>8, <2>4 DEF HandlesMove, LiveMoves, Live
  <2> QED
    BY <1>0, <1>7, <2>3, <2>5, SameRowsMove DEF Moves, DaemonMoves
<1>10. CASE ~Overridden(r)
  <2>1. row[i].state = "absent" \/ OnRun(i, r)
    BY <1>1, <1>10 DEF Overridden
  <2>2. LoopMoves
    <3>1. CASE row[i].state = "absent"
      BY <1>0, <1>5, <1>6, <1>7, <3>1 DEF LoopMoves
    <3>2. CASE OnRun(i, r)
      <4>1. row[i].state = "running" /\ row[i].run = r
        BY <3>2 DEF OnRun
      <4> QED
        BY <1>0, <1>5, <1>6, <1>7, <1>8, <4>1, Zenon DEF LoopMoves
    <3> QED
      BY <2>1, <3>1, <3>2
  <2>3. v = "interrupted" => daemon = "stopping"
    BY <1>2, <1>10 DEF Verdict, Outcome, Failure
  <2>4. v # "interrupted" => RowDue(k)
    <3>1. v \notin {"overridden", "dropped"}
      BY <1>2, <1>10 DEF Verdict, Outcome, Failure
    <3>2. v # "interrupted" => RowWrite(v) \in 2..3
      BY <1>4, <3>1 DEF RowWrite, LastRowWrite, Settling
    <3> QED
      BY <1>4, <1>7, <3>2 DEF RowDue
  <2>5. \A x \in Items : row[x].state = "running" /\ row[x].run = r => x = i
    BY <1>1, ConstantsAssumption DEF IInv, Pinned
  <2>6. HandlesMove
    BY <1>6, <1>7, <1>8, <2>3, <2>4, <2>5 DEF HandlesMove, LiveMoves, Live
  <2> QED
    BY <1>0, <1>7, <2>2, <2>6, SameRowsMove DEF Moves, DaemonMoves
<1> QED
  BY <1>9, <1>10

LEMMA TickMoves ==
  ASSUME IInv, Tick
  PROVE  Moves
<1>0. DataOK /\ row \in [Items -> RowType] /\ handle \in [Runs -> HandleType]
  BY TypeParts DEF IInv, DataOK
<1>1. ASSUME NEW i \in Items, Discover(i) PROVE Moves
  <2>1. PICK w : w = [row[i] EXCEPT !.state = "queued"]
    OBVIOUS
  <2>2. w.state = "queued"
    BY <1>0, <2>1 DEF RowType
  <2>3. /\ row' = [row EXCEPT ![i] = w] /\ row[i].state = "absent" /\ decided' = decided
        /\ job' = job /\ handle' = handle /\ daemon' = daemon
    BY <1>1, <2>1 DEF Discover, process, external
  <2>4. row'[i] = w => RowMoves(i)
    BY <2>2, <2>3 DEF RowMoves
  <2>5. RowsMove
    BY <2>3, <2>4, OneRowMoves
  <2> QED
    BY <2>3, <2>5, SameJobMoves, SameHandlesMove DEF Moves, DaemonMoves
<1>2. ASSUME NEW i \in Items, Pick(i) PROVE Moves
  <2>1. Dispatch(i) \in Doing
    BY DEF Dispatch, Failure, Doing, Launching, Settling
  <2>11. PICK do \in Doing : \E r : job' = [job EXCEPT !["loop"] = Begin(do, i, r, "none")]
    BY <1>2, <2>1 DEF Pick
  <2>2. PICK r : job' = [job EXCEPT !["loop"] = Begin(do, i, r, "none")]
    BY <2>11
  <2>3. row' = row \/ row' = [row EXCEPT ![i] = [@ EXCEPT !.claim = "posting"]]
    BY <1>2 DEF Pick
  <2>4. \A x \in Items : row'[x].state = row[x].state /\ row'[x].run = row[x].run
    BY <1>0, <2>3 DEF RowType
  <2>5. /\ job["loop"] = Idle /\ daemon = "up" /\ row[i].state = "queued"
        /\ decided' = decided /\ handle' = handle /\ daemon' = daemon
    BY <1>2 DEF Pick, LoopFree, process, external
  <2>6. job'["loop"].item = i /\ OpMoves
    BY <2>2, LoopBegins
  <2>7. LoopMoves
    BY <2>4, <2>5, <2>6 DEF LoopMoves
  <2> QED
    BY <2>4, <2>5, <2>6, <2>7, SameRowsMove, SameHandlesMove DEF Moves, DaemonMoves
<1>3. ASSUME NEW i \in Items, DeliverPending(i) PROVE Moves
  <2>1. /\ job["loop"] = Idle /\ row' = row /\ decided' = decided /\ handle' = handle
        /\ daemon' = daemon
        /\ job' = [job EXCEPT !["loop"] = Begin("deliver", i, NoRun, row[i].owed)]
    BY <1>3 DEF DeliverPending, LoopFree, process, external
  <2>2. job'["loop"].do = "deliver" /\ OpMoves
    BY <2>1, LoopBegins DEF Doing
  <2>3. ~RowAhead(job'["loop"]) /\ job'["loop"].do \notin Launching
    BY <2>2 DEF RowAhead, LastRowWrite, Launching
  <2>4. LoopMoves
    BY <2>1, <2>3 DEF LoopMoves
  <2> QED
    BY <2>1, <2>2, <2>4, SameRowsMove, SameHandlesMove DEF Moves, DaemonMoves
<1>4. ASSUME NEW r \in Runs, PollOverride(r) PROVE Moves
  <2>1. \A s \in Runs : handle'[s].at = handle[s].at
    BY <1>0, <1>4 DEF PollOverride, HandleType
  <2>2. row' = row /\ decided' = decided /\ job' = job /\ daemon' = daemon
    BY <1>4 DEF PollOverride, external
  <2> QED
    BY <2>1, <2>2, SameRowsMove, SameJobMoves, SameHandlesMove DEF Moves, DaemonMoves
<1>5. ASSUME NEW r \in Runs, StaleSweep(r) PROVE Moves
  <2>1. row' = row /\ decided' = decided /\ job' = job /\ daemon' = daemon /\ handle' = handle
    BY <1>5 DEF StaleSweep, process, external
  <2> QED
    BY <2>1, SameRowsMove, SameJobMoves, SameHandlesMove DEF Moves, DaemonMoves
<1> QED
  BY <1>1, <1>2, <1>3, <1>4, <1>5, SettleMoves DEF Tick

LEMMA EngineMoves ==
  ASSUME IInv, Engine
  PROVE  Moves
<1>0. handle \in [Runs -> HandleType]
  BY DEF IInv, TypeOK
<1>1. row' = row /\ decided' = decided /\ job' = job /\ daemon' = daemon
  BY DEF Engine, EngineBegin, EngineEnd, process, external
<1>2. HandlesMove
  <2>1. ASSUME NEW r \in Runs, EngineBegin(r) PROVE HandlesMove
    BY <2>1, SameHandlesMove DEF EngineBegin, process
  <2>2. ASSUME NEW r \in Runs, NEW how \in Ends, EngineEnd(r, how) PROVE HandlesMove
    <3>1. \A s \in Runs : handle'[s].at = IF s = r THEN "ended" ELSE handle[s].at
      BY <1>0, <2>2 DEF EngineEnd, HandleType
    <3>2. handle[r].at = "running"
      BY <2>2 DEF EngineEnd
    <3> QED
      BY <3>1, <3>2 DEF HandlesMove, LiveMoves, Live
  <2> QED
    BY <2>1, <2>2 DEF Engine
<1> QED
  BY <1>1, <1>2, SameRowsMove, SameJobMoves DEF Moves, DaemonMoves

\* The operator's thread begins something, which leaves the loop's job alone.
LEMMA OpMovesBegin ==
  ASSUME IInv, NEW do, NEW i, NEW r, NEW kind, OpBegins(do, i, r, kind),
         \/ do \in {"deliver", "abandon", "requeue", "grant"}
         \/ do = "cancel_pending" /\ "cancel_pending" \in Verbs
  PROVE  LoopMoves /\ OpMoves /\ job'["loop"] = job["loop"]
<1>1. job'["loop"] = job["loop"] /\ job'["op"].do = do
  BY DEF OpBegins, Begin, IInv, TypeOK, Threads
<1> QED
  BY <1>1, SameLoopMoves DEF OpMoves

LEMMA OperatorMoves ==
  ASSUME IInv, Operator
  PROVE  Moves
<1>0. DataOK /\ row \in [Items -> RowType] /\ handle \in [Runs -> HandleType]
  BY TypeParts DEF IInv, DataOK
<1>1. ASSUME NEW i \in Items, AbandonItem(i) \/ CliAbandon(i) PROVE Moves
  <2>1. LoopMoves /\ OpMoves /\ job'["loop"] = job["loop"]
    BY <1>1, OpMovesBegin, SameJobMoves DEF AbandonItem, CliAbandon
  <2>2. PICK w : w = Abandoned(row[i])
    OBVIOUS
  <2>3. w.state = "failed"
    BY <1>0, <2>2 DEF Abandoned, RowType
  <2>4. /\ row' = [row EXCEPT ![i] = w] /\ row[i].state \in Abandonable
        /\ decided' = [decided EXCEPT ![i] = WhenAbandoned(i)]
        /\ handle' = handle /\ daemon' = daemon
    BY <1>1, <2>2 DEF AbandonItem, CliAbandon, process
  <2>5. decided'[i] = WhenAbandoned(i)
    BY <1>0, <2>4 DEF DataOK
  <2>6. row'[i] = w => RowMoves(i)
    BY <2>1, <2>3, <2>4, <2>5 DEF RowMoves
  <2>7. RowsMove
    BY <2>4, <2>6, OneRowMoves
  <2> QED
    BY <2>1, <2>4, <2>7, SameHandlesMove DEF Moves, DaemonMoves
<1>2. ASSUME NEW i \in Items, RetryItem(i) \/ CliRetry(i) \/ Relabel(i) PROVE Moves
  <2>1. LoopMoves /\ OpMoves
    BY <1>2, OpMovesBegin, SameJobMoves DEF RetryItem, CliRetry, Relabel
  <2>2. Retried(row[i], "requeued").state = "queued"
    BY <1>0 DEF Retried, RowType
  <2>3. PICK w : w.state = "queued" /\ row' = [row EXCEPT ![i] = w]
    BY <1>2, <2>2 DEF RetryItem, CliRetry, Relabel
  <2>4. decided' = [decided EXCEPT ![i] = "no"] /\ handle' = handle /\ daemon' = daemon
    BY <1>2 DEF RetryItem, CliRetry, Relabel, process
  <2>5. decided'[i] = "no"
    BY <1>0, <2>4 DEF DataOK
  <2>6. row'[i] = w => RowMoves(i)
    BY <2>3, <2>5 DEF RowMoves
  <2>7. RowsMove
    BY <2>3, <2>4, <2>6, OneRowMoves
  <2> QED
    BY <2>1, <2>4, <2>7, SameHandlesMove DEF Moves, DaemonMoves
<1>3. ASSUME NEW i \in Items, RequeueItem(i) \/ CliRequeue(i) PROVE Moves
  <2>1. LoopMoves /\ OpMoves
    BY <1>3, OpMovesBegin, SameJobMoves DEF RequeueItem, CliRequeue
  <2>2. PICK w : w = Requeued(row[i])
    OBVIOUS
  <2>3. w.state = "queued"
    BY <1>0, <2>2 DEF Requeued, RowType
  <2>4. /\ row' = [row EXCEPT ![i] = w] /\ row[i].state \in {"queued", "running"}
        /\ decided' = decided /\ handle' = handle /\ daemon' = daemon
    BY <1>3, <2>2 DEF RequeueItem, CliRequeue, process, external
  <2>5. row'[i] = w => RowMoves(i)
    BY <2>3, <2>4 DEF RowMoves
  <2>6. RowsMove
    BY <2>4, <2>5, OneRowMoves
  <2> QED
    BY <2>1, <2>4, <2>6, SameHandlesMove DEF Moves, DaemonMoves
<1>4. ASSUME NEW r \in Runs, CancelPending(r) \/ GrantRounds(r) PROVE Moves
  <2>1. LoopMoves /\ OpMoves
    BY <1>4, OpMovesBegin DEF CancelPending, GrantRounds, May
  <2>2. row' = row /\ decided' = decided /\ handle' = handle /\ daemon' = daemon
    BY <1>4 DEF CancelPending, GrantRounds, process, external
  <2> QED
    BY <2>1, <2>2, SameRowsMove, SameHandlesMove DEF Moves, DaemonMoves
<1>5. ASSUME NEW r \in Runs, ResumeRun(r) PROVE Moves
  <2>1. PICK i \in Items : i = ledger[r].item
    BY <1>0, <1>5 DEF ResumeRun, Fresh, DataOK
  <2>2. PICK w : w = [row[i] EXCEPT !.state = "queued"]
    OBVIOUS
  <2>3. w.state = "queued"
    BY <1>0, <2>2 DEF RowType
  <2>4. /\ row' = [row EXCEPT ![i] = w] /\ decided' = [decided EXCEPT ![i] = "no"]
        /\ job' = job /\ handle' = handle /\ daemon' = daemon
    BY <1>5, <2>1, <2>2 DEF ResumeRun, process
  <2>5. decided'[i] = "no"
    BY <1>0, <2>4 DEF DataOK
  <2>6. row'[i] = w => RowMoves(i)
    BY <2>3, <2>5 DEF RowMoves
  <2>7. RowsMove
    BY <2>4, <2>6, OneRowMoves
  <2> QED
    BY <2>4, <2>7, SameJobMoves, SameHandlesMove DEF Moves, DaemonMoves
<1>6. ASSUME NEW r \in Runs, NEW retry \in BOOLEAN, CancelRun(r, retry) PROVE Moves
  <2>1. \A s \in Runs : handle'[s].at = handle[s].at
    BY <1>0, <1>6 DEF CancelRun, HandleType
  <2>2. row' = row /\ decided' = decided /\ job' = job /\ daemon' = daemon
    BY <1>6 DEF CancelRun, external
  <2> QED
    BY <2>1, <2>2, SameRowsMove, SameJobMoves, SameHandlesMove DEF Moves, DaemonMoves
<1>7. ASSUME NEW now \in BOOLEAN, StopDaemon(now) PROVE Moves
  <2>1. \A s \in Runs : handle'[s] = handle[s] \/ handle'[s] = [handle[s] EXCEPT !.stop = TRUE]
    BY <1>7 DEF StopDaemon
  <2>2. \A s \in Runs : handle'[s].at = handle[s].at
    BY <1>0, <2>1, StopType
  <2>3. /\ row' = row /\ decided' = decided /\ job' = job /\ daemon = "up"
        /\ daemon' = "stopping"
    BY <1>7 DEF StopDaemon, external
  <2> QED
    BY <2>2, <2>3, SameRowsMove, SameJobMoves, SameHandlesMove DEF Moves, DaemonMoves
<1> QED
  BY <1>1, <1>2, <1>3, <1>4, <1>5, <1>6, <1>7 DEF Operator

LEMMA OpStepMoves ==
  ASSUME IInv, OpPlans, OpStep
  PROVE  Moves
<1>0. /\ DataOK /\ row \in [Items -> RowType] /\ handle \in [Runs -> HandleType]
      /\ "op" \in Threads /\ "loop" \in Threads \ {"op"}
  BY TypeParts DEF IInv, DataOK, Threads
<1>1. CASE StopCurrent
  <2>1. \A s \in Runs : handle'[s] = handle[s] \/ handle'[s] = [handle[s] EXCEPT !.stop = TRUE]
    BY <1>1 DEF StopCurrent
  <2>2. \A s \in Runs : handle'[s].at = handle[s].at
    BY <1>0, <2>1, StopType
  <2>3. row' = row /\ decided' = decided /\ daemon' = daemon
    BY <1>1 DEF StopCurrent, external
  <2>4. job["op"] \in JobType
    BY <1>0 DEF IInv, TypeOK
  <2>5. Advance("op").do \in {job["op"].do, "idle"}
    BY <2>4 DEF Advance, JobType, Idle
  <2>51. Idle.do = "idle" /\ Begin("deliver", job["op"].item, NoRun, "abandoned").do = "deliver"
    BY DEF Idle, Begin
  <2>52. \/ job' = [job EXCEPT !["op"] = Idle]
         \/ job' = [job EXCEPT !["op"] = Advance("op")]
         \/ job' = [job EXCEPT !["op"] = Begin("deliver", job["op"].item, NoRun, "abandoned")]
    BY <1>1 DEF StopCurrent
  <2>6. PICK j : job' = [job EXCEPT !["op"] = j] /\ j.do \in {job["op"].do, "idle", "deliver"}
    BY <2>5, <2>51, <2>52
  <2>7. job'["loop"] = job["loop"] /\ job'["op"] = j
    BY <1>0, <2>6 DEF IInv, TypeOK
  <2>8. OpMoves
    BY <2>6, <2>7 DEF OpMoves
  <2> QED
    BY <2>2, <2>3, <2>7, <2>8, SameRowsMove, SameLoopMoves, SameHandlesMove DEF Moves, DaemonMoves
<1>2. CASE Regrant
  <2>1. PICK i \in Items : i = job["op"].item
    BY <1>0, <1>2, AtWrite DEF Regrant
  <2>2. handle' = handle /\ daemon' = daemon
    BY <1>2 DEF Regrant, process
  <2>3. CASE UNCHANGED <<row, decided>> /\ Finish("op")
    <3>1. LoopMoves /\ OpMoves
      BY <1>0, <1>2, <2>3, FinishMoves DEF Regrant
    <3> QED
      BY <2>2, <2>3, <3>1, SameRowsMove, SameHandlesMove DEF Moves, DaemonMoves
  <2>4. CASE ~(UNCHANGED <<row, decided>> /\ Finish("op"))
    <3>1. PICK owed \in Debts : owed = IF row[i].state = "failed" THEN "requeued" ELSE row[i].owed
      BY <1>0 DEF RowType, Debts
    <3>2. /\ row' = [row EXCEPT ![i] = [row[i] EXCEPT !.state = "queued", !.owed = owed]]
          /\ decided' = [decided EXCEPT ![i] = "no"]
          /\ job' = [job EXCEPT !["op"] = [Advance("op") EXCEPT !.kind = owed]]
      BY <1>2, <2>1, <2>4, <3>1 DEF Regrant
    <3>3. PICK w : w = [row[i] EXCEPT !.state = "queued", !.owed = owed]
      OBVIOUS
    <3>4. w.state = "queued"
      BY <1>0, <3>3 DEF RowType
    <3>5. decided'[i] = "no"
      BY <1>0, <3>2 DEF DataOK
    <3>6. row'[i] = w => RowMoves(i)
      BY <3>4, <3>5 DEF RowMoves
    <3>7. RowsMove
      BY <3>2, <3>3, <3>6, OneRowMoves
    <3>8. job["op"] \in JobType
      BY <1>0 DEF IInv, TypeOK
    <3>81. Advance("op") \in JobType /\ Advance("op").do \in {job["op"].do, "idle"}
      <4>1. CASE Advance("op") = Idle
        BY <4>1, IdleType DEF Idle
      <4>2. CASE Advance("op") = [job["op"] EXCEPT !.step = job["op"].step + 1]
        BY <3>8, <4>2 DEF JobType
      <4> QED
        BY <4>1, <4>2 DEF Advance
    <3>9. PICK a \in JobType : a = Advance("op") /\ a.do \in {job["op"].do, "idle"}
      BY <3>81
    <3>10. PICK j : j = [a EXCEPT !.kind = owed]
      OBVIOUS
    <3>11. j.do = a.do
      BY <3>10 DEF JobType
    <3>12. job'["loop"] = job["loop"] /\ job'["op"] = j
      BY <1>0, <3>2, <3>9, <3>10 DEF IInv, TypeOK
    <3>13. OpMoves
      BY <3>9, <3>11, <3>12 DEF OpMoves
    <3> QED
      BY <2>2, <3>7, <3>12, <3>13, SameLoopMoves, SameHandlesMove DEF Moves, DaemonMoves
  <2> QED
    BY <2>3, <2>4
<1> QED
  BY <1>0, <1>1, <1>2, WriteMoves DEF OpStep

LEMMA RecoverMoves ==
  ASSUME IInv, BootClean, RunningPinned, Recover
  PROVE  Moves
<1>0. DataOK /\ row \in [Items -> RowType] /\ handle \in [Runs -> HandleType]
  BY TypeParts DEF IInv, DataOK
<1>1. CASE Restart \/ RecoverNext
  <2>1. row' = row /\ decided' = decided /\ handle' = handle /\ job' = job
    BY <1>1 DEF Restart, RecoverNext, external
  <2>2. DaemonMoves
    BY <1>1, <2>1 DEF Restart, RecoverNext, DaemonMoves, Up
  <2> QED
    BY <2>1, <2>2, SameRowsMove, SameJobMoves, SameHandlesMove DEF Moves
<1>2. ASSUME NEW i \in Items, RecoverRunning(i) PROVE Moves
  <2>1. Recovery(i) \in Doing /\ Recovery(i) \notin Launching
    BY DEF Recovery, Failure, Doing, Settling, Recovering, Launching
  <2>2. /\ row' = row /\ decided' = decided /\ handle' = handle /\ daemon' = daemon
        /\ daemon = "running" /\ job["loop"] = Idle /\ row[i].state = "running"
        /\ job' = [job EXCEPT !["loop"] = Begin(Recovery(i), i, row[i].run, "none")]
    BY <1>2 DEF RecoverRunning, process, external
  <2>3. PICK k : k = job'["loop"]
    OBVIOUS
  <2>4. k.do \notin Launching /\ k.item = i /\ k.run = row[i].run /\ OpMoves
    BY <2>1, <2>2, <2>3, LoopBegins
  <2>5. handle'[row[i].run].at = "none"
    BY <2>2 DEF BootClean, Up, RunningPinned, Live
  <2>6. LoopMoves
    BY <2>2, <2>3, <2>4, <2>5, Zenon DEF LoopMoves
  <2> QED
    BY <2>2, <2>4, <2>6, SameRowsMove, SameHandlesMove DEF Moves, DaemonMoves
<1>3. ASSUME NEW i \in Items, NEW landed \in BOOLEAN, SettleHalfClaim(i, landed) PROVE Moves
  <2>1. PICK c \in {"yes", "no"} : row' = [row EXCEPT ![i] = [@ EXCEPT !.claim = c]]
    BY <1>3 DEF SettleHalfClaim
  <2>2. \A x \in Items : row'[x].state = row[x].state /\ row'[x].run = row[x].run
    BY <1>0, <2>1 DEF RowType
  <2>3. decided' = decided /\ handle' = handle /\ daemon' = daemon /\ job' = job
    BY <1>3 DEF SettleHalfClaim, process, external
  <2> QED
    BY <2>2, <2>3, SameRowsMove, SameJobMoves, SameHandlesMove DEF Moves, DaemonMoves
<1>4. ASSUME NEW r \in Runs, SettleOffline(r) PROVE Moves
  <2>1. PICK i \in Items : i = ledger[r].item
    BY <1>0, <1>4 DEF SettleOffline, OfflineAbandon, OfflineRequeue, Unsettled, Fresh, DataOK
  <2>2. /\ row' = row /\ decided' = decided /\ handle' = handle /\ daemon' = daemon
        /\ job["loop"] = Idle
    BY <1>4 DEF SettleOffline, process, external
  <2>3. PICK do \in {"close_abandoned", "close_requeued"} :
          job' = [job EXCEPT !["loop"] = Begin(do, i, r, "none")]
    BY <1>4, <2>1 DEF SettleOffline
  <2>4. do \in Doing /\ do \notin Launching
    BY DEF Doing, Recovering, Launching
  <2>5. job'["loop"].do = do /\ OpMoves
    BY <2>3, <2>4, LoopBegins
  <2>6. ~RowAhead(job'["loop"])
    BY <2>5 DEF RowAhead, LastRowWrite
  <2>7. LoopMoves
    BY <2>2, <2>4, <2>5, <2>6 DEF LoopMoves
  <2> QED
    BY <2>2, <2>5, <2>7, SameRowsMove, SameHandlesMove DEF Moves, DaemonMoves
<1>5. ASSUME NEW r \in Runs, ReconcileOrphan(r) PROVE Moves
  <2>1. row' = row /\ decided' = decided /\ job' = job /\ daemon' = daemon /\ handle' = handle
    BY <1>5 DEF ReconcileOrphan, process, external
  <2> QED
    BY <2>1, SameRowsMove, SameJobMoves, SameHandlesMove DEF Moves, DaemonMoves
<1> QED
  BY <1>1, <1>2, <1>3, <1>4, <1>5 DEF Recover

LEMMA NextMoves ==
  ASSUME IInv, OpPlans, BootClean, RunningPinned, [Next]_vars
  PROVE  Moves
<1>0. "loop" \in Threads
  BY DEF Threads
<1>1. CASE LoopStep
  BY <1>0, <1>1, LaunchingMoves, SettlingMoves, WriteMoves DEF LoopStep
<1>2. CASE Exit \/ Crash
  BY <1>2, DieMoves DEF Exit, Crash
<1>3. CASE UNCHANGED vars
  <2>1. row' = row /\ decided' = decided /\ job' = job /\ daemon' = daemon /\ handle' = handle
    BY <1>3 DEF vars
  <2> QED
    BY <2>1, SameRowsMove, SameJobMoves, SameHandlesMove DEF Moves, DaemonMoves
<1> QED
  BY <1>1, <1>2, <1>3, TickMoves, EngineMoves, OperatorMoves, OpStepMoves, RecoverMoves DEF Next

-----------------------------------------------------------------------------
(* The invariant of the rows, part by part. *)

LEMMA RowInvInit == Init => RowInv /\ OpPlans
<1> SUFFICES ASSUME Init PROVE RowInv /\ OpPlans
  OBVIOUS
<1>1. \A i \in Items : row[i].state = "absent" /\ decided[i] = "no"
  BY DEF Init
<1>2. job["loop"] = Idle /\ job["op"] = Idle /\ daemon = "up"
  BY DEF Init, Threads
<1> QED
  BY <1>1, <1>2, IdleRow
  DEF RowInv, RunningPinned, RowAwaited, RunningOwned, BootClean, AbandonKept, Up, OpPlans, Idle

LEMMA RunningPinnedNext ==
  ASSUME RunningPinned, RowsMove
  PROVE  RunningPinned'
  BY DEF RunningPinned, RowsMove, RowMoves

\* What the loop will still write stays as the loop last saw it, or an operator ended it.
LEMMA RowAwaitedNext ==
  ASSUME RunningPinned, RowAwaited, Moves, JobsNamed', "loop" \in Threads
  PROVE  RowAwaited'
<1>1. PICK j, k : j = job["loop"] /\ k = job'["loop"]
  OBVIOUS
<1> SUFFICES ASSUME RowAhead(k)
             PROVE  /\ row'[k.item].state # "done"
                    /\ row'[k.item].state = "running" =>
                         /\ k.do \notin Launching /\ row'[k.item].run = k.run
                         /\ handle'[k.run].at = "none"
  BY <1>1 DEF RowAwaited, Live
<1>2. k # Idle
  BY IdleRow
<1>3. k.item \in Items
  <2>1. k.do # "idle"
    BY RowWriteNat DEF RowAhead
  <2> QED
    BY <1>1, <2>1 DEF JobsNamed
<1>4. RowMoves(k.item) /\ LoopMoves
  BY <1>3 DEF Moves, RowsMove
<1>5. \A s \in Runs : handle'[s].at # "none" => Live(s)
  BY <1>1, <1>2 DEF Moves, HandlesMove, LiveMoves
<1>6. CASE RowAhead(j) /\ k.item = j.item /\ k.do = j.do /\ k.run = j.run
  <2>1. /\ row[k.item].state # "done"
        /\ row[k.item].state = "running" =>
             k.do \notin Launching /\ row[k.item].run = k.run /\ ~Live(k.run)
    BY <1>1, <1>6 DEF RowAwaited
  <2>2. \/ row'[k.item].state = row[k.item].state /\ row'[k.item].run = row[k.item].run
        \/ row'[k.item].state \notin {"running", "done"}
    BY <1>1, <1>4 DEF RowMoves
  <2>3. row[k.item].state = "running" => k.run \in Runs
    BY <1>3, <2>1 DEF RunningPinned
  <2> QED
    BY <1>5, <2>1, <2>2, <2>3
<1>7. CASE RowAhead(j) /\ j.do = "claim" /\ k.item = j.item
  <2>1. row[k.item].state \notin {"done", "running"}
    BY <1>1, <1>7 DEF RowAwaited, Launching
  <2> QED
    BY <1>1, <1>4, <2>1 DEF RowMoves
<1>8. CASE row[k.item].state \in {"queued", "absent"} /\ row'[k.item].state = row[k.item].state
  BY <1>8
<1>9. CASE /\ k.do \notin Launching /\ row' = row /\ row[k.item].state = "running"
           /\ k.run = row[k.item].run /\ handle'[k.run].at = "none"
  BY <1>9
<1> QED
  BY <1>1, <1>2, <1>4, <1>6, <1>7, <1>8, <1>9, Zenon DEF LoopMoves

\* A row that runs keeps somebody who takes it further.
LEMMA RunningOwnedNext ==
  ASSUME RunningPinned, RowAwaited, RunningOwned, BootClean, Moves
  PROVE  RunningOwned'
<1>1. PICK j, k : j = job["loop"] /\ k = job'["loop"]
  OBVIOUS
<1> SUFFICES ASSUME daemon' = "up", NEW i \in Items, row'[i].state = "running"
             PROVE  \/ handle'[row'[i].run].at # "none"
                    \/ k.item = i /\ k.run = row'[i].run /\ k.do \in Launching
                    \/ k.item = i /\ RowDue(k)
  BY <1>1, Zenon DEF RunningOwned, Live
<1>2. RowMoves(i) /\ LoopMoves /\ DaemonMoves
  BY DEF Moves, RowsMove
<1>3. daemon = "up" \/ (row' = row /\ daemon = "orphans")
  BY <1>2 DEF DaemonMoves
<1>4. daemon = "up"
  BY <1>3 DEF BootClean
<1>5. CASE row'[i].run = row[i].run /\ row[i].state = "running"
  <2>1. PICK r \in Runs : r = row[i].run
    BY <1>5 DEF RunningPinned
  <2>2. \/ Live(r)
        \/ j.item = i /\ j.run = r /\ j.do \in Launching
        \/ j.item = i /\ RowDue(j)
    BY <1>1, <1>4, <1>5, <2>1 DEF RunningOwned
  <2>3. CASE Live(r)
    <3>1. LiveMoves(r)
      BY DEF Moves, HandlesMove
    <3>2. handle'[r].at # "none" \/ (k.item = i /\ RowDue(k))
      BY <1>1, <1>4, <1>5, <2>1, <2>3, <3>1, Zenon DEF LiveMoves
    <3> QED
      BY <1>5, <2>1, <3>2
  <2>4. CASE j.item = i /\ j.run = r /\ j.do \in Launching
    <3>1. ~RowAhead(j) /\ j # Idle
      BY <1>1, <1>5, <2>4, IdleRow DEF RowAwaited
    <3>2. handle'[r].at # "none" \/ (k.item = i /\ k.run = r /\ k.do \in Launching)
      BY <1>1, <1>2, <2>4, <3>1 DEF LoopMoves
    <3> QED
      BY <1>5, <2>1, <3>2
  <2>5. CASE j.item = i /\ RowDue(j)
    <3>1. j # Idle /\ j.do # "claim"
      BY <2>5, IdleRow DEF RowDue, Settling
    <3>2. k.item = i /\ RowDue(k)
      BY <1>1, <1>2, <2>5, <3>1 DEF LoopMoves
    <3> QED
      BY <3>2
  <2> QED
    BY <2>2, <2>3, <2>4, <2>5
<1>6. CASE k.do \in Launching /\ k.item = i /\ k.run = j.run /\ row'[i].run = j.run
  BY <1>6
<1> QED
  BY <1>1, <1>2, <1>5, <1>6 DEF RowMoves

\* Nothing comes alive before recovery is over.
LEMMA BootCleanNext ==
  ASSUME BootClean, Moves
  PROVE  BootClean'
<1>1. PICK j, k : j = job["loop"] /\ k = job'["loop"]
  OBVIOUS
<1>2. LoopMoves /\ DaemonMoves
  BY DEF Moves
<1>3. Idle.do \notin Launching
  BY IdleRow
<1>4. ASSUME ~Up' PROVE (\A r \in Runs : handle'[r].at = "none") /\ k.do \notin Launching
  <2>1. CASE daemon' = daemon
    <3>1. ~Up
      BY <1>4, <2>1 DEF Up
    <3>2. \A r \in Runs : handle'[r].at = "none"
      BY <1>4, <3>1 DEF BootClean, Moves, HandlesMove, LiveMoves
    <3>3. j.do \notin Launching /\ daemon # "up"
      BY <1>1, <3>1 DEF BootClean, Up
    <3>4. j.do # "claim"
      BY <3>3 DEF Launching
    <3> QED
      BY <1>1, <1>2, <1>3, <3>2, <3>3, <3>4, Zenon DEF LoopMoves
  <2>2. CASE handle' = NoHandles /\ k = Idle
    BY <1>3, <2>2 DEF NoHandles
  <2>3. CASE UNCHANGED <<handle, job>> /\ daemon \in {"claims", "running", "offline", "orphans", "down", "raised"}
    <3>1. ~Up
      BY <2>3 DEF Up
    <3> QED
      BY <1>1, <2>3, <3>1 DEF BootClean, Live
  <2>4. CASE UNCHANGED <<handle, job>> /\ ~Up
    BY <1>1, <2>4 DEF BootClean, Live
  <2> QED
    BY <1>1, <1>2, <1>4, <2>1, <2>2, <2>3, <2>4 DEF DaemonMoves, Up
<1>5. ASSUME daemon' \in {"offline", "orphans"}, NEW i \in Items
      PROVE  row'[i].state # "running"
  <2>1. CASE daemon' = daemon
    <3>1. ~Up'
      BY <1>5 DEF Up
    <3>2. k.do \notin Launching
      BY <1>4, <3>1
    <3>3. row[i].state # "running" /\ RowMoves(i)
      BY <1>5, <2>1 DEF BootClean, Moves, RowsMove
    <3> QED
      BY <1>1, <3>2, <3>3 DEF RowMoves
  <2>2. CASE row' = row /\ (\A x \in Items : row[x].state # "running")
    BY <2>2
  <2>3. CASE row' = row /\ daemon = "offline"
    BY <2>3 DEF BootClean
  <2> QED
    BY <1>2, <1>5, <2>1, <2>2, <2>3 DEF DaemonMoves
<1> QED
  BY <1>1, <1>4, <1>5, Zenon DEF BootClean, Live

\* An abandon of a run in flight comes when the loop has nothing left to write to the row.
LEMMA AbandonKeptNext ==
  ASSUME RowAwaited, AbandonKept, Moves
  PROVE  AbandonKept'
<1>1. PICK j, k : j = job["loop"] /\ k = job'["loop"]
  OBVIOUS
<1> SUFFICES ASSUME NEW i \in Items, decided'[i] = "live"
             PROVE  row'[i].state \in Terminal /\ ~(k.item = i /\ RowAhead(k))
  BY <1>1 DEF AbandonKept
<1>2. RowMoves(i) /\ LoopMoves
  BY DEF Moves, RowsMove
<1>3. CASE decided[i] = "live" /\ row'[i].state \in {row[i].state, "cancelled"}
  <2>1. row[i].state \in Terminal /\ ~(j.item = i /\ RowAhead(j))
    BY <1>1, <1>3 DEF AbandonKept
  <2>2. row'[i].state \in Terminal /\ row[i].state \notin {"queued", "absent", "running"}
    BY <1>3, <2>1 DEF Terminal
  <2>3. ~(k.item = i /\ RowAhead(k))
    BY <1>1, <1>2, <2>1, <2>2, IdleRow DEF LoopMoves
  <2> QED
    BY <2>2, <2>3
<1>4. CASE row'[i].state = "failed" /\ WhenAbandoned(i) = "live" /\ k = j
  <2>1. row[i].state = "running" /\ Live(row[i].run)
    BY <1>4 DEF WhenAbandoned
  <2>2. ~(j.item = i /\ RowAhead(j))
    BY <1>1, <2>1 DEF RowAwaited
  <2> QED
    BY <1>4, <2>2 DEF Terminal
<1>5. decided[i] = "live" => /\ row[i].state \notin {"absent", "queued", "running"}
                             /\ ~(j.item = i /\ RowAhead(j))
  BY <1>1 DEF AbandonKept, Terminal
<1> QED
  BY <1>1, <1>2, <1>3, <1>4, <1>5 DEF RowMoves

LEMMA RowInvNext ==
  ASSUME IInv, RowInv, OpPlans, [Next]_vars
  PROVE  RowInv' /\ OpPlans'
<1>1. Moves
  BY NextMoves DEF RowInv
<1>2. JobsNamed' /\ "loop" \in Threads
  BY IInvNext DEF IInv, Threads
<1>3. OpPlans'
  BY <1>1 DEF Moves, OpMoves, OpPlans, Verbing
<1> QED
  BY <1>1, <1>2, <1>3, RunningPinnedNext, RowAwaitedNext, RunningOwnedNext, BootCleanNext,
     AbandonKeptNext DEF RowInv, Moves

-----------------------------------------------------------------------------
\* While the daemon is up, a row says "running" only for a run in flight, being launched
\* or being settled: whatever the operator does in the process or from the command line,
\* and wherever a crash falls, _settle_run and recover leave no item stranded in "running".
THEOREM RunningIsOwned == Spec => []RunningRowOwned
<1>1. RowInv => RunningRowOwned
  BY DEF RowInv, RunningOwned, RunningRowOwned, RowDue
<1>2. IInv /\ RowInv /\ OpPlans /\ [Next]_vars => RowInv' /\ OpPlans'
  BY RowInvNext
<1> QED
  BY IInvInit, IInvNext, RowInvInit, <1>1, <1>2, PTL DEF Spec

\* An abandon accepted while the item's run is in flight is final: neither the run's own
\* settle, in whatever order its writes and the operator's fall, nor a crash and recover,
\* puts the item back in the queue or has it run again.
THEOREM LiveAbandonIsFinal == Spec => []LiveAbandonSticks
<1>1. RowInv => LiveAbandonSticks
  BY DEF RowInv, AbandonKept, LiveAbandonSticks, Terminal
<1>2. IInv /\ RowInv /\ OpPlans /\ [Next]_vars => RowInv' /\ OpPlans'
  BY RowInvNext
<1> QED
  BY IInvInit, IInvNext, RowInvInit, <1>1, <1>2, PTL DEF Spec

\* A merged item stays merged: no settle, verb or recovery takes a row out of "done" but
\* back to the queue, with every verb; cancel_run alone, having read that the run waits for
\* its resume, writes the row later whatever it has become.
THEOREM DoneStaysDone == Spec => DoneIsFinal
<1>1. IInv /\ RowInv /\ OpPlans /\ [Next]_vars => RowInv' /\ OpPlans'
  BY RowInvNext
<1>2. IInv /\ RowInv /\ OpPlans /\ [Next]_vars =>
        [\A i \in Items : row[i].state = "done" =>
           \/ row'[i].state \in {"done", "queued"}
           \/ row'[i].state = "cancelled" /\ LateCancel(i)]_vars
  <2> SUFFICES ASSUME IInv, RowInv, OpPlans, [Next]_vars,
                      NEW i \in Items, row[i].state = "done"
               PROVE  \/ row'[i].state \in {"done", "queued"}
                      \/ row'[i].state = "cancelled" /\ LateCancel(i)
    OBVIOUS
  <2>1. RowMoves(i)
    BY NextMoves DEF RowInv, Moves, RowsMove
  <2>2. ~(job["loop"].item = i /\ RowAhead(job["loop"]))
    BY DEF RowInv, RowAwaited
  <2> QED
    BY <2>1, <2>2 DEF RowMoves, Abandonable
<1> QED
  BY IInvInit, IInvNext, RowInvInit, <1>1, <1>2, PTL DEF Spec, DoneIsFinal

-----------------------------------------------------------------------------
(***************************************************************************)
(* Attempts and resumes.  A verb, a crash, and a run's first exhaustion    *)
(* each pay for one attempt or resume beyond the budget.  What an item has *)
(* still coming without another payment is its credit: an attempt that a   *)
(* dispatch or a recovery will count (Credit), a resume that a grant, a    *)
(* slow verb or a run still in the air will count (Owing).  Counted        *)
(* together with what is already spent, it stays within the budget.        *)
(***************************************************************************)
\* Job j will claim or mark item i; will mark it resumed; is giving up an attempt at it;
\* has granted or will grant its run more rounds.
Opening(j, i) == j.item = i /\ (j.do = "claim" \/ (j.do = "start" /\ j.step = 1))
Reopening(j, i) ==
  /\ j.item = i
  /\ (j.do = "resume" /\ j.step \in 1..2) \/ (j.do = "provider_resume" /\ j.step = 1)
Failing(j, i) == j.item = i /\ j.do \in {"failed", "given_up"} /\ j.step \in 1..3
Exhausting(j, i) == j.item = i /\ j.do = "exhausted" /\ j.step \in 1..3

\* The operator's job o will grant i's run more rounds; will write i's run record.
Granting(o, i) == o.item = i /\ o.do = "grant" /\ o.step \in 1..2
Closing(o, i) ==
  /\ o.item = i
  /\ (o.do \in {"abandon", "requeue"} /\ o.step \in 1..3) \/ (o.do = "cancel_pending" /\ o.step \in 1..2)

\* The resume under way will find another pin, and take the process with it.
Pulled == \E i \in Items : Reopening(job["loop"], i) /\ row[i].run # job["loop"].run

\* Attempts that need no further verb or crash: the one being dispatched (and, once the
\* process is to end, the one its recovery may add), or a fresh start, now or after recovery.
Awaiting(i) ==
  \/ row[i].run = NoRun
  \/ job["loop"].item = i /\ job["loop"].do \in {"failed", "unstarted"}
  \/ /\ row[i].state = "running" \/ Reopening(job["loop"], i)
     /\ daemon # "up" \/ Pulled

Credit(i) ==
  IF Opening(job["loop"], i) THEN IF daemon = "up" THEN 1 ELSE 2
  ELSE IF Awaiting(i) THEN 1 ELSE 0

AttemptsPaid == \A i \in Items : row[i].attempts + Credit(i) <= MaxAttempts + verbs + crashes

\* Job j has marked its row and will register the handle; run r is in flight, or about to be.
Lifting(j) == (j.do \in {"start", "provider_resume"} /\ j.step = 2) \/ (j.do = "resume" /\ j.step = 3)
Flying(r) == Live(r) \/ (job["loop"].run = r /\ Lifting(job["loop"]))

\* Resumes that need no further payment.  Spent: the pinned run is exhausted and will be
\* granted its retry.  Promised: it is being granted, is granted, or its row is queued while
\* it is still in flight.  Slipped: its provider hold was lifted under the resume under way.
Spent(i) == row[i].run \in Runs /\ rounds[row[i].run] = "exhausted"
Promised(i) ==
  \/ Exhausting(job["loop"], i) /\ row[i].run = job["loop"].run /\ ~Spent(i)
  \/ /\ row[i].run \in Runs /\ row[i].state = "queued" /\ rec[row[i].run] = "failed"
     /\ ~Failing(job["loop"], i)
  \/ Reopening(job["loop"], i) /\ job["loop"].do = "resume" /\ resumes[i] >= MaxResumes
  \/ /\ row[i].run \in Runs /\ Flying(row[i].run)
     /\ row[i].state = "queued" \/ Reopening(job["loop"], i)
Slipped(i) ==
  LET j == job["loop"] IN
  Reopening(j, i) /\ j.do = "provider_resume" /\ rec[j.run] # "provider_held" /\ ~Live(j.run)

One(b) == IF b THEN 1 ELSE 0

Owing(i) == One(Spent(i)) + One(Promised(i)) + One(Slipped(i))
            + One(Granting(job["op"], i)) + One(Closing(job["op"], i))

\* The runs of item i that used up their fix rounds at least once.
Burnt(i) == {r \in Runs : ledger[r].item = i /\ rounds[r] # "fresh"}
Paid(i) == verbs + crashes + Cardinality(Burnt(i))

ResumesPaid == \A i \in Items : /\ Owing(i) <= Paid(i)
                                /\ resumes[i] + Owing(i) <= MaxResumes + Paid(i)

\* A pinned row is claimed, and so is one about to be marked; an absent row has no pin.
ClaimPinned ==
  /\ \A i \in Items : row[i].run # NoRun => row[i].claim = "yes" /\ row[i].state # "absent"
  /\ job["loop"].do = "start" /\ job["loop"].step = 1 => row[job["loop"].item].claim = "yes"

\* A job on a run works for the item the ledger says.
JobsOf ==
  LET j == job["loop"]  o == job["op"] IN
  /\ j.do \in {"failed", "given_up", "exhausted", "provider_held", "resume_pending"} =>
       j.run \in Runs /\ ledger[j.run].item = j.item
  /\ o.do \in Verbing => o.run = NoRun \/ ledger[o.run].item = o.item

\* A settle or recovery that puts the row back in the queue: the run is over, its record
\* is not failed, or its rounds have been granted.
RequeueOK ==
  LET j == job["loop"] IN
  j.do \in {"provider_held", "resume_pending", "exhausted"} =>
    /\ row[j.item].run \in {j.run, NoRun}
    /\ ~Live(j.run)
    /\ j.do = "resume_pending" \/ (j.do = "provider_held" /\ j.step > 1) => rec[j.run] # "failed"
    /\ j.do = "exhausted" /\ j.step > 1 => rounds[j.run] # "exhausted"

\* A run that executes has rounds left, and one that never ran has used none.
RoundsOK == \A r \in Runs : /\ rec[r] = "active" => rounds[r] \in {"fresh", "granted"}
                            /\ Fresh(r) => rounds[r] = "fresh"

ChurnInv == ClaimPinned /\ JobsOf /\ RequeueOK /\ RoundsOK /\ AttemptsPaid /\ ResumesPaid

-----------------------------------------------------------------------------
(* Counting. *)

LEMMA CreditNat ==
  ASSUME NEW i \in Items
  PROVE  Credit(i) \in 0..2 /\ Credit(i)' \in 0..2
         /\ (~Opening(job["loop"], i) => Credit(i) <= 1)
         /\ (~Opening(job'["loop"], i) => Credit(i)' <= 1)
         /\ (Opening(job["loop"], i) => Credit(i) >= 1)
  BY DEF Credit

LEMMA OneNat == ASSUME NEW b PROVE One(b) \in 0..1
  BY DEF One

LEMMA OwingNat ==
  ASSUME NEW i \in Items
  PROVE  Owing(i) \in 0..5 /\ Owing(i)' \in 0..5
  BY OneNat DEF Owing

LEMMA BurntNat ==
  ASSUME NEW i
  PROVE  IsFiniteSet(Burnt(i)) /\ Cardinality(Burnt(i)) \in Nat
<1>1. Burnt(i) \subseteq Runs
  BY DEF Burnt
<1> QED
  BY <1>1, FS_Subset, FS_CardinalityType, ConstantsAssumption

\* Nothing of a smaller set is lost.
LEMMA FewerBurnt ==
  ASSUME NEW S, NEW T, IsFiniteSet(T), S \subseteq T
  PROVE  Cardinality(S) <= Cardinality(T) /\ Cardinality(S) \in Nat /\ Cardinality(T) \in Nat
  BY FS_Subset, FS_CardinalityType

LEMMA MoreBurnt ==
  ASSUME NEW S, NEW T, IsFiniteSet(T), S \subseteq T, NEW r \in T, r \notin S
  PROVE  Cardinality(S) + 1 <= Cardinality(T) /\ Cardinality(S) \in Nat /\ Cardinality(T) \in Nat
<1>1. IsFiniteSet(S) /\ S \cup {r} \subseteq T
  BY FS_Subset
<1>2. Cardinality(S \cup {r}) = Cardinality(S) + 1
  BY <1>1, FS_AddElement
<1> QED
  BY <1>1, <1>2, FewerBurnt

\* Rounds are never unspent, and a run never changes hands.
Accrues == \A r \in Runs :
  /\ ledger'[r].item = ledger[r].item \/ ledger[r].item = NoItem
  /\ rounds[r] # "fresh" => rounds'[r] # "fresh"

LEMMA BurntGrows ==
  ASSUME NEW i \in Items, Accrues
  PROVE  /\ Cardinality(Burnt(i)) \in Nat /\ Cardinality(Burnt(i)') \in Nat
         /\ Cardinality(Burnt(i)) <= Cardinality(Burnt(i)')
<1>1. Burnt(i) \subseteq Burnt(i)'
  BY ConstantsAssumption DEF Burnt, Accrues
<1>2. Burnt(i)' \subseteq Runs
  BY DEF Burnt
<1>3. IsFiniteSet(Burnt(i)')
  BY <1>2, FS_Subset, ConstantsAssumption
<1> QED
  BY <1>1, <1>3, FewerBurnt
-----------------------------------------------------------------------------
(* What the loop's job j may become without raising anybody's hopes.       *)

\* Putting the item's row back in the queue, or its run's record in order.
Requeueing == {"provider_held", "resume_pending", "exhausted"}
Closers == {"failed", "given_up"} \cup Requeueing

Quieter(j, k) ==
  /\ \A i \in Items :
       /\ Opening(k, i) => Opening(j, i)
       /\ Reopening(k, i) => Reopening(j, i) /\ k.do = j.do /\ k.run = j.run
       /\ Exhausting(k, i) => Exhausting(j, i) /\ k.run = j.run
       /\ k.item = i /\ k.do \in {"failed", "unstarted"} => j.item = i /\ j.do \in {"failed", "unstarted"}
  /\ Lifting(k) => Lifting(j) /\ k.run = j.run
  /\ k.do \in Closers => k.do = j.do /\ k.item = j.item /\ k.run = j.run

\* A failed attempt stays one until its row is written; the record was written before.
Failures(j, k) == \A i \in Items : Failing(j, i) => Failing(k, i)
Recorded(j, k) == k.do \in {"provider_held", "exhausted"} /\ k.step > 1 => j.step > 1
Started(j, k) == k.do = "start" /\ k.step = 1 => k = j
Calmer(j, k) == Quieter(j, k) /\ Failures(j, k) /\ Recorded(j, k) /\ Started(j, k)

\* The operator's job o becomes p.
OpQuieter(o, p) ==
  /\ \A i \in Items : (Granting(p, i) => Granting(o, i)) /\ (Closing(p, i) => Closing(o, i))
  /\ p.do \in Verbing => o.do = p.do /\ p.item = o.item /\ p.run = o.run

LEMMA SameCalmer ==
  ASSUME NEW j
  PROVE  Calmer(j, j) /\ OpQuieter(j, j)
  BY DEF Calmer, Quieter, Failures, Recorded, Started, OpQuieter

\* Where the writes that matter stand in the plans.
LEMMA PlanPlaces ==
  ASSUME NEW do \in Doing, NEW n \in 1..Len(Plan(do))
  PROVE  /\ Plan(do)[n] = "remark" => (do = "resume" /\ n = 2) \/ (do = "provider_resume" /\ n = 1)
         /\ do = "resume" => n \in 1..3 /\ (n = 1 => Plan(do)[n] = "sweep") /\ (n = 2 => Plan(do)[n] = "remark")
         /\ do = "provider_resume" /\ n = 1 => Plan(do)[n] = "remark"
         /\ do = "start" /\ n = 1 => Plan(do)[n] = "mark"
         /\ do \in {"resume_pending", "claim", "unstarted"} => Len(Plan(do)) = 1
         /\ do \in {"failed", "given_up"} =>
              /\ Len(Plan(do)) = 4 /\ Plan(do)[n] \notin {"pay", "paid"}
              /\ (n = 3 <=> Plan(do)[n] = "row") /\ (n = 2 <=> Plan(do)[n] = "record")
         /\ do \in {"provider_held", "exhausted"} =>
              (n = 1 <=> Plan(do)[n] = "record") /\ (n = 3 <=> Plan(do)[n] = "row")
<1>1. /\ Plan("failed") = <<"ledger", "record", "row", "report">> /\ Plan("given_up") = Plan("failed")
      /\ Plan("provider_held") = <<"record", "ledger", "row">>
      /\ Plan("exhausted") = <<"record", "ledger", "row", "report">>
      /\ Plan("start") = <<"mark", "launch">> /\ Plan("claim") = <<"claim">>
      /\ Plan("resume") = <<"sweep", "remark", "launch">>
      /\ Plan("provider_resume") = <<"remark", "launch">>
      /\ Plan("resume_pending") = <<"row">> /\ Plan("unstarted") = <<"row">>
  BY DEF Plan
<1>2. Plan(do)[n] = "remark" => do \in {"resume", "provider_resume"}
  BY DEF Plan, Doing, Launching, Settling, Recovering, Verbing
<1>3. CASE do \in {"failed", "given_up"}
  <2>1. Plan(do) = <<"ledger", "record", "row", "report">>
    BY <1>1, <1>3
  <2>2. Len(Plan(do)) = 4 /\ n \in 1..4 /\ Plan(do)[1] = "ledger" /\ Plan(do)[2] = "record"
        /\ Plan(do)[3] = "row" /\ Plan(do)[4] = "report"
    BY <2>1
  <2> QED
    BY <1>2, <1>3, <2>2
<1>4. CASE do \in {"provider_held", "exhausted"}
  BY <1>1, <1>2, <1>4
<1>5. CASE do \in {"start", "claim", "resume_pending", "unstarted"}
  BY <1>1, <1>2, <1>5
<1>6. CASE do = "resume"
  <2>1. Plan(do) = <<"sweep", "remark", "launch">>
    BY <1>1, <1>6
  <2>2. n \in 1..3 /\ Plan(do)[1] = "sweep" /\ Plan(do)[2] = "remark" /\ Plan(do)[3] = "launch"
    BY <2>1
  <2> QED
    BY <1>6, <2>2
<1>7. CASE do = "provider_resume"
  BY <1>1, <1>7
<1> QED
  BY <1>2, <1>3, <1>4, <1>5, <1>6, <1>7

LEMMA IdleQuieter ==
  ASSUME NEW j
  PROVE  Quieter(j, Idle) /\ Recorded(j, Idle) /\ Started(j, Idle) /\ OpQuieter(j, Idle)
<1>1. PICK k : k = Idle
  OBVIOUS
<1>2. k.do = "idle"
  BY <1>1 DEF Idle
<1>3. Quieter(j, k)
  BY <1>2 DEF Quieter, Opening, Reopening, Exhausting, Lifting, Closers, Requeueing
<1>4. Recorded(j, k) /\ Started(j, k) /\ OpQuieter(j, k)
  BY <1>2 DEF Recorded, Started, OpQuieter, Granting, Closing, Verbing
<1> QED
  BY <1>1, <1>3, <1>4

\* One write further, or done.
LEMMA Goes ==
  ASSUME IInv, NEW t \in Threads, NEW s, At(t, s), Step(t) \/ Finish(t)
  PROVE  /\ \A u \in Threads \ {t} : job'[u] = job[u]
         /\ \/ job'[t] = Idle /\ (Step(t) => job[t].step = Len(Plan(job[t].do)))
            \/ /\ Step(t) /\ job[t].step < Len(Plan(job[t].do))
               /\ job'[t].do = job[t].do /\ job'[t].item = job[t].item
               /\ job'[t].run = job[t].run /\ job'[t].step = job[t].step + 1
<1>1. job[t] \in JobType /\ job[t].step \in 1..Len(Plan(job[t].do)) /\ job[t].do \in Doing
  BY AtPlace
<1>2. Len(Plan(job[t].do)) \in Nat /\ job[t].step \in Nat
  BY <1>1, PlanLen DEF JobType
<1>3. \A u \in Threads \ {t} : job'[u] = job[u]
  BY DEF Step, Finish, IInv, TypeOK
<1>4. Finish(t) => job'[t] = Idle
  BY DEF Finish, IInv, TypeOK
<1>5. Step(t) => job'[t] = Advance(t)
  BY DEF Step, IInv, TypeOK
<1>6. job[t].step >= Len(Plan(job[t].do)) => Advance(t) = Idle /\ job[t].step = Len(Plan(job[t].do))
  BY <1>1, <1>2 DEF Advance
<1>7. PICK a : a = Advance(t)
  OBVIOUS
<1>8. job[t].step < Len(Plan(job[t].do)) =>
        /\ a.do = job[t].do /\ a.item = job[t].item
        /\ a.run = job[t].run /\ a.step = job[t].step + 1
  BY <1>1, <1>2, <1>7 DEF Advance, JobType
<1>9. CASE Finish(t) /\ ~Step(t)
  BY <1>3, <1>4, <1>9
<1>10. CASE Step(t) /\ job[t].step < Len(Plan(job[t].do))
  BY <1>3, <1>5, <1>7, <1>8, <1>10
<1>11. CASE Step(t) /\ job[t].step >= Len(Plan(job[t].do))
  BY <1>3, <1>5, <1>6, <1>11
<1> QED
  BY <1>2, <1>9, <1>10, <1>11

LEMMA StepQuieter ==
  ASSUME NEW j, NEW k, NEW s, j.do \in Doing, j.step \in 1..Len(Plan(j.do)),
         Plan(j.do)[j.step] = s, j.step < Len(Plan(j.do)),
         k.do = j.do, k.item = j.item, k.run = j.run, k.step = j.step + 1
  PROVE  /\ s \notin {"mark", "remark"} => Quieter(j, k)
         /\ s # "row" => Failures(j, k)
         /\ s # "record" => Recorded(j, k)
         /\ Started(j, k) /\ OpQuieter(j, k)
<1>1. j.step \in Nat /\ j.step >= 1
  BY PlanLen
<1>2. ASSUME s \notin {"mark", "remark"} PROVE Quieter(j, k)
  BY <1>1, <1>2, PlanPlaces
  DEF Quieter, Opening, Reopening, Exhausting, Lifting, Closers, Requeueing
<1>3. ASSUME s # "row" PROVE Failures(j, k)
  BY <1>1, <1>3, PlanPlaces DEF Failures, Failing
<1>4. ASSUME s # "record" PROVE Recorded(j, k)
  BY <1>1, <1>4, PlanPlaces DEF Recorded
<1>5. Started(j, k) /\ OpQuieter(j, k)
  BY <1>1 DEF Started, OpQuieter, Granting, Closing
<1> QED
  BY <1>2, <1>3, <1>4, <1>5

\* A write that touches neither the row's pin nor the record's.
LEMMA WriteQuieter ==
  ASSUME IInv, NEW t \in Threads, NEW s, At(t, s), Step(t) \/ (Finish(t) /\ s \in {"pay", "paid"}),
         s \notin {"mark", "remark"} \/ t = "op"
  PROVE  /\ Quieter(job["loop"], job'["loop"])
         /\ s # "row" \/ t = "op" => Failures(job["loop"], job'["loop"])
         /\ s # "record" \/ t = "op" => Recorded(job["loop"], job'["loop"])
         /\ Started(job["loop"], job'["loop"]) /\ OpQuieter(job["op"], job'["op"])
<1>1. PICK j, k : j = job[t] /\ k = job'[t]
  OBVIOUS
<1>2. /\ j.do \in Doing /\ j.step \in 1..Len(Plan(j.do)) /\ Plan(j.do)[j.step] = s
  BY <1>1, AtPlace
<1>3. /\ \A u \in Threads \ {t} : job'[u] = job[u]
      /\ \/ k = Idle /\ (Step(t) => j.step = Len(Plan(j.do)))
         \/ /\ Step(t) /\ j.step < Len(Plan(j.do))
            /\ k.do = j.do /\ k.item = j.item
            /\ k.run = j.run /\ k.step = j.step + 1
  BY <1>1, Goes
<1>4. s \notin {"mark", "remark"} => Quieter(j, k)
  BY <1>2, <1>3, StepQuieter, IdleQuieter
<1>5. s # "row" => Failures(j, k)
  <2>1. CASE k = Idle
    <3>1. j.do \in {"failed", "given_up"} => Len(Plan(j.do)) = 4 /\ s \notin {"pay", "paid"}
      BY <1>2, PlanPlaces
    <3>2. j.step \in Nat /\ j.do # "idle"
      BY <1>1, AtPlace DEF JobType
    <3>3. Step(t) => j.step = Len(Plan(j.do))
      BY <1>3, <2>1, <3>2 DEF Idle
    <3>4. s \in {"pay", "paid"} \/ Step(t)
      OBVIOUS
    <3>5. j.do \in {"failed", "given_up"} => j.step = 4
      BY <3>1, <3>3, <3>4
    <3>6. \A i \in Items : ~Failing(j, i)
      BY <3>5 DEF Failing
    <3> QED
      BY <3>6 DEF Failures
  <2> QED
    BY <1>2, <1>3, <2>1, StepQuieter
<1>6. (s # "record" => Recorded(j, k)) /\ Started(j, k) /\ OpQuieter(j, k)
  BY <1>2, <1>3, StepQuieter, IdleQuieter
<1>7. "loop" \in Threads /\ "op" \in Threads /\ "op" # "loop" /\ t \in {"op", "loop"}
  BY DEF Threads
<1>8. CASE t = "loop"
  BY <1>1, <1>3, <1>4, <1>5, <1>6, <1>7, <1>8, SameCalmer, Zenon
<1>9. CASE t = "op"
  <2>1. job'["loop"] = job["loop"]
    BY <1>3, <1>7, <1>9
  <2> QED
    BY <1>1, <1>6, <1>9, <2>1, SameCalmer, Zenon DEF Calmer
<1> QED
  BY <1>7, <1>8, <1>9

-----------------------------------------------------------------------------
(* Attempts: what a step may do to a row and a job without a payment.      *)

LEMMA CreditFrame ==
  ASSUME AttemptsPaid, NEW i \in Items, row[i].attempts \in Nat, row'[i].attempts \in Nat,
         verbs \in Nat, verbs' \in Nat, crashes \in Nat, crashes' \in Nat,
         verbs + crashes <= verbs' + crashes',
         row'[i].attempts <= row[i].attempts,
         Opening(job'["loop"], i) =>
           Credit(i) >= 1 /\ (daemon' = "up" \/ (Opening(job["loop"], i) /\ daemon # "up")),
         Awaiting(i)' => Credit(i) >= 1 \/ row'[i].attempts < MaxAttempts
  PROVE  row'[i].attempts + Credit(i)' <= MaxAttempts + verbs' + crashes'
<1>1. PICK c \in 0..2, d \in 0..2 : c = Credit(i) /\ d = Credit(i)'
  BY CreditNat
<1>2. c \in 0..2 /\ d \in 0..2
  BY <1>1, CreditNat
<1>3. row[i].attempts + c <= MaxAttempts + verbs + crashes
  BY <1>1 DEF AttemptsPaid
<1>4. d <= c \/ (d <= 1 /\ row'[i].attempts < MaxAttempts)
  <2>1. CASE Opening(job'["loop"], i)
    <3>1. c >= 1 /\ (Opening(job["loop"], i) /\ daemon # "up" => c = 2)
      BY <1>1, <2>1 DEF Credit
    <3>2. daemon' = "up" => d = 1
      BY <1>1, <2>1 DEF Credit
    <3> QED
      BY <1>2, <2>1, <3>1, <3>2
  <2>2. CASE ~Opening(job'["loop"], i) /\ Awaiting(i)'
    <3>1. d = 1 /\ (c >= 1 \/ row'[i].attempts < MaxAttempts)
      BY <1>1, <2>2 DEF Credit
    <3> QED
      BY <1>2, <3>1
  <2>3. CASE ~Opening(job'["loop"], i) /\ ~Awaiting(i)'
    <3>1. d = 0
      BY <1>1, <2>3 DEF Credit
    <3> QED
      BY <1>2, <3>1
  <2> QED
    BY <2>1, <2>2, <2>3
<1>5. MaxAttempts \in Nat
  BY ConstantsAssumption
<1>6. PICK a \in Nat, b \in Nat, v \in Nat, w \in Nat, x \in Nat, y \in Nat, m \in Nat :
        /\ m = MaxAttempts /\ a = row[i].attempts /\ b = row'[i].attempts
        /\ v = verbs /\ w = crashes /\ x = verbs' /\ y = crashes'
  BY <1>5
<1>7. a + c <= m + v + w /\ b <= a
  BY <1>3, <1>6
<1>8. v + w <= x + y
  BY <1>6
<1>9. d <= c \/ (d <= 1 /\ b < m) \/ (d <= c + 1 /\ v + w + 1 <= x + y)
  BY <1>4, <1>6, <1>8
<1>10. b + d <= m + x + y
  BY <1>7, <1>8, <1>9
<1> QED
  BY <1>1, <1>6, <1>10

\* A verb or a crash pays for one attempt.
LEMMA CreditPaid ==
  ASSUME AttemptsPaid, NEW i \in Items, row[i].attempts \in Nat, row'[i].attempts \in Nat,
         verbs \in Nat, verbs' \in Nat, crashes \in Nat, crashes' \in Nat,
         verbs + crashes + 1 <= verbs' + crashes',
         row'[i].attempts <= row[i].attempts,
         Opening(job'["loop"], i) => Opening(job["loop"], i)
  PROVE  row'[i].attempts + Credit(i)' <= MaxAttempts + verbs' + crashes'
<1>1. PICK c \in 0..2, d \in 0..2 : c = Credit(i) /\ d = Credit(i)'
  BY CreditNat
<1>2. c \in 0..2 /\ d \in 0..2 /\ (Opening(job["loop"], i) => c >= 1)
      /\ (~Opening(job'["loop"], i) => d <= 1)
  BY <1>1, CreditNat
<1>3. row[i].attempts + c <= MaxAttempts + verbs + crashes
  BY <1>1 DEF AttemptsPaid
<1>4. d <= c + 1
  BY <1>2
<1>5. MaxAttempts \in Nat
  BY ConstantsAssumption
<1>6. PICK a \in Nat, b \in Nat, v \in Nat, w \in Nat, x \in Nat, y \in Nat, m \in Nat :
        /\ m = MaxAttempts /\ a = row[i].attempts /\ b = row'[i].attempts
        /\ v = verbs /\ w = crashes /\ x = verbs' /\ y = crashes'
  BY <1>5
<1>7. a + c <= m + v + w /\ b <= a
  BY <1>3, <1>6
<1>8. v + w + 1 <= x + y
  BY <1>6
<1>9. d <= c \/ (d <= 1 /\ b < m) \/ (d <= c + 1 /\ v + w + 1 <= x + y)
  BY <1>4, <1>6, <1>8
<1>10. b + d <= m + x + y
  BY <1>7, <1>8, <1>9
<1> QED
  BY <1>1, <1>6, <1>10

\* A pinned row keeps its pin and is not put to work, the process goes on or was ending.
RowRests(i) ==
  /\ row'[i].attempts <= row[i].attempts
  /\ \/ row'[i].run = row[i].run
     \/ row'[i].run = NoRun /\ (Credit(i) >= 1 \/ row'[i].attempts < MaxAttempts)
  /\ row'[i].run # NoRun => /\ row'[i].claim = row[i].claim /\ row'[i].state # "absent"
                            /\ row'[i].state = "running" => row[i].state = "running"

DaemonRests == daemon' # "up" => daemon # "up"

LEMMA AwaitRests ==
  ASSUME NEW i \in Items, \A x \in Items : RowRests(x), DaemonRests,
         Quieter(job["loop"], job'["loop"]),
         \A x \in Items : Reopening(job'["loop"], x) => row'[x].run = row[x].run
  PROVE  Awaiting(i)' => Credit(i) >= 1 \/ row'[i].attempts < MaxAttempts
<1>1. Pulled' => Pulled
  BY DEF Pulled, Quieter
<1>2. Awaiting(i) => Credit(i) >= 1
  BY DEF Credit
<1>3. ASSUME Awaiting(i)', row'[i].run # NoRun PROVE Awaiting(i)
  BY <1>1, <1>3 DEF Awaiting, RowRests, Quieter, DaemonRests
<1>4. row'[i].run = NoRun => row[i].run = NoRun \/ Credit(i) >= 1 \/ row'[i].attempts < MaxAttempts
  BY DEF RowRests
<1>5. row[i].run = NoRun => Awaiting(i)
  BY DEF Awaiting
<1> QED
  BY <1>2, <1>3, <1>4, <1>5

LEMMA AttemptsRest ==
  ASSUME IInv, TypeOK', AttemptsPaid, \A x \in Items : RowRests(x), DaemonRests,
         Quieter(job["loop"], job'["loop"]),
         \A x \in Items : Reopening(job'["loop"], x) => row'[x].run = row[x].run,
         verbs + crashes <= verbs' + crashes'
  PROVE  AttemptsPaid'
<1> SUFFICES ASSUME NEW i \in Items
             PROVE  row'[i].attempts + Credit(i)' <= MaxAttempts + verbs' + crashes'
  BY DEF AttemptsPaid
<1>1. /\ row[i].attempts \in Nat /\ row'[i].attempts \in Nat
      /\ verbs \in Nat /\ verbs' \in Nat /\ crashes \in Nat /\ crashes' \in Nat
  BY DEF IInv, TypeOK, RowType
<1>2. Awaiting(i)' => Credit(i) >= 1 \/ row'[i].attempts < MaxAttempts
  BY AwaitRests
<1>3. Opening(job'["loop"], i) => Opening(job["loop"], i) /\ Credit(i) >= 1
  BY CreditNat DEF Quieter
<1>4. row'[i].attempts <= row[i].attempts
  BY DEF RowRests
<1> QED
  BY <1>1, <1>2, <1>3, <1>4, CreditFrame DEF DaemonRests

-----------------------------------------------------------------------------
(* Resumes. *)

LEMMA OneLe ==
  ASSUME NEW b, NEW c, b => c
  PROVE  One(b) <= One(c)
  BY DEF One

LEMMA OwingRests ==
  ASSUME NEW i \in Items,
         Spent(i)' => Spent(i), Promised(i)' => Promised(i), Slipped(i)' => Slipped(i),
         Granting(job'["op"], i) => Granting(job["op"], i),
         Closing(job'["op"], i) => Closing(job["op"], i)
  PROVE  Owing(i)' <= Owing(i)
  BY DEF Owing, One

\* What verbs, crashes and first exhaustions pay for.
LEMMA ResumesFrame ==
  ASSUME ResumesPaid, Accrues, NEW i \in Items, resumes[i] \in Nat, resumes'[i] = resumes[i],
         verbs \in Nat, verbs' \in Nat, crashes \in Nat, crashes' \in Nat,
         verbs + crashes <= verbs' + crashes',
         NEW n \in Nat, verbs + crashes + n <= verbs' + crashes', Owing(i)' <= Owing(i) + n
  PROVE  Owing(i)' <= Paid(i)' /\ resumes'[i] + Owing(i)' <= MaxResumes + Paid(i)'
<1>1. PICK c, d, a, b : /\ c = Owing(i) /\ d = Owing(i)'
                        /\ a = Cardinality(Burnt(i)) /\ b = Cardinality(Burnt(i)')
  OBVIOUS
<1>2. c \in 0..5 /\ d \in 0..5 /\ a \in Nat /\ b \in Nat /\ a <= b
  BY <1>1, OwingNat, BurntGrows
<1>3. Paid(i) = verbs + crashes + a /\ Paid(i)' = verbs' + crashes' + b
  BY <1>1 DEF Paid
<1>4. c <= verbs + crashes + a /\ resumes[i] + c <= MaxResumes + (verbs + crashes + a)
  BY <1>1, <1>3 DEF ResumesPaid
<1>5. MaxResumes \in Nat /\ d <= c + n
  BY <1>1, ConstantsAssumption
<1>6. d <= verbs' + crashes' + b /\ resumes[i] + d <= MaxResumes + (verbs' + crashes' + b)
  BY <1>2, <1>4, <1>5
<1> QED
  BY <1>1, <1>3, <1>6

\* Runs, records, budgets and handles stay as they are.
Frozen ==
  /\ rec' = rec /\ rounds' = rounds /\ resumes' = resumes
  /\ \A r \in Runs : ledger'[r].item = ledger[r].item
  /\ \A r \in Runs : handle'[r].at = handle[r].at

\* No pinned row joins the queue.
Unqueued(i) ==
  row'[i].run # NoRun /\ row'[i].state = "queued" => row[i].state = "queued" /\ row'[i].run = row[i].run

LEMMA FlyingRests ==
  ASSUME Frozen, Quieter(job["loop"], job'["loop"]), NEW r \in Runs
  PROVE  Flying(r)' => Flying(r)
  BY DEF Flying, Frozen, Quieter, Live

LEMMA TermsRest ==
  ASSUME IInv, JobsOf, Frozen, Quieter(job["loop"], job'["loop"]), NEW i \in Items,
         row'[i].run = row[i].run \/ row'[i].run = NoRun, Unqueued(i),
         Failing(job["loop"], i) => Failing(job'["loop"], i) \/ row'[i].run = NoRun
                                    \/ row'[i].state # "queued"
  PROVE  (Spent(i)' => Spent(i)) /\ (Promised(i)' => Promised(i)) /\ (Slipped(i)' => Slipped(i))
<1>0. NoRun \notin Runs
  BY ConstantsAssumption
<1>1. Spent(i)' => Spent(i)
  BY <1>0 DEF Spent, Frozen
<1>2. row'[i].run = row[i].run => (Spent(i)' <=> Spent(i))
  BY DEF Spent, Frozen
<1>3. Slipped(i)' => Slipped(i)
  <2>1. Reopening(job'["loop"], i) => Reopening(job["loop"], i) /\ job'["loop"].do = job["loop"].do
                                      /\ job'["loop"].run = job["loop"].run
    BY DEF Quieter
  <2>2. Reopening(job["loop"], i) => job["loop"].run \in Runs
    BY DEF Reopening, IInv, LaunchReady
  <2> QED
    BY <2>1, <2>2 DEF Slipped, Frozen, Live
<1>4. Promised(i)' => Promised(i)
  <2>1. \A r \in Runs : Flying(r)' => Flying(r)
    BY FlyingRests
  <2>2. CASE row'[i].run = row[i].run /\ row[i].run \in Runs
    BY <1>2, <2>1, <2>2, <1>0 DEF Promised, Quieter, Frozen, Unqueued
  <2>3. CASE row'[i].run \notin Runs
    <3>1. Exhausting(job'["loop"], i) => job'["loop"].run \in Runs
      BY DEF JobsOf, Quieter, Exhausting
    <3> QED
      BY <2>3, <3>1 DEF Promised, Quieter, Frozen
  <2> QED
    BY <1>0, <2>2, <2>3 DEF IInv, TypeOK, RowType
<1> QED
  BY <1>1, <1>3, <1>4

-----------------------------------------------------------------------------
(* The rest of the invariant, under a step that keeps to the frame. *)

LEMMA ClaimsRest ==
  ASSUME ClaimPinned,
         job'["loop"].do = "start" /\ job'["loop"].step = 1 => row'[job'["loop"].item].claim = "yes",
         \A i \in Items : /\ row'[i].run = row[i].run \/ row'[i].run = NoRun
                          /\ row'[i].run # NoRun =>
                               row'[i].claim = row[i].claim /\ row'[i].state # "absent"
  PROVE  ClaimPinned'
  BY DEF ClaimPinned

LEMMA JobsRest ==
  ASSUME JobsOf, \A r \in Runs : ledger'[r].item = ledger[r].item,
         job'["op"].run \in Runs \cup {NoRun},
         Quieter(job["loop"], job'["loop"]), OpQuieter(job["op"], job'["op"])
  PROVE  JobsOf'
<1>1. PICK j, k, o, p : j = job["loop"] /\ k = job'["loop"] /\ o = job["op"] /\ p = job'["op"]
  OBVIOUS
<1>2. k.do \in Closers => k.run \in Runs /\ ledger'[k.run].item = k.item
  BY <1>1 DEF JobsOf, Quieter, Closers, Requeueing
<1>3. p.do \in Verbing => p.run = NoRun \/ ledger'[p.run].item = p.item
  BY <1>1 DEF JobsOf, OpQuieter
<1> QED
  BY <1>1, <1>2, <1>3 DEF JobsOf, Closers, Requeueing

LEMMA RequeueRest ==
  ASSUME JobsOf, RequeueOK, Quieter(job["loop"], job'["loop"]), Recorded(job["loop"], job'["loop"]),
         job["loop"].do \in Requeueing => job["loop"].item \in Items,
         \A i \in Items : row'[i].run = row[i].run \/ row'[i].run = NoRun,
         \A r \in Runs : /\ Live(r)' => Live(r)
                         /\ rec'[r] = "failed" => rec[r] = "failed"
                         /\ rounds'[r] = "exhausted" => rounds[r] = "exhausted"
  PROVE  RequeueOK'
<1>1. PICK j, k : j = job["loop"] /\ k = job'["loop"]
  OBVIOUS
<1>2. k.do \in Requeueing => /\ k.do = j.do /\ k.item = j.item /\ k.run = j.run
                             /\ j.run \in Runs /\ j.item \in Items
                             /\ (k.do # "resume_pending" /\ k.step > 1 => j.step > 1)
  BY <1>1 DEF Quieter, Recorded, Requeueing, Closers, JobsOf
<1> QED
  BY <1>1, <1>2 DEF RequeueOK, Requeueing, Live

LEMMA RoundsRest ==
  ASSUME RoundsOK, Frozen
  PROVE  RoundsOK'
  BY DEF RoundsOK, Frozen, Fresh

\* A step that only writes rows and jobs, promises no new attempt and pays for nothing.
Resting ==
  /\ \A i \in Items : RowRests(i) /\ (Reopening(job'["loop"], i) => row'[i].run = row[i].run)
  /\ job'["loop"].do = "start" /\ job'["loop"].step = 1 => row'[job'["loop"].item].claim = "yes"
  /\ Frozen /\ DaemonRests /\ UNCHANGED bounds
  /\ Quieter(job["loop"], job'["loop"])
  /\ Recorded(job["loop"], job'["loop"]) /\ OpQuieter(job["op"], job'["op"])

\* Nor does it put a pinned row in the queue, or let go of one whose record it closed.
Quiet ==
  /\ Resting /\ \A i \in Items : Unqueued(i)
  /\ \A i \in Items : Failing(job["loop"], i) =>
       Failing(job'["loop"], i) \/ row'[i].run = NoRun \/ row'[i].state # "queued"

LEMMA FrozenAccrues ==
  ASSUME Frozen
  PROVE  Accrues
  BY DEF Frozen, Accrues

LEMMA RestingKeeps ==
  ASSUME IInv, IInv', ChurnInv, Resting,
         \A i \in Items : Owing(i)' <= Owing(i)
  PROVE  ChurnInv'
<1>0. /\ ClaimPinned /\ JobsOf /\ RequeueOK /\ RoundsOK /\ AttemptsPaid /\ ResumesPaid
      /\ TypeOK /\ TypeOK' /\ JobsNamed' /\ JobsNamed
  BY DEF ChurnInv, IInv
<1>1. /\ \A i \in Items : RowRests(i)
      /\ job'["loop"].do = "start" /\ job'["loop"].step = 1 => row'[job'["loop"].item].claim = "yes"
      /\ \A i \in Items : (Reopening(job'["loop"], i) => row'[i].run = row[i].run)
      /\ Frozen /\ DaemonRests /\ verbs' = verbs /\ crashes' = crashes
      /\ Quieter(job["loop"], job'["loop"])
      /\ Recorded(job["loop"], job'["loop"]) /\ OpQuieter(job["op"], job'["op"])
  BY DEF Resting, bounds
<1>2. verbs \in Nat /\ crashes \in Nat /\ (\A i \in Items : resumes[i] \in Nat)
      /\ "loop" \in Threads /\ job'["op"].run \in Runs \cup {NoRun}
  BY <1>0 DEF TypeOK, Threads, JobType
<1>3. ClaimPinned'
  BY <1>0, <1>1, ClaimsRest DEF RowRests
<1>4. JobsOf'
  BY <1>0, <1>1, <1>2, JobsRest DEF Frozen
<1>5. RequeueOK'
  <2>1. job["loop"].do \in Requeueing => job["loop"].item \in Items
    BY <1>0, <1>2 DEF JobsNamed, Requeueing
  <2>2. \A r \in Runs : /\ Live(r)' => Live(r)
                        /\ rec'[r] = "failed" => rec[r] = "failed"
                        /\ rounds'[r] = "exhausted" => rounds[r] = "exhausted"
    BY <1>1 DEF Frozen, Live
  <2> QED
    BY <1>0, <1>1, <2>1, <2>2, RequeueRest DEF RowRests
<1>6. RoundsOK'
  BY <1>0, <1>1, RoundsRest
<1>7. AttemptsPaid'
  BY <1>0, <1>1, <1>2, AttemptsRest
<1>8. ResumesPaid'
  <2> SUFFICES ASSUME NEW i \in Items
               PROVE  Owing(i)' <= Paid(i)' /\ resumes'[i] + Owing(i)' <= MaxResumes + Paid(i)'
    BY DEF ResumesPaid
  <2>1. Accrues /\ resumes'[i] = resumes[i] /\ Owing(i)' <= Owing(i) + 0
    BY <1>1, OwingNat, FrozenAccrues DEF Frozen
  <2> QED
    BY <1>0, <1>1, <1>2, <2>1, ResumesFrame
<1> QED
  BY <1>3, <1>4, <1>5, <1>6, <1>7, <1>8 DEF ChurnInv

LEMMA QuietKeeps ==
  ASSUME IInv, IInv', ChurnInv, Quiet
  PROVE  ChurnInv'
<1>1. JobsOf /\ Resting /\ Frozen /\ Quieter(job["loop"], job'["loop"])
      /\ OpQuieter(job["op"], job'["op"])
  BY DEF ChurnInv, Quiet, Resting
<1>2. ASSUME NEW i \in Items
      PROVE  (Spent(i)' => Spent(i)) /\ (Promised(i)' => Promised(i)) /\ (Slipped(i)' => Slipped(i))
  <2>1. /\ row'[i].run = row[i].run \/ row'[i].run = NoRun
        /\ Unqueued(i)
        /\ Failing(job["loop"], i) => Failing(job'["loop"], i) \/ row'[i].run = NoRun
                                      \/ row'[i].state # "queued"
    BY DEF Quiet, Resting, RowRests
  <2> QED
    BY <1>1, <2>1, TermsRest
<1>3. \A i \in Items : Owing(i)' <= Owing(i)
  BY <1>1, <1>2, OwingRests DEF OpQuieter
<1> QED
  BY <1>1, <1>3, RestingKeeps

-----------------------------------------------------------------------------
(* The steps that keep to the frame. *)

\* Jobs that no item's count looks at.
Plain == Doing \ ({"start", "claim", "resume", "provider_resume", "unstarted"} \cup Closers)

LEMMA PlainCalmer ==
  ASSUME NEW j, NEW k, k.do \in Plain
  PROVE  /\ Quieter(j, k) /\ Recorded(j, k) /\ Started(j, k)
         /\ j.do \notin {"failed", "given_up"} => Calmer(j, k)
<1>1. Quieter(j, k) /\ Recorded(j, k) /\ Started(j, k)
  BY DEF Plain, Quieter, Recorded, Started, Opening, Reopening, Exhausting, Lifting, Closers, Requeueing
<1>2. j.do \notin {"failed", "given_up"} => Failures(j, k)
  BY DEF Failures, Failing
<1> QED
  BY <1>1, <1>2 DEF Calmer

\* What the counts read of the rows is left alone.
RowsStill == \A i \in Items : /\ row'[i].attempts = row[i].attempts /\ row'[i].run = row[i].run
                              /\ row'[i].claim = row[i].claim /\ row'[i].state = row[i].state

LEMMA StillRests ==
  ASSUME IInv, ClaimPinned, RowsStill
  PROVE  \A i \in Items : /\ RowRests(i) /\ Unqueued(i) /\ row'[i].claim = row[i].claim
                          /\ row'[i].run = row[i].run
<1>1. \A i \in Items : row[i].attempts \in Nat
  BY DEF IInv, TypeOK, RowType
<1> QED
  BY <1>1 DEF RowsStill, RowRests, Unqueued, ClaimPinned

LEMMA StillKeeps ==
  ASSUME IInv, IInv', ChurnInv, RowsStill, Frozen, DaemonRests, UNCHANGED bounds,
         Calmer(job["loop"], job'["loop"]), OpQuieter(job["op"], job'["op"])
  PROVE  ChurnInv'
<1>1. ClaimPinned
  BY DEF ChurnInv
<1>2. job'["loop"].do = "start" /\ job'["loop"].step = 1 => row'[job'["loop"].item].claim = "yes"
  <2>1. job'["loop"].do = "start" => job'["loop"].item \in Items
    BY DEF IInv, JobsNamed, Threads
  <2> QED
    BY <1>1, <2>1 DEF ClaimPinned, RowsStill, Calmer, Started
<1>3. Quiet
  BY <1>1, <1>2, StillRests DEF Quiet, Resting, Failures, Calmer
<1> QED
  BY <1>3, QuietKeeps

LEMMA QuietWrites ==
  ASSUME IInv, IInv', ChurnInv, NEW t \in Threads,
         \/ Sweep(t) \/ WriteLedger(t) \/ TellOutcome(t) \/ OutcomeRefused(t) \/ TakeOutcome(t)
         \/ TakeDecision(t) \/ TellDecision(t) \/ (t = "loop" /\ Report)
  PROVE  ChurnInv'
<1>0. /\ row \in [Items -> RowType] /\ ledger \in [Runs -> [item : Items \cup {NoItem}, result : Results]]
  BY DEF IInv, TypeOK
<1>1. PICK s \in {"sweep", "ledger", "pay", "paid", "report"} :
        At(t, s) /\ (Step(t) \/ (Finish(t) /\ s \in {"pay", "paid"}))
  BY DEF Sweep, WriteLedger, TellOutcome, OutcomeRefused, TakeOutcome, TakeDecision, TellDecision,
         Report
<1>2. Calmer(job["loop"], job'["loop"]) /\ OpQuieter(job["op"], job'["op"])
  BY <1>1, WriteQuieter DEF Calmer
<1>3. job[t].item \in Items
  BY <1>1, AtPlace
<1>4. row' = row \/ row' = [row EXCEPT ![job[t].item] = [@ EXCEPT !.owed = "none"]]
  BY DEF Sweep, WriteLedger, TellOutcome, OutcomeRefused, TakeOutcome, TakeDecision, TellDecision,
         Report
<1>5. RowsStill
  BY <1>0, <1>3, <1>4 DEF RowsStill, RowType
<1>6. rec' = rec /\ rounds' = rounds /\ resumes' = resumes /\ handle' = handle /\ daemon' = daemon
      /\ UNCHANGED bounds
  BY DEF Sweep, WriteLedger, TellOutcome, OutcomeRefused, TakeOutcome, TakeDecision, TellDecision,
         Report, records, process
<1>7. ledger' = ledger \/ ledger' = [ledger EXCEPT ![job[t].run] = [@ EXCEPT !.result = LedgerAfter(job[t].do)]]
  BY DEF Sweep, WriteLedger, TellOutcome, OutcomeRefused, TakeOutcome, TakeDecision, TellDecision,
         Report
<1>8. \A r \in Runs : ledger'[r].item = ledger[r].item
  BY <1>0, <1>7
<1>9. Frozen /\ DaemonRests
  BY <1>6, <1>8 DEF Frozen, DaemonRests
<1> QED
  BY <1>2, <1>5, <1>6, <1>9, StillKeeps

LEMMA LoopBeginsPlain ==
  ASSUME IInv, job["loop"].do \notin {"failed", "given_up"}, NEW do \in Plain, NEW i, NEW r, NEW kind,
         job' = [job EXCEPT !["loop"] = Begin(do, i, r, kind)]
  PROVE  Calmer(job["loop"], job'["loop"]) /\ OpQuieter(job["op"], job'["op"])
<1>1. job'["loop"].do = do /\ job'["op"] = job["op"]
  BY DEF IInv, TypeOK, Threads, Begin
<1> QED
  BY <1>1, PlainCalmer, SameCalmer

LEMMA LookPlans ==
  ASSUME NEW do \in Doing, NEW n \in 1..Len(Plan(do)), Plan(do)[n] = "look"
  PROVE  do \in {"done", "blocked"}
  BY DEF Plan, Doing, Launching, Settling, Recovering, Verbing

LEMMA QuietOthers ==
  ASSUME IInv, IInv', ChurnInv,
         \/ LookUp \/ Restart \/ RecoverNext \/ UNCHANGED vars
         \/ \E i \in Items : DeliverPending(i)
         \/ \E r \in Runs : PollOverride(r) \/ SettleOffline(r)
         \/ StopCurrent
  PROVE  ChurnInv'
<1>0. handle \in [Runs -> HandleType]
  BY DEF IInv, TypeOK
<1>1. row' = row /\ rec' = rec /\ rounds' = rounds /\ resumes' = resumes /\ ledger' = ledger
      /\ UNCHANGED bounds
  BY DEF LookUp, Restart, RecoverNext, DeliverPending, PollOverride, SettleOffline, StopCurrent,
         records, vars, bounds
<1>2. DaemonRests
  BY DEF LookUp, Restart, RecoverNext, DeliverPending, PollOverride, SettleOffline, StopCurrent,
         vars, DaemonRests, process
<1>3. \A r \in Runs : handle'[r].at = handle[r].at
  <2>1. CASE StopCurrent
    BY <1>0, <2>1, StopType DEF StopCurrent, HandleType
  <2>2. CASE \E r \in Runs : PollOverride(r)
    BY <1>0, <2>2 DEF PollOverride, HandleType
  <2>3. CASE ~StopCurrent /\ ~\E r \in Runs : PollOverride(r)
    BY <2>3 DEF LookUp, Restart, RecoverNext, DeliverPending, SettleOffline, vars, process
  <2> QED
    BY <2>1, <2>2, <2>3
<1>4. RowsStill /\ Frozen
  BY <1>1, <1>3 DEF RowsStill, Frozen
<1>5. Calmer(job["loop"], job'["loop"]) /\ OpQuieter(job["op"], job'["op"])
  <2>1. CASE LookUp
    <3>1. At("loop", "look") /\ "loop" \in Threads
      BY <2>1 DEF LookUp, Threads
    <3>2. /\ job["loop"] \in JobType /\ job["loop"].do \in Doing
          /\ job["loop"].step \in 1..Len(Plan(job["loop"].do)) /\ Plan(job["loop"].do)[job["loop"].step] = "look"
      BY <3>1, AtPlace
    <3>3. job["loop"].do \in {"done", "blocked"}
      BY <3>2, LookPlans
    <3>4. PICK a : a = Advance("loop")
      OBVIOUS
    <3>5. a \in JobType /\ a.do \in {"idle", "done", "blocked"}
      BY <3>2, <3>3, <3>4, IdleType DEF Advance, Idle, JobType
    <3>6. job'["loop"] = [a EXCEPT !.kind = row[job["loop"].item].owed] /\ job'["op"] = job["op"]
      BY <2>1, <3>4 DEF LookUp, IInv, TypeOK, Threads
    <3>7. job'["loop"].do \in Plain
      BY <3>5, <3>6 DEF JobType, Plain, Doing, Settling, Closers, Requeueing, Launching
    <3> QED
      BY <3>3, <3>6, <3>7, PlainCalmer, SameCalmer
  <2>2. CASE StopCurrent
    <3>1. At("op", "stop") /\ "op" \in Threads
      BY <2>2 DEF StopCurrent, Threads
    <3>2. /\ job["op"] \in JobType /\ job["op"].do \in Doing /\ job["op"].item \in Items
          /\ job["op"].step \in 1..Len(Plan(job["op"].do)) /\ Plan(job["op"].do)[job["op"].step] = "stop"
      BY <3>1, AtPlace
    <3>3. job'["loop"] = job["loop"] /\ \/ job'["op"] = Idle
                                        \/ job'["op"] = Begin("deliver", job["op"].item, NoRun, "abandoned")
                                        \/ job' = [job EXCEPT !["op"] = Advance("op")]
      BY <2>2 DEF StopCurrent, IInv, TypeOK, Threads
    <3>4. OpQuieter(job["op"], Begin("deliver", job["op"].item, NoRun, "abandoned"))
      BY DEF OpQuieter, Begin, Granting, Closing, Verbing
    <3>5. CASE job' = [job EXCEPT !["op"] = Advance("op")]
      BY <3>1, <3>3, <3>5, WriteQuieter, SameCalmer DEF Step
    <3> QED
      BY <3>3, <3>4, <3>5, IdleQuieter, SameCalmer
  <2>3. CASE \E i \in Items : DeliverPending(i)
    <3>1. PICK i \in Items : DeliverPending(i)
      BY <2>3
    <3>2. job["loop"] = Idle /\ job' = [job EXCEPT !["loop"] = Begin("deliver", i, NoRun, row[i].owed)]
      BY <3>1 DEF DeliverPending, LoopFree
    <3>3. "deliver" \in Plain /\ Idle.do \notin {"failed", "given_up"}
      BY DEF Plain, Doing, Closers, Requeueing, Idle
    <3> QED
      BY <3>2, <3>3, LoopBeginsPlain
  <2>4. CASE \E r \in Runs : SettleOffline(r)
    <3>1. PICK r \in Runs : SettleOffline(r)
      BY <2>4
    <3>2. PICK do \in {"close_abandoned", "close_requeued"} : job["loop"] = Idle
            /\ job' = [job EXCEPT !["loop"] = Begin(do, ledger[r].item, r, "none")]
      BY <3>1 DEF SettleOffline
    <3>3. "close_abandoned" \in Plain /\ "close_requeued" \in Plain /\ Idle.do \notin {"failed", "given_up"}
      BY DEF Plain, Doing, Recovering, Closers, Requeueing, Idle
    <3> QED
      BY <3>2, <3>3, LoopBeginsPlain
  <2>5. CASE job' = job
    BY <2>5, SameCalmer
  <2> QED
    BY <2>1, <2>2, <2>3, <2>4, <2>5 DEF Restart, RecoverNext, PollOverride, vars
<1> QED
  BY <1>1, <1>2, <1>4, <1>5, StillKeeps

LEMMA OneRowRests ==
  ASSUME IInv, ClaimPinned, NEW i \in Items, NEW w, row' = [row EXCEPT ![i] = w],
         w.attempts <= row[i].attempts,
         w.run = row[i].run \/ (w.run = NoRun /\ (Credit(i) >= 1 \/ w.attempts < MaxAttempts)),
         w.run # NoRun => /\ w.claim = row[i].claim /\ w.state # "absent"
                          /\ w.state \in {"running", "queued"} => w.state = row[i].state
  PROVE  /\ \A x \in Items : RowRests(x) /\ Unqueued(x)
         /\ row'[i] = w /\ \A x \in Items \ {i} : row'[x] = row[x]
<1>1. row'[i] = w /\ \A x \in Items \ {i} : row'[x] = row[x]
  BY DEF IInv, TypeOK
<1>2. \A x \in Items : row[x].attempts \in Nat
  BY DEF IInv, TypeOK, RowType
<1>3. RowRests(i) /\ Unqueued(i)
  BY <1>1 DEF RowRests, Unqueued
<1>4. ASSUME NEW x \in Items, x # i PROVE RowRests(x) /\ Unqueued(x)
  BY <1>1, <1>2, <1>4 DEF RowRests, Unqueued, ClaimPinned
<1> QED
  BY <1>1, <1>3, <1>4

LEMMA AgainPlans ==
  ASSUME NEW do \in Doing, NEW n \in 1..Len(Plan(do)), Plan(do)[n] = "again"
  PROVE  do = "cancelled_retry"
  BY DEF Plan, Doing, Launching, Settling, Recovering, Verbing

LEMMA QuietRows ==
  ASSUME IInv, IInv', RowInv, ChurnInv,
         \/ \E i \in Items : Discover(i) \/ \E landed \in BOOLEAN : SettleHalfClaim(i, landed)
         \/ ClaimWon \/ ClaimLost \/ CancelledAgain
  PROVE  ChurnInv'
<1>0. /\ row \in [Items -> RowType] /\ ClaimPinned /\ "loop" \in Threads /\ MaxAttempts \in Nat \ {0}
      /\ job["loop"] \in JobType
  BY ConstantsAssumption DEF IInv, TypeOK, ChurnInv, Threads
<1>1. Frozen /\ DaemonRests /\ UNCHANGED bounds
  BY DEF Discover, SettleHalfClaim, ClaimWon, ClaimLost, CancelledAgain, Frozen, DaemonRests,
         records, process
<1>2. ASSUME NEW i \in Items, NEW w, w \in RowType, row' = [row EXCEPT ![i] = w], w.run = NoRun,
             row[i].run = NoRun \/ Credit(i) >= 1 \/ w.attempts < MaxAttempts,
             w.attempts <= row[i].attempts,
             job'["loop"].do = "start" /\ job'["loop"].step = 1 => job'["loop"].item = i /\ w.claim = "yes",
             Quieter(job["loop"], job'["loop"]), Failures(job["loop"], job'["loop"]),
             Recorded(job["loop"], job'["loop"]), OpQuieter(job["op"], job'["op"]),
             \A x \in Items : ~Reopening(job'["loop"], x)
      PROVE  ChurnInv'
  <2>1. /\ \A x \in Items : RowRests(x) /\ Unqueued(x)
        /\ row'[i] = w
    BY <1>0, <1>2, OneRowRests
  <2>2. Quiet
    BY <1>1, <1>2, <2>1 DEF Quiet, Resting, Failures
  <2> QED
    BY <2>2, QuietKeeps
<1>3. Idle.do = "idle" /\ \A x \in Items : ~Reopening(Idle, x)
  BY DEF Idle, Reopening
<1>4. ASSUME NEW i \in Items, Discover(i) PROVE ChurnInv'
  <2>1. PICK w : w = [row[i] EXCEPT !.state = "queued"]
    OBVIOUS
  <2>2. w \in RowType /\ w.run = row[i].run /\ w.attempts = row[i].attempts
    BY <1>0, <2>1 DEF RowType, ItemStates
  <2>3. row' = [row EXCEPT ![i] = w] /\ row[i].state = "absent" /\ job["loop"] = Idle /\ job' = job
    BY <1>4, <2>1 DEF Discover, LoopFree
  <2>4. row[i].run = NoRun /\ w.attempts \in Nat
    BY <1>0, <2>2, <2>3 DEF ClaimPinned, RowType
  <2>5. /\ Quieter(job["loop"], job'["loop"]) /\ Failures(job["loop"], job'["loop"])
        /\ Recorded(job["loop"], job'["loop"]) /\ OpQuieter(job["op"], job'["op"])
    BY <2>3, SameCalmer DEF Calmer
  <2>6. w.run = NoRun /\ w.attempts <= row[i].attempts
    BY <2>2, <2>4
  <2>7. job'["loop"].do # "start" /\ \A x \in Items : ~Reopening(job'["loop"], x)
    BY <1>3, <2>3
  <2> QED
    BY <1>2, <2>2, <2>3, <2>4, <2>5, <2>6, <2>7, Zenon
<1>5. ASSUME NEW i \in Items, NEW landed \in BOOLEAN, SettleHalfClaim(i, landed) PROVE ChurnInv'
  <2>1. PICK w : w = [row[i] EXCEPT !.claim = IF landed THEN "yes" ELSE "no"]
    OBVIOUS
  <2>2. w \in RowType /\ w.run = row[i].run /\ w.attempts = row[i].attempts
    BY <1>0, <2>1 DEF RowType
  <2>3. row' = [row EXCEPT ![i] = w] /\ row[i].claim = "posting" /\ daemon = "claims" /\ job' = job
    BY <1>5, <2>1 DEF SettleHalfClaim, HalfClaimed
  <2>4. row[i].run = NoRun /\ w.attempts \in Nat
    BY <1>0, <2>2, <2>3 DEF ClaimPinned, RowType
  <2>5. /\ Quieter(job["loop"], job'["loop"]) /\ Failures(job["loop"], job'["loop"])
        /\ Recorded(job["loop"], job'["loop"]) /\ OpQuieter(job["op"], job'["op"])
    BY <2>3, SameCalmer DEF Calmer
  <2>6. job["loop"].do \notin Launching
    BY <2>3 DEF RowInv, BootClean, Up
  <2>7. job'["loop"].do # "start" /\ \A x \in Items : ~Reopening(job'["loop"], x)
    BY <2>3, <2>6 DEF Launching, Reopening
  <2>8. w.run = NoRun /\ w.attempts <= row[i].attempts
    BY <2>2, <2>4
  <2> QED
    BY <1>2, <2>2, <2>3, <2>4, <2>5, <2>7, <2>8, Zenon
<1>6. ASSUME ClaimWon \/ ClaimLost PROVE ChurnInv'
  <2>1. At("loop", "claim")
    BY <1>6 DEF ClaimWon, ClaimLost
  <2>2. job["loop"].do = "claim" /\ job["loop"].item \in Items
    BY <1>0, <2>1, AtPlace, ClaimIsAlone
  <2>3. PICK i \in Items : i = job["loop"].item
    BY <2>2
  <2>4. Opening(job["loop"], i) /\ Credit(i) >= 1 /\ row[i].attempts \in Nat
    BY <1>0, <2>2, <2>3, CreditNat DEF Opening, RowType
  <2>5. CASE ClaimWon
    <3>1. PICK w : w = [row[i] EXCEPT !.claim = "yes"]
      OBVIOUS
    <3>2. w \in RowType /\ w.run = row[i].run /\ w.attempts = row[i].attempts /\ w.claim = "yes"
          /\ w.state = row[i].state
      BY <1>0, <3>1 DEF RowType
    <3>3. row' = [row EXCEPT ![i] = w]
      BY <2>3, <2>5, <3>1 DEF ClaimWon
    <3>4. PICK r \in Runs : job' = [job EXCEPT !["loop"] = Begin("start", i, r, "none")]
      BY <2>3, <2>5 DEF ClaimWon
    <3>5. PICK k : k = job'["loop"]
      OBVIOUS
    <3>6. k.do = "start" /\ k.item = i /\ k.step = 1 /\ job'["op"] = job["op"]
      BY <3>4, <3>5 DEF IInv, TypeOK, Threads, Begin
    <3>7. Quieter(job["loop"], k) /\ Failures(job["loop"], k) /\ Recorded(job["loop"], k)
          /\ \A x \in Items : ~Reopening(k, x)
      BY <2>2, <2>3, <2>4, <3>6
      DEF Quieter, Failures, Recorded, Opening, Reopening, Failing, Exhausting, Lifting, Closers,
          Requeueing
    <3>8. \A x \in Items : RowRests(x) /\ Unqueued(x)
      <4>1. w.run # NoRun => w.claim = row[i].claim /\ w.state # "absent"
        BY <1>0, <3>2 DEF ClaimPinned
      <4>2. w.attempts <= row[i].attempts
        BY <2>4, <3>2
      <4> QED
        BY <1>0, <3>2, <3>3, <4>1, <4>2, OneRowRests, Zenon
    <3>9. row'[i].claim = "yes"
      BY <1>0, <3>2, <3>3
    <3>10. Quiet
      BY <1>1, <3>5, <3>6, <3>7, <3>8, <3>9, SameCalmer DEF Quiet, Resting, Failures
    <3> QED
      BY <3>10, QuietKeeps
  <2>6. CASE ClaimLost
    <3>1. job' = [job EXCEPT !["loop"] = Idle]
      BY <2>6 DEF ClaimLost, Finish
    <3>2. job'["loop"] = Idle /\ job'["op"] = job["op"]
      BY <3>1 DEF IInv, TypeOK, Threads
    <3>3. /\ Quieter(job["loop"], job'["loop"]) /\ Recorded(job["loop"], job'["loop"])
          /\ Started(job["loop"], job'["loop"]) /\ OpQuieter(job["op"], job'["op"])
      BY <3>2, IdleQuieter, SameCalmer
    <3>4. Failures(job["loop"], job'["loop"])
      BY <2>2 DEF Failures, Failing
    <3>5. CASE row' = row
      BY <1>1, <3>3, <3>4, <3>5, StillKeeps DEF RowsStill, Calmer
    <3>6. CASE row' # row
      <4>1. PICK w : w = [state |-> "absent", run |-> NoRun, attempts |-> 0, claim |-> "no", owed |-> "none"]
        OBVIOUS
      <4>2. w \in RowType /\ w.run = NoRun /\ w.attempts = 0
        BY <4>1 DEF RowType, ItemStates, Debts
      <4>3. row' = [row EXCEPT ![i] = w]
        BY <2>3, <2>6, <3>6, <4>1 DEF ClaimLost
      <4>4. w.attempts <= row[i].attempts
        BY <2>4, <4>2
      <4>5. job'["loop"].do # "start" /\ \A x \in Items : ~Reopening(job'["loop"], x)
        BY <1>3, <3>2
      <4> QED
        BY <1>2, <2>4, <3>3, <3>4, <4>2, <4>3, <4>4, <4>5, Zenon
    <3> QED
      BY <3>5, <3>6
  <2> QED
    BY <1>6, <2>5, <2>6
<1>7. ASSUME CancelledAgain PROVE ChurnInv'
  <2>1. At("loop", "again") /\ Step("loop")
    BY <1>7 DEF CancelledAgain
  <2>2. /\ Quieter(job["loop"], job'["loop"]) /\ Failures(job["loop"], job'["loop"])
        /\ Recorded(job["loop"], job'["loop"]) /\ OpQuieter(job["op"], job'["op"])
        /\ Started(job["loop"], job'["loop"])
    BY <1>0, <2>1, WriteQuieter
  <2>3. PICK i \in Items : i = job["loop"].item
    BY <1>0, <2>1, AtPlace
  <2>4. CASE row' = row
    BY <1>1, <2>2, <2>4, StillKeeps DEF RowsStill, Calmer
  <2>5. CASE row' # row
    <3>1. PICK w : w = Retried(row[i], "none")
      OBVIOUS
    <3>2. w \in RowType /\ w.run = NoRun /\ w.attempts = 0
      BY <1>0, <3>1 DEF RowType, Retried, ItemStates, Debts
    <3>3. row' = [row EXCEPT ![i] = w]
      BY <1>7, <2>3, <2>5, <3>1 DEF CancelledAgain
    <3>4. job["loop"].do = "cancelled_retry"
      BY <1>0, <2>1, AtPlace, AgainPlans
    <3>5. job'["loop"].do # "start" /\ \A x \in Items : ~Reopening(job'["loop"], x)
      <4>1. job'["loop"] = Idle \/ job'["loop"].do = "cancelled_retry"
        BY <1>0, <2>1, <3>4, Goes
      <4> QED
        BY <1>3, <4>1 DEF Reopening
    <3>6. row[i].attempts \in Nat
      BY <1>0 DEF RowType
    <3>7. w.attempts <= row[i].attempts /\ w.attempts < MaxAttempts
      BY <1>0, <3>2, <3>6
    <3> QED
      BY <1>2, <2>2, <3>2, <3>3, <3>5, <3>7, Zenon
  <2> QED
    BY <2>4, <2>5
<1> QED
  BY <1>4, <1>5, <1>6, <1>7

-----------------------------------------------------------------------------
(* The end of the process: a crash pays, an exit or a raise finds nothing  *)
(* in the air that recovery would count twice.                             *)

LEMMA DieKeepsChurn ==
  ASSUME IInv, IInv', ChurnInv, NEW how \in {"down", "raised"}, Die(how), verbs' = verbs,
         \/ crashes' = crashes + 1
         \/ /\ crashes' = crashes /\ (daemon # "up" \/ Pulled)
            /\ job["loop"].do \notin {"failed", "given_up"} /\ \A i \in Items : ~Opening(job["loop"], i)
  PROVE  ChurnInv'
<1>0. /\ ClaimPinned /\ JobsOf /\ RequeueOK /\ RoundsOK /\ AttemptsPaid /\ ResumesPaid
      /\ verbs \in Nat /\ crashes \in Nat /\ crashes' \in Nat
      /\ \A i \in Items : resumes[i] \in Nat /\ row[i].attempts \in Nat
  BY DEF ChurnInv, IInv, TypeOK, RowType
<1>1. /\ job'["loop"] = Idle /\ job'["op"] = Idle /\ daemon' # "up"
      /\ row' = row /\ resumes' = resumes /\ ledger' = ledger /\ rec' = rec /\ rounds' = rounds
      /\ \A r \in Runs : ~Live(r)'
  BY DEF Die, NoHandles, Threads, Live, records
<1>2. Idle.do = "idle" /\ \A i \in Items : /\ ~Opening(Idle, i) /\ ~Reopening(Idle, i) /\ ~Failing(Idle, i)
                                           /\ ~Exhausting(Idle, i) /\ ~Granting(Idle, i) /\ ~Closing(Idle, i)
  BY DEF Idle, Opening, Reopening, Failing, Exhausting, Granting, Closing
<1>3. ~Lifting(Idle)
  BY DEF Idle, Lifting
<1>4. ClaimPinned' /\ JobsOf' /\ RequeueOK' /\ RoundsOK'
  BY <1>0, <1>1, <1>2 DEF ClaimPinned, JobsOf, RequeueOK, RoundsOK, Verbing, Fresh
<1>5. AttemptsPaid'
  <2> SUFFICES ASSUME NEW i \in Items
               PROVE  row'[i].attempts + Credit(i)' <= MaxAttempts + verbs' + crashes'
    BY DEF AttemptsPaid
  <2>1. row'[i].attempts = row[i].attempts /\ ~Opening(job'["loop"], i) /\ row'[i].attempts <= row[i].attempts
    BY <1>0, <1>1, <1>2
  <2>2. CASE crashes' = crashes + 1
    BY <1>0, <2>1, <2>2, CreditPaid
  <2>3. CASE crashes' = crashes /\ (daemon # "up" \/ Pulled) /\ ~Opening(job["loop"], i)
    <3>1. Awaiting(i)' => Awaiting(i)
      BY <1>1, <1>2, <2>3 DEF Awaiting
    <3>2. Awaiting(i) => Credit(i) >= 1
      BY DEF Credit
    <3> QED
      BY <1>0, <2>1, <2>3, <3>1, <3>2, CreditFrame
  <2> QED
    BY <2>2, <2>3
<1>6. ResumesPaid'
  <2> SUFFICES ASSUME NEW i \in Items
               PROVE  Owing(i)' <= Paid(i)' /\ resumes'[i] + Owing(i)' <= MaxResumes + Paid(i)'
    BY DEF ResumesPaid
  <2>1. (Spent(i)' => Spent(i)) /\ ~Slipped(i)' /\ ~Granting(job'["op"], i) /\ ~Closing(job'["op"], i)
    BY <1>1, <1>2 DEF Spent, Slipped
  <2>2. \A r \in Runs : ~Flying(r)'
    BY <1>1, <1>3 DEF Flying
  <2>3. Promised(i)' => Promised(i) \/ Failing(job["loop"], i)
    BY <1>1, <1>2, <2>2 DEF Promised
  <2>4. Accrues /\ resumes'[i] = resumes[i]
    BY <1>1 DEF Accrues
  <2>5. CASE crashes' = crashes + 1
    <3>1. Owing(i)' <= Owing(i) + 1
      BY <2>1 DEF Owing, One
    <3> QED
      BY <1>0, <2>4, <2>5, <3>1, ResumesFrame
  <2>6. CASE crashes' = crashes /\ job["loop"].do \notin {"failed", "given_up"}
    <3>1. ~Failing(job["loop"], i)
      BY <2>6 DEF Failing
    <3>2. Owing(i)' <= Owing(i)
      BY <2>1, <2>3, <3>1, OwingRests
    <3>3. Owing(i)' <= Owing(i) + 0
      BY <3>2, OwingNat
    <3> QED
      BY <1>0, <2>4, <2>6, <3>3, ResumesFrame
  <2> QED
    BY <2>5, <2>6
<1> QED
  BY <1>4, <1>5, <1>6 DEF ChurnInv

LEMMA EndKeepsChurn ==
  ASSUME IInv, IInv', ChurnInv, Exit \/ Crash \/ MarkResumingRaises
  PROVE  ChurnInv'
<1>1. CASE Exit
  <2>1. Die("down") /\ verbs' = verbs /\ crashes' = crashes /\ daemon # "up" /\ job["loop"] = Idle
    BY <1>1 DEF Exit, bounds
  <2>2. Idle.do \notin {"failed", "given_up"} /\ \A i \in Items : ~Opening(Idle, i)
    BY DEF Idle, Opening
  <2> QED
    BY <2>1, <2>2, DieKeepsChurn
<1>2. CASE Crash
  BY <1>2, DieKeepsChurn DEF Crash
<1>3. CASE MarkResumingRaises
  <2>1. Die("raised") /\ verbs' = verbs /\ crashes' = crashes /\ At("loop", "remark") /\ "loop" \in Threads
        /\ row[job["loop"].item].run # job["loop"].run
    BY <1>3 DEF MarkResumingRaises, bounds, Threads
  <2>2. /\ job["loop"].item \in Items
        /\ \/ job["loop"].do = "resume" /\ job["loop"].step = 2
           \/ job["loop"].do = "provider_resume" /\ job["loop"].step = 1
    BY <2>1, AtPlace, PlanPlaces
  <2>3. Pulled /\ \A i \in Items : ~Opening(job["loop"], i)
    BY <2>1, <2>2 DEF Pulled, Reopening, Opening
  <2> QED
    BY <2>1, <2>2, <2>3, DieKeepsChurn
<1> QED
  BY <1>1, <1>2, <1>3

-----------------------------------------------------------------------------
(* The operator's verbs: each pays for what it opens. *)

Paying ==
  /\ \A i \in Items :
       /\ row'[i].attempts <= row[i].attempts
       /\ row'[i].run = row[i].run \/ row'[i].run = NoRun
       /\ row'[i].run # NoRun => row'[i].claim = row[i].claim /\ row'[i].state # "absent"
  /\ job'["loop"] = job["loop"]
  /\ job["loop"].do = "start" => \A i \in Items : row'[i].claim = row[i].claim
  /\ verbs' = verbs + 1 /\ crashes' = crashes
  /\ \/ job'["op"] = job["op"]
     \/ /\ job["op"] = Idle /\ \A i \in Items : Unqueued(i)
        /\ job'["op"].do \in Verbing \cup {"deliver"}
        /\ job'["op"].run = NoRun \/ ledger[job'["op"].run].item = job'["op"].item

LEMMA PayingKeeps ==
  ASSUME IInv, IInv', ChurnInv, Frozen, Paying
  PROVE  ChurnInv'
<1>0. /\ ClaimPinned /\ JobsOf /\ RequeueOK /\ RoundsOK /\ AttemptsPaid /\ ResumesPaid
      /\ verbs \in Nat /\ crashes \in Nat /\ verbs' \in Nat /\ crashes' \in Nat
      /\ \A i \in Items : resumes[i] \in Nat /\ row[i].attempts \in Nat /\ row'[i].attempts \in Nat
      /\ job["op"].run \in Runs \cup {NoRun} /\ job'["op"].run \in Runs \cup {NoRun}
      /\ job["loop"].do # "idle" => job["loop"].item \in Items
  BY DEF ChurnInv, IInv, TypeOK, RowType, JobType, Threads, JobsNamed
<1>1. /\ Quieter(job["loop"], job'["loop"]) /\ Failures(job["loop"], job'["loop"])
      /\ Recorded(job["loop"], job'["loop"]) /\ job'["loop"] = job["loop"]
  BY SameCalmer DEF Paying, Calmer
<1>2. ClaimPinned'
  <2>1. job'["loop"].do = "start" /\ job'["loop"].step = 1 => row'[job'["loop"].item].claim = "yes"
    BY <1>0 DEF Paying, ClaimPinned
  <2> QED
    BY <1>0, <2>1, ClaimsRest DEF Paying
<1>3. JobsOf'
  <2>1. job'["op"].do \in Verbing => job'["op"].run = NoRun \/ ledger'[job'["op"].run].item = job'["op"].item
    BY <1>0 DEF Paying, Frozen, JobsOf
  <2>2. job["loop"].do \in Closers => job["loop"].run \in Runs /\ ledger'[job["loop"].run].item = job["loop"].item
    BY <1>0 DEF Frozen, JobsOf, Closers, Requeueing
  <2> QED
    BY <1>1, <2>1, <2>2 DEF JobsOf, Closers, Requeueing
<1>4. RequeueOK'
  <2>1. job["loop"].do \in Requeueing => job["loop"].item \in Items
    BY <1>0 DEF Requeueing
  <2>2. \A r \in Runs : /\ Live(r)' => Live(r)
                        /\ rec'[r] = "failed" => rec[r] = "failed"
                        /\ rounds'[r] = "exhausted" => rounds[r] = "exhausted"
    BY DEF Frozen, Live
  <2>3. \A i \in Items : row'[i].run = row[i].run \/ row'[i].run = NoRun
    BY DEF Paying
  <2> QED
    BY <1>0, <1>1, <2>1, <2>2, <2>3, RequeueRest
<1>5. RoundsOK'
  BY <1>0, RoundsRest
<1>6. AttemptsPaid'
  <2> SUFFICES ASSUME NEW i \in Items
               PROVE  row'[i].attempts + Credit(i)' <= MaxAttempts + verbs' + crashes'
    BY DEF AttemptsPaid
  <2>1. row'[i].attempts <= row[i].attempts /\ verbs + crashes + 1 <= verbs' + crashes'
    BY <1>0 DEF Paying
  <2> QED
    BY <1>0, <1>1, <2>1, CreditPaid
<1>7. ResumesPaid'
  <2> SUFFICES ASSUME NEW i \in Items
               PROVE  Owing(i)' <= Paid(i)' /\ resumes'[i] + Owing(i)' <= MaxResumes + Paid(i)'
    BY DEF ResumesPaid
  <2>1. /\ Unqueued(i) => (Promised(i)' => Promised(i))
    BY <1>0, <1>1, TermsRest DEF Paying, Failures
  <2>2. (Spent(i)' => Spent(i)) /\ (Slipped(i)' => Slipped(i))
    <3>1. Spent(i)' => Spent(i)
      BY ConstantsAssumption DEF Spent, Frozen, Paying
    <3>2. Reopening(job["loop"], i) => job["loop"].run \in Runs
      BY DEF Reopening, IInv, LaunchReady
    <3> QED
      BY <1>1, <3>1, <3>2 DEF Slipped, Frozen, Live
  <2>3. Owing(i)' <= Owing(i) + 1
    <3>1. CASE job'["op"] = job["op"]
      BY <2>2, <3>1 DEF Owing, One
    <3>2. CASE job["op"] = Idle /\ Unqueued(i)
      <4>1. ~(Granting(job'["op"], i) /\ Closing(job'["op"], i))
        BY DEF Granting, Closing
      <4> QED
        BY <2>1, <2>2, <3>2, <4>1 DEF Owing, One
    <3> QED
      BY <3>1, <3>2 DEF Paying
  <2>4. Accrues /\ resumes'[i] = resumes[i] /\ verbs + crashes + 1 <= verbs' + crashes'
        /\ verbs + crashes <= verbs' + crashes'
    BY <1>0, FrozenAccrues DEF Frozen, Paying
  <2> QED
    BY <1>0, <2>3, <2>4, ResumesFrame
<1> QED
  BY <1>2, <1>3, <1>4, <1>5, <1>6, <1>7 DEF ChurnInv

\* One row rewritten by a verb.
LEMMA VerbRow ==
  ASSUME IInv, ClaimPinned, NEW i \in Items, NEW w, row' = [row EXCEPT ![i] = w],
         w.attempts <= row[i].attempts, w.run = row[i].run \/ w.run = NoRun,
         w.state # "absent", w.claim = row[i].claim \/ (w.run = NoRun /\ job["loop"].do # "start")
  PROVE  /\ \A x \in Items :
              /\ row'[x].attempts <= row[x].attempts
              /\ row'[x].run = row[x].run \/ row'[x].run = NoRun
              /\ row'[x].run # NoRun => row'[x].claim = row[x].claim /\ row'[x].state # "absent"
         /\ job["loop"].do = "start" => \A x \in Items : row'[x].claim = row[x].claim
         /\ (w.run = NoRun \/ w.state # "queued") => \A x \in Items : Unqueued(x)
<1>1. row'[i] = w /\ \A x \in Items \ {i} : row'[x] = row[x]
  BY DEF IInv, TypeOK
<1>2. \A x \in Items : row[x].attempts \in Nat /\ row[x].attempts <= row[x].attempts
  BY DEF IInv, TypeOK, RowType
<1>3. \A x \in Items : row[x].run # NoRun => row[x].state # "absent"
  BY DEF ClaimPinned
<1>4. ASSUME NEW x \in Items
      PROVE  /\ row'[x].attempts <= row[x].attempts
             /\ row'[x].run = row[x].run \/ row'[x].run = NoRun
             /\ row'[x].run # NoRun => row'[x].claim = row[x].claim /\ row'[x].state # "absent"
             /\ job["loop"].do = "start" => row'[x].claim = row[x].claim
             /\ (w.run = NoRun \/ w.state # "queued") => Unqueued(x)
  <2>1. CASE x = i
    BY <1>1, <2>1 DEF Unqueued
  <2>2. CASE x # i
    BY <1>1, <1>2, <1>3, <2>2 DEF Unqueued
  <2> QED
    BY <2>1, <2>2
<1> QED
  BY <1>4

LEMMA NoRowVerb ==
  ASSUME IInv, ClaimPinned, row' = row
  PROVE  /\ \A x \in Items :
              /\ row'[x].attempts <= row[x].attempts
              /\ row'[x].run = row[x].run \/ row'[x].run = NoRun
              /\ row'[x].run # NoRun => row'[x].claim = row[x].claim /\ row'[x].state # "absent"
         /\ job["loop"].do = "start" => \A x \in Items : row'[x].claim = row[x].claim
         /\ \A x \in Items : Unqueued(x)
<1>1. \A x \in Items : row[x].attempts \in Nat /\ row[x].attempts <= row[x].attempts
  BY DEF IInv, TypeOK, RowType
<1> QED
  BY <1>1 DEF ClaimPinned, Unqueued

LEMMA VerbRows ==
  ASSUME NEW w \in RowType
  PROVE  /\ LET v == Abandoned(w) IN v.run = w.run /\ v.attempts = w.attempts /\ v.claim = w.claim
                                     /\ v.state = "failed"
         /\ \A owed \in Debts : LET v == Retried(w, owed) IN v.run = NoRun /\ v.attempts = 0
                                     /\ v.claim = w.claim /\ v.state = "queued"
         /\ LET v == Requeued(w) IN v.run = NoRun /\ v.attempts = w.attempts /\ v.claim = w.claim
                                    /\ v.state = "queued"
         /\ LET v == [w EXCEPT !.state = "queued"] IN v.run = w.run /\ v.attempts = w.attempts
                                    /\ v.claim = w.claim /\ v.state = "queued"
  BY DEF RowType, Abandoned, Retried, Requeued

LEMMA OpStarts ==
  ASSUME IInv, OpFree, NEW do \in Verbing \cup {"deliver"}, NEW i, NEW r, NEW kind,
         OpBegins(do, i, r, kind), r = NoRun \/ ledger[r].item = i
  PROVE  /\ job["op"] = Idle /\ job'["loop"] = job["loop"] /\ job'["op"].do \in Verbing \cup {"deliver"}
         /\ job'["op"].run = NoRun \/ ledger[job'["op"].run].item = job'["op"].item
<1>1. PICK p : p = Begin(do, i, r, kind)
  OBVIOUS
<1>2. p.do = do /\ p.item = i /\ p.run = r
  BY <1>1 DEF Begin
<1>3. job'["op"] = p /\ job'["loop"] = job["loop"] /\ job["op"] = Idle
  BY <1>1 DEF OpBegins, OpFree, IInv, TypeOK, Threads
<1> QED
  BY <1>2, <1>3

LEMMA ItemVerbsPay ==
  ASSUME IInv, IInv', ChurnInv, NEW i \in Items,
         \/ AbandonItem(i) \/ RetryItem(i) \/ RequeueItem(i)
         \/ CliAbandon(i) \/ CliRetry(i) \/ CliRequeue(i) \/ Relabel(i)
  PROVE  ChurnInv'
<1>0. /\ row[i] \in RowType /\ row[i].attempts \in Nat /\ ClaimPinned
      /\ row[i].run = NoRun \/ ledger[row[i].run].item = i
  BY DEF IInv, TypeOK, RowType, Pinned, ChurnInv
<1>1. Frozen /\ verbs' = verbs + 1 /\ crashes' = crashes
  BY DEF AbandonItem, RetryItem, RequeueItem, CliAbandon, CliRetry, CliRequeue, Relabel, May, Frozen,
         records, process
<1>2. PICK w : /\ row' = [row EXCEPT ![i] = w]
               /\ \/ w = Abandoned(row[i]) \/ w = Retried(row[i], "requeued") \/ w = Requeued(row[i])
                  \/ /\ w = [state |-> "queued", run |-> NoRun, attempts |-> 0, claim |-> "no", owed |-> "none"]
                     /\ job["loop"] = Idle
  BY DEF AbandonItem, RetryItem, RequeueItem, CliAbandon, CliRetry, CliRequeue, Relabel, LoopFree
<1>3. /\ w.attempts <= row[i].attempts /\ (w.run = row[i].run \/ w.run = NoRun) /\ w.state # "absent"
      /\ w.claim = row[i].claim \/ (w.run = NoRun /\ job["loop"].do # "start")
      /\ w.run = NoRun \/ w.state # "queued"
  <2>1. CASE w = Abandoned(row[i]) \/ w = Retried(row[i], "requeued") \/ w = Requeued(row[i])
    BY <1>0, <2>1, VerbRows DEF Debts
  <2>2. CASE /\ w = [state |-> "queued", run |-> NoRun, attempts |-> 0, claim |-> "no", owed |-> "none"]
             /\ job["loop"] = Idle
    BY <1>0, <2>2 DEF Idle
  <2> QED
    BY <1>2, <2>1, <2>2
<1>4. /\ \A x \in Items :
           /\ row'[x].attempts <= row[x].attempts
           /\ row'[x].run = row[x].run \/ row'[x].run = NoRun
           /\ row'[x].run # NoRun => row'[x].claim = row[x].claim /\ row'[x].state # "absent"
      /\ job["loop"].do = "start" => \A x \in Items : row'[x].claim = row[x].claim
      /\ \A x \in Items : Unqueued(x)
  BY <1>0, <1>2, <1>3, VerbRow
<1>5. CASE job' = job
  <2>1. Paying
    BY <1>1, <1>4, <1>5 DEF Paying
  <2> QED
    BY <1>1, <2>1, PayingKeeps
<1>6. CASE AbandonItem(i) \/ RetryItem(i) \/ RequeueItem(i)
  <2>1. OpFree /\ \/ OpBegins("abandon", i, row[i].run, "abandoned")
                  \/ OpBegins("deliver", i, NoRun, "requeued")
                  \/ OpBegins("requeue", i, row[i].run, "none")
    BY <1>6 DEF AbandonItem, RetryItem, RequeueItem
  <2>2. /\ job["op"] = Idle /\ job'["loop"] = job["loop"] /\ job'["op"].do \in Verbing \cup {"deliver"}
        /\ job'["op"].run = NoRun \/ ledger[job'["op"].run].item = job'["op"].item
    BY <1>0, <2>1, OpStarts DEF Verbing
  <2>3. Paying
    BY <1>1, <1>4, <2>2 DEF Paying
  <2> QED
    BY <1>1, <2>3, PayingKeeps
<1> QED
  BY <1>5, <1>6 DEF CliAbandon, CliRetry, CliRequeue, Relabel

LEMMA RunVerbsPay ==
  ASSUME IInv, IInv', ChurnInv,
         \/ \E r \in Runs : \/ CancelPending(r) \/ ResumeRun(r) \/ GrantRounds(r)
                            \/ \E retry \in BOOLEAN : CancelRun(r, retry)
         \/ \E now \in BOOLEAN : StopDaemon(now)
  PROVE  ChurnInv'
<1>0. handle \in [Runs -> HandleType] /\ ClaimPinned
  BY DEF IInv, TypeOK, ChurnInv
<1>1. ASSUME NEW r \in Runs, CancelPending(r) \/ GrantRounds(r) PROVE ChurnInv'
  <2>1. Frozen /\ verbs' = verbs + 1 /\ crashes' = crashes /\ row' = row /\ OpFree
        /\ \/ OpBegins("cancel_pending", ledger[r].item, r, "none")
           \/ OpBegins("grant", ledger[r].item, r, "none")
    BY <1>1 DEF CancelPending, GrantRounds, May, Frozen, records, process
  <2>2. /\ job["op"] = Idle /\ job'["loop"] = job["loop"] /\ job'["op"].do \in Verbing \cup {"deliver"}
        /\ job'["op"].run = NoRun \/ ledger[job'["op"].run].item = job'["op"].item
    BY <2>1, OpStarts DEF Verbing
  <2>3. Paying
    BY <1>0, <2>1, <2>2, NoRowVerb DEF Paying
  <2> QED
    BY <2>1, <2>3, PayingKeeps
<1>2. ASSUME NEW r \in Runs, ResumeRun(r) PROVE ChurnInv'
  <2>1. PICK i \in Items : i = ledger[r].item
    BY <1>2 DEF ResumeRun, Fresh, IInv, TypeOK
  <2>2. PICK w : w = [row[i] EXCEPT !.state = "queued"]
    OBVIOUS
  <2>3. /\ Frozen /\ verbs' = verbs + 1 /\ crashes' = crashes /\ row' = [row EXCEPT ![i] = w] /\ job' = job
    BY <1>2, <2>1, <2>2 DEF ResumeRun, May, Frozen, records, process
  <2>4. row[i] \in RowType /\ row[i].attempts \in Nat
    BY DEF IInv, TypeOK, RowType
  <2>5. w.run = row[i].run /\ w.attempts <= row[i].attempts /\ w.claim = row[i].claim /\ w.state # "absent"
    BY <2>2, <2>4 DEF RowType
  <2>6. Paying
    BY <1>0, <2>3, <2>5, VerbRow DEF Paying
  <2> QED
    BY <2>3, <2>6, PayingKeeps
<1>3. ASSUME \/ \E r \in Runs, retry \in BOOLEAN : CancelRun(r, retry)
             \/ \E now \in BOOLEAN : StopDaemon(now)
      PROVE  ChurnInv'
  <2>1. \A s \in Runs : handle'[s].at = handle[s].at
    <3>1. CASE \E r \in Runs, retry \in BOOLEAN : CancelRun(r, retry)
      BY <1>0, <3>1 DEF CancelRun, HandleType
    <3>2. CASE \E now \in BOOLEAN : StopDaemon(now)
      BY <1>0, <3>2 DEF StopDaemon, HandleType
    <3> QED
      BY <1>3, <3>1, <3>2
  <2>2. Frozen /\ verbs' = verbs + 1 /\ crashes' = crashes /\ row' = row /\ job' = job
    BY <1>3, <2>1 DEF CancelRun, StopDaemon, May, Frozen, records
  <2>3. Paying
    BY <1>0, <2>2, NoRowVerb DEF Paying
  <2> QED
    BY <2>2, <2>3, PayingKeeps
<1> QED
  BY <1>1, <1>2, <1>3

-----------------------------------------------------------------------------
(* The engine's thread, and the sweeps of the records nobody executes. *)

LEMMA RecordsOnly ==
  ASSUME IInv, IInv', ChurnInv, RequeueOK', RoundsOK', ResumesPaid',
         UNCHANGED <<row, resumes, ledger, daemon, job, verbs, crashes>>
  PROVE  ChurnInv'
<1>0. ClaimPinned /\ JobsOf /\ AttemptsPaid /\ TypeOK' /\ verbs \in Nat /\ crashes \in Nat
  BY DEF ChurnInv, IInv, TypeOK
<1>1. ClaimPinned' /\ JobsOf'
  BY <1>0 DEF ClaimPinned, JobsOf
<1>2. RowsStill /\ DaemonRests /\ Quieter(job["loop"], job'["loop"])
  BY SameCalmer DEF RowsStill, DaemonRests, Calmer
<1>3. AttemptsPaid'
  BY <1>0, <1>2, StillRests, AttemptsRest
<1> QED
  BY <1>1, <1>3 DEF ChurnInv

\* A record is closed that is in no queue and in no launch.
LEMMA SweepKeeps ==
  ASSUME IInv, IInv', ChurnInv, NEW r \in Runs, StaleSweep(r) \/ ReconcileOrphan(r)
  PROVE  ChurnInv'
<1>0. /\ RequeueOK /\ RoundsOK /\ ResumesPaid /\ rec \in [Runs -> RecordStates]
      /\ verbs \in Nat /\ crashes \in Nat /\ \A i \in Items : resumes[i] \in Nat
  BY DEF ChurnInv, IInv, TypeOK
<1>1. /\ UNCHANGED <<row, resumes, ledger, daemon, job, verbs, crashes, rounds, handle>>
      /\ job["loop"] = Idle /\ Orphan(r) /\ rec' = [rec EXCEPT ![r] = Reconciled(r)]
  BY DEF StaleSweep, ReconcileOrphan, LoopFree, process, bounds
<1>2. /\ rec'[r] \in {"failed", "cancelled"} /\ \A s \in Runs \ {r} : rec'[s] = rec[s]
  BY <1>0, <1>1 DEF Reconciled
<1>3. Idle.do = "idle" /\ \A i \in Items : ~Reopening(Idle, i)
  BY DEF Idle, Reopening
<1>4. RequeueOK' /\ RoundsOK'
  BY <1>0, <1>1, <1>2, <1>3 DEF RequeueOK, RoundsOK, Fresh
<1>5. ResumesPaid'
  <2> SUFFICES ASSUME NEW i \in Items
               PROVE  Owing(i)' <= Paid(i)' /\ resumes'[i] + Owing(i)' <= MaxResumes + Paid(i)'
    BY DEF ResumesPaid
  <2>1. row[i].run = r => row[i].state # "queued"
    BY <1>1, ConstantsAssumption DEF Orphan, PendingResume, IInv, Pinned
  <2>2. \A s \in Runs : Flying(s)' => Flying(s)
    BY <1>1 DEF Flying, Live
  <2>3. Promised(i)' => Promised(i)
    BY <1>1, <1>2, <1>3, <2>1, <2>2 DEF Promised, Spent
  <2>4. (Spent(i)' => Spent(i)) /\ (Slipped(i)' => Slipped(i))
    BY <1>1, <1>3 DEF Spent, Slipped
  <2>5. Owing(i)' <= Owing(i)
    BY <1>1, <2>3, <2>4, OwingRests
  <2>6. Accrues /\ resumes'[i] = resumes[i] /\ Owing(i)' <= Owing(i) + 0
    BY <1>1, <2>5, OwingNat DEF Accrues
  <2> QED
    BY <1>0, <1>1, <2>6, ResumesFrame
<1> QED
  BY <1>1, <1>4, <1>5, RecordsOnly

LEMMA EngineBeginKeeps ==
  ASSUME IInv, IInv', ChurnInv, NEW r \in Runs, EngineBegin(r)
  PROVE  ChurnInv'
<1>0. /\ JobsOf /\ RequeueOK /\ RoundsOK /\ ResumesPaid /\ rec \in [Runs -> RecordStates]
      /\ verbs \in Nat /\ crashes \in Nat /\ \A i \in Items : resumes[i] \in Nat
      /\ rounds \in [Runs -> {"fresh", "exhausted", "granted", "spent"}]
  BY DEF ChurnInv, IInv, TypeOK
<1>1. /\ UNCHANGED <<row, resumes, ledger, daemon, job, verbs, crashes, rounds, handle>>
      /\ Live(r) /\ ~Refused(r)
  BY DEF EngineBegin, process, bounds, Live
<1>2. rec'[r] = "active" /\ \A s \in Runs \ {r} : rec'[s] = rec[s]
  BY <1>0 DEF EngineBegin
<1>3. RequeueOK' /\ RoundsOK'
  <2>1. RequeueOK'
    BY <1>0, <1>1, <1>2 DEF RequeueOK, Live, JobsOf
  <2>2. RoundsOK'
    BY <1>0, <1>1, <1>2 DEF RoundsOK, Refused, Fresh
  <2> QED
    BY <2>1, <2>2
<1>4. ResumesPaid'
  <2> SUFFICES ASSUME NEW i \in Items
               PROVE  Owing(i)' <= Paid(i)' /\ resumes'[i] + Owing(i)' <= MaxResumes + Paid(i)'
    BY DEF ResumesPaid
  <2>1. \A s \in Runs : Flying(s)' => Flying(s)
    BY <1>1 DEF Flying, Live
  <2>2. Promised(i)' => Promised(i)
    BY <1>1, <1>2, <2>1 DEF Promised, Spent
  <2>3. Reopening(job["loop"], i) => job["loop"].run \in Runs
    BY DEF Reopening, IInv, LaunchReady
  <2>4. (Spent(i)' => Spent(i)) /\ (Slipped(i)' => Slipped(i))
    BY <1>1, <1>2, <2>3 DEF Spent, Slipped, Live
  <2>5. Owing(i)' <= Owing(i)
    BY <1>1, <2>2, <2>4, OwingRests
  <2>6. Accrues /\ resumes'[i] = resumes[i] /\ Owing(i)' <= Owing(i) + 0
    BY <1>1, <2>5, OwingNat DEF Accrues
  <2> QED
    BY <1>0, <1>1, <2>6, ResumesFrame
<1> QED
  BY <1>1, <1>3, <1>4, RecordsOnly

\* A first exhaustion pays for the retry it will be granted.
LEMMA EngineEndKeeps ==
  ASSUME IInv, IInv', ChurnInv, NEW r \in Runs, NEW how \in Ends, EngineEnd(r, how)
  PROVE  ChurnInv'
<1>0. /\ JobsOf /\ RequeueOK /\ RoundsOK /\ ResumesPaid /\ rec \in [Runs -> RecordStates]
      /\ verbs \in Nat /\ crashes \in Nat /\ \A i \in Items : resumes[i] \in Nat
      /\ rounds \in [Runs -> {"fresh", "exhausted", "granted", "spent"}]
      /\ handle \in [Runs -> HandleType]
  BY DEF ChurnInv, IInv, TypeOK
<1>1. UNCHANGED <<row, resumes, ledger, daemon, job, verbs, crashes>> /\ Live(r)
  BY DEF EngineEnd, bounds, Live
<1>2. /\ \A s \in Runs \ {r} : rec'[s] = rec[s] /\ rounds'[s] = rounds[s]
      /\ \A s \in Runs : Live(s)' <=> Live(s)
      /\ ledger[r].item \in Items
  <2>1. \A s \in Runs \ {r} : rec'[s] = rec[s] /\ rounds'[s] = rounds[s] /\ handle'[s] = handle[s]
    BY <1>0 DEF EngineEnd
  <2>2. handle'[r].at = "ended"
    BY <1>0 DEF EngineEnd, HandleType
  <2> QED
    BY <1>1, <2>1, <2>2 DEF Live, IInv, LiveOwned
<1>3. \/ how # "exhausted" /\ rounds'[r] = rounds[r] /\ (rec'[r] = rec[r] \/ rec'[r] = how)
      \/ how = "exhausted" /\ rec[r] = "active" /\ rec'[r] = "failed" /\ rounds[r] = "granted" /\ rounds'[r] = "spent"
      \/ how = "exhausted" /\ rec[r] = "active" /\ rec'[r] = "failed" /\ rounds[r] = "fresh" /\ rounds'[r] = "exhausted"
  <2>1. CASE how = "exhausted"
    <3>1. rec[r] = "active" /\ rec'[r] = "failed"
          /\ rounds'[r] = IF rounds[r] = "granted" THEN "spent" ELSE "exhausted"
      BY <1>0, <2>1 DEF EngineEnd
    <3> QED
      BY <1>0, <2>1, <3>1 DEF RoundsOK
  <2>2. CASE how # "exhausted"
    BY <1>0, <2>2 DEF EngineEnd
  <2> QED
    BY <2>1, <2>2
<1>4. RequeueOK' /\ RoundsOK'
  <2>1. RequeueOK'
    BY <1>0, <1>1, <1>2 DEF RequeueOK, JobsOf
  <2>2. how # "active" /\ ~Fresh(r)
    BY <1>2, ConstantsAssumption DEF AllEnds, Fresh
  <2>3. RoundsOK'
    BY <1>0, <1>1, <1>2, <1>3, <2>2 DEF RoundsOK, Fresh
  <2> QED
    BY <2>1, <2>3
<1>5. ResumesPaid'
  <2> SUFFICES ASSUME NEW i \in Items
               PROVE  Owing(i)' <= Paid(i)' /\ resumes'[i] + Owing(i)' <= MaxResumes + Paid(i)'
    BY DEF ResumesPaid
  <2>1. \A s \in Runs : Flying(s)' <=> Flying(s)
    BY <1>1, <1>2 DEF Flying
  <2>2. ASSUME Promised(i)' PROVE Promised(i) \/ (row[i].run = r /\ Spent(i) /\ ~Spent(i)')
    <3>1. row[i].run = r => Flying(r)
      BY <1>1 DEF Flying
    <3>2. row[i].run # r => (Spent(i)' <=> Spent(i))
      BY <1>1, <1>2 DEF Spent
    <3> QED
      BY <1>1, <1>2, <2>1, <2>2, <3>1, <3>2 DEF Promised
  <2>3. Reopening(job["loop"], i) => job["loop"].run \in Runs
    BY DEF Reopening, IInv, LaunchReady
  <2>4. Slipped(i)' => Slipped(i)
    BY <1>1, <1>2, <2>3 DEF Slipped
  <2>5. Accrues /\ resumes'[i] = resumes[i]
    BY <1>1, <1>2, <1>3 DEF Accrues
  <2>6. CASE ~(Spent(i)' /\ ~Spent(i))
    <3>1. Spent(i) /\ row[i].run = r => Spent(i)'
      BY <1>1, <1>3 DEF Spent
    <3>2. Owing(i)' <= Owing(i)
      BY <1>1, <2>2, <2>4, <2>6, <3>1, OwingRests
    <3>3. Owing(i)' <= Owing(i) + 0
      BY <3>2, OwingNat
    <3> QED
      BY <1>0, <1>1, <2>5, <3>3, ResumesFrame
  <2>7. CASE Spent(i)' /\ ~Spent(i)
    <3>1. row[i].run = r /\ rounds[r] = "fresh" /\ rounds'[r] = "exhausted"
      BY <1>1, <1>2, <1>3, <2>7 DEF Spent
    <3>2. ledger[r].item = i
      BY <3>1, ConstantsAssumption DEF IInv, Pinned
    <3>3. Promised(i)' => Promised(i)
      BY <2>2, <2>7
    <3>4. Owing(i)' <= Owing(i) + 1
      BY <1>1, <2>4, <3>3 DEF Owing, One
    <3>5. r \notin Burnt(i) /\ r \in Burnt(i)' /\ Burnt(i) \subseteq Burnt(i)' /\ IsFiniteSet(Burnt(i)')
      <4>1. r \notin Burnt(i) /\ r \in Burnt(i)' /\ Burnt(i) \subseteq Burnt(i)'
        BY <1>1, <1>2, <3>1, <3>2 DEF Burnt
      <4>2. Burnt(i)' \subseteq Runs
        BY DEF Burnt
      <4> QED
        BY <4>1, <4>2, FS_Subset, ConstantsAssumption
    <3>6. PICK a \in Nat, b \in Nat : a = Cardinality(Burnt(i)) /\ b = Cardinality(Burnt(i)') /\ a + 1 <= b
      BY <3>5, MoreBurnt
    <3>7. PICK c \in 0..5, d \in 0..5 : c = Owing(i) /\ d = Owing(i)' /\ d <= c + 1
      BY <3>4, OwingNat
    <3>8. PICK v \in Nat, w \in Nat, n \in Nat, m \in Nat :
            v = verbs /\ w = crashes /\ n = resumes[i] /\ m = MaxResumes
      BY <1>0, ConstantsAssumption
    <3>9. c <= v + w + a /\ n + c <= m + (v + w + a)
      BY <1>0, <3>6, <3>7, <3>8 DEF ResumesPaid, Paid
    <3>10. d <= v + w + b /\ n + d <= m + (v + w + b)
      BY <3>6, <3>7, <3>9
    <3> QED
      BY <1>1, <3>6, <3>7, <3>8, <3>10 DEF Paid
  <2> QED
    BY <2>6, <2>7
<1> QED
  BY <1>1, <1>4, <1>5, RecordsOnly

-----------------------------------------------------------------------------
(* The loop thread begins to settle, to recover or to give up. *)

LEMMA ClosingBegins ==
  ASSUME IInv, IInv', ChurnInv, NEW k, k = job'["loop"], job["loop"] = Idle, job'["op"] = job["op"],
         k.do \in Settling \cup Recovering, k.step = 1, k.item \in Items,
         UNCHANGED <<row, resumes, ledger, rec, rounds, daemon, verbs, crashes>>,
         \A r \in Runs : Live(r)' => Live(r),
         k.do \in {"failed", "unstarted"} =>
           Awaiting(k.item) \/ row[k.item].attempts < MaxAttempts,
         k.do \in Closers => k.run \in Runs /\ ledger[k.run].item = k.item,
         k.do \in Requeueing =>
           /\ row[k.item].run \in {k.run, NoRun} /\ ~Live(k.run)'
           /\ k.do = "resume_pending" => rec[k.run] # "failed"
           /\ k.do = "exhausted" => rounds[k.run] = "exhausted"
  PROVE  ChurnInv'
<1>0. /\ ClaimPinned /\ JobsOf /\ RequeueOK /\ RoundsOK /\ AttemptsPaid /\ ResumesPaid
      /\ verbs \in Nat /\ crashes \in Nat
      /\ \A i \in Items : resumes[i] \in Nat /\ row[i].attempts \in Nat
  BY DEF ChurnInv, IInv, TypeOK, RowType
<1>1. /\ Idle.do = "idle" /\ Idle.step = 0 /\ ~Lifting(Idle)
      /\ \A i \in Items : ~Failing(Idle, i) /\ ~Reopening(Idle, i) /\ ~Opening(Idle, i) /\ ~Exhausting(Idle, i)
  BY DEF Idle, Failing, Reopening, Opening, Exhausting, Lifting
<1>2. /\ ~Lifting(k) /\ k.do # "start" /\ \A i \in Items : ~Reopening(k, i) /\ ~Opening(k, i)
  BY DEF Lifting, Reopening, Opening, Settling, Recovering
<1>3. ClaimPinned' /\ RoundsOK'
  BY <1>0, <1>2 DEF ClaimPinned, RoundsOK, Fresh
<1>4. JobsOf'
  BY <1>0 DEF JobsOf, Closers, Requeueing
<1>5. RequeueOK'
  BY DEF RequeueOK, Requeueing
<1>6. AttemptsPaid'
  <2> SUFFICES ASSUME NEW i \in Items
               PROVE  row'[i].attempts + Credit(i)' <= MaxAttempts + verbs' + crashes'
    BY DEF AttemptsPaid
  <2>1. Awaiting(i) => Credit(i) >= 1
    BY DEF Credit
  <2>2. ~Pulled'
    BY <1>2 DEF Pulled
  <2>3. Awaiting(i)' => Awaiting(i) \/ row[i].attempts < MaxAttempts
    BY <1>2, <2>2 DEF Awaiting
  <2>4. row'[i].attempts = row[i].attempts /\ row'[i].attempts <= row[i].attempts /\ ~Opening(job'["loop"], i)
    BY <1>0, <1>2
  <2> QED
    BY <1>0, <2>1, <2>3, <2>4, CreditFrame
<1>7. ResumesPaid'
  <2> SUFFICES ASSUME NEW i \in Items
               PROVE  Owing(i)' <= Paid(i)' /\ resumes'[i] + Owing(i)' <= MaxResumes + Paid(i)'
    BY DEF ResumesPaid
  <2>1. \A r \in Runs : Flying(r)' => Flying(r)
    BY <1>2 DEF Flying
  <2>2. Exhausting(k, i) /\ row[i].run = k.run => Spent(i)
    BY DEF Exhausting, Spent, Requeueing, Closers
  <2>3. Promised(i)' => Promised(i)
    BY <1>1, <1>2, <2>1, <2>2 DEF Promised, Spent
  <2>4. (Spent(i)' => Spent(i)) /\ (Slipped(i)' => Slipped(i))
    BY <1>2 DEF Spent, Slipped
  <2>5. Owing(i)' <= Owing(i)
    BY <2>3, <2>4, OwingRests
  <2>6. Accrues /\ resumes'[i] = resumes[i] /\ Owing(i)' <= Owing(i) + 0
    BY <2>5, OwingNat DEF Accrues
  <2> QED
    BY <1>0, <2>6, ResumesFrame
<1> QED
  BY <1>3, <1>4, <1>5, <1>6, <1>7 DEF ChurnInv

LEMMA LoopHas ==
  ASSUME IInv, NEW do, NEW i, NEW r, NEW kind, job' = [job EXCEPT !["loop"] = Begin(do, i, r, kind)]
  PROVE  /\ job'["loop"].do = do /\ job'["loop"].item = i /\ job'["loop"].run = r
         /\ job'["loop"].step = 1 /\ job'["op"] = job["op"]
<1>1. PICK p : p = Begin(do, i, r, kind)
  OBVIOUS
<1>2. p.do = do /\ p.item = i /\ p.run = r /\ p.step = 1
  BY <1>1 DEF Begin
<1>3. job'["loop"] = p /\ job'["op"] = job["op"]
  BY <1>1 DEF IInv, TypeOK, Threads
<1> QED
  BY <1>2, <1>3

LEMMA SettleRunChurn ==
  ASSUME IInv, IInv', ChurnInv, NEW r \in Runs, SettleRun(r)
  PROVE  ChurnInv'
<1>0. handle \in [Runs -> HandleType] /\ ClaimPinned /\ row \in [Items -> RowType]
  BY DEF IInv, TypeOK, ChurnInv
<1>1. PICK i \in Items : i = ledger[r].item
  BY DEF SettleRun, IInv, LiveOwned, Live
<1>2. PICK v : v = Verdict(r)
  OBVIOUS
<1>3. PICK kind :
      /\ job["loop"] = Idle
      /\ UNCHANGED <<row, resumes, ledger, rec, rounds, daemon, verbs, crashes>>
      /\ job' = [job EXCEPT !["loop"] = Begin(v, i, r, kind)]
  BY <1>1, <1>2 DEF SettleRun, records, bounds
<1>4. PICK k : k = job'["loop"]
  OBVIOUS
<1>5. k.do = v /\ k.item = i /\ k.run = r /\ k.step = 1 /\ job'["op"] = job["op"]
  BY <1>3, <1>4, LoopHas
<1>6. \A s \in Runs : (Live(s)' => Live(s)) /\ ~Live(r)'
  BY <1>0 DEF SettleRun, Live
<1>7. v \in {"overridden", "dropped", "cancelled", "cancelled_retry", "interrupted"} \/ v = Outcome(i, r, handle[r].how)
  BY <1>1, <1>2 DEF Verdict
<1>8. Outcome(i, r, handle[r].how) \in {"done", "blocked", "provider_held", "exhausted", "handed_over", "failed", "given_up"}
  BY DEF Outcome, Failure
<1>9. v \in Settling
  BY <1>7, <1>8 DEF Settling
<1>10. v = "exhausted" => rounds[r] = "exhausted"
  BY <1>7 DEF Outcome, Failure
<1>11. v = "failed" => row[i].attempts < MaxAttempts
  BY <1>7 DEF Outcome, Failure
<1>12. v \in {"provider_held", "exhausted"} => row[i].run \in {r, NoRun}
  <2>1. v \in {"provider_held", "exhausted"} => ~Overridden(r)
    BY <1>2 DEF Verdict
  <2>2. ~Overridden(r) => row[i].state = "absent" \/ row[i].run = r
    BY <1>1 DEF Overridden, OnRun
  <2> QED
    BY <1>0, <2>1, <2>2 DEF ClaimPinned
<1>13. v # "resume_pending" /\ v # "unstarted"
  BY <1>9 DEF Settling
<1>14. k.do \in Requeueing =>
         /\ row[k.item].run \in {k.run, NoRun} /\ ~Live(k.run)'
         /\ k.do = "resume_pending" => rec[k.run] # "failed"
         /\ k.do = "exhausted" => rounds[k.run] = "exhausted"
  BY <1>5, <1>6, <1>10, <1>12, <1>13 DEF Requeueing
<1>15. k.do \in {"failed", "unstarted"} => Awaiting(k.item) \/ row[k.item].attempts < MaxAttempts
  BY <1>5, <1>11, <1>13
<1>16. k.do \in Closers => k.run \in Runs /\ ledger[k.run].item = k.item
  BY <1>1, <1>5
<1>17. k.do \in Settling \cup Recovering /\ k.step = 1 /\ k.item \in Items /\ job'["op"] = job["op"]
  BY <1>5, <1>9
<1> QED
  BY <1>3, <1>4, <1>6, <1>14, <1>15, <1>16, <1>17, ClosingBegins

LEMMA RecoverRunningChurn ==
  ASSUME IInv, IInv', RowInv, ChurnInv, NEW i \in Items, RecoverRunning(i)
  PROVE  ChurnInv'
<1>0. row[i].run \in Runs /\ ledger[row[i].run].item = i /\ \A r \in Runs : ~Live(r)
  BY ConstantsAssumption DEF RecoverRunning, RowInv, RunningPinned, BootClean, Up, IInv, Pinned
<1>1. PICK r \in Runs : r = row[i].run
  BY <1>0
<1>2. PICK v : v = Recovery(i)
  OBVIOUS
<1>3. /\ job["loop"] = Idle /\ daemon = "running" /\ row[i].state = "running" /\ handle' = handle
      /\ UNCHANGED <<row, resumes, ledger, rec, rounds, daemon, verbs, crashes>>
      /\ job' = [job EXCEPT !["loop"] = Begin(v, i, r, "none")]
  BY <1>1, <1>2 DEF RecoverRunning, records, bounds, process
<1>4. PICK k : k = job'["loop"]
  OBVIOUS
<1>5. k.do = v /\ k.item = i /\ k.run = r /\ k.step = 1 /\ job'["op"] = job["op"]
  BY <1>3, <1>4, LoopHas
<1>6. \A s \in Runs : ~Live(s)'
  BY <1>0, <1>3 DEF Live
<1>7. v \in {"unstarted", "done", "blocked", "failed", "given_up", "resume_pending"}
      /\ (v = "resume_pending" => rec[r] # "failed")
  BY <1>1, <1>2 DEF Recovery, Failure
<1>8. Awaiting(i)
  BY <1>3 DEF Awaiting
<1>9. v \in Settling \cup Recovering
  BY <1>7 DEF Settling, Recovering
<1>10. v \in Requeueing => row[i].run \in {r, NoRun} /\ (v = "resume_pending" => rec[r] # "failed") /\ v # "exhausted"
  BY <1>1, <1>7 DEF Requeueing
<1> QED
  BY <1>0, <1>1, <1>3, <1>4, <1>5, <1>6, <1>8, <1>9, <1>10, ClosingBegins

-----------------------------------------------------------------------------
(* Dispatch. *)

LEMMA Dispatches ==
  ASSUME IInv, NEW i \in Items
  PROVE  LET do == Dispatch(i)  r == row[i].run IN
         /\ do \in {"claim", "start", "provider_resume", "resume", "failed", "given_up"}
         /\ do = "claim" <=> row[i].claim # "yes"
         /\ do = "start" => r = NoRun
         /\ do \notin {"claim", "start"} => r \in Runs
         /\ do = "provider_resume" => rec[r] = "provider_held"
         /\ do = "resume" => (rec[r] = "failed" /\ rounds[r] = "granted") \/ resumes[i] < MaxResumes
         /\ do = "failed" => row[i].attempts < MaxAttempts
<1>1. row[i].run \in Runs \cup {NoRun}
  BY DEF IInv, TypeOK, RowType
<1> QED
  BY <1>1 DEF Dispatch, Failure, GrantedRetry

LEMMA PickChurn ==
  ASSUME IInv, IInv', ChurnInv, NEW i \in Items, Pick(i)
  PROVE  ChurnInv'
<1>0. /\ ClaimPinned /\ JobsOf /\ RequeueOK /\ RoundsOK /\ AttemptsPaid /\ ResumesPaid
      /\ verbs \in Nat /\ crashes \in Nat /\ row \in [Items -> RowType]
      /\ \A x \in Items : resumes[x] \in Nat /\ row[x].attempts \in Nat
  BY DEF ChurnInv, IInv, TypeOK, RowType
<1>1. PICK do : do = Dispatch(i)
  OBVIOUS
<1>2. PICK q \in Runs \cup {NoRun} : q = row[i].run
  BY <1>0 DEF RowType
<1>3. /\ do \in {"claim", "start", "provider_resume", "resume", "failed", "given_up"}
      /\ do = "claim" <=> row[i].claim # "yes"
      /\ do = "start" => q = NoRun
      /\ do \notin {"claim", "start"} => q \in Runs
      /\ do = "provider_resume" => rec[q] = "provider_held"
      /\ do = "resume" => (rec[q] = "failed" /\ rounds[q] = "granted") \/ resumes[i] < MaxResumes
      /\ do = "failed" => row[i].attempts < MaxAttempts
  BY <1>1, <1>2, Dispatches
<1>4. /\ job["loop"] = Idle /\ daemon = "up" /\ daemon' = "up" /\ row[i].state = "queued"
      /\ UNCHANGED <<resumes, ledger, rec, rounds, handle, verbs, crashes>>
      /\ row' = IF do = "claim" THEN [row EXCEPT ![i] = [@ EXCEPT !.claim = "posting"]] ELSE row
  BY <1>1 DEF Pick, LoopFree, records, process, bounds
<1>5. PICK s : job' = [job EXCEPT !["loop"] = Begin(do, i, s, "none")] /\ (do # "start" => s = q)
  BY <1>1, <1>2 DEF Pick
<1>6. PICK k : k = job'["loop"]
  OBVIOUS
<1>7. k.do = do /\ k.item = i /\ k.run = s /\ k.step = 1 /\ job'["op"] = job["op"]
  BY <1>5, <1>6, LoopHas
<1>8. /\ \A x \in Items : /\ row'[x].run = row[x].run /\ row'[x].state = row[x].state
                          /\ row'[x].attempts = row[x].attempts
                          /\ row'[x].run # NoRun => row'[x].claim = row[x].claim
      /\ do # "claim" => row' = row
  <2>1. do = "claim" => row[i].run = NoRun
    BY <1>0, <1>3 DEF ClaimPinned
  <2> QED
    BY <1>0, <1>4, <2>1 DEF RowType
<1>9. /\ Idle.do = "idle" /\ ~Lifting(Idle)
      /\ \A x \in Items : ~Failing(Idle, x) /\ ~Reopening(Idle, x) /\ ~Opening(Idle, x) /\ ~Exhausting(Idle, x)
  BY DEF Idle, Failing, Reopening, Opening, Exhausting, Lifting
<1>10. /\ ~Lifting(k) /\ (\A x \in Items : ~Exhausting(k, x))
       /\ \A x \in Items : Reopening(k, x) => x = i /\ k.run = q /\ q \in Runs /\ do \in {"resume", "provider_resume"}
       /\ \A x \in Items : Opening(k, x) => x = i /\ do \in {"claim", "start"}
       /\ \A x \in Items : Failing(k, x) <=> x = i /\ do \in {"failed", "given_up"}
  BY <1>3, <1>5, <1>7 DEF Lifting, Exhausting, Reopening, Opening, Failing
<1>11. ClaimPinned'
  BY <1>0, <1>3, <1>6, <1>7, <1>8 DEF ClaimPinned
<1>12. JobsOf'
  <2>1. do \in {"failed", "given_up"} => s \in Runs /\ ledger[s].item = i
    BY <1>2, <1>3, <1>5, ConstantsAssumption DEF IInv, Pinned
  <2> QED
    BY <1>0, <1>3, <1>4, <1>6, <1>7, <2>1 DEF JobsOf
<1>13. RequeueOK' /\ RoundsOK'
  BY <1>0, <1>3, <1>4, <1>6, <1>7 DEF RequeueOK, RoundsOK, Fresh
<1>14. AttemptsPaid'
  <2> SUFFICES ASSUME NEW x \in Items
               PROVE  row'[x].attempts + Credit(x)' <= MaxAttempts + verbs' + crashes'
    BY DEF AttemptsPaid
  <2>1. Awaiting(x) => Credit(x) >= 1
    BY DEF Credit
  <2>2. ~Pulled'
    BY <1>2, <1>6, <1>8, <1>10 DEF Pulled
  <2>3. Awaiting(x)' => Awaiting(x) \/ row'[x].attempts < MaxAttempts
    BY <1>3, <1>4, <1>6, <1>7, <1>8, <2>2 DEF Awaiting
  <2>4. Opening(k, x) => row[x].run = NoRun
    BY <1>0, <1>2, <1>3, <1>10 DEF ClaimPinned
  <2>5. Opening(k, x) => Awaiting(x)
    BY <2>4 DEF Awaiting
  <2>6. row'[x].attempts \in Nat /\ row'[x].attempts <= row[x].attempts /\ verbs' \in Nat /\ crashes' \in Nat
        /\ verbs + crashes <= verbs' + crashes'
    BY <1>0, <1>4, <1>8
  <2> QED
    BY <1>0, <1>4, <1>6, <2>1, <2>3, <2>5, <2>6, CreditFrame
<1>15. ResumesPaid'
  <2> SUFFICES ASSUME NEW x \in Items
               PROVE  Owing(x)' <= Paid(x)' /\ resumes'[x] + Owing(x)' <= MaxResumes + Paid(x)'
    BY DEF ResumesPaid
  <2>1. \A r \in Runs : Flying(r)' <=> Flying(r)
    BY <1>4, <1>6, <1>9, <1>10 DEF Flying, Live
  <2>2. Spent(x)' <=> Spent(x)
    BY <1>4, <1>8 DEF Spent
  <2>3. Slipped(x)' => Slipped(x)
    BY <1>3, <1>4, <1>6, <1>7, <1>10 DEF Slipped
  <2>4. Promised(x)' => Promised(x)
    <3>1. CASE x # i
      BY <1>4, <1>6, <1>8, <1>9, <1>10, <2>1, <2>2, <3>1 DEF Promised
    <3>2. CASE x = i
      <4>1. ASSUME Reopening(k, i), k.do = "resume", resumes[i] >= MaxResumes PROVE Promised(i)
        <5>1. q \in Runs /\ rec[q] = "failed"
          BY <1>0, <1>3, <1>7, <1>10, <4>1, ConstantsAssumption
        <5> QED
          BY <1>2, <1>4, <1>9, <5>1 DEF Promised
      <4>2. ASSUME q \in Runs, Flying(q)' PROVE Promised(i)
        BY <1>2, <1>4, <2>1, <4>2 DEF Promised
      <4>3. ASSUME q \in Runs, rec[q] = "failed" PROVE Promised(i)
        BY <1>2, <1>4, <1>9, <4>3 DEF Promised
      <4> QED
        BY <1>2, <1>4, <1>6, <1>8, <1>10, <3>2, <4>1, <4>2, <4>3 DEF Promised
    <3> QED
      BY <3>1, <3>2
  <2>5. Owing(x)' <= Owing(x)
    BY <1>7, <2>2, <2>3, <2>4, OwingRests
  <2>6. Accrues /\ resumes'[x] = resumes[x] /\ Owing(x)' <= Owing(x) + 0
    BY <1>4, <2>5, OwingNat DEF Accrues
  <2> QED
    BY <1>0, <1>4, <2>6, ResumesFrame
<1> QED
  BY <1>11, <1>12, <1>13, <1>14, <1>15 DEF ChurnInv

LEMMA MarkRunningChurn ==
  ASSUME IInv, IInv', ChurnInv, MarkRunning
  PROVE  ChurnInv'
<1>0. /\ ClaimPinned /\ JobsOf /\ RequeueOK /\ RoundsOK /\ AttemptsPaid /\ ResumesPaid
      /\ verbs \in Nat /\ crashes \in Nat /\ row \in [Items -> RowType] /\ "loop" \in Threads /\ "op" \in Threads
      /\ \A x \in Items : resumes[x] \in Nat /\ row[x].attempts \in Nat
      /\ ledger \in [Runs -> [item : Items \cup {NoItem}, result : Results]]
      /\ job["op"].run \in Runs \cup {NoRun} /\ (job["op"].do # "idle" => job["op"].item \in Items)
  BY DEF ChurnInv, IInv, TypeOK, RowType, Threads, JobType, JobsNamed
<1>1. PICK j, k : j = job["loop"] /\ k = job'["loop"]
  OBVIOUS
<1>2. At("loop", "mark") /\ Step("loop")
  BY DEF MarkRunning
<1>3. j.do = "start" /\ j.step = 1 /\ j.item \in Items
  BY <1>0, <1>1, <1>2, AtPlace, MarkIsFirst
<1>4. j.run \in Runs /\ Fresh(j.run)
  BY <1>1, <1>3 DEF IInv, LaunchReady
<1>5. PICK i \in Items, r \in Runs : i = j.item /\ r = j.run
  BY <1>3, <1>4
<1>6. j.step < Len(Plan(j.do)) /\ j.step # Len(Plan(j.do))
  BY <1>3 DEF Plan
<1>7. k.do = "start" /\ k.item = i /\ k.run = r /\ k.step = 2 /\ job'["op"] = job["op"]
  <2>1. /\ \A u \in Threads \ {"loop"} : job'[u] = job[u]
        /\ \/ k = Idle /\ (Step("loop") => j.step = Len(Plan(j.do)))
           \/ k.do = j.do /\ k.item = j.item /\ k.run = j.run /\ k.step = j.step + 1
    BY <1>0, <1>1, <1>2, Goes, Zenon
  <2> QED
    BY <1>0, <1>2, <1>3, <1>5, <1>6, <2>1
<1>8. /\ row'[i].state = "running" /\ row'[i].run = r /\ row'[i].attempts = row[i].attempts + 1
      /\ row'[i].claim = row[i].claim
      /\ \A x \in Items \ {i} : row'[x] = row[x]
  BY <1>0, <1>1, <1>5 DEF MarkRunning, RowType
<1>9. /\ ledger'[r].item = i /\ \A s \in Runs \ {r} : ledger'[s] = ledger[s]
      /\ UNCHANGED <<resumes, rec, rounds, handle, daemon, verbs, crashes>>
  BY <1>0, <1>1, <1>5 DEF MarkRunning, records, process, bounds
<1>10. /\ ledger[r].item = NoItem /\ rounds[r] = "fresh"
  BY <1>0, <1>4, <1>5 DEF Fresh, RoundsOK
<1>11. \A x \in Items : row[x].run # r
  BY <1>10, ConstantsAssumption DEF IInv, Pinned
<1>12. /\ ~Lifting(j) /\ \A x \in Items : /\ ~Reopening(j, x) /\ ~Failing(j, x) /\ ~Exhausting(j, x)
                                          /\ ~Reopening(k, x) /\ ~Failing(k, x) /\ ~Exhausting(k, x)
                                          /\ ~Opening(k, x) /\ (Opening(j, x) <=> x = i)
  BY <1>3, <1>5, <1>7 DEF Lifting, Reopening, Failing, Exhausting, Opening
<1>13. ClaimPinned'
  BY <1>0, <1>1, <1>3, <1>5, <1>7, <1>8 DEF ClaimPinned
<1>14. JobsOf'
  <2>1. job["op"].do \in Verbing => job["op"].run = NoRun \/ ledger'[job["op"].run].item = job["op"].item
    BY <1>0, <1>9, <1>10, ConstantsAssumption DEF JobsOf, Verbing
  <2> QED
    BY <1>1, <1>7, <2>1 DEF JobsOf
<1>15. RequeueOK' /\ RoundsOK'
  BY <1>0, <1>1, <1>7, <1>9, ConstantsAssumption DEF RequeueOK, RoundsOK, Fresh
<1>16. AttemptsPaid'
  <2> SUFFICES ASSUME NEW x \in Items
               PROVE  row'[x].attempts + Credit(x)' <= MaxAttempts + verbs' + crashes'
    BY DEF AttemptsPaid
  <2>1. ~Pulled'
    BY <1>1, <1>12 DEF Pulled
  <2>2. CASE x = i
    <3>1. Credit(i) = IF daemon = "up" THEN 1 ELSE 2
      BY <1>1, <1>12 DEF Credit
    <3>2. daemon = "up" => Credit(i)' = 0
      BY <1>1, <1>4, <1>5, <1>7, <1>8, <1>9, <1>12, <2>1, ConstantsAssumption DEF Credit, Awaiting
    <3>3. Credit(i)' <= 1
      BY <1>1, <1>12, CreditNat
    <3>4. PICK c \in 0..2, d \in 0..2 : c = Credit(i) /\ d = Credit(i)' /\ d + 1 <= c
      BY <3>1, <3>2, <3>3, CreditNat
    <3>5. PICK a \in Nat, v \in Nat, w \in Nat, m \in Nat :
            a = row[i].attempts /\ v = verbs /\ w = crashes /\ m = MaxAttempts
      BY <1>0, ConstantsAssumption
    <3>6. a + c <= m + v + w
      BY <1>0, <3>4, <3>5 DEF AttemptsPaid
    <3>7. (a + 1) + d <= m + v + w
      BY <3>4, <3>6
    <3> QED
      BY <1>8, <1>9, <2>2, <3>4, <3>5, <3>7
  <2>3. CASE x # i
    <3>1. row'[x] = row[x]
      BY <1>8, <2>3
    <3>2. Awaiting(x)' => Awaiting(x)
      BY <1>1, <1>7, <1>9, <1>12, <2>1, <3>1 DEF Awaiting
    <3>3. Awaiting(x) => Credit(x) >= 1
      BY DEF Credit
    <3>4. row'[x].attempts \in Nat /\ row'[x].attempts <= row[x].attempts /\ verbs' \in Nat /\ crashes' \in Nat
          /\ verbs + crashes <= verbs' + crashes' /\ ~Opening(job'["loop"], x)
      BY <1>0, <1>1, <1>9, <1>12, <3>1
    <3> QED
      BY <1>0, <3>2, <3>3, <3>4, CreditFrame
  <2> QED
    BY <2>2, <2>3
<1>17. ResumesPaid'
  <2> SUFFICES ASSUME NEW x \in Items
               PROVE  Owing(x)' <= Paid(x)' /\ resumes'[x] + Owing(x)' <= MaxResumes + Paid(x)'
    BY DEF ResumesPaid
  <2>1. \A s \in Runs \ {r} : Flying(s)' => Flying(s)
    BY <1>1, <1>7, <1>9 DEF Flying, Live
  <2>2. Spent(x)' => Spent(x)
    BY <1>8, <1>9, <1>10 DEF Spent
  <2>3. ~Slipped(x)'
    BY <1>1, <1>12 DEF Slipped
  <2>4. Promised(x)' => Promised(x)
    <3>1. CASE x = i
      BY <1>1, <1>8, <1>12, <3>1 DEF Promised
    <3>2. CASE x # i
      <4>1. row'[x] = row[x] /\ row[x].run # r
        BY <1>8, <1>11, <3>2
      <4> QED
        BY <1>1, <1>9, <1>12, <2>1, <4>1 DEF Promised
    <3> QED
      BY <3>1, <3>2
  <2>5. Owing(x)' <= Owing(x)
    BY <1>7, <2>2, <2>3, <2>4, OwingRests
  <2>6. Accrues /\ resumes'[x] = resumes[x] /\ Owing(x)' <= Owing(x) + 0
    BY <1>9, <1>10, <2>5, OwingNat DEF Accrues
  <2> QED
    BY <1>0, <1>9, <2>6, ResumesFrame
<1> QED
  BY <1>13, <1>14, <1>15, <1>16, <1>17 DEF ChurnInv

LEMMA MarkResumingChurn ==
  ASSUME IInv, IInv', ChurnInv, MarkResuming
  PROVE  ChurnInv'
<1>0. /\ ClaimPinned /\ JobsOf /\ RequeueOK /\ RoundsOK /\ AttemptsPaid /\ ResumesPaid
      /\ verbs \in Nat /\ crashes \in Nat /\ row \in [Items -> RowType] /\ "loop" \in Threads
      /\ \A x \in Items : resumes[x] \in Nat /\ row[x].attempts \in Nat
      /\ resumes \in [Items -> Nat]
  BY DEF ChurnInv, IInv, TypeOK, RowType, Threads
<1>1. PICK j, k : j = job["loop"] /\ k = job'["loop"]
  OBVIOUS
<1>2. At("loop", "remark") /\ Step("loop")
  BY DEF MarkResuming
<1>3. /\ j.item \in Items
      /\ (j.do = "resume" /\ j.step = 2) \/ (j.do = "provider_resume" /\ j.step = 1)
  BY <1>0, <1>1, <1>2, AtPlace, PlanPlaces
<1>4. j.run \in Runs /\ ledger[j.run].item = j.item
  BY <1>1, <1>3 DEF IInv, LaunchReady
<1>5. PICK i \in Items, r \in Runs : i = j.item /\ r = j.run
  BY <1>3, <1>4
<1>6. j.step < Len(Plan(j.do)) /\ j.step # Len(Plan(j.do))
  <2>1. CASE j.do = "resume" /\ j.step = 2
    BY <2>1 DEF Plan
  <2>2. CASE j.do = "provider_resume" /\ j.step = 1
    BY <2>2 DEF Plan
  <2> QED
    BY <1>3, <2>1, <2>2
<1>7. k.do = j.do /\ k.item = i /\ k.run = r /\ k.step = j.step + 1 /\ job'["op"] = job["op"]
  <2>1. /\ \A u \in Threads \ {"loop"} : job'[u] = job[u]
        /\ \/ k = Idle /\ (Step("loop") => j.step = Len(Plan(j.do)))
           \/ k.do = j.do /\ k.item = j.item /\ k.run = j.run /\ k.step = j.step + 1
    BY <1>0, <1>1, <1>2, Goes, Zenon
  <2> QED
    BY <1>2, <1>5, <1>6, <2>1 DEF Threads
<1>8. /\ row[i].run = r
      /\ row'[i].state = "running" /\ row'[i].run = r /\ row'[i].attempts = row[i].attempts
      /\ row'[i].claim = row[i].claim
      /\ \A x \in Items \ {i} : row'[x] = row[x]
  BY <1>0, <1>1, <1>5 DEF MarkResuming, RowType
<1>9. /\ UNCHANGED <<ledger, rec, rounds, handle, daemon, verbs, crashes>>
      /\ resumes' = IF rec[r] = "provider_held" THEN resumes ELSE [resumes EXCEPT ![i] = @ + 1]
  BY <1>1, <1>5 DEF MarkResuming, records, process, bounds
<1>10. /\ \A x \in Items : /\ ~Reopening(k, x) /\ ~Failing(k, x) /\ ~Exhausting(k, x) /\ ~Opening(k, x)
                           /\ ~Failing(j, x) /\ (Reopening(j, x) <=> x = i)
  BY <1>3, <1>5, <1>7 DEF Lifting, Reopening, Failing, Exhausting, Opening
<1>11. ClaimPinned' /\ JobsOf' /\ RequeueOK' /\ RoundsOK'
  <2>1. ClaimPinned'
    BY <1>0, <1>1, <1>3, <1>5, <1>7, <1>8 DEF ClaimPinned
  <2>2. JobsOf' /\ RequeueOK' /\ RoundsOK'
    BY <1>0, <1>1, <1>3, <1>7, <1>9 DEF JobsOf, RequeueOK, RoundsOK, Fresh
  <2> QED
    BY <2>1, <2>2
<1>12. AttemptsPaid'
  <2> SUFFICES ASSUME NEW x \in Items
               PROVE  row'[x].attempts + Credit(x)' <= MaxAttempts + verbs' + crashes'
    BY DEF AttemptsPaid
  <2>1. ~Pulled'
    BY <1>1, <1>10 DEF Pulled
  <2>2. row'[x].run = row[x].run /\ row'[x].attempts = row[x].attempts
        /\ (row'[x].state = "running" => row[x].state = "running" \/ x = i)
    BY <1>8
  <2>3. Awaiting(x)' => Awaiting(x)
    BY <1>1, <1>3, <1>7, <1>9, <1>10, <2>1, <2>2 DEF Awaiting
  <2>4. Awaiting(x) => Credit(x) >= 1
    BY DEF Credit
  <2>5. row'[x].attempts \in Nat /\ row'[x].attempts <= row[x].attempts /\ verbs' \in Nat /\ crashes' \in Nat
        /\ verbs + crashes <= verbs' + crashes' /\ ~Opening(job'["loop"], x)
    BY <1>0, <1>1, <1>9, <1>10, <2>2
  <2> QED
    BY <1>0, <2>3, <2>4, <2>5, CreditFrame
<1>13. Accrues
  BY <1>9 DEF Accrues
<1>14. ResumesPaid'
  <2> SUFFICES ASSUME NEW x \in Items
               PROVE  Owing(x)' <= Paid(x)' /\ resumes'[x] + Owing(x)' <= MaxResumes + Paid(x)'
    BY DEF ResumesPaid
  <2>1. (Spent(x)' => Spent(x)) /\ ~Slipped(x)'
    BY <1>1, <1>8, <1>9, <1>10 DEF Spent, Slipped
  <2>2. CASE x # i
    <3>1. row'[x] = row[x] /\ row[x].run # r /\ resumes'[x] = resumes[x]
      BY <1>0, <1>4, <1>5, <1>8, <1>9, <2>2, ConstantsAssumption DEF IInv, Pinned
    <3>2. \A s \in Runs \ {r} : Flying(s)' => Flying(s)
      BY <1>1, <1>7, <1>9 DEF Flying, Live
    <3>3. Promised(x)' => Promised(x)
      BY <1>1, <1>9, <1>10, <3>1, <3>2 DEF Promised
    <3>4. Owing(x)' <= Owing(x)
      BY <1>7, <2>1, <3>3, OwingRests
    <3>5. Owing(x)' <= Owing(x) + 0
      BY <3>4, OwingNat
    <3> QED
      BY <1>0, <1>9, <1>13, <3>1, <3>5, ResumesFrame
  <2>3. CASE x = i
    <3>1. ~Promised(i)'
      BY <1>1, <1>8, <1>10 DEF Promised
    <3>2. Owing(i)' <= Owing(i)
      BY <1>7, <2>1, <2>3, <3>1, OwingRests
    <3>3. Promised(i) \/ Slipped(i) => Owing(i)' + 1 <= Owing(i)
      BY <1>7, <2>1, <2>3, <3>1 DEF Owing, One
    <3>4. rec[r] = "provider_held" \/ resumes[i] < MaxResumes \/ Promised(i) \/ Slipped(i)
      <4>1. j.do = "resume" /\ resumes[i] >= MaxResumes => Promised(i)
        BY <1>1, <1>10 DEF Promised
      <4>2. j.do = "provider_resume" /\ rec[r] # "provider_held" /\ ~Live(r) => Slipped(i)
        BY <1>1, <1>5, <1>10 DEF Slipped
      <4>3. Live(r) => Promised(i)
        BY <1>1, <1>8, <1>10 DEF Promised, Flying
      <4>4. resumes[i] < MaxResumes \/ resumes[i] >= MaxResumes
        BY <1>0, ConstantsAssumption
      <4> QED
        BY <1>3, <4>1, <4>2, <4>3, <4>4
    <3>5. PICK c \in 0..5, d \in 0..5 : c = Owing(i) /\ d = Owing(i)' /\ d <= c
      BY <3>2, OwingNat
    <3>6. PICK a \in Nat : a = Paid(i) /\ Paid(i)' = a
      <4>1. Burnt(i)' = Burnt(i)
        BY <1>9 DEF Burnt
      <4> QED
        BY <1>0, <1>9, <4>1, BurntNat DEF Paid
    <3>7. PICK n \in Nat, m \in Nat, p \in Nat : n = resumes[i] /\ m = MaxResumes /\ p = resumes'[i]
                                                 /\ (p = n \/ p = n + 1)
                                                 /\ (rec[r] = "provider_held" => p = n)
      BY <1>0, <1>9, ConstantsAssumption
    <3>8. c <= a /\ n + c <= m + a
      BY <1>0, <3>5, <3>6, <3>7 DEF ResumesPaid
    <3>9. p = n \/ n < m \/ d + 1 <= c
      BY <3>3, <3>4, <3>5, <3>7
    <3>10. d <= a /\ p + d <= m + a
      BY <3>5, <3>7, <3>8, <3>9
    <3> QED
      BY <2>3, <3>5, <3>6, <3>7, <3>10
  <2> QED
    BY <2>2, <2>3
<1> QED
  BY <1>11, <1>12, <1>14 DEF ChurnInv

LEMMA LaunchChurn ==
  ASSUME IInv, IInv', ChurnInv, Launch
  PROVE  ChurnInv'
<1>0. /\ ClaimPinned /\ JobsOf /\ RequeueOK /\ RoundsOK /\ AttemptsPaid /\ ResumesPaid
      /\ verbs \in Nat /\ crashes \in Nat /\ "loop" \in Threads /\ handle \in [Runs -> HandleType]
      /\ TypeOK' /\ \A x \in Items : resumes[x] \in Nat
  BY DEF ChurnInv, IInv, TypeOK, Threads
<1>1. PICK j : j = job["loop"]
  OBVIOUS
<1>2. At("loop", "launch") /\ Step("loop")
  BY DEF Launch
<1>3. /\ j.do \in {"start", "resume", "provider_resume"} /\ j.step = Len(Plan(j.do)) /\ j.item \in Items
      /\ j.step \in Nat
  BY <1>0, <1>1, <1>2, AtPlace, LaunchIsLast DEF JobType
<1>4. Lifting(j)
  <2>1. Len(Plan("start")) = 2 /\ Len(Plan("resume")) = 3 /\ Len(Plan("provider_resume")) = 2
    BY DEF Plan
  <2> QED
    BY <1>3, <2>1 DEF Lifting
<1>5. job'["loop"] = Idle /\ job'["op"] = job["op"]
  BY <1>0, <1>1, <1>2, <1>3, Goes DEF Threads
<1>6. /\ UNCHANGED <<row, resumes, ledger, rec, rounds, daemon, verbs, crashes>>
      /\ \A r \in Runs : (Live(r)' => Live(r) \/ r = j.run) /\ (Live(r) => Live(r)')
  BY <1>0, <1>1 DEF Launch, records, bounds, Live
<1>7. /\ Quieter(job["loop"], job'["loop"]) /\ OpQuieter(job["op"], job'["op"])
  BY <1>5, IdleQuieter, SameCalmer
<1>8. Idle.do = "idle" /\ ~Lifting(Idle)
      /\ \A x \in Items : ~Reopening(Idle, x) /\ ~Exhausting(Idle, x) /\ ~Failing(Idle, x)
                          /\ ~Failing(j, x) /\ ~Reopening(j, x)
  <2>1. PICK z : z = Idle
    OBVIOUS
  <2>2. z.do = "idle"
    BY <2>1 DEF Idle
  <2>3. ~Lifting(z) /\ \A x \in Items : ~Reopening(z, x) /\ ~Exhausting(z, x) /\ ~Failing(z, x)
    BY <2>2 DEF Lifting, Reopening, Exhausting, Failing
  <2>4. \A x \in Items : ~Failing(j, x) /\ ~Reopening(j, x)
    BY <1>4 DEF Lifting, Failing, Reopening
  <2> QED
    BY <2>1, <2>2, <2>3, <2>4
<1>9. ClaimPinned' /\ JobsOf' /\ RequeueOK' /\ RoundsOK'
  BY <1>0, <1>5, <1>6, <1>8 DEF ClaimPinned, JobsOf, RequeueOK, RoundsOK, Fresh
<1>10. AttemptsPaid'
  <2>1. RowsStill /\ DaemonRests
    BY <1>6 DEF RowsStill, DaemonRests
  <2> QED
    BY <1>0, <1>6, <1>7, <2>1, StillRests, AttemptsRest
<1>11. ResumesPaid'
  <2> SUFFICES ASSUME NEW x \in Items
               PROVE  Owing(x)' <= Paid(x)' /\ resumes'[x] + Owing(x)' <= MaxResumes + Paid(x)'
    BY DEF ResumesPaid
  <2>1. \A r \in Runs : Flying(r)' => Flying(r)
    BY <1>1, <1>4, <1>5, <1>6, <1>8 DEF Flying
  <2>2. Promised(x)' => Promised(x)
    BY <1>1, <1>5, <1>6, <1>8, <2>1 DEF Promised, Spent
  <2>3. (Spent(x)' => Spent(x)) /\ ~Slipped(x)'
    BY <1>5, <1>6, <1>8 DEF Spent, Slipped
  <2>4. Owing(x)' <= Owing(x)
    BY <1>5, <2>2, <2>3, OwingRests
  <2>5. Accrues /\ resumes'[x] = resumes[x] /\ Owing(x)' <= Owing(x) + 0
    BY <1>6, <2>4, OwingNat DEF Accrues
  <2> QED
    BY <1>0, <1>6, <2>5, ResumesFrame
<1> QED
  BY <1>9, <1>10, <1>11 DEF ChurnInv

-----------------------------------------------------------------------------
(* The loop thread only ever works through its own plans. *)
LoopPlans == job["loop"].do \notin Verbing

LEMMA LoopPlansNext ==
  ASSUME IInv, LoopPlans, [Next]_vars
  PROVE  LoopPlans'
<1>0. job \in [Threads -> JobType] /\ "loop" \in Threads /\ "op" \in Threads
  BY DEF IInv, TypeOK, Threads
<1>1. Idle.do \notin Verbing /\ "deliver" \notin Verbing /\ "start" \notin Verbing
  BY DEF Idle, Verbing
<1>2. ASSUME NEW t \in Threads, Step(t) \/ Finish(t) PROVE LoopPlans'
  <2>1. job'["loop"] \in {job["loop"], Idle, Advance("loop")}
    BY <1>0, <1>2 DEF Step, Finish
  <2>2. PICK a : a = Advance("loop")
    OBVIOUS
  <2>3. a.do \in {job["loop"].do, Idle.do}
    BY <1>0, <2>2 DEF Advance, JobType
  <2> QED
    BY <1>1, <2>1, <2>2, <2>3 DEF LoopPlans
<1>3. ASSUME NEW do, do \notin Verbing, NEW i, NEW r, NEW kind,
             job' = [job EXCEPT !["loop"] = Begin(do, i, r, kind)]
      PROVE  LoopPlans'
  BY <1>3, LoopHas DEF LoopPlans
<1>4. ASSUME NEW k, job' = [job EXCEPT !["op"] = k] PROVE LoopPlans'
  BY <1>0, <1>4 DEF LoopPlans
<1>5. ASSUME job' = job \/ job' = [t \in Threads |-> Idle] PROVE LoopPlans'
  BY <1>0, <1>1, <1>5 DEF LoopPlans
<1>6. CASE Tick
  <2>1. ASSUME NEW i \in Items, Pick(i) PROVE LoopPlans'
    <3>1. PICK do : do = Dispatch(i)
      OBVIOUS
    <3>2. do \notin Verbing
      BY <3>1 DEF Dispatch, Failure, Verbing
    <3>3. PICK r : job' = [job EXCEPT !["loop"] = Begin(do, i, r, "none")]
      BY <2>1, <3>1 DEF Pick
    <3> QED
      BY <1>3, <3>2, <3>3
  <2>2. ASSUME NEW r \in Runs, SettleRun(r) PROVE LoopPlans'
    <3>1. PICK v, kind : v = Verdict(r) /\ job' = [job EXCEPT !["loop"] = Begin(v, ledger[r].item, r, kind)]
      BY <2>2 DEF SettleRun
    <3>2. v \notin Verbing
      BY <3>1 DEF Verdict, Outcome, Failure, Verbing
    <3> QED
      BY <1>3, <3>1, <3>2
  <2>3. ASSUME NEW i \in Items, DeliverPending(i) PROVE LoopPlans'
    BY <1>1, <1>3, <2>3 DEF DeliverPending
  <2>4. ASSUME \/ \E i \in Items : Discover(i)
               \/ \E r \in Runs : PollOverride(r) \/ StaleSweep(r)
        PROVE  LoopPlans'
    BY <1>5, <2>4 DEF Discover, PollOverride, StaleSweep
  <2> QED
    BY <1>6, <2>1, <2>2, <2>3, <2>4 DEF Tick
<1>7. ASSUME NEW t \in Threads, Write(t) PROVE LoopPlans'
  BY <1>2, <1>7 DEF Write, Sweep, WriteRecord, WriteLedger, WriteRow, TellOutcome, OutcomeRefused,
                    TakeOutcome, TakeDecision, TellDecision
<1>8. CASE LoopStep
  <2>1. CASE ClaimWon
    <3>1. PICK i, r : job' = [job EXCEPT !["loop"] = Begin("start", i, r, "none")]
      BY <2>1 DEF ClaimWon
    <3> QED
      BY <1>1, <1>3, <3>1
  <2>2. CASE LookUp
    <3>1. PICK a : a = Advance("loop")
      OBVIOUS
    <3>2. job'["loop"] = [a EXCEPT !.kind = row[job["loop"].item].owed]
      BY <1>0, <2>2, <3>1 DEF LookUp
    <3>3. job["loop"] \in JobType /\ Idle \in JobType
      BY <1>0, IdleType
    <3>4. a \in JobType /\ a.do \in {job["loop"].do, Idle.do}
      BY <3>1, <3>3 DEF Advance, JobType
    <3>5. job'["loop"].do = a.do
      BY <3>2, <3>4 DEF JobType
    <3> QED
      BY <1>1, <3>4, <3>5 DEF LoopPlans
  <2>3. CASE MarkResumingRaises
    BY <1>5, <2>3 DEF MarkResumingRaises, Die
  <2>4. CASE ClaimLost \/ MarkRunning \/ MarkResuming \/ Launch \/ CancelledAgain \/ Report
    BY <1>0, <1>2, <2>4 DEF ClaimLost, MarkRunning, MarkResuming, Launch, CancelledAgain, Report
  <2> QED
    BY <1>0, <1>7, <1>8, <2>1, <2>2, <2>3, <2>4 DEF LoopStep
<1>9. CASE Engine
  BY <1>5, <1>9 DEF Engine, EngineBegin, EngineEnd
<1>10. CASE Operator
  BY <1>4, <1>5, <1>10 DEF Operator, AbandonItem, RetryItem, RequeueItem, CliAbandon, CliRetry,
     CliRequeue, Relabel, CancelPending, ResumeRun, GrantRounds, CancelRun, StopDaemon, OpBegins
<1>11. CASE OpStep
  BY <1>0, <1>2, <1>4, <1>7, <1>11 DEF OpStep, StopCurrent, Regrant
<1>12. CASE Recover
  <2>1. ASSUME NEW i \in Items, RecoverRunning(i) PROVE LoopPlans'
    <3>1. PICK v : v = Recovery(i) /\ job' = [job EXCEPT !["loop"] = Begin(v, i, row[i].run, "none")]
      BY <2>1 DEF RecoverRunning
    <3>2. v \notin Verbing
      BY <3>1 DEF Recovery, Failure, Verbing
    <3> QED
      BY <1>3, <3>1, <3>2
  <2>2. ASSUME NEW r \in Runs, SettleOffline(r) PROVE LoopPlans'
    <3>1. PICK v \in {"close_abandoned", "close_requeued"} :
            job' = [job EXCEPT !["loop"] = Begin(v, ledger[r].item, r, "none")]
      BY <2>2 DEF SettleOffline
    <3>2. v \notin Verbing
      BY <3>1 DEF Verbing
    <3> QED
      BY <1>3, <3>1, <3>2
  <2> QED
    BY <1>5, <1>12, <2>1, <2>2 DEF Recover, Restart, RecoverNext, SettleHalfClaim, ReconcileOrphan
<1>13. CASE Exit \/ Crash \/ UNCHANGED vars
  BY <1>5, <1>13 DEF Exit, Crash, Die, vars
<1> QED
  BY <1>6, <1>8, <1>9, <1>10, <1>11, <1>12, <1>13 DEF Next

-----------------------------------------------------------------------------
(* The writes of the run record. *)

\* A resume is owed under another name.
LEMMA OwingTrades ==
  ASSUME NEW i \in Items,
         Spent(i)' => Spent(i),
         Promised(i)' => Promised(i) \/ (Spent(i) /\ ~Spent(i)')
                         \/ (Granting(job["op"], i) /\ ~Granting(job'["op"], i)),
         Slipped(i)' => Slipped(i) \/ (Closing(job["op"], i) /\ ~Closing(job'["op"], i)),
         Granting(job'["op"], i) => Granting(job["op"], i),
         Closing(job'["op"], i) => Closing(job["op"], i)
  PROVE  Owing(i)' <= Owing(i)
  BY DEF Owing, One

LEMMA RecordPlans ==
  ASSUME NEW do \in Doing, NEW n \in 1..Len(Plan(do)), Plan(do)[n] = "record"
  PROVE  /\ do \in (Settling \ {"interrupted", "done", "blocked", "handed_over"})
                   \cup {"close_abandoned", "close_requeued"} \cup Verbing
         /\ do \in {"failed", "given_up"} => n = 2
         /\ do \in {"abandon", "requeue"} => n = 3
         /\ do = "cancel_pending" => n = 2
  BY DEF Plan, Doing, Launching, Settling, Recovering, Verbing

LEMMA RecordWritten ==
  ASSUME IInv, NEW t \in Threads, WriteRecord(t), NEW s \in Runs
  PROVE  /\ s # job[t].run => rec'[s] = rec[s] /\ rounds'[s] = rounds[s]
         /\ job[t].do \in {"exhausted", "grant"} => rec'[s] = rec[s]
         /\ rec'[s] = "active" => rec[s] = "active"
         /\ rec'[s] = "failed" => rec[s] = "failed" \/ job[t].do \in {"failed", "given_up"}
         /\ s = job[t].run /\ job[t].do = "provider_held" => rec'[s] = "provider_held"
         /\ rounds'[s] = rounds[s] \/ (job[t].do \in {"exhausted", "grant"} /\ rounds'[s] = "granted")
         /\ s = job[t].run /\ job[t].do = "exhausted" => rounds'[s] = "granted"
<1>0. rec \in [Runs -> RecordStates]
      /\ rounds \in [Runs -> {"fresh", "exhausted", "granted", "spent"}]
  BY DEF IInv, TypeOK
<1>1. PICK do, r : do = job[t].do /\ r = job[t].run
  OBVIOUS
<1>2. /\ rec' = [rec EXCEPT ![r] = RecordAfter(do, r)]
      /\ rounds' = IF do \in {"exhausted", "grant"} THEN [rounds EXCEPT ![r] = "granted"] ELSE rounds
  BY <1>1 DEF WriteRecord
<1>3. s # r => rec'[s] = rec[s] /\ rounds'[s] = rounds[s]
  BY <1>0, <1>2
<1>4. s = r => rec'[s] = RecordAfter(do, s) /\ (do \in {"exhausted", "grant"} => rounds'[s] = "granted")
               /\ (do \notin {"exhausted", "grant"} => rounds'[s] = rounds[s])
  BY <1>0, <1>2
<1>5. /\ do \in {"exhausted", "grant"} => RecordAfter(do, s) = rec[s]
      /\ RecordAfter(do, s) = "active" => rec[s] = "active"
      /\ RecordAfter(do, s) = "failed" => rec[s] = "failed" \/ do \in {"failed", "given_up"}
      /\ do = "provider_held" => RecordAfter(do, s) = "provider_held"
  BY DEF RecordAfter
<1> QED
  BY <1>1, <1>3, <1>4, <1>5

\* What the two threads' writes share.
LEMMA RecordFrame ==
  ASSUME IInv, IInv', OpPlans, LoopPlans, ChurnInv, NEW t \in Threads, WriteRecord(t),
         RequeueOK', \A i \in Items : Owing(i)' <= Owing(i)
  PROVE  ChurnInv'
<1>0. /\ ClaimPinned /\ JobsOf /\ RoundsOK /\ AttemptsPaid /\ ResumesPaid /\ TypeOK'
      /\ verbs \in Nat /\ crashes \in Nat /\ JobsNamed' /\ JobsNamed
      /\ \A i \in Items : resumes[i] \in Nat
      /\ "loop" \in Threads /\ job'["op"].run \in Runs \cup {NoRun}
  BY DEF ChurnInv, IInv, TypeOK, Threads, JobType
<1>1. UNCHANGED <<row, resumes, ledger, daemon, verbs, crashes>>
  BY DEF WriteRecord, process, bounds
<1>2. At(t, "record") /\ Step(t)
  BY DEF WriteRecord
<1>3. /\ Quieter(job["loop"], job'["loop"]) /\ Started(job["loop"], job'["loop"])
      /\ OpQuieter(job["op"], job'["op"])
  BY <1>2, WriteQuieter
<1>4. RowsStill /\ DaemonRests
  BY <1>1 DEF RowsStill, DaemonRests
<1>5. ClaimPinned'
  BY <1>0, <1>1, <1>3 DEF ClaimPinned, Started
<1>6. JobsOf'
  BY <1>0, <1>1, <1>3, JobsRest
<1>7. AttemptsPaid'
  BY <1>0, <1>1, <1>3, <1>4, StillRests, AttemptsRest
<1>8. job[t].do \in {"exhausted", "grant"} /\ job[t].run \in Runs => ledger[job[t].run].item # NoItem
  <2>1. job[t].item \in Items
    BY <1>2, AtPlace
  <2> QED
    BY <1>0, <2>1, ConstantsAssumption DEF JobsOf, Threads, Verbing, OpPlans, LoopPlans
<1>9. RoundsOK'
  BY <1>0, <1>1, <1>8, RecordWritten DEF RoundsOK, Fresh
<1>10. ResumesPaid'
  <2> SUFFICES ASSUME NEW i \in Items
               PROVE  Owing(i)' <= Paid(i)' /\ resumes'[i] + Owing(i)' <= MaxResumes + Paid(i)'
    BY DEF ResumesPaid
  <2>1. \A r \in Runs : rounds[r] # "fresh" => rounds'[r] # "fresh"
    BY RecordWritten
  <2>2. Accrues /\ resumes'[i] = resumes[i] /\ Owing(i)' <= Owing(i) + 0
    BY <1>1, <2>1, OwingNat DEF Accrues
  <2> QED
    BY <1>0, <1>1, <2>2, ResumesFrame
<1> QED
  BY <1>5, <1>6, <1>7, <1>9, <1>10 DEF ChurnInv

LEMMA LoopRecordChurn ==
  ASSUME IInv, IInv', OpPlans, LoopPlans, ChurnInv, WriteRecord("loop")
  PROVE  ChurnInv'
<1>0. JobsOf /\ RequeueOK /\ "loop" \in Threads
  BY DEF ChurnInv, Threads
<1>1. PICK j, k : j = job["loop"] /\ k = job'["loop"]
  OBVIOUS
<1>2. At("loop", "record") /\ Step("loop") /\ UNCHANGED <<row, resumes, ledger, handle>>
  BY DEF WriteRecord, process
<1>3. /\ j.item \in Items /\ j.do \in Doing /\ j.step \in 1..Len(Plan(j.do))
      /\ Plan(j.do)[j.step] = "record"
  BY <1>0, <1>1, <1>2, AtPlace
<1>4. /\ j.do \in (Settling \ {"interrupted", "done", "blocked", "handed_over"})
                  \cup {"close_abandoned", "close_requeued"} \cup Verbing
      /\ j.do \in {"failed", "given_up"} => j.step = 2
  BY <1>3, RecordPlans
<1>5. j.do \notin Launching /\ j.do # "resume_pending" /\ j.do \notin Verbing
  BY <1>1, <1>4 DEF Settling, Launching, Verbing, LoopPlans
<1>6. /\ Quieter(j, k) /\ Failures(j, k) /\ OpQuieter(job["op"], job'["op"])
  BY <1>0, <1>1, <1>2, WriteQuieter
<1>7. ~Lifting(j) /\ \A i \in Items : ~Reopening(j, i)
  BY <1>5 DEF Lifting, Reopening, Launching
<1>8. ~Lifting(k) /\ \A i \in Items : ~Reopening(k, i)
  BY <1>6, <1>7 DEF Quieter
<1>9. \A s \in Runs :
        /\ rec'[s] = "failed" => rec[s] = "failed" \/ (s = j.run /\ j.do \in {"failed", "given_up"})
        /\ s = j.run /\ j.do = "provider_held" => rec'[s] = "provider_held"
        /\ s = j.run /\ j.do = "exhausted" => rounds'[s] = "granted"
        /\ rounds'[s] = "exhausted" => rounds[s] = "exhausted"
  BY <1>0, <1>1, RecordWritten
<1>10. RequeueOK'
  <2>1. k.do \in Requeueing => /\ k.do = j.do /\ k.item = j.item /\ k.run = j.run /\ j.run \in Runs
                               /\ k.do \in {"provider_held", "exhausted"}
    BY <1>0, <1>1, <1>5, <1>6 DEF Quieter, Closers, Requeueing, JobsOf
  <2> QED
    BY <1>0, <1>1, <1>2, <1>9, <2>1 DEF RequeueOK, Requeueing, Live
<1>11. ASSUME NEW i \in Items PROVE Owing(i)' <= Owing(i)
  <2>1. (Spent(i)' => Spent(i)) /\ ~Slipped(i)'
    BY <1>1, <1>2, <1>8, <1>9 DEF Spent, Slipped
  <2>2. \A s \in Runs : Flying(s)' => Flying(s)
    BY <1>1, <1>2, <1>8 DEF Flying, Live
  <2>3. ASSUME row[i].run \in Runs, rec'[row[i].run] = "failed", ~Failing(k, i)
        PROVE  rec[row[i].run] = "failed" /\ ~Failing(j, i)
    <3>1. ~Failing(j, i)
      BY <1>6, <2>3 DEF Failures
    <3>2. row[i].run # j.run \/ j.do \notin {"failed", "given_up"}
      <4>1. j.do \in {"failed", "given_up"} => ledger[j.run].item = j.item
        BY <1>0, <1>1 DEF JobsOf
      <4>2. ledger[row[i].run].item = i
        BY <2>3, ConstantsAssumption DEF IInv, Pinned
      <4>3. j.do \in {"failed", "given_up"} /\ j.item = i => Failing(j, i)
        BY <1>4 DEF Failing
      <4> QED
        BY <3>1, <4>1, <4>2, <4>3
    <3> QED
      BY <1>9, <2>3, <3>1, <3>2
  <2>4. Promised(i)' => Promised(i) \/ (Spent(i) /\ ~Spent(i)')
    <3>1. Exhausting(k, i) => Exhausting(j, i) /\ k.run = j.run
      BY <1>6 DEF Quieter
    <3> QED
      BY <1>1, <1>2, <1>8, <2>1, <2>2, <2>3, <3>1 DEF Promised
  <2> QED
    BY <1>6, <2>1, <2>4, OwingTrades DEF OpQuieter
<1> QED
  BY <1>0, <1>10, <1>11, RecordFrame

LEMMA OpRecordChurn ==
  ASSUME IInv, IInv', OpPlans, LoopPlans, ChurnInv, WriteRecord("op")
  PROVE  ChurnInv'
<1>0. JobsOf /\ RequeueOK /\ "op" \in Threads /\ "loop" \in Threads /\ JobsNamed
  BY DEF ChurnInv, Threads, IInv
<1>1. PICK j, o, p : j = job["loop"] /\ o = job["op"] /\ p = job'["op"]
  OBVIOUS
<1>2. At("op", "record") /\ Step("op") /\ UNCHANGED <<row, resumes, ledger, handle>>
  BY DEF WriteRecord, process
<1>3. /\ o.item \in Items /\ o.do \in Doing /\ o.step \in 1..Len(Plan(o.do)) /\ o.do # "idle"
      /\ Plan(o.do)[o.step] = "record" /\ o.step \in Nat
  BY <1>0, <1>1, <1>2, AtPlace DEF JobType
<1>4. /\ o.do \in Verbing
      /\ o.do \in {"abandon", "requeue"} => o.step = 3
      /\ o.do = "cancel_pending" => o.step = 2
  BY <1>1, <1>3, RecordPlans DEF OpPlans, Settling
<1>5. /\ job'["loop"] = j
      /\ \/ p = Idle
         \/ p.do = o.do /\ p.item = o.item /\ p.run = o.run /\ p.step = o.step + 1
  BY <1>0, <1>1, <1>2, Goes DEF Threads
<1>6. OpQuieter(o, p) /\ Quieter(j, job'["loop"]) /\ Recorded(j, job'["loop"])
  BY <1>0, <1>1, <1>2, WriteQuieter
<1>7. \A s \in Runs :
        /\ rec'[s] = "failed" => rec[s] = "failed"
        /\ rounds'[s] = "exhausted" => rounds[s] = "exhausted"
        /\ rec'[s] # rec[s] => s = o.run /\ o.do # "grant"
  BY <1>0, <1>1, <1>4, RecordWritten DEF Verbing
<1>8. RequeueOK'
  <2>1. j.do \in Requeueing => j.item \in Items
    BY <1>0, <1>1 DEF JobsNamed, Requeueing
  <2>2. \A s \in Runs : Live(s)' => Live(s)
    BY <1>2 DEF Live
  <2> QED
    BY <1>0, <1>1, <1>2, <1>6, <1>7, <2>1, <2>2, RequeueRest
<1>9. ASSUME NEW i \in Items PROVE Owing(i)' <= Owing(i)
  <2>1. Spent(i)' => Spent(i)
    BY <1>2, <1>7 DEF Spent
  <2>2. \A s \in Runs : Flying(s)' => Flying(s)
    BY <1>1, <1>2, <1>5 DEF Flying, Live
  <2>3. Promised(i)' => Promised(i) \/ (Spent(i) /\ ~Spent(i)')
    BY <1>1, <1>2, <1>5, <1>7, <2>1, <2>2 DEF Promised
  <2>4. ASSUME Slipped(i)', ~Slipped(i) PROVE Closing(o, i) /\ ~Closing(p, i)
    <3>1. Reopening(j, i) /\ j.run \in Runs /\ ledger[j.run].item = i
      BY <1>1, <1>5, <2>4 DEF Slipped, Reopening, IInv, LaunchReady
    <3>2. rec'[j.run] # rec[j.run]
      BY <1>1, <1>2, <1>5, <2>4 DEF Slipped, Live
    <3>3. j.run = o.run /\ o.do \in {"abandon", "requeue", "cancel_pending"}
      BY <1>4, <1>7, <3>1, <3>2 DEF Verbing
    <3>4. o.item = i
      BY <1>0, <1>1, <1>4, <3>1, <3>3, ConstantsAssumption DEF JobsOf
    <3>5. Closing(o, i)
      BY <1>4, <3>3, <3>4 DEF Closing
    <3>6. ~Closing(p, i)
      <4>1. CASE p = Idle
        BY <4>1 DEF Closing, Idle
      <4>2. CASE p.do = o.do /\ p.step = o.step + 1
        BY <1>4, <3>3, <4>2 DEF Closing
      <4> QED
        BY <1>5, <4>1, <4>2
    <3> QED
      BY <3>5, <3>6
  <2> QED
    BY <1>1, <1>6, <2>1, <2>3, <2>4, OwingTrades DEF OpQuieter
<1> QED
  BY <1>0, <1>8, <1>9, RecordFrame

-----------------------------------------------------------------------------
(* The writes of the row. *)

LEMMA RowPlans ==
  ASSUME NEW do \in Doing, NEW n \in 1..Len(Plan(do)), Plan(do)[n] = "row"
  PROVE  /\ do \in {"done", "blocked", "given_up", "handed_over", "cancelled", "cancelled_retry",
                    "cancel_pending", "failed", "unstarted"} \cup Requeueing
         /\ do \in {"exhausted", "provider_held", "failed", "given_up"} => n = 3
  BY DEF Plan, Doing, Launching, Settling, Recovering, Verbing, Requeueing

LEMMA RowAfterShape ==
  ASSUME NEW do, NEW w \in RowType
  PROVE  /\ RowAfter(do, w).attempts = w.attempts /\ RowAfter(do, w).claim = w.claim
         /\ RowAfter(do, w).state # "absent" /\ RowAfter(do, w).state # "running"
         /\ do \in {"failed", "unstarted"} => RowAfter(do, w).run = NoRun
         /\ do \notin {"failed", "unstarted"} => RowAfter(do, w).run = w.run
         /\ do \in {"done", "blocked", "given_up", "handed_over", "cancelled", "cancelled_retry",
                    "cancel_pending"} => RowAfter(do, w).state # "queued"
  BY DEF RowAfter, RowType

LEMMA OpRowChurn ==
  ASSUME IInv, IInv', OpPlans, ChurnInv, WriteRow("op")
  PROVE  ChurnInv'
<1>0. /\ row \in [Items -> RowType] /\ ClaimPinned /\ "op" \in Threads /\ JobsNamed' /\ "loop" \in Threads
  BY DEF ChurnInv, Threads, IInv, TypeOK
<1>1. At("op", "row") /\ Step("op")
  BY DEF WriteRow
<1>2. Frozen /\ DaemonRests /\ UNCHANGED bounds
  BY DEF WriteRow, Frozen, DaemonRests, records, process
<1>3. job["op"].do = "cancel_pending" /\ job["op"].item \in Items
  <2>1. PICK o : o = job["op"]
    OBVIOUS
  <2>2. o.item \in Items /\ o.step \in 1..Len(Plan(o.do)) /\ Plan(o.do)[o.step] = "row"
    BY <1>0, <1>1, <2>1, AtPlace
  <2>3. o.do \in {"idle", "deliver"} \cup Verbing
    BY <2>1 DEF OpPlans
  <2> QED
    BY <2>1, <2>2, <2>3, RowOfVerb
<1>4. PICK i \in Items : i = job["op"].item
  BY <1>3
<1>5. Calmer(job["loop"], job'["loop"]) /\ OpQuieter(job["op"], job'["op"])
  BY <1>0, <1>1, WriteQuieter DEF Calmer
<1>6. CASE row' = row
  <2>1. RowsStill
    BY <1>6 DEF RowsStill
  <2> QED
    BY <1>2, <1>5, <2>1, StillKeeps
<1>7. CASE row' # row
  <2>1. PICK w : w = RowAfter("cancel_pending", row[i])
    OBVIOUS
  <2>2. row' = [row EXCEPT ![i] = w]
    BY <1>3, <1>4, <1>7, <2>1 DEF WriteRow
  <2>3. row[i] \in RowType /\ row[i].attempts \in Nat
    BY <1>0 DEF RowType
  <2>4. w.attempts = row[i].attempts /\ w.claim = row[i].claim /\ w.run = row[i].run
        /\ w.state \notin {"absent", "running", "queued"}
    BY <2>1, <2>3, RowAfterShape
  <2>5. w.attempts <= row[i].attempts
    BY <2>3, <2>4
  <2>6. /\ \A x \in Items : RowRests(x) /\ Unqueued(x)
        /\ row'[i] = w /\ \A x \in Items \ {i} : row'[x] = row[x]
    BY <1>0, <2>2, <2>4, <2>5, OneRowRests
  <2>7. \A x \in Items : row'[x].run = row[x].run /\ row'[x].claim = row[x].claim
    BY <2>4, <2>6
  <2>8. job'["loop"].do = "start" => job'["loop"].item \in Items
    BY <1>0 DEF JobsNamed
  <2>9. job'["loop"].do = "start" /\ job'["loop"].step = 1 => row'[job'["loop"].item].claim = "yes"
    BY <1>0, <1>5, <2>7, <2>8 DEF ClaimPinned, Calmer, Started
  <2>10. Quiet
    BY <1>2, <1>5, <2>6, <2>7, <2>9 DEF Quiet, Resting, Calmer, Failures
  <2> QED
    BY <2>10, QuietKeeps
<1> QED
  BY <1>6, <1>7

LEMMA LoopRowChurn ==
  ASSUME IInv, IInv', LoopPlans, ChurnInv, WriteRow("loop")
  PROVE  ChurnInv'
<1>0. /\ row \in [Items -> RowType] /\ ClaimPinned /\ JobsOf /\ RequeueOK /\ "loop" \in Threads
  BY DEF ChurnInv, Threads, IInv, TypeOK
<1>1. PICK j, k : j = job["loop"] /\ k = job'["loop"]
  OBVIOUS
<1>2. At("loop", "row") /\ Step("loop")
  BY DEF WriteRow
<1>3. Frozen /\ DaemonRests /\ UNCHANGED bounds
  BY DEF WriteRow, Frozen, DaemonRests, records, process
<1>4. /\ j.item \in Items /\ j.do \in Doing /\ j.step \in 1..Len(Plan(j.do))
      /\ Plan(j.do)[j.step] = "row" /\ j.step \in Nat
  BY <1>0, <1>1, <1>2, AtPlace DEF JobType
<1>5. PICK i \in Items : i = j.item
  BY <1>4
<1>6. /\ j.do \in {"done", "blocked", "given_up", "handed_over", "cancelled", "cancelled_retry",
                   "cancel_pending", "failed", "unstarted"} \cup Requeueing
      /\ j.do \in {"exhausted", "provider_held", "failed", "given_up"} => j.step = 3
  BY <1>4, RowPlans
<1>7. /\ Quieter(j, k) /\ Recorded(j, k) /\ Started(j, k) /\ OpQuieter(job["op"], job'["op"])
  BY <1>0, <1>1, <1>2, WriteQuieter
<1>8. ~Lifting(j) /\ j.do # "start" /\ \A x \in Items : ~Reopening(j, x)
  BY <1>6 DEF Lifting, Reopening, Requeueing
<1>9. ~Lifting(k) /\ (\A x \in Items : ~Reopening(k, x)) /\ ~(k.do = "start" /\ k.step = 1)
  BY <1>7, <1>8 DEF Quieter, Started
<1>10. \A x \in Items : Failing(j, x) => x = i
  BY <1>5 DEF Failing
<1>11. CASE row' = row /\ row[i].state = "absent"
  <2>1. RowsStill
    BY <1>11 DEF RowsStill
  <2>2. \A x \in Items : RowRests(x) /\ Unqueued(x)
    BY <1>0, <2>1, StillRests
  <2>3. Quiet
    BY <1>1, <1>3, <1>7, <1>9, <1>10, <1>11, <2>2 DEF Quiet, Resting
  <2> QED
    BY <2>3, QuietKeeps
<1>12. CASE row[i].state # "absent"
  <2>1. PICK w : w = RowAfter(j.do, row[i])
    OBVIOUS
  <2>2. row' = [row EXCEPT ![i] = w]
    BY <1>1, <1>5, <1>12, <2>1 DEF WriteRow
  <2>3. row[i] \in RowType /\ row[i].attempts \in Nat /\ row[i].run \in Runs \cup {NoRun}
    BY <1>0 DEF RowType
  <2>4. /\ w.attempts = row[i].attempts /\ w.claim = row[i].claim
        /\ w.state # "absent" /\ w.state # "running"
        /\ j.do \in {"failed", "unstarted"} => w.run = NoRun
        /\ j.do \notin {"failed", "unstarted"} => w.run = row[i].run
        /\ j.do \in {"done", "blocked", "given_up", "handed_over", "cancelled", "cancelled_retry",
                    "cancel_pending"} => w.state # "queued"
    BY <2>1, <2>3, RowAfterShape
  <2>5. w.attempts <= row[i].attempts
    BY <2>3, <2>4
  <2>6. j.do \in {"failed", "unstarted"} => Credit(i) >= 1
    <3>1. j.do \in {"failed", "unstarted"} => Awaiting(i)
      BY <1>1, <1>5 DEF Awaiting
    <3> QED
      BY <3>1 DEF Credit
  <2>7. row'[i] = w /\ \A x \in Items \ {i} : row'[x] = row[x]
    BY <1>0, <2>2
  <2>8. CASE w.run = NoRun \/ w.state # "queued"
    <3>1. w.run = row[i].run \/ (w.run = NoRun /\ (Credit(i) >= 1 \/ w.attempts < MaxAttempts))
      BY <2>4, <2>6
    <3>2. w.run # NoRun => /\ w.claim = row[i].claim /\ w.state # "absent"
                           /\ w.state \in {"running", "queued"} => w.state = row[i].state
      BY <2>4, <2>8
    <3>3. \A x \in Items : RowRests(x) /\ Unqueued(x)
      BY <1>0, <2>2, <2>5, <3>1, <3>2, OneRowRests
    <3>4. Quiet
      BY <1>1, <1>3, <1>7, <1>9, <1>10, <2>7, <2>8, <3>3 DEF Quiet, Resting
    <3> QED
      BY <3>4, QuietKeeps
  <2>9. CASE w.run # NoRun /\ w.state = "queued"
    <3>1. j.do \in Requeueing /\ w.run = row[i].run /\ row[i].run \in Runs
      BY <1>6, <2>3, <2>4, <2>9
    <3>2. row[i].run = j.run /\ ~Live(j.run) /\ j.run \in Runs
          /\ (j.do # "exhausted" => rec[j.run] # "failed")
          /\ (j.do = "exhausted" => rounds[j.run] # "exhausted")
      BY <1>0, <1>1, <1>5, <1>6, <2>9, <3>1 DEF RequeueOK, Requeueing, JobsOf
    <3>3. ASSUME NEW x \in Items PROVE RowRests(x)
      <4>1. row[x].attempts \in Nat
        BY <1>0 DEF RowType
      <4> QED
        BY <1>0, <2>4, <2>5, <2>7, <3>1, <4>1 DEF RowRests, ClaimPinned
    <3>4. Resting
      BY <1>1, <1>3, <1>7, <1>9, <3>3 DEF Resting
    <3>5. ASSUME NEW x \in Items
          PROVE  (Spent(x)' => Spent(x)) /\ (Promised(x)' => Promised(x)) /\ (Slipped(x)' => Slipped(x))
      <4>1. CASE x # i
        <5>1. row'[x] = row[x] /\ ~Failing(j, x)
          BY <1>10, <2>7, <4>1
        <5>2. Unqueued(x) /\ row'[x].run = row[x].run
          BY <5>1 DEF Unqueued
        <5> QED
          BY <1>0, <1>1, <1>3, <1>7, <5>1, <5>2, TermsRest
      <4>2. CASE x = i
        <5>1. Spent(i)' <=> Spent(i)
          BY <1>3, <2>7, <3>1 DEF Spent, Frozen
        <5>2. ~Slipped(i)'
          BY <1>1, <1>9 DEF Slipped
        <5>3. ~Flying(j.run)'
          BY <1>1, <1>3, <1>9, <3>2 DEF Flying, Live, Frozen
        <5>4. j.do = "exhausted" => Promised(i)
          BY <1>1, <1>5, <1>6, <3>1, <3>2 DEF Promised, Exhausting, Spent
        <5>5. Exhausting(k, i) => j.do = "exhausted"
          BY <1>7 DEF Quieter, Exhausting
        <5>6. rec' = rec /\ row'[i].run = j.run
          BY <1>3, <2>7, <3>1, <3>2 DEF Frozen
        <5>7. Promised(i)' => Promised(i)
          BY <1>1, <1>9, <3>2, <5>3, <5>4, <5>5, <5>6 DEF Promised
        <5> QED
          BY <4>2, <5>1, <5>2, <5>7
      <4> QED
        BY <4>1, <4>2
    <3>6. \A x \in Items : Owing(x)' <= Owing(x)
      BY <1>7, <3>5, OwingRests DEF OpQuieter
    <3> QED
      BY <3>4, <3>6, RestingKeeps
  <2> QED
    BY <2>8, <2>9
<1> QED
  BY <1>1, <1>5, <1>11, <1>12 DEF WriteRow

LEMMA RegrantPlans ==
  ASSUME NEW do \in Doing, NEW n \in 1..Len(Plan(do)), Plan(do)[n] = "regrant"
  PROVE  do = "grant" /\ n = 2 /\ n < Len(Plan(do))
  BY DEF Plan, Doing, Launching, Settling, Recovering, Verbing

\* resume_exhausted hands the resume it was granted to the queue.
LEMMA RegrantChurn ==
  ASSUME IInv, IInv', ChurnInv, Regrant
  PROVE  ChurnInv'
<1>0. /\ row \in [Items -> RowType] /\ ClaimPinned /\ "op" \in Threads /\ "loop" \in Threads
      /\ JobsNamed /\ job \in [Threads -> JobType]
  BY DEF ChurnInv, Threads, IInv, TypeOK
<1>1. At("op", "regrant")
  BY DEF Regrant
<1>2. Frozen /\ DaemonRests /\ UNCHANGED bounds
  BY DEF Regrant, Frozen, DaemonRests, records, process
<1>3. PICK j, o, p : j = job["loop"] /\ o = job["op"] /\ p = job'["op"]
  OBVIOUS
<1>4. o.do = "grant" /\ o.step = 2 /\ o.step < Len(Plan(o.do)) /\ o.item \in Items
  <2>1. /\ o.do \in Doing /\ o.step \in 1..Len(Plan(o.do)) /\ Plan(o.do)[o.step] = "regrant"
        /\ o.item \in Items
    BY <1>0, <1>1, <1>3, AtPlace
  <2> QED
    BY <2>1, RegrantPlans
<1>5. PICK i \in Items : i = o.item
  BY <1>4
<1>6. job'["loop"] = j
  BY <1>0, <1>3 DEF Regrant, Finish, Threads
<1>7. Calmer(j, job'["loop"])
  BY <1>6, SameCalmer
<1>8. CASE row' = row /\ Finish("op")
  <2>1. RowsStill /\ p = Idle
    BY <1>0, <1>3, <1>8 DEF RowsStill, Finish
  <2> QED
    BY <1>2, <1>3, <1>7, <2>1, IdleQuieter, StillKeeps
<1>9. CASE ~(row' = row /\ Finish("op"))
  <2>1. PICK owed, w : /\ w = [row[i] EXCEPT !.state = "queued", !.owed = owed]
                       /\ row' = [row EXCEPT ![i] = w]
                       /\ job' = [job EXCEPT !["op"] = [Advance("op") EXCEPT !.kind = owed]]
                       /\ row[i].state \in {"failed", "queued"}
    BY <1>3, <1>5, <1>9 DEF Regrant
  <2>2. row[i] \in RowType /\ row[i].attempts \in Nat
    BY <1>0 DEF RowType
  <2>3. w.run = row[i].run /\ w.attempts = row[i].attempts /\ w.claim = row[i].claim /\ w.state = "queued"
    BY <2>1, <2>2 DEF RowType
  <2>4. row'[i] = w /\ \A x \in Items \ {i} : row'[x] = row[x]
    BY <1>0, <2>1
  <2>5. p.do = "grant" /\ p.step = 3 /\ p.item = i /\ p.run = o.run
    <3>1. PICK a : a = Advance("op")
      OBVIOUS
    <3>2. o \in JobType
      BY <1>0, <1>3
    <3>3. ~(o.step >= Len(Plan(o.do)))
      BY <1>4 DEF Plan
    <3>4. a = [o EXCEPT !.step = @ + 1]
      BY <1>3, <3>1, <3>3 DEF Advance
    <3>5. a.do = "grant" /\ a.step = 3 /\ a.item = i /\ a.run = o.run /\ a \in JobType
      BY <1>4, <1>5, <3>2, <3>4 DEF JobType
    <3>6. p = [a EXCEPT !.kind = owed]
      BY <1>0, <1>3, <2>1, <3>1
    <3> QED
      BY <3>5, <3>6 DEF JobType
  <2>6. OpQuieter(o, p) /\ Granting(o, i) /\ \A x \in Items : ~Granting(p, x) /\ ~Closing(p, x)
    BY <1>4, <1>5, <2>5 DEF OpQuieter, Granting, Closing, Verbing
  <2>7. ASSUME NEW x \in Items
        PROVE  RowRests(x) /\ row'[x].run = row[x].run /\ row'[x].claim = row[x].claim
    <3>1. row[x].attempts \in Nat
      BY <1>0 DEF RowType
    <3> QED
      BY <1>0, <2>2, <2>3, <2>4, <3>1 DEF RowRests, ClaimPinned
  <2>8. Resting
    <3>1. j.do = "start" => j.item \in Items
      BY <1>0, <1>3 DEF JobsNamed
    <3>2. j.do = "start" /\ j.step = 1 => row'[j.item].claim = "yes"
      BY <1>0, <1>3, <2>7, <3>1 DEF ClaimPinned
    <3> QED
      BY <1>2, <1>3, <1>6, <1>7, <2>6, <2>7, <3>2 DEF Resting, Calmer
  <2>9. ASSUME NEW x \in Items PROVE Owing(x)' <= Owing(x)
    <3>1. (Spent(x)' <=> Spent(x)) /\ (Slipped(x)' => Slipped(x))
      <4>1. Reopening(j, x) => j.run \in Runs
        BY <1>3 DEF Reopening, IInv, LaunchReady
      <4> QED
        BY <1>2, <1>3, <1>6, <2>7, <4>1 DEF Spent, Slipped, Frozen, Live
    <3>2. x # i => (Promised(x)' => Promised(x))
      <4>1. \A s \in Runs : Flying(s)' => Flying(s)
        BY <1>2, <1>3, <1>6 DEF Flying, Live, Frozen
      <4> QED
        BY <1>2, <1>3, <1>6, <2>4, <3>1, <4>1 DEF Promised, Frozen
    <3>3. x = i => Granting(o, x) /\ ~Granting(p, x)
      BY <2>6
    <3>4. /\ Promised(x)' => Promised(x) \/ (Granting(job["op"], x) /\ ~Granting(job'["op"], x))
          /\ Granting(job'["op"], x) => Granting(job["op"], x)
          /\ Closing(job'["op"], x) => Closing(job["op"], x)
      BY <1>3, <2>6, <3>2, <3>3
    <3> QED
      BY <3>1, <3>4, OwingTrades
  <2> QED
    BY <2>8, <2>9, RestingKeeps
<1> QED
  BY <1>8, <1>9

-----------------------------------------------------------------------------
(* Every step. *)

LEMMA ChurnInit == Init => ChurnInv /\ LoopPlans
<1> SUFFICES ASSUME Init PROVE ChurnInv /\ LoopPlans
  OBVIOUS
<1>1. PICK j : j = job["loop"] /\ j = job["op"] /\ j = Idle
  BY DEF Init, Threads
<1>2. j.do = "idle"
  BY <1>1 DEF Idle
<1>3. /\ \A i \in Items : /\ row[i].run = NoRun /\ row[i].state = "absent" /\ row[i].attempts = 0
                          /\ resumes[i] = 0
      /\ \A r \in Runs : rec[r] = "none" /\ rounds[r] = "fresh"
      /\ verbs = 0 /\ crashes = 0 /\ daemon = "up"
  BY DEF Init
<1>4. ClaimPinned /\ JobsOf /\ RequeueOK /\ RoundsOK /\ LoopPlans
  BY <1>1, <1>2, <1>3 DEF ClaimPinned, JobsOf, RequeueOK, RoundsOK, LoopPlans, Verbing
<1>5. \A i \in Items : ~Opening(j, i) /\ ~Reopening(j, i) /\ ~Exhausting(j, i)
                       /\ ~Granting(j, i) /\ ~Closing(j, i)
  BY <1>2 DEF Opening, Reopening, Exhausting, Granting, Closing
<1>6. AttemptsPaid
  <2> SUFFICES ASSUME NEW i \in Items PROVE row[i].attempts + Credit(i) <= MaxAttempts + verbs + crashes
    BY DEF AttemptsPaid
  <2>1. Credit(i) = 1
    BY <1>1, <1>3, <1>5 DEF Credit, Awaiting
  <2> QED
    BY <1>3, <2>1, ConstantsAssumption
<1>7. ResumesPaid
  <2> SUFFICES ASSUME NEW i \in Items
               PROVE  Owing(i) <= Paid(i) /\ resumes[i] + Owing(i) <= MaxResumes + Paid(i)
    BY DEF ResumesPaid
  <2>1. ~Spent(i) /\ ~Promised(i) /\ ~Slipped(i)
    BY <1>1, <1>3, <1>5, ConstantsAssumption DEF Spent, Promised, Slipped
  <2>2. Owing(i) = 0
    BY <1>1, <1>5, <2>1 DEF Owing, One
  <2>3. Cardinality(Burnt(i)) \in Nat
    BY BurntNat
  <2>4. PICK n \in Nat : n = Cardinality(Burnt(i))
    BY <2>3
  <2> QED
    BY <1>3, <2>2, <2>4, ConstantsAssumption DEF Paid
<1> QED
  BY <1>4, <1>6, <1>7 DEF ChurnInv

LEMMA ChurnNext ==
  ASSUME IInv, RowInv, OpPlans, LoopPlans, ChurnInv, [Next]_vars
  PROVE  ChurnInv'
<1>0. IInv' /\ "loop" \in Threads /\ "op" \in Threads
  BY IInvNext DEF Threads
<1>1. ASSUME NEW t \in Threads, Write(t) PROVE ChurnInv'
  <2>1. CASE WriteRecord(t)
    BY <1>0, <2>1, LoopRecordChurn, OpRecordChurn DEF Threads
  <2>2. CASE WriteRow(t)
    BY <1>0, <2>2, LoopRowChurn, OpRowChurn DEF Threads
  <2>3. CASE \/ Sweep(t) \/ WriteLedger(t) \/ TellOutcome(t) \/ OutcomeRefused(t) \/ TakeOutcome(t)
             \/ TakeDecision(t) \/ TellDecision(t)
    BY <1>0, <2>3, QuietWrites
  <2> QED
    BY <1>1, <2>1, <2>2, <2>3 DEF Write
<1>2. CASE Tick
  <2>1. CASE \E i \in Items : Discover(i)
    BY <1>0, <2>1, QuietRows
  <2>2. CASE \E i \in Items : Pick(i)
    BY <1>0, <2>2, PickChurn
  <2>3. CASE \/ \E i \in Items : DeliverPending(i)
             \/ \E r \in Runs : PollOverride(r)
    BY <1>0, <2>3, QuietOthers
  <2>4. CASE \E r \in Runs : SettleRun(r)
    BY <1>0, <2>4, SettleRunChurn
  <2>5. CASE \E r \in Runs : StaleSweep(r)
    BY <1>0, <2>5, SweepKeeps
  <2> QED
    BY <1>2, <2>1, <2>2, <2>3, <2>4, <2>5 DEF Tick
<1>3. CASE LoopStep
  <2>1. CASE ClaimWon \/ ClaimLost \/ CancelledAgain
    BY <1>0, <2>1, QuietRows
  <2>2. CASE MarkRunning
    BY <1>0, <2>2, MarkRunningChurn
  <2>3. CASE MarkResuming
    BY <1>0, <2>3, MarkResumingChurn
  <2>4. CASE MarkResumingRaises
    BY <1>0, <2>4, EndKeepsChurn
  <2>5. CASE Launch
    BY <1>0, <2>5, LaunchChurn
  <2>6. CASE Report
    BY <1>0, <2>6, QuietWrites
  <2>7. CASE LookUp
    BY <1>0, <2>7, QuietOthers
  <2> QED
    BY <1>0, <1>1, <1>3, <2>1, <2>2, <2>3, <2>4, <2>5, <2>6, <2>7 DEF LoopStep
<1>4. CASE Engine
  BY <1>0, <1>4, EngineBeginKeeps, EngineEndKeeps DEF Engine
<1>5. CASE Operator
  BY <1>0, <1>5, ItemVerbsPay, RunVerbsPay DEF Operator
<1>6. CASE OpStep
  <2>1. CASE StopCurrent
    BY <1>0, <2>1, QuietOthers
  <2>2. CASE Regrant
    BY <1>0, <2>2, RegrantChurn
  <2> QED
    BY <1>0, <1>1, <1>6, <2>1, <2>2 DEF OpStep
<1>7. CASE Recover
  <2>1. CASE Restart \/ RecoverNext \/ \E r \in Runs : SettleOffline(r)
    BY <1>0, <2>1, QuietOthers
  <2>2. CASE \E i \in Items : RecoverRunning(i)
    BY <1>0, <2>2, RecoverRunningChurn
  <2>3. CASE \E i \in Items : \E landed \in BOOLEAN : SettleHalfClaim(i, landed)
    BY <1>0, <2>3, QuietRows
  <2>4. CASE \E r \in Runs : ReconcileOrphan(r)
    BY <1>0, <2>4, SweepKeeps
  <2> QED
    BY <1>7, <2>1, <2>2, <2>3, <2>4 DEF Recover
<1>8. CASE Exit \/ Crash
  BY <1>0, <1>8, EndKeepsChurn
<1>9. CASE UNCHANGED vars
  BY <1>0, <1>9, QuietOthers
<1> QED
  BY <1>2, <1>3, <1>4, <1>5, <1>6, <1>7, <1>8, <1>9 DEF Next

\* What is spent is within what was paid for, credits aside.
LEMMA ChurnWithin == IInv /\ ChurnInv => ChurnBounded
<1> SUFFICES ASSUME IInv, ChurnInv, NEW i \in Items
             PROVE  /\ row[i].attempts <= MaxAttempts + verbs + crashes
                    /\ resumes[i] <= MaxResumes + verbs + crashes
                         + Cardinality({r \in Runs : ledger[r].item = i /\ rounds[r] # "fresh"})
  BY DEF ChurnBounded
<1>1. PICK a \in Nat, n \in Nat, v \in Nat, w \in Nat, m \in Nat, q \in Nat :
        /\ a = row[i].attempts /\ n = resumes[i] /\ v = verbs /\ w = crashes
        /\ m = MaxAttempts /\ q = MaxResumes
  BY ConstantsAssumption DEF IInv, TypeOK, RowType
<1>2. PICK c \in 0..2, d \in 0..5, b \in Nat :
        c = Credit(i) /\ d = Owing(i) /\ b = Cardinality(Burnt(i))
  BY CreditNat, OwingNat, BurntNat
<1>3. a + c <= m + v + w /\ n + d <= q + (v + w + b)
  BY <1>1, <1>2 DEF ChurnInv, AttemptsPaid, ResumesPaid, Paid
<1>4. a <= m + v + w /\ n <= q + v + w + b
  BY <1>3
<1> QED
  BY <1>1, <1>2, <1>4 DEF Burnt

\* The budgets hold for every number of items, runs, verbs and crashes: beyond
\* max_attempts_per_item and max_resumes_per_item an item is attempted or resumed at most
\* once more per operator verb and per crash, and resumed once more per run that used up
\* its fix rounds, in whatever order settles, verbs, recoveries and grants interleave.
THEOREM ChurnIsBounded == Spec => []ChurnBounded
<1>1. IInv /\ RowInv /\ OpPlans /\ [Next]_vars => RowInv' /\ OpPlans'
  BY RowInvNext
<1>2. IInv /\ LoopPlans /\ [Next]_vars => LoopPlans'
  BY LoopPlansNext
<1>3. IInv /\ RowInv /\ OpPlans /\ LoopPlans /\ ChurnInv /\ [Next]_vars => ChurnInv'
  BY ChurnNext
<1> QED
  BY IInvInit, IInvNext, RowInvInit, ChurnInit, ChurnWithin, <1>1, <1>2, <1>3, PTL DEF Spec

-----------------------------------------------------------------------------
(***************************************************************************)
(* Merges reported.  A merge's debt is recorded with the state, and taken  *)
(* only once the source confirmed.  The loop thread tells and takes one    *)
(* report at a time, and nothing but its own write makes a row done: so    *)
(* what it is about to take from a merged row is the merge it told.  The   *)
(* operator's thread takes whatever debt it finds, so the verbs that       *)
(* report from there are left out (Mute).                                  *)
(***************************************************************************)
Mute == job["op"].do \in {"idle", "requeue", "cancel_pending"}

\* The plans that end in a report of their own; job k is about to take the debt it told.
Reporting == {"cancelled", "cancelled_retry", "failed", "given_up", "exhausted", "handed_over"}
Confirming(k) == \/ k.do = "deliver" /\ k.step = 2
                 \/ k.do = "overridden" /\ k.step = 4
                 \/ k.do \in {"done", "blocked"} /\ k.step = 5

\* What the loop's job k still has to say of a merged row: the merge, or nothing.
Tells(k, w, h) ==
  /\ k.do = "done" /\ k.step \in 1..3 => k.kind = "none"
  /\ k.do # "idle" /\ w[k.item].state = "done" =>
       /\ k.do \notin Reporting /\ k.kind \in {"merged", "none"}
       /\ k.kind = "merged" /\ Confirming(k) => h[k.item] = "merged"

DebtsTrue ==
  \A i \in Items : row[i].state = "done" =>
    row[i].owed \in {"none", "merged"} /\ (row[i].owed = "none" => heard[i] = "merged")

HeardInv == Tells(job["loop"], row, heard) /\ DebtsTrue /\ Mute

\* Where the reports stand in the plans of the loop.
LEMMA TellPlans ==
  ASSUME NEW do \in Doing, do \notin Verbing, NEW n \in 1..Len(Plan(do))
  PROVE  /\ Plan(do)[n] = "paid" => (do = "deliver" /\ n = 2) \/ (do = "overridden" /\ n = 4)
                                    \/ (do \in {"done", "blocked"} /\ n = 5)
         /\ Plan(do)[n] = "pay" => do \notin Reporting /\ (do = "done" => n = 4)
         /\ Plan(do)[n] = "look" => do \notin Reporting /\ do \notin {"deliver", "overridden"} /\ n = 3
         /\ Plan(do)[n] \notin {"pay", "paid"} => ~(do = "deliver" /\ n = 1)
                                    /\ ~(do = "overridden" /\ n = 3)
                                    /\ ~(do \in {"done", "blocked"} /\ n = 4)
         /\ Plan(do)[n] = "report" => do \in Reporting
         /\ Plan(do)[n] = "row" /\ do = "done" => n = 2
  BY DEF Plan, Doing, Launching, Settling, Recovering, Verbing, Reporting

LEMMA MutePlans ==
  ASSUME NEW do \in {"idle", "requeue", "cancel_pending"}, NEW n \in 1..Len(Plan(do))
  PROVE  Plan(do)[n] \in {"stop", "sweep", "record", "ledger", "row"}
  BY DEF Plan

\* The next write of the same report.
LEMMA GoesOn ==
  ASSUME IInv, NEW t \in Threads, NEW s, At(t, s), Step(t)
  PROVE  \/ job'[t].do = "idle"
         \/ /\ job'[t].do = job[t].do /\ job'[t].item = job[t].item
            /\ job'[t].kind = job[t].kind /\ job'[t].step = job[t].step + 1
<1>1. job[t] \in JobType
  BY AtPlace
<1>2. PICK a, j : a = Advance(t) /\ j = job[t]
  OBVIOUS
<1>3. job'[t] = a
  BY <1>2 DEF Step, IInv, TypeOK
<1>4. a = Idle \/ a = [j EXCEPT !.step = @ + 1]
  BY <1>2 DEF Advance
<1>5. a.do = "idle" \/ (a.do = j.do /\ a.item = j.item /\ a.kind = j.kind /\ a.step = j.step + 1)
  <2>1. CASE a = Idle
    BY <2>1 DEF Idle
  <2>2. CASE a = [j EXCEPT !.step = @ + 1]
    BY <1>1, <1>2, <2>2 DEF JobType
  <2> QED
    BY <1>4, <2>1, <2>2
<1> QED
  BY <1>2, <1>3, <1>5

\* No row becomes done, and the done ones keep their debt and what was heard of them.
NoneDone == \A i \in Items : row'[i].state = "done" =>
              row[i].state = "done" /\ row'[i].owed = row[i].owed /\ heard'[i] = heard[i]

LEMMA NoneDoneKeeps ==
  ASSUME NoneDone, DebtsTrue
  PROVE  DebtsTrue'
  BY DEF NoneDone, DebtsTrue

LEMMA StillTells ==
  ASSUME NoneDone, NEW j, NEW k, Tells(j, row, heard), j.do # "idle" => j.item \in Items,
         k = j \/ k.do = "idle"
  PROVE  Tells(k, row', heard')
  BY DEF NoneDone, Tells

\* A step of the loop's plan that is not part of a report.
LEMMA PlainTells ==
  ASSUME IInv, LoopPlans, HeardInv, NoneDone, NEW s, At("loop", s), Step("loop"),
         s \notin {"pay", "paid", "look"}
  PROVE  HeardInv'
<1>0. "loop" \in Threads /\ "op" \in Threads
  BY DEF Threads
<1>1. PICK j, k : j = job["loop"] /\ k = job'["loop"]
  OBVIOUS
<1>2. /\ j.item \in Items /\ j.do \in Doing /\ j.do \notin Verbing /\ j.step \in 1..Len(Plan(j.do))
      /\ Plan(j.do)[j.step] = s /\ j.do # "idle" /\ j.step \in Nat
  BY <1>0, <1>1, AtPlace DEF LoopPlans, JobType
<1>3. \/ k.do = "idle"
      \/ k.do = j.do /\ k.item = j.item /\ k.kind = j.kind /\ k.step = j.step + 1
  BY <1>0, <1>1, GoesOn
<1>4. k.do # "idle" => ~Confirming(k)
  <2>1. ~(j.do = "deliver" /\ j.step = 1) /\ ~(j.do = "overridden" /\ j.step = 3)
        /\ ~(j.do \in {"done", "blocked"} /\ j.step = 4)
    BY <1>2, TellPlans
  <2> QED
    BY <1>2, <1>3, <2>1 DEF Confirming
<1>5. Tells(j, row, heard) /\ DebtsTrue /\ Mute
  BY <1>1 DEF HeardInv
<1>6. Tells(k, row', heard')
  BY <1>2, <1>3, <1>4, <1>5 DEF Tells, NoneDone
<1>7. job'["op"] = job["op"]
  BY <1>0 DEF Step, IInv, TypeOK
<1> QED
  BY <1>1, <1>5, <1>6, <1>7, NoneDoneKeeps DEF HeardInv, Mute
\* A step that leaves the loop's job alone, or ends it.
LEMMA AsideTells ==
  ASSUME IInv, HeardInv, NoneDone, job'["loop"] = job["loop"] \/ job'["loop"] = Idle, Mute'
  PROVE  HeardInv'
<1>1. job["loop"].do # "idle" => job["loop"].item \in Items
  BY DEF IInv, JobsNamed, Threads
<1>2. Idle.do = "idle"
  BY DEF Idle
<1> QED
  BY <1>1, <1>2, StillTells, NoneDoneKeeps DEF HeardInv

\* The loop begins on a row that is not merged, or has nothing to say of it.
LEMMA BeginTells ==
  ASSUME IInv, HeardInv, NoneDone, NEW do, NEW i \in Items, NEW r, NEW kind,
         job' = [job EXCEPT !["loop"] = Begin(do, i, r, kind)],
         do = "done" => kind = "none",
         row'[i].state = "done" => do \notin Reporting /\ kind \in {"merged", "none"}
  PROVE  HeardInv'
<1>1. PICK k : k = job'["loop"]
  OBVIOUS
<1>2. k.do = do /\ k.item = i /\ k.step = 1 /\ k.kind = kind /\ job'["op"] = job["op"]
  <2>1. k = Begin(do, i, r, kind) /\ job'["op"] = job["op"]
    BY <1>1 DEF IInv, TypeOK, Threads
  <2> QED
    BY <2>1 DEF Begin
<1>3. ~Confirming(k)
  BY <1>2 DEF Confirming
<1>4. Tells(k, row', heard')
  BY <1>2, <1>3 DEF Tells
<1> QED
  BY <1>1, <1>2, <1>4, NoneDoneKeeps DEF HeardInv, Mute

\* Rows left alone, or written in another state than done.
LEMMA RowNoneDone ==
  ASSUME IInv, heard' = heard,
         row' = row \/ \E i \in Items : \E w : row' = [row EXCEPT ![i] = w]
                                              /\ (w.state = "done" => row[i].state = "done" /\ w.owed = row[i].owed)
  PROVE  NoneDone
<1>1. CASE row' = row
  BY <1>1 DEF NoneDone
<1>2. ASSUME NEW i \in Items, NEW w, row' = [row EXCEPT ![i] = w],
             w.state = "done" => row[i].state = "done" /\ w.owed = row[i].owed
      PROVE  NoneDone
  <2>1. row'[i] = w /\ \A x \in Items \ {i} : row'[x] = row[x]
    BY <1>2 DEF IInv, TypeOK
  <2> QED
    BY <1>2, <2>1 DEF NoneDone
<1> QED
  BY <1>1, <1>2

LEMMA HeardTick ==
  ASSUME IInv, RowInv, HeardInv, Tick
  PROVE  HeardInv'
<1>0. row \in [Items -> RowType]
  BY DEF IInv, TypeOK
<1>1. ASSUME NEW i \in Items, Discover(i) PROVE HeardInv'
  <2>1. PICK w : w = [row[i] EXCEPT !.state = "queued"]
    OBVIOUS
  <2>2. row' = [row EXCEPT ![i] = w] /\ w.state = "queued" /\ heard' = heard /\ job' = job
    BY <1>0, <1>1, <2>1 DEF Discover, external, RowType
  <2>3. NoneDone
    BY <2>2, RowNoneDone
  <2> QED
    BY <2>2, <2>3, AsideTells DEF HeardInv, Mute
<1>2. ASSUME NEW i \in Items, Pick(i) PROVE HeardInv'
  <2>1. PICK do : do = Dispatch(i)
    OBVIOUS
  <2>2. do # "done"
    BY <2>1, Dispatches
  <2>3. PICK r : job' = [job EXCEPT !["loop"] = Begin(do, i, r, "none")]
    BY <1>2, <2>1 DEF Pick
  <2>4. PICK w : w = [row[i] EXCEPT !.claim = "posting"]
    OBVIOUS
  <2>5. row[i].state = "queued" /\ (row' = row \/ row' = [row EXCEPT ![i] = w]) /\ heard' = heard
    BY <1>2, <2>4 DEF Pick, external
  <2>6. w.state = "queued"
    BY <1>0, <2>4, <2>5 DEF RowType
  <2>7. NoneDone /\ row'[i].state = "queued"
    <3>1. NoneDone
      BY <2>5, <2>6, RowNoneDone
    <3> QED
      BY <1>0, <2>5, <2>6, <3>1
  <2> QED
    BY <2>2, <2>3, <2>7, BeginTells
<1>3. ASSUME NEW i \in Items, DeliverPending(i) PROVE HeardInv'
  <2>1. job' = [job EXCEPT !["loop"] = Begin("deliver", i, NoRun, row[i].owed)] /\ row' = row /\ heard' = heard
    BY <1>3 DEF DeliverPending, external
  <2>2. row[i].state = "done" => row[i].owed \in {"merged", "none"}
    BY DEF HeardInv, DebtsTrue
  <2>3. NoneDone /\ "deliver" \notin Reporting
    BY <2>1 DEF NoneDone, Reporting
  <2>4. PICK owed : owed = row[i].owed
    OBVIOUS
  <2>5. job' = [job EXCEPT !["loop"] = Begin("deliver", i, NoRun, owed)]
    BY <2>1, <2>4
  <2>6. row'[i].state = "done" => "deliver" \notin Reporting /\ owed \in {"merged", "none"}
    BY <2>1, <2>2, <2>3, <2>4
  <2>7. "deliver" # "done"
    OBVIOUS
  <2> QED
    BY <2>3, <2>5, <2>6, <2>7, BeginTells
<1>4. ASSUME NEW r \in Runs, SettleRun(r) PROVE HeardInv'
  <2>1. PICK i \in Items : i = ledger[r].item
    BY <1>4 DEF SettleRun, IInv, LiveOwned, Live
  <2>2. PICK v, kind : /\ v = Verdict(r) /\ kind = IF v = "overridden" THEN row[i].owed ELSE "none"
                       /\ job' = [job EXCEPT !["loop"] = Begin(v, i, r, kind)] /\ row' = row /\ heard' = heard
    BY <1>4, <2>1 DEF SettleRun, external
  <2>3. NoneDone
    BY <2>2 DEF NoneDone
  <2>4. row[i].state = "done" => v = "dropped"
    BY <2>1, <2>2 DEF Verdict, Overridden, OnRun
  <2>5. (v = "done" => kind = "none") /\ (row'[i].state = "done" => v \notin Reporting /\ kind \in {"merged", "none"})
    BY <2>2, <2>4 DEF Reporting
  <2> QED
    BY <2>2, <2>3, <2>5, BeginTells
<1>5. ASSUME NEW r \in Runs, PollOverride(r) \/ StaleSweep(r) PROVE HeardInv'
  <2>1. row' = row /\ heard' = heard /\ job' = job
    BY <1>5 DEF PollOverride, StaleSweep, external
  <2>2. NoneDone
    BY <2>1 DEF NoneDone
  <2> QED
    BY <2>1, <2>2, AsideTells DEF HeardInv, Mute
<1> QED
  BY <1>1, <1>2, <1>3, <1>4, <1>5 DEF Tick

LEMMA HeardRecover ==
  ASSUME IInv, RowInv, HeardInv, Recover
  PROVE  HeardInv'
<1>0. row \in [Items -> RowType]
  BY DEF IInv, TypeOK
<1>1. ASSUME NEW i \in Items, RecoverRunning(i) PROVE HeardInv'
  <2>1. PICK v : v = Recovery(i)
    OBVIOUS
  <2>2. /\ job' = [job EXCEPT !["loop"] = Begin(v, i, row[i].run, "none")]
        /\ row' = row /\ heard' = heard /\ row[i].state = "running"
    BY <1>1, <2>1 DEF RecoverRunning, external
  <2>3. NoneDone
    BY <2>2 DEF NoneDone
  <2>4. PICK r : r = row[i].run
    OBVIOUS
  <2> QED
    BY <2>2, <2>3, <2>4, BeginTells
<1>2. ASSUME NEW r \in Runs, SettleOffline(r) PROVE HeardInv'
  <2>1. PICK do \in {"close_abandoned", "close_requeued"} :
          job' = [job EXCEPT !["loop"] = Begin(do, ledger[r].item, r, "none")] /\ row' = row /\ heard' = heard
    BY <1>2 DEF SettleOffline, external
  <2>2. ledger[r].item \in Items
    BY <1>2 DEF SettleOffline, OfflineAbandon, OfflineRequeue, Unsettled, Fresh, IInv, TypeOK
  <2>3. PICK i \in Items : i = ledger[r].item
    BY <2>2
  <2>4. NoneDone /\ do \notin Reporting /\ do # "done"
    BY <2>1 DEF NoneDone, Reporting
  <2> QED
    BY <2>1, <2>3, <2>4, BeginTells
<1>3. ASSUME NEW i \in Items, NEW landed \in BOOLEAN, SettleHalfClaim(i, landed) PROVE HeardInv'
  <2>1. PICK w : w = [row[i] EXCEPT !.claim = IF landed THEN "yes" ELSE "no"]
    OBVIOUS
  <2>2. row' = [row EXCEPT ![i] = w] /\ w.state = "queued" /\ heard' = heard /\ job' = job
    BY <1>0, <1>3, <2>1 DEF SettleHalfClaim, HalfClaimed, external, RowType
  <2>3. NoneDone
    BY <2>2, RowNoneDone
  <2> QED
    BY <2>2, <2>3, AsideTells DEF HeardInv, Mute
<1>4. ASSUME Restart \/ RecoverNext \/ \E r \in Runs : ReconcileOrphan(r) PROVE HeardInv'
  <2>1. row' = row /\ heard' = heard /\ job' = job
    BY <1>4 DEF Restart, RecoverNext, ReconcileOrphan, external
  <2>2. NoneDone
    BY <2>1 DEF NoneDone
  <2> QED
    BY <2>1, <2>2, AsideTells DEF HeardInv, Mute
<1> QED
  BY <1>1, <1>2, <1>3, <1>4 DEF Recover

\* The loop writes the row of its plan.
LEMMA HeardRow ==
  ASSUME IInv, LoopPlans, HeardInv, WriteRow("loop")
  PROVE  HeardInv'
<1>0. "loop" \in Threads /\ "op" \in Threads /\ At("loop", "row") /\ Step("loop") /\ heard' = heard
  BY DEF WriteRow, Threads, external
<1>1. PICK j, k : j = job["loop"] /\ k = job'["loop"]
  OBVIOUS
<1>2. /\ j.item \in Items /\ j.do \in Doing /\ j.do \notin Verbing /\ j.step \in 1..Len(Plan(j.do))
      /\ Plan(j.do)[j.step] = "row" /\ j.step \in Nat /\ row[j.item] \in RowType
  BY <1>0, <1>1, AtPlace DEF LoopPlans, JobType, IInv, TypeOK
<1>3. PICK w : w = RowAfter(j.do, row[j.item])
  OBVIOUS
<1>4. row' = row \/ row' = [row EXCEPT ![j.item] = w]
  BY <1>1, <1>3 DEF WriteRow
<1>5. w.state = "done" => j.do = "done"
  BY <1>2, <1>3, RowTaken
<1>6. CASE NoneDone
  BY <1>0, <1>6, PlainTells
<1>7. CASE ~NoneDone
  <2>1. row' = [row EXCEPT ![j.item] = w] /\ w.state = "done"
    <3>1. ASSUME row' = row PROVE FALSE
      BY <1>0, <1>7, <3>1 DEF NoneDone
    <3>2. ASSUME w.state # "done", row' = [row EXCEPT ![j.item] = w] PROVE FALSE
      BY <1>0, <1>2, <1>7, <3>2, RowNoneDone
    <3> QED
      BY <1>4, <3>1, <3>2
  <2>2. j.do = "done" /\ j.step = 2
    BY <1>2, <1>5, <2>1, TellPlans
  <2>3. w.owed = "merged"
    BY <1>2, <1>3, <2>2 DEF RowAfter, RowType
  <2>4. row'[j.item] = w /\ \A x \in Items \ {j.item} : row'[x] = row[x]
    BY <1>2, <2>1 DEF IInv, TypeOK
  <2>5. Tells(j, row, heard) /\ DebtsTrue /\ Mute
    BY <1>1 DEF HeardInv
  <2>6. DebtsTrue'
    BY <1>0, <2>3, <2>4, <2>5 DEF DebtsTrue
  <2>7. j.kind = "none"
    BY <2>2, <2>5 DEF Tells
  <2>8. k.do = "idle" \/ (k.do = "done" /\ k.kind = "none")
    BY <1>0, <1>1, <2>2, <2>7, GoesOn
  <2>9. Tells(k, row', heard')
    BY <2>8 DEF Tells, Reporting
  <2>10. job'["op"] = job["op"]
    BY <1>0 DEF Step, IInv, TypeOK
  <2> QED
    BY <1>1, <2>5, <2>6, <2>9, <2>10 DEF HeardInv, Mute
<1> QED
  BY <1>6, <1>7

\* The loop reads back the debt it owes.
LEMMA HeardLook ==
  ASSUME IInv, LoopPlans, HeardInv, LookUp
  PROVE  HeardInv'
<1>0. "loop" \in Threads /\ "op" \in Threads /\ At("loop", "look") /\ heard' = heard /\ row' = row
  BY DEF LookUp, Threads, external
<1>1. PICK j, k, a : j = job["loop"] /\ k = job'["loop"] /\ a = Advance("loop")
  OBVIOUS
<1>2. /\ j.item \in Items /\ j.do \in Doing /\ j.do \notin Verbing /\ j.step \in 1..Len(Plan(j.do))
      /\ Plan(j.do)[j.step] = "look" /\ j \in JobType
  BY <1>0, <1>1, AtPlace DEF LoopPlans
<1>3. j.do \notin Reporting /\ j.do \notin {"deliver", "overridden"} /\ j.step = 3
  BY <1>2, TellPlans
<1>4. k = [a EXCEPT !.kind = row[j.item].owed] /\ job'["op"] = job["op"]
  BY <1>0, <1>1 DEF LookUp, IInv, TypeOK
<1>5. a = Idle \/ a = [j EXCEPT !.step = @ + 1]
  BY <1>1 DEF Advance
<1>6. k.do = "idle" \/ (k.do = j.do /\ k.item = j.item /\ k.step = 4 /\ k.kind = row[j.item].owed)
  <2>1. CASE a = Idle
    BY <1>4, <2>1 DEF Idle
  <2>2. CASE a = [j EXCEPT !.step = @ + 1]
    BY <1>2, <1>3, <1>4, <2>2 DEF JobType
  <2> QED
    BY <1>5, <2>1, <2>2
<1>7. row[j.item].state = "done" => row[j.item].owed \in {"merged", "none"}
  BY <1>2 DEF HeardInv, DebtsTrue
<1>8. k.do # "idle" => ~Confirming(k)
  BY <1>3, <1>6 DEF Confirming
<1>9. Tells(k, row', heard')
  BY <1>0, <1>3, <1>6, <1>7, <1>8 DEF Tells
<1>10. DebtsTrue'
  BY <1>0 DEF HeardInv, DebtsTrue
<1> QED
  BY <1>1, <1>4, <1>9, <1>10 DEF HeardInv, Mute

\* The loop reports its debt.
LEMMA HeardPay ==
  ASSUME IInv, LoopPlans, HeardInv,
         TellOutcome("loop") \/ OutcomeRefused("loop") \/ TakeOutcome("loop")
           \/ TakeDecision("loop") \/ TellDecision("loop")
  PROVE  HeardInv'
<1>0. "loop" \in Threads /\ "op" \in Threads /\ job \in [Threads -> JobType] /\ row \in [Items -> RowType]
      /\ heard \in [Items -> Debts \cup {"retry", "cancelled"}]
  BY DEF Threads, IInv, TypeOK
<1>1. PICK j, k : j = job["loop"] /\ k = job'["loop"]
  OBVIOUS
<1>2. Tells(j, row, heard) /\ DebtsTrue /\ Mute
  BY <1>1 DEF HeardInv
<1>3. ASSUME NEW s, At("loop", s)
      PROVE  /\ j.item \in Items /\ j.do \in Doing /\ j.do \notin Verbing /\ j.step \in 1..Len(Plan(j.do))
             /\ Plan(j.do)[j.step] = s /\ j.do # "idle" /\ j.step \in Nat
  BY <1>0, <1>1, <1>3, AtPlace DEF LoopPlans, JobType
<1>4. ASSUME Finish("loop") PROVE job'["loop"] = Idle /\ (Mute => Mute')
  BY <1>0, <1>4 DEF Finish, Mute
<1>5. CASE TellOutcome("loop")
  <2>1. /\ At("loop", "pay") /\ Step("loop") /\ row' = row /\ j.kind \in {"merged", "blocked"}
        /\ heard' = [heard EXCEPT ![j.item] = j.kind]
    BY <1>1, <1>5 DEF TellOutcome, Outcomes
  <2>2. /\ j.item \in Items /\ j.do \in Doing /\ j.do \notin Verbing /\ j.step \in 1..Len(Plan(j.do))
        /\ Plan(j.do)[j.step] = "pay" /\ j.do # "idle" /\ j.step \in Nat
    BY <1>3, <2>1
  <2>3. heard'[j.item] = j.kind /\ \A x \in Items \ {j.item} : heard'[x] = heard[x]
    BY <1>0, <2>1, <2>2
  <2>4. row[j.item].state = "done" => j.kind = "merged" /\ heard'[j.item] = "merged"
    BY <1>2, <2>1, <2>2, <2>3 DEF Tells
  <2>5. \/ k.do = "idle"
        \/ k.do = j.do /\ k.item = j.item /\ k.kind = j.kind /\ k.step = j.step + 1
    BY <1>0, <1>1, <2>1, GoesOn
  <2>6. j.do = "done" => j.step = 4
    BY <2>2, TellPlans
  <2>7. j.do \notin Reporting
    BY <2>2, TellPlans
  <2>8. Tells(k, row', heard')
    BY <2>1, <2>2, <2>4, <2>5, <2>6, <2>7 DEF Tells
  <2>9. DebtsTrue'
    BY <1>2, <2>1, <2>2, <2>3, <2>4 DEF DebtsTrue
  <2>10. job'["op"] = job["op"]
    BY <1>0, <2>1 DEF Step
  <2> QED
    BY <1>1, <1>2, <2>8, <2>9, <2>10 DEF HeardInv, Mute
<1>6. CASE OutcomeRefused("loop")
  <2>1. NoneDone /\ Finish("loop")
    BY <1>6 DEF OutcomeRefused, NoneDone, external
  <2> QED
    BY <1>2, <1>4, <2>1, AsideTells
<1>7. CASE TakeOutcome("loop")
  <2>1. /\ At("loop", "paid") /\ Finish("loop") /\ heard' = heard /\ j.kind \in {"merged", "blocked"}
        /\ row' = [row EXCEPT ![j.item] = [row[j.item] EXCEPT !.owed = "none"]]
    BY <1>1, <1>7 DEF TakeOutcome, Outcomes, external
  <2>2. /\ j.item \in Items /\ j.do \in Doing /\ j.do \notin Verbing /\ j.step \in 1..Len(Plan(j.do))
        /\ Plan(j.do)[j.step] = "paid" /\ j.do # "idle" /\ j.step \in Nat
    BY <1>3, <2>1
  <2>3. Confirming(j)
    BY <2>2, TellPlans DEF Confirming
  <2>4. row[j.item].state = "done" => heard[j.item] = "merged"
    BY <1>2, <2>1, <2>2, <2>3 DEF Tells
  <2>5. PICK w : w = [row[j.item] EXCEPT !.owed = "none"]
    OBVIOUS
  <2>6. w.state = row[j.item].state /\ w.owed = "none"
    BY <1>0, <2>2, <2>5 DEF RowType
  <2>7. row'[j.item] = w /\ \A x \in Items \ {j.item} : row'[x] = row[x]
    BY <1>0, <2>1, <2>2, <2>5
  <2>8. DebtsTrue'
    BY <1>2, <2>1, <2>4, <2>6, <2>7 DEF DebtsTrue
  <2>9. Tells(Idle, row', heard')
    BY DEF Tells, Idle
  <2> QED
    BY <1>2, <1>4, <2>1, <2>8, <2>9 DEF HeardInv
<1>8. CASE TakeDecision("loop")
  <2>1. At("loop", "pay") /\ heard' = heard
    BY <1>8 DEF TakeDecision, external
  <2>2. /\ j.item \in Items /\ j.do \in Doing /\ j.do \notin Verbing /\ j.step \in 1..Len(Plan(j.do))
        /\ Plan(j.do)[j.step] = "pay" /\ j.do # "idle" /\ j.step \in Nat
    BY <1>3, <2>1
  <2>3. CASE row' = row /\ Finish("loop")
    <3>1. NoneDone
      BY <2>1, <2>3 DEF NoneDone
    <3> QED
      BY <1>2, <1>4, <2>3, <3>1, AsideTells
  <2>4. CASE /\ j.kind \in Decisions /\ Step("loop")
             /\ row' = [row EXCEPT ![j.item] = [row[j.item] EXCEPT !.owed = "none"]]
    <3>1. row[j.item].state # "done"
      BY <1>2, <2>2, <2>4 DEF Tells, Decisions
    <3>2. PICK w : w = [row[j.item] EXCEPT !.owed = "none"]
      OBVIOUS
    <3>3. w.state # "done"
      BY <1>0, <2>2, <3>1, <3>2 DEF RowType
    <3>4. row'[j.item] = w /\ \A x \in Items \ {j.item} : row'[x] = row[x]
      BY <1>0, <2>2, <2>4, <3>2
    <3>5. NoneDone
      BY <2>1, <3>3, <3>4 DEF NoneDone
    <3>6. \/ k.do = "idle"
          \/ k.do = j.do /\ k.item = j.item /\ k.kind = j.kind /\ k.step = j.step + 1
      BY <1>0, <1>1, <2>1, <2>4, GoesOn
    <3>7. j.do = "done" => j.step = 4
      BY <2>2, TellPlans
    <3>8. Tells(k, row', heard')
      BY <2>2, <3>3, <3>4, <3>6, <3>7 DEF Tells
    <3>9. job'["op"] = job["op"]
      BY <1>0, <2>4 DEF Step
    <3> QED
      BY <1>1, <1>2, <3>5, <3>8, <3>9, NoneDoneKeeps DEF HeardInv, Mute
  <2> QED
    BY <1>1, <1>8, <2>3, <2>4 DEF TakeDecision
<1>9. CASE TellDecision("loop")
  <2>1. /\ At("loop", "paid") /\ Finish("loop") /\ row' = row /\ j.kind \in {"abandoned", "requeued"}
        /\ heard' = [heard EXCEPT ![j.item] = j.kind]
    BY <1>1, <1>9 DEF TellDecision, Decisions
  <2>2. j.item \in Items /\ j.do # "idle"
    BY <1>3, <2>1
  <2>3. row[j.item].state # "done"
    BY <1>2, <2>1, <2>2 DEF Tells
  <2>4. \A x \in Items \ {j.item} : heard'[x] = heard[x]
    BY <1>0, <2>1, <2>2
  <2>5. NoneDone
    BY <2>1, <2>3, <2>4 DEF NoneDone
  <2> QED
    BY <1>2, <1>4, <2>1, <2>5, AsideTells
<1> QED
  BY <1>5, <1>6, <1>7, <1>8, <1>9

\* The end of the process: nothing is under way any more.
LEMMA HeardDie ==
  ASSUME IInv, HeardInv, NEW how, Die(how)
  PROVE  HeardInv'
<1>1. job' = [t \in Threads |-> Idle] /\ row' = row /\ heard' = heard
  BY DEF Die, external
<1>2. job'["loop"] = Idle /\ job'["op"] = Idle
  BY <1>1 DEF Threads
<1>3. NoneDone /\ Mute'
  BY <1>1, <1>2 DEF NoneDone, Mute, Idle
<1> QED
  BY <1>2, <1>3, AsideTells

LEMMA HeardLoop ==
  ASSUME IInv, LoopPlans, HeardInv, LoopStep
  PROVE  HeardInv'
<1>0. "loop" \in Threads /\ "op" \in Threads /\ job \in [Threads -> JobType] /\ row \in [Items -> RowType]
      /\ heard \in [Items -> Debts \cup {"retry", "cancelled"}]
  BY DEF Threads, IInv, TypeOK
<1>1. PICK j : j = job["loop"]
  OBVIOUS
<1>2. ASSUME NEW s, At("loop", s)
      PROVE  /\ j.item \in Items /\ j.do \in Doing /\ j.do \notin Verbing /\ j.step \in 1..Len(Plan(j.do))
             /\ Plan(j.do)[j.step] = s /\ j.do # "idle"
  BY <1>0, <1>1, <1>2, AtPlace DEF LoopPlans
<1>3. CASE ClaimWon
  <2>1. At("loop", "claim") /\ heard' = heard
    BY <1>3 DEF ClaimWon, external
  <2>2. j.item \in Items /\ j.do \in Doing /\ j.step \in 1..Len(Plan(j.do)) /\ Plan(j.do)[j.step] = "claim"
    BY <1>2, <2>1
  <2>3. PICK w : w = [row[j.item] EXCEPT !.claim = "yes"]
    OBVIOUS
  <2>4. row' = [row EXCEPT ![j.item] = w]
    BY <1>1, <1>3, <2>3 DEF ClaimWon
  <2>5. w.state = row[j.item].state /\ w.owed = row[j.item].owed
    BY <1>0, <2>2, <2>3 DEF RowType
  <2>6. NoneDone
    BY <2>1, <2>2, <2>4, <2>5, RowNoneDone
  <2>7. PICK r : job' = [job EXCEPT !["loop"] = Begin("start", j.item, r, "none")]
    BY <1>1, <1>3 DEF ClaimWon
  <2>8. PICK i \in Items : i = j.item
    BY <2>2
  <2>9. "start" # "done" /\ "start" \notin Reporting
    BY DEF Reporting
  <2> QED
    BY <2>6, <2>7, <2>8, <2>9, BeginTells
<1>4. CASE ClaimLost
  <2>1. At("loop", "claim") /\ heard' = heard /\ Finish("loop")
    BY <1>4 DEF ClaimLost, external
  <2>2. j.item \in Items
    BY <1>2, <2>1
  <2>3. PICK w : w = [state |-> "absent", run |-> NoRun, attempts |-> 0, claim |-> "no", owed |-> "none"]
    OBVIOUS
  <2>4. (row' = row \/ row' = [row EXCEPT ![j.item] = w]) /\ w.state = "absent"
    BY <1>1, <1>4, <2>3 DEF ClaimLost
  <2>5. NoneDone
    BY <2>1, <2>2, <2>4, RowNoneDone
  <2>6. job'["loop"] = Idle /\ job'["op"] = job["op"]
    BY <1>0, <2>1 DEF Finish
  <2> QED
    BY <2>5, <2>6, AsideTells DEF HeardInv, Mute
<1>5. CASE MarkRunning
  <2>1. At("loop", "mark") /\ heard' = heard /\ Step("loop")
    BY <1>5 DEF MarkRunning, external
  <2>2. j.item \in Items
    BY <1>2, <2>1
  <2>3. PICK w : w = [row[j.item] EXCEPT !.state = "running", !.run = j.run, !.attempts = row[j.item].attempts + 1]
    OBVIOUS
  <2>4. row' = [row EXCEPT ![j.item] = w]
    BY <1>1, <1>5, <2>3 DEF MarkRunning
  <2>5. w.state = "running"
    BY <1>0, <2>2, <2>3 DEF RowType
  <2>6. NoneDone
    BY <2>1, <2>2, <2>4, <2>5, RowNoneDone
  <2> QED
    BY <2>1, <2>6, PlainTells
<1>6. CASE MarkResuming
  <2>1. At("loop", "remark") /\ heard' = heard /\ Step("loop")
    BY <1>6 DEF MarkResuming, external
  <2>2. j.item \in Items
    BY <1>2, <2>1
  <2>3. PICK w : w = [row[j.item] EXCEPT !.state = "running"]
    OBVIOUS
  <2>4. row' = [row EXCEPT ![j.item] = w]
    BY <1>1, <1>6, <2>3 DEF MarkResuming
  <2>5. w.state = "running"
    BY <1>0, <2>2, <2>3 DEF RowType
  <2>6. NoneDone
    BY <2>1, <2>2, <2>4, <2>5, RowNoneDone
  <2> QED
    BY <2>1, <2>6, PlainTells
<1>7. CASE MarkResumingRaises
  BY <1>7, HeardDie DEF MarkResumingRaises
<1>8. ASSUME NEW s \in {"launch", "sweep", "record", "ledger"}, At("loop", s), Step("loop"),
             row' = row, heard' = heard
      PROVE  HeardInv'
  <2>1. NoneDone
    BY <1>8 DEF NoneDone
  <2>2. s \notin {"pay", "paid", "look"}
    BY <1>8
  <2> QED
    BY <1>8, <2>1, <2>2, PlainTells
<1>9. CASE Launch
  BY <1>8, <1>9 DEF Launch, external
<1>10. CASE Write("loop")
  <2>1. CASE Sweep("loop")
    BY <1>8, <2>1 DEF Sweep, external
  <2>2. CASE WriteRecord("loop")
    BY <1>8, <2>2 DEF WriteRecord, external
  <2>3. CASE WriteLedger("loop")
    BY <1>8, <2>3 DEF WriteLedger, external
  <2> QED
    BY <1>10, <2>1, <2>2, <2>3, HeardRow, HeardPay DEF Write
<1>11. CASE CancelledAgain
  <2>1. At("loop", "again") /\ heard' = heard /\ Step("loop")
    BY <1>11 DEF CancelledAgain, external
  <2>2. j.item \in Items
    BY <1>2, <2>1
  <2>3. PICK w : w = Retried(row[j.item], "none")
    OBVIOUS
  <2>4. row' = row \/ row' = [row EXCEPT ![j.item] = w]
    BY <1>1, <1>11, <2>3 DEF CancelledAgain
  <2>5. w.state = "queued"
    BY <1>0, <2>2, <2>3 DEF Retried, RowType
  <2>6. NoneDone
    BY <2>1, <2>2, <2>4, <2>5, RowNoneDone
  <2> QED
    BY <2>1, <2>6, PlainTells
<1>12. CASE Report
  <2>1. At("loop", "report") /\ row' = row /\ Step("loop")
    BY <1>12 DEF Report
  <2>2. PICK h : heard' = [heard EXCEPT ![j.item] = h]
    BY <1>1, <1>12 DEF Report
  <2>3. /\ j.item \in Items /\ j.do \in Doing /\ j.do \notin Verbing /\ j.step \in 1..Len(Plan(j.do))
        /\ Plan(j.do)[j.step] = "report" /\ j.do # "idle"
    BY <1>2, <2>1
  <2>4. j.do \in Reporting
    BY <2>3, TellPlans
  <2>5. row[j.item].state # "done"
    BY <1>1, <2>3, <2>4 DEF HeardInv, Tells
  <2>6. \A x \in Items \ {j.item} : heard'[x] = heard[x]
    BY <1>0, <2>2, <2>3
  <2>7. NoneDone
    BY <2>1, <2>5, <2>6 DEF NoneDone
  <2> QED
    BY <2>1, <2>7, PlainTells
<1> QED
  BY <1>3, <1>4, <1>5, <1>6, <1>7, <1>9, <1>10, <1>11, <1>12, HeardLook DEF LoopStep

\* The operator's thread, when its verbs report nothing.
LEMMA HeardOp ==
  ASSUME IInv, HeardInv, OpStep
  PROVE  HeardInv'
<1>0. "loop" \in Threads /\ "op" \in Threads /\ job \in [Threads -> JobType] /\ row \in [Items -> RowType]
  BY DEF Threads, IInv, TypeOK
<1>1. PICK j, k : j = job["op"] /\ k = job'["op"]
  OBVIOUS
<1>2. j.do \in {"idle", "requeue", "cancel_pending"}
  BY <1>1 DEF HeardInv, Mute
<1>3. ASSUME NEW s, At("op", s)
      PROVE  j.item \in Items /\ s \in {"stop", "sweep", "record", "ledger", "row"} /\ j.do \in Doing
  <2>1. /\ j.item \in Items /\ j.step \in 1..Len(Plan(j.do)) /\ Plan(j.do)[j.step] = s /\ j.do \in Doing
    BY <1>0, <1>1, <1>3, AtPlace
  <2> QED
    BY <1>2, <2>1, MutePlans
<1>4. ASSUME NEW s, At("op", s), Step("op"), NoneDone PROVE HeardInv'
  <2>1. k.do = "idle" \/ k.do = j.do
    BY <1>0, <1>1, <1>4, GoesOn
  <2>2. job'["loop"] = job["loop"]
    BY <1>0, <1>4 DEF Step
  <2>3. Mute'
    BY <1>1, <1>2, <2>1 DEF Mute
  <2> QED
    BY <1>4, <2>2, <2>3, AsideTells
<1>5. CASE Sweep("op") \/ WriteRecord("op") \/ WriteLedger("op")
  <2>1. row' = row /\ heard' = heard /\ Step("op") /\ \E s : At("op", s)
    BY <1>5 DEF Sweep, WriteRecord, WriteLedger, external
  <2>2. NoneDone
    BY <2>1 DEF NoneDone
  <2>3. PICK s : At("op", s)
    BY <2>1
  <2> QED
    BY <1>4, <2>1, <2>2, <2>3
<1>6. CASE WriteRow("op")
  <2>1. At("op", "row") /\ heard' = heard /\ Step("op")
    BY <1>6 DEF WriteRow, external
  <2>2. j.item \in Items /\ j.do \in Doing
    BY <1>3, <2>1
  <2>3. PICK w : w = RowAfter(j.do, row[j.item])
    OBVIOUS
  <2>4. row' = row \/ row' = [row EXCEPT ![j.item] = w]
    BY <1>1, <1>6, <2>3 DEF WriteRow
  <2>5. w.state # "done"
    BY <1>0, <1>2, <2>2, <2>3, RowTaken
  <2>6. NoneDone
    BY <2>1, <2>2, <2>4, <2>5, RowNoneDone
  <2> QED
    BY <1>4, <2>1, <2>6
<1>7. CASE TellOutcome("op") \/ OutcomeRefused("op") \/ TakeOutcome("op") \/ TakeDecision("op") \/ TellDecision("op")
  <2>1. At("op", "pay") \/ At("op", "paid")
    BY <1>7 DEF TellOutcome, OutcomeRefused, TakeOutcome, TakeDecision, TellDecision
  <2> QED
    BY <1>3, <2>1
<1>8. CASE StopCurrent
  <2>1. row' = row /\ heard' = heard /\ At("op", "stop")
    BY <1>8 DEF StopCurrent, external
  <2>2. job'["loop"] = job["loop"] /\ (k = Idle \/ k = Advance("op"))
    BY <1>0, <1>1, <1>2, <1>8 DEF StopCurrent
  <2>3. NoneDone
    BY <2>1 DEF NoneDone
  <2>4. k.do = "idle" \/ k.do = j.do
    <3>1. CASE k = Idle
      BY <3>1 DEF Idle
    <3>2. CASE k = [j EXCEPT !.step = @ + 1]
      BY <1>0, <1>1, <3>2 DEF JobType
    <3> QED
      BY <1>1, <2>2, <3>1, <3>2 DEF Advance
  <2>5. Mute'
    BY <1>1, <1>2, <2>4 DEF Mute
  <2> QED
    BY <2>2, <2>3, <2>5, AsideTells
<1>9. CASE Regrant
  <2>1. At("op", "regrant")
    BY <1>9 DEF Regrant
  <2> QED
    BY <1>3, <2>1
<1> QED
  BY <1>5, <1>6, <1>7, <1>8, <1>9 DEF OpStep, Write

\* The verbs, when none of those accepted reports from the operator's thread.
NoReportVerb == Verbs \cap {"abandon", "retry", "grant"} = {}

LEMMA HeardVerb ==
  ASSUME IInv, HeardInv, NoReportVerb, Operator
  PROVE  HeardInv'
<1>0. "loop" \in Threads /\ "op" \in Threads /\ job \in [Threads -> JobType] /\ row \in [Items -> RowType]
  BY DEF Threads, IInv, TypeOK
<1>1. ASSUME NEW i \in Items, NEW w, row' = [row EXCEPT ![i] = w], w.state # "done", heard' = heard,
             job'["loop"] = job["loop"], Mute'
      PROVE  HeardInv'
  <2>1. NoneDone
    BY <1>1, RowNoneDone
  <2> QED
    BY <1>1, <2>1, AsideTells
<1>2. ASSUME row' = row, heard' = heard, job'["loop"] = job["loop"], Mute' PROVE HeardInv'
  <2>1. NoneDone
    BY <1>2 DEF NoneDone
  <2> QED
    BY <1>2, <2>1, AsideTells
<1>3. Mute
  BY DEF HeardInv
<1>4. ASSUME NEW do \in {"requeue", "cancel_pending"}, NEW i, NEW r, NEW kind, OpBegins(do, i, r, kind)
      PROVE  job'["loop"] = job["loop"] /\ Mute'
  <2>1. job'["loop"] = job["loop"] /\ job'["op"] = Begin(do, i, r, kind)
    BY <1>0, <1>4 DEF OpBegins
  <2> QED
    BY <1>4, <2>1 DEF Begin, Mute
<1>5. ASSUME NEW i \in Items, AbandonItem(i) \/ RetryItem(i) PROVE FALSE
  BY <1>5 DEF AbandonItem, RetryItem, May, NoReportVerb
<1>6. ASSUME NEW r \in Runs, GrantRounds(r) PROVE FALSE
  BY <1>6 DEF GrantRounds, May, NoReportVerb
<1>7. ASSUME NEW i \in Items, RequeueItem(i) PROVE HeardInv'
  <2>1. PICK w, r : /\ w = Requeued(row[i]) /\ r = row[i].run
                    /\ row' = [row EXCEPT ![i] = w] /\ heard' = heard /\ OpBegins("requeue", i, r, "none")
    BY <1>7 DEF RequeueItem, external
  <2>2. w.state = "queued"
    BY <1>0, <2>1 DEF Requeued, RowType
  <2>3. job'["loop"] = job["loop"] /\ Mute'
    BY <1>4, <2>1
  <2> QED
    BY <1>1, <2>1, <2>2, <2>3
<1>8. ASSUME NEW i \in Items, CliAbandon(i) \/ CliRetry(i) \/ CliRequeue(i) \/ Relabel(i) PROVE HeardInv'
  <2>1. heard' = heard /\ job' = job
    BY <1>8 DEF CliAbandon, CliRetry, CliRequeue, Relabel, external
  <2>2. PICK w : /\ row' = [row EXCEPT ![i] = w]
                 /\ \/ w = Abandoned(row[i]) \/ w = Retried(row[i], "requeued") \/ w = Requeued(row[i])
                    \/ w = [state |-> "queued", run |-> NoRun, attempts |-> 0, claim |-> "no", owed |-> "none"]
    BY <1>8 DEF CliAbandon, CliRetry, CliRequeue, Relabel
  <2>3. w.state # "done"
    <3>1. row[i] \in RowType
      BY <1>0
    <3>2. CASE w = Abandoned(row[i])
      BY <3>1, <3>2 DEF Abandoned, RowType
    <3>3. CASE w = Retried(row[i], "requeued") \/ w = Requeued(row[i])
      BY <3>1, <3>3 DEF Retried, Requeued, RowType
    <3>4. CASE w = [state |-> "queued", run |-> NoRun, attempts |-> 0, claim |-> "no", owed |-> "none"]
      BY <3>4
    <3> QED
      BY <2>2, <3>2, <3>3, <3>4
  <2>4. Mute'
    BY <1>3, <2>1 DEF Mute
  <2> QED
    BY <1>1, <2>1, <2>2, <2>3, <2>4
<1>9. ASSUME NEW r \in Runs, CancelPending(r) PROVE HeardInv'
  <2>1. PICK i : OpBegins("cancel_pending", i, r, "none") /\ row' = row /\ heard' = heard
    BY <1>9 DEF CancelPending, external
  <2>2. job'["loop"] = job["loop"] /\ Mute'
    BY <1>4, <2>1
  <2> QED
    BY <1>2, <2>1, <2>2
<1>10. ASSUME NEW r \in Runs, ResumeRun(r) PROVE HeardInv'
  <2>1. PICK i, w : /\ i = ledger[r].item /\ w = [row[i] EXCEPT !.state = "queued"]
                    /\ row' = [row EXCEPT ![i] = w] /\ heard' = heard /\ job' = job /\ ~Fresh(r)
    BY <1>10 DEF ResumeRun
  <2>2. i \in Items
    BY <2>1 DEF Fresh, IInv, TypeOK
  <2>3. w.state = "queued"
    BY <1>0, <2>1, <2>2 DEF RowType
  <2>4. Mute'
    BY <1>3, <2>1 DEF Mute
  <2> QED
    BY <1>1, <2>1, <2>2, <2>3, <2>4
<1>11. ASSUME (\E r \in Runs : \E retry \in BOOLEAN : CancelRun(r, retry))
              \/ \E now \in BOOLEAN : StopDaemon(now)
       PROVE  HeardInv'
  <2>1. row' = row /\ heard' = heard /\ job' = job
    BY <1>11 DEF CancelRun, StopDaemon, external
  <2>2. Mute'
    BY <1>3, <2>1 DEF Mute
  <2> QED
    BY <1>2, <2>1, <2>2
<1> QED
  BY <1>5, <1>6, <1>7, <1>8, <1>9, <1>10, <1>11 DEF Operator

LEMMA HeardNext ==
  ASSUME IInv, RowInv, LoopPlans, HeardInv, NoReportVerb, [Next]_vars
  PROVE  HeardInv'
<1>1. ASSUME row' = row, heard' = heard, job' = job PROVE HeardInv'
  BY <1>1 DEF HeardInv, Tells, DebtsTrue, Mute, Confirming
<1>2. CASE Engine
  BY <1>1, <1>2 DEF Engine, EngineBegin, EngineEnd, external
<1>3. CASE UNCHANGED vars
  BY <1>1, <1>3 DEF vars
<1>4. CASE Exit \/ Crash
  BY <1>4, HeardDie DEF Exit, Crash
<1> QED
  BY <1>2, <1>3, <1>4, HeardTick, HeardRecover, HeardLoop, HeardOp, HeardVerb DEF Next

LEMMA HeardInit == Init => HeardInv
<1> SUFFICES ASSUME Init PROVE HeardInv
  OBVIOUS
<1>1. job["loop"] = Idle /\ job["op"] = Idle /\ \A i \in Items : row[i].state = "absent"
  BY DEF Init, Threads
<1> QED
  BY <1>1 DEF HeardInv, Tells, DebtsTrue, Mute, Idle

\* A merge is never forgotten: whatever crashes, or is refused, between mark_done and the
\* source's confirmation, a merged item with no debt left has been reported merged
\* (_deliver_report).  The abandon, retry and grant verbs of the operator's thread are left
\* out: they take a debt without asking which, and the loop's merge may be what they take.
THEOREM MergedIsReported ==
  ASSUME Verbs \cap {"abandon", "retry", "grant"} = {}
  PROVE  Spec => []MergedIsHeard
<1>1. NoReportVerb
  BY DEF NoReportVerb
<1>2. IInv /\ RowInv /\ OpPlans /\ [Next]_vars => RowInv' /\ OpPlans'
  BY RowInvNext
<1>3. IInv /\ LoopPlans /\ [Next]_vars => LoopPlans'
  BY LoopPlansNext
<1>4. IInv /\ RowInv /\ LoopPlans /\ HeardInv /\ [Next]_vars => HeardInv'
  BY <1>1, HeardNext
<1>5. HeardInv => MergedIsHeard
  BY DEF HeardInv, DebtsTrue, MergedIsHeard
<1>6. Init => LoopPlans
  BY ChurnInit
<1>7. Init => RowInv /\ OpPlans
  BY RowInvInit
<1>8. Init => HeardInv
  BY HeardInit
<1> QED
  BY <1>2, <1>3, <1>4, <1>5, <1>6, <1>7, <1>8, IInvInit, IInvNext, PTL DEF Spec

-----------------------------------------------------------------------------
(***************************************************************************)
(* Phantom records.  A record that says a run is active while nobody       *)
(* executes it is somebody's to close: the loop is launching the run, or   *)
(* settling it with the write of its record (or of its row, for a provider *)
(* hold) still to come, or an abandon of its pinned row is about to write  *)
(* it.  An abandon leaves the record to the run in flight when there is    *)
(* one; that it is the same run needs every run in flight to be its item's *)
(* pinned one, which admission guarantees where runs work a checkout.      *)
(***************************************************************************)
\* The loop's job will launch its run, write its record or queue its row.
Tends(j) ==
  \/ j.do \in {"start", "resume", "provider_resume"}
  \/ j.do \in {"overridden", "dropped", "cancelled", "cancelled_retry"} /\ j.step = 1
  \/ j.do \in {"failed", "given_up"} /\ j.step \in 1..2
  \/ j.do = "provider_held" /\ j.step \in 1..3

\* The operator's job o will write the record of run r, still pinned when it asks who runs.
Drops(o, r) == o.run = r /\ o.do = "abandon" /\ o.step \in 1..3 /\ (o.step = 1 => row[o.item].run = r)

Tended(r) == (job["loop"].run = r /\ Tends(job["loop"])) \/ Drops(job["op"], r)

\* The record of the loop's run is closed; the row it works on has no pin; has its run's pin.
Shut(j) == \/ j.do \in {"done", "blocked", "exhausted", "handed_over"}
           \/ j.do \in {"failed", "given_up"} /\ j.step > 2
           \/ j.do \in {"cancelled", "cancelled_retry"} /\ j.step > 1
Opens(j) == j.do = "claim" \/ (j.do = "start" /\ j.step = 1)
Holds(j) == (RowAhead(j) /\ j.do \notin {"claim", "start"}) \/ Lifting(j)

Alone(i) == \A s \in Runs : Live(s) => ledger[s].item # i

SettlesAlone ==
  /\ job["loop"].do # "unstarted"
  /\ job["loop"].do \in Settling =>
       /\ job["loop"].run \in Runs /\ ledger[job["loop"].run].item = job["loop"].item
       /\ Alone(job["loop"].item)
Closed == Shut(job["loop"]) => job["loop"].do \in Settling /\ ~NonTerminal(job["loop"].run)
PinsHeld == LET j == job["loop"] IN
  /\ Opens(j) => row[j.item].run = NoRun
  /\ Holds(j) => row[j.item].run = j.run
LivePinned == \A s \in Runs : Live(s) => row[ledger[s].item].run = s

JobsTend == SettlesAlone /\ Closed /\ PinsHeld /\ LivePinned
OrphansTended == \A r \in Runs : Orphan(r) => Tended(r)

\* An open record is of a run in the ledger; an outcome closes it before it is settled.
RecordOwned == \A r \in Runs : NonTerminal(r) => ledger[r].item \in Items
EndClosed == \A r \in Runs :
  handle[r].at = "ended" /\ handle[r].how \in {"landed", "blocked", "exhausted"} => ~NonTerminal(r)

PhantomInv == RecordOwned /\ EndClosed /\ (daemon = "up" => JobsTend /\ OrphansTended)

\* Where the plans launch and close.
LEMMA TendPlans ==
  ASSUME NEW do \in Doing, NEW n \in 1..Len(Plan(do))
  PROVE  /\ do \in {"start", "resume", "provider_resume"} /\ Plan(do)[n] # "launch" => n < Len(Plan(do))
         /\ do \in {"overridden", "dropped", "cancelled", "cancelled_retry"} => (n = 1 <=> Plan(do)[n] = "record")
         /\ Plan(do)[n] \in {"pay", "paid", "claim"} =>
              /\ do \notin {"start", "resume", "provider_resume", "failed", "given_up", "provider_held",
                            "dropped", "cancelled", "cancelled_retry"}
              /\ do = "overridden" => n > 1
         /\ do = "provider_held" => Len(Plan(do)) = 3
<1>1. do \in {"start", "resume", "provider_resume"} /\ Plan(do)[n] # "launch" => n < Len(Plan(do))
  BY DEF Plan
<1>2. do \in {"overridden", "dropped", "cancelled", "cancelled_retry"} => (n = 1 <=> Plan(do)[n] = "record")
  BY DEF Plan
<1>3. Plan(do)[n] \in {"pay", "paid", "claim"} =>
              /\ do \notin {"start", "resume", "provider_resume", "failed", "given_up", "provider_held",
                            "dropped", "cancelled", "cancelled_retry"}
              /\ do = "overridden" => n > 1
  BY DEF Plan
<1>4. do = "provider_held" => Len(Plan(do)) = 3
  BY DEF Plan
<1> QED
  BY <1>1, <1>2, <1>3, <1>4

\* Job k does what job j did, as far as the rows and the record of its run go.
JobMoves(j, k) ==
  /\ k.do = "unstarted" => j.do = "unstarted"
  /\ k.do \in Settling => j.do \in Settling /\ k.item = j.item /\ k.run = j.run
  /\ Opens(k) => Opens(j) /\ k.item = j.item
  /\ Holds(k) => Holds(j) /\ k.item = j.item /\ k.run = j.run
JobCalm(j, k) == JobMoves(j, k) /\ (Shut(k) => Shut(j))
StillTends(j, k) == Tends(j) => Tends(k) /\ k.run = j.run

LEMMA SameCalm ==
  ASSUME NEW j, NEW k, k = j
  PROVE  JobCalm(j, k) /\ StillTends(j, k)
  BY DEF JobCalm, JobMoves, StillTends

LEMMA ShutSettles ==
  ASSUME NEW j, Shut(j)
  PROVE  j.do \in Settling
  BY DEF Shut, Settling

\* A job that is over, or only delivers, has nothing to tend.
LEMMA OtherCalm ==
  ASSUME NEW j, NEW k, k.do \in {"idle", "deliver"}
  PROVE  JobCalm(j, k) /\ ~Tends(k)
<1>1. k.do \notin Settling /\ ~Shut(k) /\ ~Opens(k) /\ ~Lifting(k) /\ ~Tends(k)
  BY DEF Settling, Shut, Opens, Lifting, Tends
<1>2. ~RowAhead(k)
  BY DEF RowAhead, LastRowWrite
<1> QED
  BY <1>1, <1>2 DEF JobCalm, JobMoves, Holds

\* The next write of the loop's plan.
LEMMA StepCalm ==
  ASSUME IInv, NEW s, At("loop", s), Step("loop"), s \notin {"mark", "launch"}
  PROVE  /\ JobMoves(job["loop"], job'["loop"])
         /\ s # "record" => JobCalm(job["loop"], job'["loop"])
         /\ s # "record" /\ (s = "row" => job["loop"].do # "provider_held") =>
              StillTends(job["loop"], job'["loop"])
<1>0. "loop" \in Threads
  BY DEF Threads
<1>1. PICK j, k : j = job["loop"] /\ k = job'["loop"]
  OBVIOUS
<1>2. /\ j.do \in Doing /\ j.step \in 1..Len(Plan(j.do)) /\ Plan(j.do)[j.step] = s /\ j.step \in Nat
      /\ Len(Plan(j.do)) \in Nat
  BY <1>0, <1>1, AtPlace, PlanLen DEF JobType
<1>3. \/ k = Idle /\ j.step = Len(Plan(j.do))
      \/ k.do = j.do /\ k.item = j.item /\ k.run = j.run /\ k.step = j.step + 1
  BY <1>0, <1>1, Goes
<1>4. Tends(j) /\ s # "record" => /\ s = "row" => j.do = "provider_held"
                                  /\ s # "row" => j.step < Len(Plan(j.do)) /\ (k.step = j.step + 1 /\ k.do = j.do => Tends(k))
  <2>1. CASE j.do \in {"start", "resume", "provider_resume"}
    <3>1. s # "row"
      BY <1>2, <2>1, RowPlans DEF Requeueing
    <3>2. j.step < Len(Plan(j.do))
      BY <1>2, <2>1, TendPlans
    <3> QED
      BY <2>1, <3>1, <3>2 DEF Tends
  <2>2. CASE j.do \in {"overridden", "dropped", "cancelled", "cancelled_retry"}
    BY <1>2, <2>2, TendPlans DEF Tends
  <2>3. CASE j.do \in {"failed", "given_up"}
    <3>1. Len(Plan(j.do)) = 4 /\ (j.step = 3 <=> s = "row") /\ (j.step = 2 <=> s = "record")
      BY <1>2, <2>3, PlanPlaces
    <3> QED
      BY <1>2, <2>3, <3>1 DEF Tends
  <2>4. CASE j.do = "provider_held"
    <3>1. Len(Plan(j.do)) = 3 /\ (j.step = 1 <=> s = "record") /\ (j.step = 3 <=> s = "row")
      BY <1>2, <2>4, PlanPlaces, TendPlans
    <3>2. s # "record" /\ s # "row" => j.step = 2
      BY <1>2, <3>1
    <3>3. j.step = 2 /\ k.step = j.step + 1 => k.step \in 1..3
      OBVIOUS
    <3>4. s # "record" /\ s # "row" /\ k.step = j.step + 1 /\ k.do = j.do => Tends(k)
      BY <2>4, <3>2, <3>3 DEF Tends
    <3> QED
      BY <2>4, <3>1, <3>2, <3>4
  <2> QED
    BY <2>1, <2>2, <2>3, <2>4 DEF Tends
<1>5. ASSUME k.do = j.do, k.item = j.item, k.run = j.run, k.step = j.step + 1
      PROVE  /\ (Opens(k) => Opens(j)) /\ (Holds(k) => Holds(j))
             /\ s # "record" => (Shut(k) => Shut(j))
  <2>0. LastRowWrite(j.do) \in Nat
    BY RowWriteNat
  <2>1. RowAhead(k) => RowAhead(j)
    BY <1>2, <1>5, <2>0 DEF RowAhead
  <2>2. ~(k.do = "start" /\ k.step = 1)
    BY <1>2, <1>5
  <2>3. ~(k.do = "start" /\ k.step = 2)
    BY <1>2, <1>5, PlanPlaces
  <2>4. (k.do = "provider_resume" /\ k.step = 2) \/ (k.do = "resume" /\ k.step = 3) => RowAhead(j)
    BY <1>2, <1>5 DEF RowAhead, LastRowWrite
  <2>5. Holds(k) => Holds(j)
    BY <1>5, <2>1, <2>3, <2>4 DEF Holds, Lifting
  <2>6. s # "record" /\ k.do \in {"failed", "given_up"} /\ k.step > 2 => j.step > 2
    BY <1>2, <1>5, PlanPlaces
  <2>7. s # "record" /\ k.do \in {"cancelled", "cancelled_retry"} /\ k.step > 1 => j.step > 1
    BY <1>2, <1>5, TendPlans
  <2> QED
    BY <1>5, <2>2, <2>5, <2>6, <2>7 DEF Opens, Shut
<1>6. CASE k = Idle
  <2>1. k.do = "idle"
    BY <1>6 DEF Idle
  <2>2. JobCalm(j, k)
    BY <2>1, OtherCalm
  <2> QED
    BY <1>1, <1>2, <1>3, <1>4, <1>6, <2>2 DEF StillTends, JobCalm, Idle
<1>7. CASE k.do = j.do /\ k.item = j.item /\ k.run = j.run /\ k.step = j.step + 1
  <2>1. JobMoves(j, k) /\ (s # "record" => JobCalm(j, k))
    BY <1>5, <1>7 DEF JobMoves, JobCalm
  <2>2. s # "record" /\ (s = "row" => j.do # "provider_held") => StillTends(j, k)
    BY <1>4, <1>7 DEF StillTends
  <2> QED
    BY <1>1, <2>1, <2>2
<1> QED
  BY <1>3, <1>6, <1>7
\* Nothing is launched, and runs keep their items; nothing is reopened but what is in flight.
SameRuns == /\ \A r \in Runs : handle'[r].at # "none" => Live(r)
            /\ \A r \in Runs : ledger'[r].item = ledger[r].item
Steady == SameRuns /\ \A r \in Runs : NonTerminal(r)' => NonTerminal(r) \/ Live(r)

LEMMA NeedsItem ==
  ASSUME IInv, NEW j, j = job["loop"], Opens(j) \/ Holds(j)
  PROVE  j.item \in Items
<1>1. j.do # "idle"
  BY DEF Opens, Holds, RowAhead, LastRowWrite, Lifting
<1> QED
  BY <1>1 DEF IInv, JobsNamed, Threads

LEMMA ClosedKept ==
  ASSUME JobsTend, Steady, JobCalm(job["loop"], job'["loop"])
  PROVE  Closed'
<1>1. PICK j, k : j = job["loop"] /\ k = job'["loop"]
  OBVIOUS
<1> SUFFICES ASSUME Shut(k) PROVE k.do \in Settling /\ ~NonTerminal(k.run)'
  BY <1>1 DEF Closed, NonTerminal
<1>2. k.do \in Settling /\ Shut(j) /\ k.run = j.run /\ j.do \in Settling
  BY <1>1, ShutSettles DEF JobCalm, JobMoves
<1>3. ~NonTerminal(j.run) /\ j.run \in Runs /\ ~Live(j.run)
  BY <1>1, <1>2 DEF JobsTend, Closed, SettlesAlone, Alone
<1> QED
  BY <1>2, <1>3 DEF Steady

LEMMA JobsKept ==
  ASSUME IInv, JobsTend, SameRuns, Closed', JobMoves(job["loop"], job'["loop"]),
         \A i \in Items : \/ row'[i].run = row[i].run
                          \/ /\ Alone(i)
                             /\ ~(job'["loop"].item = i /\ (Opens(job'["loop"]) \/ Holds(job'["loop"])))
  PROVE  JobsTend'
<1>1. PICK j, k : j = job["loop"] /\ k = job'["loop"]
  OBVIOUS
<1>2. SettlesAlone'
  <2>0. k.do # "unstarted"
    BY <1>1 DEF JobsTend, SettlesAlone, JobMoves
  <2> SUFFICES ASSUME k.do \in Settling
               PROVE  k.run \in Runs /\ ledger'[k.run].item = k.item
                      /\ \A s \in Runs : handle'[s].at # "none" => ledger'[s].item # k.item
    BY <1>1, <2>0 DEF SettlesAlone, Alone, Live
  <2> QED
    BY <1>1 DEF JobsTend, SettlesAlone, JobMoves, SameRuns, Alone
<1>4. PinsHeld'
  <2>1. Opens(k) => row'[k.item].run = NoRun
    <3> SUFFICES ASSUME Opens(k) PROVE row'[k.item].run = NoRun
      OBVIOUS
    <3>1. Opens(j) /\ k.item = j.item
      BY <1>1 DEF JobMoves
    <3> QED
      BY <1>1, <3>1, NeedsItem DEF JobsTend, PinsHeld
  <2>2. Holds(k) => row'[k.item].run = k.run
    <3> SUFFICES ASSUME Holds(k) PROVE row'[k.item].run = k.run
      OBVIOUS
    <3>1. Holds(j) /\ k.item = j.item /\ k.run = j.run
      BY <1>1 DEF JobMoves
    <3> QED
      BY <1>1, <3>1, NeedsItem DEF JobsTend, PinsHeld
  <2> QED
    BY <1>1, <2>1, <2>2 DEF PinsHeld
<1>5. LivePinned'
  <2> SUFFICES ASSUME NEW s \in Runs, handle'[s].at # "none" PROVE row'[ledger'[s].item].run = s
    BY DEF LivePinned, Live
  <2>1. Live(s) /\ ledger'[s].item = ledger[s].item /\ ledger[s].item \in Items
    BY DEF SameRuns, IInv, LiveOwned
  <2> QED
    BY <2>1 DEF JobsTend, LivePinned, Alone
<1> QED
  BY <1>2, <1>4, <1>5 DEF JobsTend

\* What is not tended after a step was pending or tended before it.
LEMMA TendedKept ==
  ASSUME RecordOwned, OrphansTended, SameRuns,
         \A r \in Runs : NonTerminal(r)' => NonTerminal(r) \/ Live(r) \/ Tended(r)',
         \A r \in Runs : Live(r) => handle'[r].at # "none" \/ ~NonTerminal(r)' \/ Tended(r)',
         \A r \in Runs : PendingResume(ledger[r].item, r) /\ ledger[r].item \in Items =>
           PendingResume(ledger[r].item, r)' \/ ~NonTerminal(r)' \/ Tended(r)',
         \A r \in Runs : Tended(r) => Tended(r)' \/ ~Orphan(r)'
  PROVE  OrphansTended'
<1> SUFFICES ASSUME NEW r \in Runs, Orphan(r)' PROVE Tended(r)'
  BY DEF OrphansTended
<1>1. NonTerminal(r)' /\ handle'[r].at = "none" /\ ~PendingResume(ledger[r].item, r)'
  BY DEF Orphan, Live
<1>2. CASE Live(r)
  BY <1>1, <1>2
<1>3. CASE ~Live(r) /\ NonTerminal(r)
  <2>1. NonTerminal(r) /\ ledger[r].item \in Items
    BY <1>3 DEF RecordOwned
  <2>2. CASE PendingResume(ledger[r].item, r)
    BY <1>1, <2>1, <2>2
  <2>3. CASE ~PendingResume(ledger[r].item, r)
    <3>1. Orphan(r)
      BY <1>3, <2>1, <2>3 DEF Orphan
    <3> QED
      BY <3>1 DEF OrphansTended
  <2> QED
    BY <2>2, <2>3
<1> QED
  BY <1>1, <1>2, <1>3

\* Rows keep their pins, and pinned rows stay queued; the operator's thread goes on.
PinsCalm == \A i \in Items : row'[i].run = row[i].run
QueueCalm == \A i \in Items : row[i].state = "queued" /\ row[i].run # NoRun => row'[i].state = "queued"
LivesOn == \A r \in Runs : Live(r) => handle'[r].at # "none"
OpGoes(o, p) == \/ p = o
                \/ ~(o.do = "abandon" /\ o.step \in 1..3)
                \/ o.step = 2 /\ p.run = o.run /\ p.do = "abandon" /\ p.step = 3

LEMMA DropsOn ==
  ASSUME IInv, PinsCalm, OpGoes(job["op"], job'["op"]), NEW r \in Runs, Drops(job["op"], r)
  PROVE  Tended(r)'
<1>1. PICK o, p : o = job["op"] /\ p = job'["op"]
  OBVIOUS
<1>2. o.run = r /\ o.do = "abandon" /\ o.step \in 1..3 /\ (o.step = 1 => row[o.item].run = r)
  BY <1>1 DEF Drops
<1>3. o.item \in Items
  BY <1>1, <1>2 DEF IInv, JobsNamed, Threads
<1>4. p.run = r /\ p.do = "abandon" /\ p.step \in 1..3 /\ (p.step = 1 => row'[p.item].run = r)
  BY <1>1, <1>2, <1>3 DEF OpGoes, PinsCalm
<1> QED
  BY <1>1, <1>4 DEF Tended, Drops

LEMMA CalmTended ==
  ASSUME IInv, RecordOwned, OrphansTended, Steady, LivesOn, PinsCalm, QueueCalm,
         StillTends(job["loop"], job'["loop"]), OpGoes(job["op"], job'["op"])
  PROVE  OrphansTended'
<1>2. \A r \in Runs : Live(r) => handle'[r].at # "none" \/ ~NonTerminal(r)' \/ Tended(r)'
  BY DEF LivesOn
<1>3. ASSUME NEW r \in Runs, PendingResume(ledger[r].item, r), ledger[r].item \in Items
      PROVE  PendingResume(ledger[r].item, r)'
  <2>1. row[ledger[r].item].run # NoRun
    BY <1>3, ConstantsAssumption DEF PendingResume
  <2> QED
    BY <1>3, <2>1 DEF PendingResume, Steady, SameRuns, PinsCalm, QueueCalm
<1>4. ASSUME NEW r \in Runs, Tended(r) PROVE Tended(r)'
  <2>1. CASE job["loop"].run = r /\ Tends(job["loop"])
    <3>1. Tends(job'["loop"]) /\ job'["loop"].run = r
      BY <2>1 DEF StillTends
    <3> QED
      BY <3>1 DEF Tended, Tends
  <2> QED
    BY <1>4, <2>1, DropsOn DEF Tended
<1> QED
  BY <1>2, <1>3, <1>4, TendedKept DEF Steady

LEMMA CalmKeeps ==
  ASSUME IInv, RecordOwned, JobsTend, OrphansTended, Steady, LivesOn, PinsCalm, QueueCalm,
         JobCalm(job["loop"], job'["loop"]), StillTends(job["loop"], job'["loop"]),
         OpGoes(job["op"], job'["op"])
  PROVE  JobsTend' /\ OrphansTended'
<1>1. JobsTend'
  BY JobsKept, ClosedKept DEF PinsCalm, Steady, JobCalm
<1> QED
  BY <1>1, CalmTended

\* Steps that leave the rows' pins and the queue, the records and the runs in flight alone.
Untouched ==
  /\ handle' = handle /\ rec' = rec
  /\ \A r \in Runs : ledger'[r].item = ledger[r].item
  /\ PinsCalm /\ QueueCalm

LEMMA UntouchedKeeps ==
  ASSUME IInv, RecordOwned, JobsTend, OrphansTended, Untouched,
         JobCalm(job["loop"], job'["loop"]), StillTends(job["loop"], job'["loop"]),
         OpGoes(job["op"], job'["op"])
  PROVE  JobsTend' /\ OrphansTended'
<1>1. Steady /\ LivesOn
  BY DEF Untouched, Steady, SameRuns, LivesOn, Live, NonTerminal
<1> QED
  BY <1>1, CalmKeeps DEF Untouched

LEMMA OneRowCalm ==
  ASSUME IInv, NEW i \in Items, NEW w, row' = row \/ row' = [row EXCEPT ![i] = w], w.run = row[i].run,
         row[i].state = "queued" /\ row[i].run # NoRun => w.state = "queued"
  PROVE  PinsCalm /\ QueueCalm
<1>1. CASE row' = row
  BY <1>1 DEF PinsCalm, QueueCalm
<1>2. CASE row' = [row EXCEPT ![i] = w]
  <2>1. row'[i] = w /\ \A x \in Items \ {i} : row'[x] = row[x]
    BY <1>2 DEF IInv, TypeOK
  <2> QED
    BY <2>1 DEF PinsCalm, QueueCalm
<1> QED
  BY <1>1, <1>2

LEMMA SameRowsCalm ==
  ASSUME row' = row
  PROVE  PinsCalm /\ QueueCalm
  BY DEF PinsCalm, QueueCalm

LEMMA AbandonPlan ==
  ASSUME NEW n \in 1..Len(Plan("abandon"))
  PROVE  /\ Len(Plan("abandon")) = 6
         /\ n = 1 <=> Plan("abandon")[n] = "stop"
         /\ n = 2 <=> Plan("abandon")[n] = "sweep"
         /\ n = 3 <=> Plan("abandon")[n] = "record"
<1>1. Plan("abandon") = <<"stop", "sweep", "record", "ledger", "pay", "paid">>
  BY DEF Plan
<1> QED
  BY <1>1

\* The writes that both threads share, but of the record and of the row.
LEMMA PhantomWrites ==
  ASSUME IInv, RecordOwned, JobsTend, OrphansTended, NEW t \in Threads,
         \/ Sweep(t) \/ WriteLedger(t) \/ TellOutcome(t) \/ OutcomeRefused(t) \/ TakeOutcome(t)
         \/ TakeDecision(t) \/ TellDecision(t)
  PROVE  JobsTend' /\ OrphansTended'
<1>0. /\ row \in [Items -> RowType] /\ ledger \in [Runs -> [item : Items \cup {NoItem}, result : Results]]
      /\ "loop" \in Threads /\ "op" \in Threads
  BY DEF IInv, TypeOK, Threads
<1>1. PICK s \in {"sweep", "ledger", "pay", "paid"} :
        At(t, s) /\ (Step(t) \/ (Finish(t) /\ s \in {"pay", "paid"}))
  BY DEF Sweep, WriteLedger, TellOutcome, OutcomeRefused, TakeOutcome, TakeDecision, TellDecision
<1>2. job[t].item \in Items /\ job[t].do \in Doing /\ job[t].step \in 1..Len(Plan(job[t].do))
      /\ Plan(job[t].do)[job[t].step] = s
  BY <1>1, AtPlace
<1>3. PinsCalm /\ QueueCalm
  <2>1. PICK i, w : i \in Items /\ i = job[t].item /\ w = [row[i] EXCEPT !.owed = "none"]
    BY <1>2
  <2>2. w.run = row[i].run /\ w.state = row[i].state
    BY <1>0, <2>1 DEF RowType
  <2>3. row' = row \/ row' = [row EXCEPT ![i] = w]
    BY <2>1 DEF Sweep, WriteLedger, TellOutcome, OutcomeRefused, TakeOutcome, TakeDecision, TellDecision
  <2> QED
    BY <2>1, <2>2, <2>3, OneRowCalm
<1>4. handle' = handle /\ rec' = rec
  BY DEF Sweep, WriteLedger, TellOutcome, OutcomeRefused, TakeOutcome, TakeDecision, TellDecision,
         records, process
<1>5. \A r \in Runs : ledger'[r].item = ledger[r].item
  <2>1. CASE WriteLedger(t)
    <3>1. PICK q, x : ledger' = [ledger EXCEPT ![q] = [ledger[q] EXCEPT !.result = x]]
      BY <2>1 DEF WriteLedger
    <3> QED
      BY <1>0, <3>1
  <2>2. CASE ledger' = ledger
    BY <2>2
  <2> QED
    BY <2>1, <2>2 DEF Sweep, TellOutcome, OutcomeRefused, TakeOutcome, TakeDecision, TellDecision
<1>6. Untouched
  BY <1>3, <1>4, <1>5 DEF Untouched
<1>7. CASE t = "loop"
  <2>1. JobCalm(job["loop"], job'["loop"]) /\ StillTends(job["loop"], job'["loop"])
    <3>1. CASE Step("loop")
      BY <1>1, <1>7, <3>1, StepCalm
    <3>2. CASE Finish("loop") /\ s \in {"pay", "paid"}
      <4>1. job'["loop"].do = "idle"
        BY <1>0, <3>2 DEF Finish, IInv, TypeOK, Idle
      <4>2. ~Tends(job["loop"])
        BY <1>2, <1>7, <3>2, TendPlans DEF Tends
      <4> QED
        BY <4>1, <4>2, OtherCalm DEF StillTends
    <3> QED
      BY <1>1, <1>7, <3>1, <3>2
  <2>2. job'["op"] = job["op"]
    BY <1>0, <1>1, <1>7, Goes
  <2> QED
    BY <1>6, <2>1, <2>2, UntouchedKeeps DEF OpGoes
<1>8. CASE t = "op"
  <2>1. JobCalm(job["loop"], job'["loop"]) /\ StillTends(job["loop"], job'["loop"])
    <3>1. job'["loop"] = job["loop"]
      BY <1>0, <1>1, <1>8, Goes
    <3> QED
      BY <3>1, SameCalm
  <2>2. OpGoes(job["op"], job'["op"])
    <3> SUFFICES ASSUME job["op"].do = "abandon", job["op"].step \in 1..3
                 PROVE  /\ job["op"].step = 2 /\ job'["op"].run = job["op"].run
                        /\ job'["op"].do = "abandon" /\ job'["op"].step = 3
      BY DEF OpGoes
    <3>1. s = "sweep" /\ job["op"].step = 2 /\ Len(Plan("abandon")) = 6
      BY <1>1, <1>2, <1>8, AbandonPlan
    <3>2. Step("op")
      BY <1>1, <1>8, <3>1
    <3>3. At("op", s)
      BY <1>1, <1>8
    <3>4. \/ job'["op"] = Idle /\ job["op"].step = Len(Plan(job["op"].do))
          \/ /\ job'["op"].do = job["op"].do /\ job'["op"].run = job["op"].run
             /\ job'["op"].step = job["op"].step + 1
      BY <1>0, <3>2, <3>3, Goes
    <3> QED
      BY <3>1, <3>4
  <2> QED
    BY <1>6, <2>1, <2>2, UntouchedKeeps
<1> QED
  BY <1>7, <1>8 DEF Threads

\* The rest of the steps that tend nothing and leave nothing untended.
LEMMA PhantomOthers ==
  ASSUME IInv, RecordOwned, JobsTend, OrphansTended,
         \/ \E i \in Items : Discover(i) \/ DeliverPending(i)
         \/ \E r \in Runs : PollOverride(r) \/ StaleSweep(r) \/ EngineBegin(r)
         \/ \E r \in Runs : ResumeRun(r) \/ GrantRounds(r)
         \/ \E r \in Runs : (\E how \in Ends : EngineEnd(r, how)) \/ \E retry \in BOOLEAN : CancelRun(r, retry)
         \/ Report \/ LookUp \/ ClaimWon \/ ClaimLost \/ Regrant
         \/ UNCHANGED vars
  PROVE  JobsTend' /\ OrphansTended'
<1>0. /\ row \in [Items -> RowType] /\ ledger \in [Runs -> [item : Items \cup {NoItem}, result : Results]]
      /\ "loop" \in Threads /\ "op" \in Threads /\ job \in [Threads -> JobType]
      /\ handle \in [Runs -> HandleType] /\ rec \in [Runs -> RecordStates]
  BY DEF IInv, TypeOK, Threads
<1>1. ASSUME Steady, LivesOn, row' = row, job' = job PROVE JobsTend' /\ OrphansTended'
  BY <1>1, CalmKeeps, SameCalm, SameRowsCalm DEF OpGoes
<1>2. ASSUME NEW i \in Items, NEW w, row' = row \/ row' = [row EXCEPT ![i] = w], w.run = row[i].run,
             row[i].state = "queued" /\ row[i].run # NoRun => w.state = "queued",
             handle' = handle, rec' = rec, ledger' = ledger,
             JobCalm(job["loop"], job'["loop"]), StillTends(job["loop"], job'["loop"]),
             OpGoes(job["op"], job'["op"])
      PROVE  JobsTend' /\ OrphansTended'
  <2>1. Untouched
    BY <1>2, OneRowCalm DEF Untouched
  <2> QED
    BY <1>2, <2>1, UntouchedKeeps
<1>3. ASSUME NEW i \in Items, Discover(i) PROVE JobsTend' /\ OrphansTended'
  <2>1. PICK w : w = [row[i] EXCEPT !.state = "queued"]
    OBVIOUS
  <2>2. w.run = row[i].run /\ w.state = "queued"
    BY <1>0, <2>1 DEF RowType
  <2>3. row' = [row EXCEPT ![i] = w] /\ handle' = handle /\ rec' = rec /\ ledger' = ledger /\ job' = job
    BY <1>3, <2>1 DEF Discover, records, process
  <2>4. JobCalm(job["loop"], job'["loop"]) /\ StillTends(job["loop"], job'["loop"]) /\ OpGoes(job["op"], job'["op"])
    BY <2>3, SameCalm DEF OpGoes
  <2> QED
    BY <1>2, <2>2, <2>3, <2>4
<1>4. ASSUME NEW i \in Items, DeliverPending(i) PROVE JobsTend' /\ OrphansTended'
  <2>1. row' = row /\ handle' = handle /\ rec' = rec /\ ledger' = ledger /\ job["loop"] = Idle
    BY <1>4 DEF DeliverPending, records, process, LoopFree
  <2>2. PICK owed : job' = [job EXCEPT !["loop"] = Begin("deliver", i, NoRun, owed)]
    BY <1>4 DEF DeliverPending
  <2>3. job'["loop"].do = "deliver" /\ job'["op"] = job["op"]
    BY <2>2, LoopHas
  <2>4. ~Tends(job["loop"])
    BY <2>1 DEF Tends, Idle
  <2>5. JobCalm(job["loop"], job'["loop"]) /\ StillTends(job["loop"], job'["loop"]) /\ OpGoes(job["op"], job'["op"])
    BY <2>3, <2>4, OtherCalm DEF OpGoes, StillTends
  <2> QED
    BY <1>2, <2>1, <2>5
<1>5. ASSUME NEW r \in Runs, PollOverride(r) PROVE JobsTend' /\ OrphansTended'
  <2>1. handle' = [handle EXCEPT ![r] = [handle[r] EXCEPT !.stop = TRUE]] /\ row' = row /\ rec' = rec /\ ledger' = ledger /\ job' = job
    BY <1>5 DEF PollOverride, records
  <2>2. \A x \in Runs : handle'[x].at = handle[x].at
    BY <1>0, <2>1 DEF HandleType
  <2>3. Steady /\ LivesOn
    BY <2>1, <2>2 DEF Steady, SameRuns, LivesOn, Live, NonTerminal
  <2> QED
    BY <1>1, <2>1, <2>3
<1>6. ASSUME NEW r \in Runs, StaleSweep(r) PROVE JobsTend' /\ OrphansTended'
  <2>1. PICK x \in {"cancelled", "failed"} : rec' = [rec EXCEPT ![r] = x] /\ row' = row /\ handle' = handle /\ ledger' = ledger /\ job' = job
    BY <1>6 DEF StaleSweep, Reconciled, process
  <2>2. Steady /\ LivesOn
    BY <1>0, <2>1 DEF Steady, SameRuns, LivesOn, Live, NonTerminal
  <2> QED
    BY <1>1, <2>1, <2>2
<1>7. ASSUME NEW r \in Runs, EngineBegin(r) PROVE JobsTend' /\ OrphansTended'
  <2>1. rec' = [rec EXCEPT ![r] = "active"] /\ row' = row /\ handle' = handle /\ ledger' = ledger /\ job' = job
        /\ handle[r].at = "running"
    BY <1>7 DEF EngineBegin, process
  <2>2. Steady /\ LivesOn
    BY <1>0, <2>1 DEF Steady, SameRuns, LivesOn, Live, NonTerminal
  <2> QED
    BY <1>1, <2>1, <2>2
<1>8. ASSUME NEW r \in Runs, NEW how \in Ends, EngineEnd(r, how) PROVE JobsTend' /\ OrphansTended'
  <2>1. PICK x, h : rec' = [rec EXCEPT ![r] = x] /\ row' = row /\ handle' = [handle EXCEPT ![r] = h] /\ ledger' = ledger
                 /\ job' = job /\ handle[r].at = "running" /\ h = [handle[r] EXCEPT !.at = "ended", !.how = how]
    BY <1>8 DEF EngineEnd
  <2>2. h.at = "ended"
    BY <1>0, <2>1 DEF HandleType
  <2>3. handle'[r].at = "ended" /\ \A q \in Runs \ {r} : handle'[q] = handle[q] /\ rec'[q] = rec[q]
    BY <1>0, <2>1, <2>2
  <2>4. Steady /\ LivesOn
    BY <2>1, <2>3 DEF Steady, SameRuns, LivesOn, Live, NonTerminal
  <2> QED
    BY <1>1, <2>1, <2>4
<1>9. ASSUME NEW r \in Runs, NEW retry \in BOOLEAN, CancelRun(r, retry) PROVE JobsTend' /\ OrphansTended'
  <2>1. handle' = [handle EXCEPT ![r] = [handle[r] EXCEPT !.stop = TRUE]] /\ row' = row /\ rec' = rec /\ ledger' = ledger /\ job' = job
    BY <1>9 DEF CancelRun, records
  <2>2. \A x \in Runs : handle'[x].at = handle[x].at
    BY <1>0, <2>1 DEF HandleType
  <2>3. Steady /\ LivesOn
    BY <2>1, <2>2 DEF Steady, SameRuns, LivesOn, Live, NonTerminal
  <2> QED
    BY <1>1, <2>1, <2>3
<1>10. ASSUME NEW r \in Runs, ResumeRun(r) PROVE JobsTend' /\ OrphansTended'
  <2>1. PICK i, w : /\ i = ledger[r].item /\ w = [row[i] EXCEPT !.state = "queued"]
                    /\ row' = [row EXCEPT ![i] = w] /\ job' = job /\ ~Fresh(r)
                    /\ handle' = handle /\ rec' = rec /\ ledger' = ledger
    BY <1>10 DEF ResumeRun, records, process
  <2>2. i \in Items
    BY <1>0, <2>1 DEF Fresh
  <2>3. w.run = row[i].run /\ w.state = "queued"
    BY <1>0, <2>1, <2>2 DEF RowType
  <2>4. JobCalm(job["loop"], job'["loop"]) /\ StillTends(job["loop"], job'["loop"]) /\ OpGoes(job["op"], job'["op"])
    BY <2>1, SameCalm DEF OpGoes
  <2> QED
    BY <1>2, <2>1, <2>2, <2>3, <2>4
<1>11. ASSUME NEW r \in Runs, GrantRounds(r) PROVE JobsTend' /\ OrphansTended'
  <2>1. PICK i : OpBegins("grant", i, r, "none") /\ row' = row /\ handle' = handle /\ rec' = rec /\ ledger' = ledger
                 /\ job["op"] = Idle
    BY <1>11 DEF GrantRounds, records, process, OpFree
  <2>2. job'["loop"] = job["loop"]
    BY <1>0, <2>1 DEF OpBegins
  <2>3. JobCalm(job["loop"], job'["loop"]) /\ StillTends(job["loop"], job'["loop"]) /\ OpGoes(job["op"], job'["op"])
    BY <2>1, <2>2, SameCalm DEF OpGoes, Idle
  <2>4. Untouched
    BY <2>1, SameRowsCalm DEF Untouched
  <2> QED
    BY <2>3, <2>4, UntouchedKeeps
<1>12. CASE Report
  <2>1. At("loop", "report") /\ Step("loop") /\ row' = row /\ handle' = handle /\ rec' = rec /\ ledger' = ledger
    BY <1>12 DEF Report, records, process
  <2>2. JobCalm(job["loop"], job'["loop"]) /\ StillTends(job["loop"], job'["loop"])
    BY <2>1, StepCalm
  <2>3. job'["op"] = job["op"]
    BY <1>0, <2>1, Goes
  <2>4. Untouched
    BY <2>1, SameRowsCalm DEF Untouched
  <2> QED
    BY <2>2, <2>3, <2>4, UntouchedKeeps DEF OpGoes
<1>13. CASE LookUp
  <2>1. At("loop", "look") /\ row' = row /\ handle' = handle /\ rec' = rec /\ ledger' = ledger
    BY <1>13 DEF LookUp, records, process
  <2>2. PICK j, k, a : j = job["loop"] /\ k = job'["loop"] /\ a = Advance("loop")
    OBVIOUS
  <2>3. /\ j.do \in Doing /\ j.step \in 1..Len(Plan(j.do)) /\ Plan(j.do)[j.step] = "look" /\ j \in JobType
    BY <1>0, <2>1, <2>2, AtPlace
  <2>4. j.do \in {"done", "blocked"}
    BY <2>3 DEF Plan, Doing, Launching, Settling, Recovering, Verbing
  <2>5. PICK owed : k = [a EXCEPT !.kind = owed] /\ job'["op"] = job["op"]
    BY <1>0, <1>13, <2>2 DEF LookUp
  <2>6. a = Idle \/ a = [j EXCEPT !.step = @ + 1]
    BY <2>2 DEF Advance
  <2>7. k.do = "idle" \/ (k.do = j.do /\ k.item = j.item /\ k.run = j.run /\ k.step = j.step + 1)
    <3>1. CASE a = Idle
      BY <2>5, <3>1 DEF Idle
    <3>2. CASE a = [j EXCEPT !.step = @ + 1]
      BY <2>3, <2>5, <3>2 DEF JobType
    <3> QED
      BY <2>6, <3>1, <3>2
  <2>8. JobCalm(j, k)
    <3>1. CASE k.do = "idle"
      BY <3>1, OtherCalm
    <3>2. CASE k.do = j.do /\ k.item = j.item /\ k.run = j.run /\ k.step = j.step + 1
      <4>1. RowAhead(k) => RowAhead(j)
        BY <2>3, <3>2, RowWriteNat DEF RowAhead, JobType
      <4> QED
        BY <2>4, <3>2, <4>1 DEF JobCalm, JobMoves, Shut, Opens, Holds, Lifting
    <3> QED
      BY <2>7, <3>1, <3>2
  <2>9. ~Tends(j)
    BY <2>4 DEF Tends
  <2>10. Untouched
    BY <2>1, SameRowsCalm DEF Untouched
  <2> QED
    BY <2>2, <2>5, <2>8, <2>9, <2>10, UntouchedKeeps DEF OpGoes, StillTends
<1>14. CASE ClaimWon \/ ClaimLost
  <2>1. At("loop", "claim") /\ handle' = handle /\ rec' = rec /\ ledger' = ledger
    BY <1>14 DEF ClaimWon, ClaimLost, records, process
  <2>2. PICK i \in Items : i = job["loop"].item
    BY <1>0, <2>1, AtPlace
  <2>3. job["loop"].do = "claim"
    <3>1. PICK do, n : do \in Doing /\ n \in 1..Len(Plan(do)) /\ do = job["loop"].do /\ Plan(do)[n] = "claim"
      BY <1>0, <2>1, AtPlace
    <3> QED
      BY <3>1 DEF Plan, Doing, Launching, Settling, Recovering, Verbing
  <2>4. row[i].run = NoRun /\ ~Tends(job["loop"]) /\ Opens(job["loop"])
    BY <2>2, <2>3 DEF JobsTend, PinsHeld, Opens, Tends
  <2>5. CASE ClaimWon
    <3>1. PICK w : w = [row[i] EXCEPT !.claim = "yes"] /\ row' = [row EXCEPT ![i] = w]
      BY <2>2, <2>5 DEF ClaimWon
    <3>2. w.run = row[i].run /\ w.state = row[i].state
      BY <1>0, <3>1 DEF RowType
    <3>3. PICK r : job' = [job EXCEPT !["loop"] = Begin("start", i, r, "none")]
      BY <2>2, <2>5 DEF ClaimWon
    <3>4. PICK k : k = job'["loop"]
      OBVIOUS
    <3>5. k.do = "start" /\ k.item = i /\ k.run = r /\ k.step = 1 /\ job'["op"] = job["op"]
      BY <3>3, <3>4, LoopHas
    <3>6. JobCalm(job["loop"], k)
      BY <2>2, <2>4, <3>5 DEF JobCalm, JobMoves, Settling, Shut, Holds, Lifting
    <3> QED
      BY <1>2, <2>1, <2>4, <3>1, <3>2, <3>4, <3>5, <3>6 DEF StillTends, OpGoes
  <2>6. CASE ClaimLost
    <3>1. PICK w : w = [state |-> "absent", run |-> NoRun, attempts |-> 0, claim |-> "no", owed |-> "none"]
      OBVIOUS
    <3>2. w.run = NoRun
      BY <3>1
    <3>3. row' = row \/ row' = [row EXCEPT ![i] = w]
      BY <2>2, <2>6, <3>1 DEF ClaimLost
    <3>4. job'["loop"].do = "idle" /\ job'["op"] = job["op"]
      BY <1>0, <2>6 DEF ClaimLost, Finish, Idle
    <3>5. JobCalm(job["loop"], job'["loop"])
      BY <3>4, OtherCalm
    <3> QED
      BY <1>2, <2>1, <2>4, <3>2, <3>3, <3>4, <3>5 DEF StillTends, OpGoes
  <2> QED
    BY <1>14, <2>5, <2>6
<1>15. CASE Regrant
  <2>1. At("op", "regrant") /\ handle' = handle /\ rec' = rec /\ ledger' = ledger
    BY <1>15 DEF Regrant, records, process
  <2>2. PICK i \in Items : i = job["op"].item
    BY <1>0, <2>1, AtPlace
  <2>3. job["op"].do # "abandon"
    <3>1. PICK do, n : do \in Doing /\ n \in 1..Len(Plan(do)) /\ do = job["op"].do /\ Plan(do)[n] = "regrant"
      BY <1>0, <2>1, AtPlace
    <3> QED
      BY <3>1 DEF Plan, Doing, Launching, Settling, Recovering, Verbing
  <2>4. PICK w, owed : w = [row[i] EXCEPT !.state = "queued", !.owed = owed] /\ (row' = row \/ row' = [row EXCEPT ![i] = w])
    BY <1>15, <2>2 DEF Regrant
  <2>5. w.run = row[i].run /\ w.state = "queued"
    BY <1>0, <2>4 DEF RowType
  <2>6. job'["loop"] = job["loop"]
    BY <1>0, <1>15 DEF Regrant, Finish
  <2>7. JobCalm(job["loop"], job'["loop"]) /\ StillTends(job["loop"], job'["loop"]) /\ OpGoes(job["op"], job'["op"])
    BY <2>3, <2>6, SameCalm DEF OpGoes
  <2> QED
    BY <1>2, <2>1, <2>4, <2>5, <2>7
<1>16. CASE UNCHANGED vars
  <2>1. Steady /\ LivesOn /\ row' = row /\ job' = job
    BY <1>16 DEF vars, Steady, SameRuns, LivesOn, Live, NonTerminal
  <2> QED
    BY <1>1, <2>1
<1> QED
  BY <1>3, <1>4, <1>5, <1>6, <1>7, <1>8, <1>9, <1>10, <1>11, <1>12, <1>13, <1>14, <1>15, <1>16

\* Where runs work a checkout, an admitted item has no run in flight.
LEMMA CodeAlone ==
  ASSUME IInv, Items \subseteq CodeItems, NEW i \in Items,
         \A s \in Runs : Live(s) => ~Conflict(i, ledger[s].item)
  PROVE  Alone(i)
<1> SUFFICES ASSUME NEW s \in Runs, Live(s), ledger[s].item = i PROVE FALSE
  BY DEF Alone
<1> QED
  BY DEF Conflict

LEMMA PickPhantom ==
  ASSUME IInv, ClaimPinned, RecordOwned, JobsTend, OrphansTended, Items \subseteq CodeItems,
         NEW i \in Items, Pick(i)
  PROVE  JobsTend' /\ OrphansTended'
<1>0. /\ row \in [Items -> RowType] /\ job \in [Threads -> JobType] /\ "loop" \in Threads /\ "op" \in Threads
  BY DEF IInv, TypeOK, Threads
<1>1. PICK do, q : do = Dispatch(i) /\ q = row[i].run
  OBVIOUS
<1>2. /\ do \in {"claim", "start", "provider_resume", "resume", "failed", "given_up"}
      /\ do = "claim" <=> row[i].claim # "yes"
      /\ do = "start" => q = NoRun
      /\ do \notin {"claim", "start"} => q \in Runs
  BY <1>1, Dispatches
<1>3. /\ job["loop"] = Idle /\ handle' = handle /\ rec' = rec /\ ledger' = ledger
      /\ \A s \in Runs : Live(s) => ~Conflict(i, ledger[s].item)
      /\ row' = IF do = "claim" THEN [row EXCEPT ![i] = [@ EXCEPT !.claim = "posting"]] ELSE row
  BY <1>1 DEF Pick, LoopFree, records, process, AdmissionBlocked, LiveRuns
<1>4. PICK r : /\ job' = [job EXCEPT !["loop"] = Begin(do, i, r, "none")]
               /\ do # "start" => r = q
  BY <1>1 DEF Pick
<1>5. PICK k : k = job'["loop"]
  OBVIOUS
<1>6. k.do = do /\ k.item = i /\ k.run = r /\ k.step = 1 /\ job'["op"] = job["op"]
  BY <1>4, <1>5, LoopHas
<1>7. PinsCalm /\ QueueCalm
  <2>1. PICK w : w = [row[i] EXCEPT !.claim = "posting"]
    OBVIOUS
  <2>2. w.run = row[i].run /\ w.state = row[i].state
    BY <1>0, <2>1 DEF RowType
  <2>3. row' = row \/ row' = [row EXCEPT ![i] = w]
    BY <1>3, <2>1
  <2> QED
    BY <2>2, <2>3, OneRowCalm
<1>8. Steady /\ LivesOn
  BY <1>3 DEF Steady, SameRuns, LivesOn, Live, NonTerminal
<1>9. Alone(i)
  BY <1>3, CodeAlone
<1>10. do \in {"claim", "start"} => q = NoRun
  BY <1>1, <1>2 DEF ClaimPinned
<1>11. SettlesAlone'
  <2>1. k.do # "unstarted"
    BY <1>2, <1>6
  <2>2. ASSUME k.do \in Settling
        PROVE  k.run \in Runs /\ ledger'[k.run].item = k.item
               /\ \A s \in Runs : handle'[s].at # "none" => ledger'[s].item # k.item
    <3>1. do \notin {"claim", "start"}
      BY <1>6, <2>2 DEF Settling
    <3>2. r \in Runs /\ r = row[i].run /\ r # NoRun
      BY <1>1, <1>2, <1>4, <3>1, ConstantsAssumption
    <3> QED
      BY <1>3, <1>6, <1>9, <3>2 DEF IInv, Pinned, Alone, Live
  <2> QED
    BY <1>5, <2>1, <2>2 DEF SettlesAlone, Alone, Live
<1>12. Closed'
  BY <1>2, <1>5, <1>6 DEF Closed, Shut
<1>13. PinsHeld'
  <2>1. Opens(k) => do \in {"claim", "start"}
    BY <1>6 DEF Opens
  <2>2. Holds(k) => do \notin {"claim", "start"}
    BY <1>6 DEF Holds, Lifting
  <2> QED
    BY <1>1, <1>4, <1>5, <1>6, <1>7, <1>10, <2>1, <2>2 DEF PinsHeld, PinsCalm
<1>14. LivePinned'
  BY <1>3, <1>7 DEF JobsTend, LivePinned, Live, PinsCalm, IInv, LiveOwned
<1>15. OrphansTended'
  BY <1>3, <1>6, <1>7, <1>8, CalmTended DEF StillTends, Tends, Idle, OpGoes
<1> QED
  BY <1>11, <1>12, <1>13, <1>14, <1>15 DEF JobsTend

\* What becomes of a run that ended: its record is closed, or will be.
LEMMA VerdictTends ==
  ASSUME IInv, ClaimPinned, JobsTend, EndClosed, daemon = "up", NEW r \in Runs, handle[r].at = "ended",
         NEW k, k.do = Verdict(r), k.step = 1
  PROVE  /\ k.do \in Settling
         /\ Tends(k) \/ (Shut(k) /\ ~NonTerminal(r))
         /\ Shut(k) => ~NonTerminal(r)
<1>1. PICK how, i : how = handle[r].how /\ i = ledger[r].item
  OBVIOUS
<1>2. k.do \in {"overridden", "dropped", "cancelled", "cancelled_retry"} \/ k.do = Outcome(i, r, how)
  BY <1>1 DEF Verdict
<1>3. \/ k.do \in {"provider_held", "failed", "given_up"}
      \/ k.do \in {"done", "blocked", "exhausted", "handed_over"} /\ how \in {"landed", "blocked", "exhausted"}
      \/ k.do \in {"overridden", "dropped", "cancelled", "cancelled_retry"}
  BY <1>2 DEF Outcome, Failure
<1>4. how \in {"landed", "blocked", "exhausted"} => ~NonTerminal(r)
  BY <1>1 DEF EndClosed
<1>5. CASE k.do \in {"provider_held", "failed", "given_up", "overridden", "dropped", "cancelled", "cancelled_retry"}
  <2>1. Tends(k) /\ ~Shut(k) /\ k.do \in Settling
    BY <1>5 DEF Tends, Shut, Settling
  <2> QED
    BY <2>1
<1>6. CASE k.do \in {"done", "blocked", "exhausted", "handed_over"} /\ how \in {"landed", "blocked", "exhausted"}
  <2>1. Shut(k) /\ k.do \in Settling
    BY <1>6 DEF Shut, Settling
  <2> QED
    BY <1>4, <1>6, <2>1
<1> QED
  BY <1>3, <1>5, <1>6

LEMMA SettlePhantom ==
  ASSUME IInv, ClaimPinned, RecordOwned, EndClosed, JobsTend, OrphansTended, daemon = "up",
         NEW r \in Runs, SettleRun(r)
  PROVE  JobsTend' /\ OrphansTended'
<1>0. handle \in [Runs -> HandleType] /\ row \in [Items -> RowType]
  BY DEF IInv, TypeOK
<1>1. PICK i \in Items : i = ledger[r].item
  BY DEF SettleRun, IInv, LiveOwned, Live
<1>2. PICK v : v = Verdict(r)
  OBVIOUS
<1>3. PICK kind :
      /\ job["loop"] = Idle /\ handle[r].at = "ended"
      /\ row' = row /\ ledger' = ledger /\ rec' = rec
      /\ handle' = [handle EXCEPT ![r] = [at |-> "none", how |-> "none", stop |-> FALSE]]
      /\ job' = [job EXCEPT !["loop"] = Begin(v, i, r, kind)]
  BY <1>1, <1>2 DEF SettleRun, records
<1>4. PICK k : k = job'["loop"]
  OBVIOUS
<1>5. k.do = v /\ k.item = i /\ k.run = r /\ k.step = 1 /\ job'["op"] = job["op"]
  BY <1>3, <1>4, LoopHas
<1>6. handle'[r].at = "none" /\ \A s \in Runs \ {r} : handle'[s] = handle[s]
  BY <1>0, <1>3
<1>7. k.do \in Settling /\ (Tends(k) \/ (Shut(k) /\ ~NonTerminal(r))) /\ (Shut(k) => ~NonTerminal(r))
  BY <1>2, <1>3, <1>5, VerdictTends
<1>8. row[i].run = r /\ Live(r)
  BY <1>1, <1>3 DEF JobsTend, LivePinned, Live
<1>9. \A s \in Runs : handle'[s].at # "none" => s # r /\ Live(s)
  BY <1>6 DEF Live
<1>10. SameRuns
  BY <1>3, <1>9 DEF SameRuns
<1>11. SettlesAlone'
  <2>1. \A s \in Runs : handle'[s].at # "none" => ledger'[s].item # k.item
    BY <1>3, <1>5, <1>8, <1>9 DEF JobsTend, LivePinned
  <2>2. k.do # "unstarted"
    BY <1>7 DEF Settling
  <2> QED
    BY <1>1, <1>3, <1>4, <1>5, <2>1, <2>2 DEF SettlesAlone, Alone, Live
<1>12. Closed'
  <2>1. Shut(k) => k.do \in Settling /\ ~(rec'[k.run] \in {"active", "provider_held"})
    BY <1>3, <1>5, <1>7 DEF NonTerminal
  <2> QED
    BY <1>4, <2>1 DEF Closed, NonTerminal
<1>13. PinsHeld'
  <2>1. ~Opens(k)
    BY <1>7 DEF Opens, Settling
  <2> QED
    BY <1>3, <1>4, <1>5, <1>8, <2>1 DEF PinsHeld
<1>14. LivePinned'
  BY <1>3, <1>9 DEF JobsTend, LivePinned, Live
<1>15. OrphansTended'
  <2>1. \A x \in Runs : NonTerminal(x)' => NonTerminal(x)
    BY <1>3 DEF NonTerminal
  <2>2. Tended(r)' \/ ~NonTerminal(r)'
    <3>1. Tends(k) => Tended(r)'
      BY <1>4, <1>5 DEF Tended, Tends
    <3> QED
      BY <1>7, <2>1, <3>1
  <2>3. \A x \in Runs : Live(x) => handle'[x].at # "none" \/ ~NonTerminal(x)' \/ Tended(x)'
    BY <1>6, <2>2 DEF Live
  <2>4. \A x \in Runs : PendingResume(ledger[x].item, x) => PendingResume(ledger[x].item, x)'
    BY <1>3 DEF PendingResume
  <2>5. ASSUME NEW x \in Runs, Tended(x) PROVE Tended(x)'
    <3>1. Drops(job["op"], x)
      BY <1>3, <2>5 DEF Tended, Tends, Idle
    <3>2. PinsCalm /\ OpGoes(job["op"], job'["op"])
      BY <1>3, <1>5 DEF PinsCalm, OpGoes
    <3> QED
      BY <3>1, <3>2, DropsOn
  <2> QED
    BY <1>10, <2>1, <2>3, <2>4, <2>5, TendedKept
<1> QED
  BY <1>11, <1>12, <1>13, <1>14, <1>15 DEF JobsTend

LEMMA MarkRunningPhantom ==
  ASSUME IInv, RecordOwned, JobsTend, OrphansTended, Items \subseteq CodeItems, MarkRunning
  PROVE  JobsTend' /\ OrphansTended'
<1>0. /\ row \in [Items -> RowType] /\ "loop" \in Threads /\ "op" \in Threads
      /\ ledger \in [Runs -> [item : Items \cup {NoItem}, result : Results]]
  BY DEF IInv, TypeOK, Threads
<1>1. PICK j, k : j = job["loop"] /\ k = job'["loop"]
  OBVIOUS
<1>2. At("loop", "mark") /\ Step("loop")
  BY DEF MarkRunning
<1>3. j.do = "start" /\ j.step = 1 /\ j.item \in Items
  BY <1>0, <1>1, <1>2, AtPlace, MarkIsFirst
<1>4. j.run \in Runs /\ Fresh(j.run) /\ \A s \in Runs : Live(s) => ~Conflict(j.item, ledger[s].item)
  BY <1>1, <1>3 DEF IInv, LaunchReady, Launching
<1>5. PICK i \in Items, r \in Runs : i = j.item /\ r = j.run
  BY <1>3, <1>4
<1>6. j.step # Len(Plan(j.do))
  BY <1>3 DEF Plan
<1>7. k.do = "start" /\ k.item = i /\ k.run = r /\ k.step = 2 /\ job'["op"] = job["op"]
  <2>1. /\ \A u \in Threads \ {"loop"} : job'[u] = job[u]
        /\ \/ k = Idle /\ (Step("loop") => j.step = Len(Plan(j.do)))
           \/ k.do = j.do /\ k.item = j.item /\ k.run = j.run /\ k.step = j.step + 1
    BY <1>0, <1>1, <1>2, Goes, Zenon
  <2> QED
    BY <1>0, <1>2, <1>3, <1>5, <1>6, <2>1
<1>8. row'[i].run = r /\ \A x \in Items \ {i} : row'[x] = row[x]
  BY <1>0, <1>1, <1>5 DEF MarkRunning, RowType
<1>9. /\ ledger'[r].item = i /\ \A s \in Runs \ {r} : ledger'[s] = ledger[s]
      /\ rec' = rec /\ handle' = handle
  BY <1>0, <1>1, <1>5 DEF MarkRunning, records, process
<1>10. ledger[r].item \notin Items /\ ~Live(r) /\ ~NonTerminal(r)
  BY <1>4, <1>5, ConstantsAssumption DEF Fresh, IInv, LiveOwned, RecordOwned
<1>11. row[i].run = NoRun
  BY <1>1, <1>3, <1>5 DEF JobsTend, PinsHeld, Opens
<1>12. Alone(i)
  BY <1>4, <1>5, CodeAlone
<1>13. SettlesAlone' /\ Closed'
  <2>1. k.do # "unstarted" /\ k.do \notin Settling /\ ~Shut(k)
    BY <1>7 DEF Settling, Shut
  <2> QED
    BY <1>1, <2>1 DEF SettlesAlone, Closed
<1>14. PinsHeld'
  <2>1. ~Opens(k)
    BY <1>7 DEF Opens
  <2> QED
    BY <1>1, <1>7, <1>8, <2>1 DEF PinsHeld
<1>15. LivePinned'
  <2> SUFFICES ASSUME NEW s \in Runs, handle'[s].at # "none" PROVE row'[ledger'[s].item].run = s
    BY DEF LivePinned, Live
  <2>1. Live(s) /\ s # r /\ ledger[s].item \in Items
    BY <1>9, <1>10 DEF Live, IInv, LiveOwned
  <2>2. ledger'[s].item = ledger[s].item /\ ledger[s].item # i
    BY <1>9, <1>12, <2>1 DEF Alone
  <2> QED
    BY <1>8, <2>1, <2>2 DEF JobsTend, LivePinned
<1>16. OrphansTended'
  <2> SUFFICES ASSUME NEW x \in Runs, Orphan(x)' PROVE Tended(x)'
    BY DEF OrphansTended
  <2>1. NonTerminal(x) /\ ~Live(x) /\ ~(row'[ledger'[x].item].state = "queued" /\ row'[ledger'[x].item].run = x)
    BY <1>9 DEF Orphan, NonTerminal, Live, PendingResume
  <2>2. x # r /\ ledger'[x] = ledger[x] /\ ledger[x].item \in Items
    BY <1>9, <1>10, <2>1 DEF RecordOwned
  <2>3. ~PendingResume(ledger[x].item, x)
    <3> SUFFICES ASSUME row[ledger[x].item].state = "queued", row[ledger[x].item].run = x PROVE FALSE
      BY DEF PendingResume
    <3>1. ledger[x].item # i
      BY <1>11, ConstantsAssumption
    <3> QED
      BY <1>8, <2>1, <2>2, <3>1
  <2>4. Tended(x)
    BY <2>1, <2>3 DEF Orphan, OrphansTended
  <2>5. Drops(job["op"], x)
    BY <1>1, <1>5, <2>2, <2>4 DEF Tended
  <2>6. PICK o : o = job["op"] /\ o = job'["op"]
    BY <1>7
  <2>7. o.run = x /\ o.do = "abandon" /\ o.step \in 1..3 /\ (o.step = 1 => row[o.item].run = x)
    BY <2>5, <2>6 DEF Drops
  <2>8. o.item \in Items
    BY <1>0, <2>6, <2>7 DEF IInv, JobsNamed
  <2>9. o.step = 1 => row'[o.item].run = x
    BY <1>8, <1>11, <2>7, <2>8, ConstantsAssumption
  <2> QED
    BY <2>6, <2>7, <2>9 DEF Tended, Drops
<1> QED
  BY <1>13, <1>14, <1>15, <1>16 DEF JobsTend

LEMMA MarkResumingPhantom ==
  ASSUME IInv, RecordOwned, JobsTend, OrphansTended, MarkResuming
  PROVE  JobsTend' /\ OrphansTended'
<1>0. row \in [Items -> RowType] /\ "loop" \in Threads /\ "op" \in Threads
  BY DEF IInv, TypeOK, Threads
<1>1. PICK j, k : j = job["loop"] /\ k = job'["loop"]
  OBVIOUS
<1>2. At("loop", "remark") /\ Step("loop") /\ handle' = handle /\ rec' = rec /\ ledger' = ledger
  BY DEF MarkResuming, records, process
<1>3. PICK i \in Items : i = j.item
  BY <1>0, <1>1, <1>2, AtPlace
<1>4. j.do \in {"resume", "provider_resume"}
  BY <1>0, <1>1, <1>2, AtPlace, PlanPlaces
<1>5. JobCalm(j, k) /\ StillTends(j, k) /\ job'["op"] = job["op"]
  BY <1>0, <1>1, <1>2, StepCalm, Goes
<1>6. PICK w : w = [row[i] EXCEPT !.state = "running"]
  OBVIOUS
<1>7. w.run = row[i].run /\ row' = [row EXCEPT ![i] = w] /\ row[i].run = j.run
  BY <1>0, <1>1, <1>3, <1>6 DEF MarkResuming, RowType
<1>8. PinsCalm /\ \A x \in Items \ {i} : row'[x] = row[x]
  BY <1>0, <1>7 DEF PinsCalm
<1>9. Steady /\ SameRuns
  BY <1>2 DEF Steady, SameRuns, Live, NonTerminal
<1>10. JobsTend'
  BY <1>1, <1>5, <1>8, <1>9, ClosedKept, JobsKept DEF JobCalm, PinsCalm
<1>11. Tends(k) /\ k.run = j.run
  BY <1>4, <1>5 DEF StillTends, Tends
<1>12. \A x \in Runs : x = j.run => Tended(x)'
  BY <1>1, <1>11 DEF Tended, Tends
<1>13. ASSUME NEW x \in Runs, PendingResume(ledger[x].item, x), ledger[x].item \in Items
       PROVE  PendingResume(ledger[x].item, x)' \/ Tended(x)'
  <2>1. CASE ledger[x].item = i
    BY <1>7, <1>12, <1>13, <2>1 DEF PendingResume
  <2>2. CASE ledger[x].item # i
    BY <1>2, <1>8, <1>13, <2>2 DEF PendingResume
  <2> QED
    BY <2>1, <2>2
<1>14. ASSUME NEW x \in Runs, Tended(x) PROVE Tended(x)'
  <2>1. CASE job["loop"].run = x
    BY <1>1, <1>12, <2>1
  <2>2. CASE Drops(job["op"], x)
    BY <1>5, <1>8, <2>2, DropsOn DEF OpGoes
  <2> QED
    BY <1>14, <2>1, <2>2 DEF Tended
<1>15. \A x \in Runs : Live(x) => handle'[x].at # "none"
  BY <1>2 DEF Live
<1>16. \A x \in Runs : NonTerminal(x)' => NonTerminal(x)
  BY <1>2 DEF NonTerminal
<1>17. OrphansTended'
  BY <1>9, <1>13, <1>14, <1>15, <1>16, TendedKept
<1> QED
  BY <1>10, <1>17

LEMMA LiftPlans ==
  ASSUME NEW do \in Doing, NEW n \in 1..Len(Plan(do)), Plan(do)[n] = "launch"
  PROVE  (do \in {"start", "provider_resume"} /\ n = 2) \/ (do = "resume" /\ n = 3)
  BY DEF Plan, Doing, Launching, Settling, Recovering, Verbing

LEMMA LaunchPhantom ==
  ASSUME IInv, RecordOwned, JobsTend, OrphansTended, Launch
  PROVE  JobsTend' /\ OrphansTended'
<1>0. handle \in [Runs -> HandleType] /\ "loop" \in Threads /\ "op" \in Threads
  BY DEF IInv, TypeOK, Threads
<1>1. PICK j, k : j = job["loop"] /\ k = job'["loop"]
  OBVIOUS
<1>2. At("loop", "launch") /\ Step("loop") /\ row' = row /\ rec' = rec /\ ledger' = ledger
      /\ handle' = [handle EXCEPT ![j.run] = [at |-> "running", how |-> "none", stop |-> FALSE]]
  BY <1>1 DEF Launch, records
<1>3. j.do \in Doing /\ j.step \in 1..Len(Plan(j.do)) /\ Plan(j.do)[j.step] = "launch"
  BY <1>0, <1>1, <1>2, AtPlace
<1>4. (j.do \in {"start", "provider_resume"} /\ j.step = 2) \/ (j.do = "resume" /\ j.step = 3)
  BY <1>3, LiftPlans
<1>5. k = Idle /\ job'["op"] = job["op"]
  <2>1. j.step = Len(Plan(j.do))
    BY <1>3, LaunchIsLast
  <2>2. Len(Plan(j.do)) \in Nat
    BY <1>3, PlanLen
  <2> QED
    BY <1>0, <1>1, <1>2, <2>1, <2>2, Goes
<1>6. j.run \in Runs /\ ledger[j.run].item = j.item /\ row[j.item].run = j.run
  <2>1. Holds(j)
    BY <1>4 DEF Holds, Lifting
  <2> QED
    BY <1>1, <1>4, <2>1 DEF IInv, LaunchReady, JobsTend, PinsHeld
<1>7. handle'[j.run].at = "running" /\ \A s \in Runs \ {j.run} : handle'[s] = handle[s]
  BY <1>0, <1>2, <1>6
<1>8. k.do = "idle"
  BY <1>5 DEF Idle
<1>9. SettlesAlone' /\ Closed' /\ PinsHeld'
  <2>1. k.do # "unstarted" /\ k.do \notin Settling /\ ~Shut(k) /\ ~Opens(k)
    BY <1>8 DEF Settling, Shut, Opens
  <2>2. ~Holds(k)
    BY <1>8 DEF Holds, RowAhead, LastRowWrite, Lifting
  <2> QED
    BY <1>1, <2>1, <2>2 DEF SettlesAlone, Closed, PinsHeld
<1>10. LivePinned'
  BY <1>2, <1>6, <1>7 DEF LivePinned, Live, JobsTend
<1>11. OrphansTended'
  <2> SUFFICES ASSUME NEW x \in Runs, Orphan(x)' PROVE Tended(x)'
    BY DEF OrphansTended
  <2>1. x # j.run /\ Orphan(x)
    BY <1>2, <1>7 DEF Orphan, NonTerminal, Live, PendingResume
  <2>2. Drops(job["op"], x)
    BY <1>1, <2>1 DEF OrphansTended, Tended
  <2>3. PinsCalm /\ OpGoes(job["op"], job'["op"])
    BY <1>2, <1>5 DEF PinsCalm, OpGoes
  <2> QED
    BY <2>2, <2>3, DropsOn
<1> QED
  BY <1>9, <1>10, <1>11 DEF JobsTend

\* What a write of the record leaves open.
LEMMA RecordCloses ==
  ASSUME IInv, NEW t \in Threads, WriteRecord(t), NEW x \in Runs
  PROVE  /\ x # job[t].run => rec'[x] = rec[x]
         /\ NonTerminal(x)' => NonTerminal(x) \/ (x = job[t].run /\ job[t].do = "provider_held")
         /\ x = job[t].run /\ NonTerminal(x)' => job[t].do \in {"exhausted", "grant", "provider_held"}
<1>0. rec \in [Runs -> RecordStates]
  BY DEF IInv, TypeOK
<1>1. PICK do, r : do = job[t].do /\ r = job[t].run
  OBVIOUS
<1>2. rec' = [rec EXCEPT ![r] = RecordAfter(do, r)]
  BY <1>1 DEF WriteRecord
<1>3. x # r => rec'[x] = rec[x]
  BY <1>0, <1>2
<1>4. x = r => rec'[x] = RecordAfter(do, x)
  BY <1>0, <1>2
<1>5. RecordAfter(do, x) \in {"active", "provider_held"} =>
        do \in {"exhausted", "grant", "provider_held"} /\ (do # "provider_held" => NonTerminal(x))
  BY DEF RecordAfter, NonTerminal
<1> QED
  BY <1>1, <1>3, <1>4, <1>5 DEF NonTerminal

LEMMA LoopRecordPhantom ==
  ASSUME IInv, LoopPlans, RecordOwned, JobsTend, OrphansTended, WriteRecord("loop")
  PROVE  JobsTend' /\ OrphansTended'
<1>0. "loop" \in Threads /\ "op" \in Threads
  BY DEF Threads
<1>1. PICK j, k : j = job["loop"] /\ k = job'["loop"]
  OBVIOUS
<1>2. At("loop", "record") /\ Step("loop") /\ row' = row /\ handle' = handle /\ ledger' = ledger
  BY DEF WriteRecord, process
<1>3. j.do \in Doing /\ j.step \in 1..Len(Plan(j.do)) /\ Plan(j.do)[j.step] = "record" /\ j.step \in Nat
  BY <1>0, <1>1, <1>2, AtPlace DEF JobType
<1>4. /\ j.do \in (Settling \ {"interrupted", "done", "blocked", "handed_over"}) \cup {"close_abandoned", "close_requeued"}
      /\ j.do # "grant"
  BY <1>1, <1>3, RecordPlans DEF LoopPlans, Verbing
<1>5. \A x \in Runs :
         /\ x # j.run => rec'[x] = rec[x]
         /\ NonTerminal(x)' => NonTerminal(x) \/ (x = j.run /\ j.do = "provider_held")
         /\ x = j.run /\ NonTerminal(x)' => j.do \in {"exhausted", "provider_held"}
  BY <1>0, <1>1, <1>4, RecordCloses
<1>6. \/ k = Idle /\ j.step = Len(Plan(j.do))
      \/ k.do = j.do /\ k.item = j.item /\ k.run = j.run /\ k.step = j.step + 1
  BY <1>0, <1>1, <1>2, Goes
<1>7. job'["op"] = job["op"] /\ JobMoves(j, k)
  BY <1>0, <1>1, <1>2, Goes, StepCalm
<1>8. j.do = "exhausted" => j.run \in Runs /\ ~NonTerminal(j.run)
  BY <1>1 DEF JobsTend, Closed, Shut, SettlesAlone, Settling
<1>9. j.do = "provider_held" => Tends(k) /\ k.run = j.run
  <2> SUFFICES ASSUME j.do = "provider_held" PROVE Tends(k) /\ k.run = j.run
    OBVIOUS
  <2>1. j.step = 1 /\ Len(Plan(j.do)) = 3
    BY <1>3, PlanPlaces, TendPlans
  <2>2. k.do = j.do /\ k.run = j.run /\ k.step = j.step + 1
    BY <1>6, <2>1
  <2> QED
    BY <2>1, <2>2 DEF Tends
<1>10. Closed'
  <2> SUFFICES ASSUME Shut(k) PROVE k.do \in Settling /\ ~NonTerminal(k.run)'
    BY <1>1 DEF Closed, NonTerminal
  <2>1. k.do \in Settling
    BY ShutSettles
  <2>2. k.do = j.do /\ k.run = j.run /\ j.do \in Settling /\ j.do # "provider_held"
    BY <1>6, <2>1 DEF Idle, Settling, Shut
  <2>3. j.run \in Runs
    BY <1>1, <2>2 DEF JobsTend, SettlesAlone
  <2> QED
    BY <1>5, <1>8, <2>1, <2>2, <2>3
<1>11. SameRuns
  BY <1>2 DEF SameRuns, Live
<1>12. JobsTend'
  BY <1>1, <1>2, <1>7, <1>10, <1>11, JobsKept
<1>13. j.do = "provider_held" => \A x \in Runs : x = j.run => Tended(x)'
  BY <1>1, <1>9 DEF Tended, Tends
<1>14. \A x \in Runs : NonTerminal(x)' => NonTerminal(x) \/ Tended(x)'
  BY <1>5, <1>13
<1>15. \A x \in Runs : Live(x) => handle'[x].at # "none"
  BY <1>2 DEF Live
<1>16. \A x \in Runs : PendingResume(ledger[x].item, x) => PendingResume(ledger[x].item, x)'
  BY <1>2 DEF PendingResume
<1>17. ASSUME NEW x \in Runs, Tended(x) PROVE Tended(x)' \/ ~Orphan(x)'
  <2>1. CASE x = j.run /\ Tends(j)
    <3>1. j.do # "exhausted"
      BY <2>1 DEF Tends
    <3>2. NonTerminal(x)' => Tended(x)'
      BY <1>5, <1>13, <2>1, <3>1
    <3> QED
      BY <3>2 DEF Orphan
  <2>2. CASE Drops(job["op"], x)
    <3>1. PinsCalm
      BY <1>2 DEF PinsCalm
    <3> QED
      BY <1>7, <2>2, <3>1, DropsOn DEF OpGoes
  <2> QED
    BY <1>1, <1>17, <2>1, <2>2 DEF Tended
<1>18. OrphansTended'
  BY <1>11, <1>14, <1>15, <1>16, <1>17, TendedKept
<1> QED
  BY <1>12, <1>18

LEMMA OpRecordPhantom ==
  ASSUME IInv, OpPlans, RecordOwned, JobsTend, OrphansTended, WriteRecord("op")
  PROVE  JobsTend' /\ OrphansTended'
<1>0. "loop" \in Threads /\ "op" \in Threads
  BY DEF Threads
<1>1. PICK o : o = job["op"]
  OBVIOUS
<1>2. At("op", "record") /\ Step("op") /\ row' = row /\ handle' = handle /\ ledger' = ledger
  BY DEF WriteRecord, process
<1>3. o.do # "provider_held" /\ job'["loop"] = job["loop"]
  BY <1>0, <1>1, <1>2, Goes DEF OpPlans, Verbing
<1>4. \A x \in Runs :
         /\ NonTerminal(x)' => NonTerminal(x)
         /\ x = o.run /\ NonTerminal(x)' => o.do # "abandon"
  BY <1>0, <1>1, <1>3, RecordCloses
<1>5. Steady /\ SameRuns
  BY <1>2, <1>4 DEF Steady, SameRuns, Live
<1>6. PICK j, k : j = job["loop"] /\ k = job'["loop"]
  OBVIOUS
<1>7. JobCalm(job["loop"], job'["loop"])
  BY <1>3, SameCalm
<1>8. JobsTend'
  BY <1>2, <1>5, <1>7, ClosedKept, JobsKept DEF JobCalm
<1>9. \A x \in Runs : Live(x) => handle'[x].at # "none"
  BY <1>2 DEF Live
<1>10. \A x \in Runs : PendingResume(ledger[x].item, x) => PendingResume(ledger[x].item, x)'
  BY <1>2 DEF PendingResume
<1>11. ASSUME NEW x \in Runs, Tended(x) PROVE Tended(x)' \/ ~Orphan(x)'
  <2>1. CASE j.run = x /\ Tends(j)
    <3>1. k = j
      BY <1>3, <1>6
    <3> QED
      BY <1>6, <2>1, <3>1 DEF Tended, Tends
  <2>2. CASE Drops(job["op"], x)
    BY <1>1, <1>4, <2>2 DEF Drops, Orphan
  <2> QED
    BY <1>6, <1>11, <2>1, <2>2 DEF Tended
<1>12. OrphansTended'
  BY <1>4, <1>5, <1>9, <1>10, <1>11, TendedKept
<1> QED
  BY <1>8, <1>12

\* The row of a run whose record is closed moves: nothing waits for it.
LEMMA RowLoses ==
  ASSUME IInv, RecordOwned, JobsTend, OrphansTended, handle' = handle, rec' = rec, ledger' = ledger,
         NEW j, j = job["loop"], NEW k, k = job'["loop"], JobCalm(j, k), StillTends(j, k),
         job'["op"] = job["op"], Shut(j), Holds(j), NEW i \in Items, i = j.item,
         \A x \in Items \ {i} : row'[x] = row[x],
         row'[i].run = row[i].run \/ ~(Opens(k) \/ Holds(k))
  PROVE  JobsTend' /\ OrphansTended'
<1>1. /\ j.do \in Settling /\ j.run \in Runs /\ ~NonTerminal(j.run) /\ Alone(i) /\ row[i].run = j.run
  BY ShutSettles DEF JobsTend, SettlesAlone, Closed, PinsHeld
<1>2. Steady /\ SameRuns
  BY DEF Steady, SameRuns, Live, NonTerminal
<1>3. \A x \in Items : \/ row'[x].run = row[x].run
                       \/ Alone(x) /\ ~(k.item = x /\ (Opens(k) \/ Holds(k)))
  BY <1>1
<1>4. JobCalm(job["loop"], job'["loop"]) /\ JobMoves(job["loop"], job'["loop"])
  BY DEF JobCalm
<1>5. JobsTend'
  BY <1>2, <1>3, <1>4, ClosedKept, JobsKept
<1>6. \A x \in Runs : NonTerminal(x)' => NonTerminal(x)
  BY DEF NonTerminal
<1>7. ~NonTerminal(j.run)'
  BY <1>1, <1>6
<1>8. \A x \in Runs : Live(x) => handle'[x].at # "none"
  BY DEF Live
<1>9. ASSUME NEW x \in Runs, PendingResume(ledger[x].item, x), ledger[x].item \in Items
      PROVE  PendingResume(ledger[x].item, x)' \/ ~NonTerminal(x)'
  <2>1. CASE ledger[x].item = i
    BY <1>1, <1>7, <1>9, <2>1 DEF PendingResume
  <2>2. CASE ledger[x].item # i
    BY <1>9, <2>2 DEF PendingResume
  <2> QED
    BY <2>1, <2>2
<1>10. ASSUME NEW x \in Runs, Tended(x) PROVE Tended(x)' \/ ~Orphan(x)'
  <2>1. CASE j.run = x /\ Tends(j)
    <3>1. k.run = x /\ Tends(k)
      BY <2>1 DEF StillTends
    <3> QED
      BY <3>1 DEF Tended, Tends
  <2>2. CASE Drops(job["op"], x)
    <3>1. PICK o : o = job["op"]
      OBVIOUS
    <3>2. o.run = x /\ o.do = "abandon" /\ o.step \in 1..3 /\ (o.step = 1 => row[o.item].run = x)
      BY <2>2, <3>1 DEF Drops
    <3>3. o.item \in Items
      BY <3>1, <3>2 DEF IInv, JobsNamed, Threads
    <3>4. CASE o.item = i /\ row[o.item].run = x
      BY <1>1, <1>7, <3>4 DEF Orphan
    <3>5. CASE o.step = 1 => row'[o.item].run = x
      BY <3>1, <3>2, <3>5 DEF Tended, Drops
    <3> QED
      BY <3>2, <3>3, <3>4, <3>5
  <2> QED
    BY <1>10, <2>1, <2>2 DEF Tended
<1>11. OrphansTended'
  BY <1>2, <1>6, <1>8, <1>9, <1>10, TendedKept
<1> QED
  BY <1>5, <1>11

LEMMA HoldPlans ==
  ASSUME NEW do \in Doing, NEW n \in 1..Len(Plan(do)), Plan(do)[n] = "row"
  PROVE  /\ n \in 1..LastRowWrite(do)
         /\ do = "failed" => n + 1 \notin 1..LastRowWrite(do)
         /\ do \in {"cancelled", "cancelled_retry"} => n > 1
  BY DEF Plan, Doing, Launching, Settling, Recovering, Verbing, LastRowWrite

LEMMA LoopRowPhantom ==
  ASSUME IInv, LoopPlans, ChurnInv, RecordOwned, JobsTend, OrphansTended, WriteRow("loop")
  PROVE  JobsTend' /\ OrphansTended'
<1>0. "loop" \in Threads /\ "op" \in Threads /\ row \in [Items -> RowType]
  BY DEF Threads, IInv, TypeOK
<1>1. PICK j, k : j = job["loop"] /\ k = job'["loop"]
  OBVIOUS
<1>2. At("loop", "row") /\ Step("loop") /\ rec' = rec /\ handle' = handle /\ ledger' = ledger
  BY DEF WriteRow, process, records
<1>3. PICK do, n, i : do = j.do /\ n = j.step /\ i = j.item
  OBVIOUS
<1>4. do \in Doing /\ n \in 1..Len(Plan(do)) /\ Plan(do)[n] = "row" /\ n \in Nat /\ i \in Items
  BY <1>0, <1>1, <1>2, <1>3, AtPlace DEF JobType
<1>5. do \in {"done", "blocked", "given_up", "handed_over", "cancelled", "cancelled_retry", "failed"} \cup Requeueing
      /\ (do \in {"failed", "given_up"} => n = 3)
  BY <1>1, <1>3, <1>4, RowPlans DEF LoopPlans, Verbing, JobsTend, SettlesAlone
<1>6. n \in 1..LastRowWrite(do) /\ (do = "failed" => n + 1 \notin 1..LastRowWrite(do))
      /\ (do \in {"cancelled", "cancelled_retry"} => n > 1)
  BY <1>4, HoldPlans
<1>7. \/ k = Idle /\ n = Len(Plan(do))
      \/ k.do = do /\ k.item = i /\ k.run = j.run /\ k.step = n + 1
  BY <1>0, <1>1, <1>2, <1>3, Goes
<1>8. job'["op"] = job["op"] /\ JobCalm(j, k) /\ (do # "provider_held" => StillTends(j, k))
  BY <1>0, <1>1, <1>2, <1>3, Goes, StepCalm
<1>9. Holds(j) /\ row[i].run = j.run
  <2>1. Holds(j)
    BY <1>3, <1>5, <1>6 DEF Holds, RowAhead, Requeueing
  <2> QED
    BY <1>1, <1>3, <2>1 DEF JobsTend, PinsHeld
<1>10. PICK w : w = RowAfter(do, row[i])
  OBVIOUS
<1>11. row' = row \/ row' = [row EXCEPT ![i] = w]
  BY <1>1, <1>3, <1>10 DEF WriteRow
<1>12. \A x \in Items \ {i} : row'[x] = row[x]
  BY <1>0, <1>11
<1>13. do # "failed" => w.run = row[i].run
  BY <1>0, <1>4, <1>5, <1>10, RowAfterShape DEF Requeueing
<1>14. CASE do \notin Requeueing
  <2>1. Shut(j)
    BY <1>3, <1>5, <1>6, <1>14 DEF Shut
  <2>2. row'[i].run = row[i].run \/ ~(Opens(k) \/ Holds(k))
    <3>1. CASE do # "failed"
      BY <1>0, <1>4, <1>11, <1>13, <3>1
    <3>2. CASE do = "failed"
      <4>1. k.do \in {"idle", "failed"} /\ (k.do = "failed" => k.step \notin 1..LastRowWrite(k.do))
        BY <1>6, <1>7, <3>2 DEF Idle
      <4>2. ~RowAhead(k)
        BY <4>1 DEF RowAhead, LastRowWrite
      <4> QED
        BY <4>1, <4>2 DEF Opens, Holds, Lifting
    <3> QED
      BY <3>1, <3>2
  <2>3. StillTends(j, k)
    BY <1>8, <1>14 DEF Requeueing
  <2> QED
    BY <1>1, <1>2, <1>3, <1>4, <1>8, <1>9, <1>12, <2>1, <2>2, <2>3, RowLoses
<1>15. CASE do \in Requeueing
  <2>1. w.state = "queued" /\ w.run = row[i].run
    BY <1>0, <1>4, <1>10, <1>13, <1>15 DEF RowAfter, Requeueing, RowType
  <2>2. PinsCalm /\ QueueCalm
    BY <1>4, <1>11, <2>1, OneRowCalm
  <2>3. Untouched
    BY <1>2, <2>2 DEF Untouched
  <2>4. CASE do # "provider_held"
    BY <1>1, <1>8, <2>3, <2>4, UntouchedKeeps DEF OpGoes
  <2>5. CASE do = "provider_held"
    <3>1. Steady /\ SameRuns
      BY <1>2 DEF Steady, SameRuns, Live, NonTerminal
    <3>2. JobsTend'
      BY <1>1, <1>8, <2>2, <3>1, ClosedKept, JobsKept DEF JobCalm, PinsCalm
    <3>3. j.run \in Runs /\ ledger[j.run].item = i
      BY <1>1, <1>3, <2>5 DEF ChurnInv, JobsOf
    <3>4. row[i].state # "absent"
      BY <1>4, <1>9, <3>3, ConstantsAssumption DEF ChurnInv, ClaimPinned
    <3>5. row' = [row EXCEPT ![i] = w]
      BY <1>1, <1>3, <1>10, <3>4 DEF WriteRow
    <3>6. row'[i] = w
      BY <1>0, <1>4, <3>5
    <3>7. PendingResume(ledger[j.run].item, j.run)'
      BY <1>2, <1>9, <2>1, <3>3, <3>6 DEF PendingResume
    <3>8. ASSUME NEW x \in Runs, Tended(x) PROVE Tended(x)' \/ ~Orphan(x)'
      <4>1. CASE j.run = x
        BY <3>7, <4>1 DEF Orphan
      <4>2. CASE Drops(job["op"], x)
        BY <1>8, <2>2, <4>2, DropsOn DEF OpGoes
      <4> QED
        BY <1>1, <3>8, <4>1, <4>2 DEF Tended
    <3>9. \A x \in Runs : Live(x) => handle'[x].at # "none"
      BY <1>2 DEF Live
    <3>10. ASSUME NEW x \in Runs, PendingResume(ledger[x].item, x), ledger[x].item \in Items
           PROVE  PendingResume(ledger[x].item, x)'
      <4>1. row[ledger[x].item].run # NoRun
        BY <3>10, ConstantsAssumption DEF PendingResume
      <4> QED
        BY <1>2, <2>2, <3>10, <4>1 DEF PendingResume, PinsCalm, QueueCalm
    <3>11. \A x \in Runs : NonTerminal(x)' => NonTerminal(x)
      BY <1>2 DEF NonTerminal
    <3>12. OrphansTended'
      BY <3>1, <3>8, <3>9, <3>10, <3>11, TendedKept
    <3> QED
      BY <3>2, <3>12
  <2> QED
    BY <2>4, <2>5
<1> QED
  BY <1>14, <1>15

LEMMA AgainPhantom ==
  ASSUME IInv, RecordOwned, JobsTend, OrphansTended, CancelledAgain
  PROVE  JobsTend' /\ OrphansTended'
<1>0. "loop" \in Threads /\ "op" \in Threads /\ row \in [Items -> RowType]
  BY DEF Threads, IInv, TypeOK
<1>1. PICK j, k : j = job["loop"] /\ k = job'["loop"]
  OBVIOUS
<1>2. At("loop", "again") /\ Step("loop") /\ rec' = rec /\ handle' = handle /\ ledger' = ledger
  BY DEF CancelledAgain, process, records
<1>3. j.do \in Doing /\ j.step \in 1..Len(Plan(j.do)) /\ Plan(j.do)[j.step] = "again" /\ j.step \in Nat /\ j.item \in Items
  BY <1>0, <1>1, <1>2, AtPlace DEF JobType
<1>4. j.do = "cancelled_retry" /\ j.step = 4
  BY <1>3 DEF Plan, Doing, Launching, Settling, Recovering, Verbing
<1>5. k.do = "idle" \/ (k.do = j.do /\ k.step = 5)
  <2>1. \/ k = Idle
        \/ k.do = j.do /\ k.step = j.step + 1
    BY <1>0, <1>1, <1>2, Goes
  <2> QED
    BY <1>4, <2>1 DEF Idle
<1>6. job'["op"] = job["op"] /\ JobCalm(j, k) /\ StillTends(j, k)
  BY <1>0, <1>1, <1>2, Goes, StepCalm
<1>7. Shut(j) /\ Holds(j)
  BY <1>4 DEF Shut, Holds, RowAhead, LastRowWrite
<1>8. ~(Opens(k) \/ Holds(k))
  <2>1. ~RowAhead(k)
    BY <1>4, <1>5 DEF RowAhead, LastRowWrite
  <2> QED
    BY <1>4, <1>5, <2>1 DEF Opens, Holds, Lifting
<1>9. PICK i \in Items : i = j.item
  BY <1>3
<1>10. \A x \in Items \ {i} : row'[x] = row[x]
  BY <1>0, <1>1, <1>9 DEF CancelledAgain
<1> QED
  BY <1>1, <1>2, <1>6, <1>7, <1>8, <1>9, <1>10, RowLoses

LEMMA AbandonPhantom ==
  ASSUME IInv, RecordOwned, JobsTend, OrphansTended, NEW i \in Items, AbandonItem(i)
  PROVE  JobsTend' /\ OrphansTended'
<1>0. row \in [Items -> RowType] /\ job \in [Threads -> JobType] /\ "loop" \in Threads /\ "op" \in Threads
  BY DEF IInv, TypeOK, Threads
<1>1. PICK w : w = Abandoned(row[i])
  OBVIOUS
<1>2. /\ job["op"] = Idle /\ row' = [row EXCEPT ![i] = w] /\ handle' = handle /\ rec' = rec /\ ledger' = ledger
      /\ OpBegins("abandon", i, row[i].run, "abandoned")
  BY <1>1 DEF AbandonItem, OpFree, records, process
<1>3. w.run = row[i].run
  BY <1>0, <1>1 DEF Abandoned, RowType
<1>4. PinsCalm /\ \A x \in Items \ {i} : row'[x] = row[x]
  BY <1>0, <1>2, <1>3 DEF PinsCalm
<1>5. PICK p : p = Begin("abandon", i, row[i].run, "abandoned")
  OBVIOUS
<1>6. p.do = "abandon" /\ p.item = i /\ p.run = row[i].run /\ p.step = 1
  BY <1>5 DEF Begin
<1>7. job'["loop"] = job["loop"] /\ job'["op"] = p
  BY <1>0, <1>2, <1>5 DEF OpBegins
<1>8. Steady /\ SameRuns /\ JobCalm(job["loop"], job'["loop"])
  BY <1>2, <1>7, SameCalm DEF Steady, SameRuns, Live, NonTerminal
<1>9. JobsTend'
  BY <1>4, <1>8, ClosedKept, JobsKept DEF JobCalm, PinsCalm
<1>10. ASSUME NEW x \in Runs, PendingResume(ledger[x].item, x), ledger[x].item \in Items
       PROVE  PendingResume(ledger[x].item, x)' \/ Tended(x)'
  <2>1. CASE ledger[x].item = i
    <3>1. row[i].run = x /\ row'[i].run = x
      BY <1>4, <1>10, <2>1 DEF PendingResume, PinsCalm
    <3>2. p.run = x /\ p.do = "abandon" /\ p.step \in 1..3 /\ row'[p.item].run = x
      BY <1>6, <3>1
    <3> QED
      BY <1>7, <3>2 DEF Tended, Drops
  <2>2. CASE ledger[x].item # i
    BY <1>2, <1>4, <1>10, <2>2 DEF PendingResume
  <2> QED
    BY <2>1, <2>2
<1>11. PICK j, k : j = job["loop"] /\ k = job'["loop"] /\ k = j
  BY <1>7
<1>12. ASSUME NEW x \in Runs, Tended(x) PROVE Tended(x)'
  <2>1. ~Drops(job["op"], x)
    BY <1>2 DEF Drops, Idle
  <2>2. j.run = x /\ Tends(j)
    BY <1>11, <1>12, <2>1 DEF Tended
  <2> QED
    BY <1>11, <2>2 DEF Tended, Tends
<1>13. \A x \in Runs : Live(x) => handle'[x].at # "none"
  BY <1>2 DEF Live
<1>14. \A x \in Runs : NonTerminal(x)' => NonTerminal(x)
  BY <1>2 DEF NonTerminal
<1>15. OrphansTended'
  BY <1>8, <1>10, <1>12, <1>13, <1>14, TendedKept
<1> QED
  BY <1>9, <1>15

LEMMA StopPhantom ==
  ASSUME IInv, RecordOwned, JobsTend, OrphansTended, StopCurrent
  PROVE  JobsTend' /\ OrphansTended'
<1>0. /\ job \in [Threads -> JobType] /\ "loop" \in Threads /\ "op" \in Threads
      /\ handle \in [Runs -> HandleType]
  BY DEF IInv, TypeOK, Threads
<1>1. PICK o, p, mine : /\ o = job["op"] /\ p = job'["op"]
                        /\ mine = {r \in LiveRuns : ledger[r].item = o.item}
  OBVIOUS
<1>2. /\ At("op", "stop") /\ row' = row /\ rec' = rec /\ ledger' = ledger
      /\ handle' = [r \in Runs |-> IF r \in mine THEN [handle[r] EXCEPT !.stop = TRUE] ELSE handle[r]]
      /\ job' = [job EXCEPT !["op"] =
                     IF mine # {} THEN Idle
                     ELSE IF o.run # NoRun THEN Advance("op")
                     ELSE IF o.do = "abandon" THEN Begin("deliver", o.item, NoRun, "abandoned")
                     ELSE Idle]
  BY <1>1 DEF StopCurrent, records
<1>3. \A x \in Runs : handle'[x].at = handle[x].at
  BY <1>0, <1>2 DEF HandleType
<1>4. job'["loop"] = job["loop"] /\ (mine = {} /\ o.run # NoRun => p = Advance("op"))
  BY <1>0, <1>1, <1>2
<1>5. Steady /\ SameRuns /\ JobCalm(job["loop"], job'["loop"])
  BY <1>2, <1>3, <1>4, SameCalm DEF Steady, SameRuns, Live, NonTerminal
<1>6. JobsTend'
  BY <1>2, <1>5, ClosedKept, JobsKept DEF JobCalm
<1>7. PICK j, k : j = job["loop"] /\ k = job'["loop"] /\ k = j
  BY <1>4
<1>8. ASSUME NEW x \in Runs, Tended(x) PROVE Tended(x)' \/ ~Orphan(x)'
  <2>1. CASE j.run = x /\ Tends(j)
    BY <1>7, <2>1 DEF Tended, Tends
  <2>2. CASE Drops(o, x)
    <3>1. /\ o.do \in Doing /\ o.step \in 1..Len(Plan(o.do)) /\ Plan(o.do)[o.step] = "stop" /\ o \in JobType
      BY <1>0, <1>1, <1>2, AtPlace
    <3>2. o.run = x /\ o.do = "abandon" /\ o.step = 1 /\ row[o.item].run = x
      BY <2>2, <3>1, AbandonPlan DEF Drops
    <3>3. CASE mine = {}
      <4>1. p = [o EXCEPT !.step = o.step + 1]
        <5>1. Len(Plan(o.do)) = 6
          BY <3>1, <3>2, AbandonPlan
        <5>2. o.run # NoRun
          BY <3>2, ConstantsAssumption
        <5>3. p = Advance("op")
          BY <1>4, <3>3, <5>2
        <5>4. ~(o.step >= Len(Plan(o.do)))
          <6>1. PICK m, n : m = o.step /\ n = Len(Plan(o.do))
            OBVIOUS
          <6>2. m = 1 /\ n = 6
            BY <3>2, <5>1, <6>1
          <6> QED
            BY <6>1, <6>2
        <5> QED
          BY <1>1, <5>3, <5>4 DEF Advance
      <4>2. p.run = x /\ p.do = "abandon" /\ p.step = 2
        BY <3>1, <3>2, <4>1 DEF JobType
      <4>3. p.run = x /\ p.do = "abandon" /\ p.step \in 1..3 /\ p.step # 1
        BY <4>2
      <4> QED
        BY <1>1, <4>3 DEF Tended, Drops
    <3>4. CASE mine # {}
      <4>1. PICK s \in Runs : Live(s) /\ ledger[s].item = o.item
        BY <1>1, <3>4 DEF LiveRuns
      <4>2. s = x
        BY <3>2, <4>1 DEF JobsTend, LivePinned
      <4> QED
        BY <1>3, <4>1, <4>2 DEF Live, Orphan
    <3> QED
      BY <3>3, <3>4
  <2> QED
    BY <1>1, <1>7, <1>8, <2>1, <2>2 DEF Tended
<1>9. \A x \in Runs : Live(x) => handle'[x].at # "none"
  BY <1>3 DEF Live
<1>10. \A x \in Runs : NonTerminal(x)' => NonTerminal(x)
  BY <1>2 DEF NonTerminal
<1>11. \A x \in Runs : PendingResume(ledger[x].item, x) => PendingResume(ledger[x].item, x)'
  BY <1>2 DEF PendingResume
<1>12. OrphansTended'
  BY <1>5, <1>8, <1>9, <1>10, <1>11, TendedKept
<1> QED
  BY <1>6, <1>12

\* The daemon comes up with every orphan closed and nothing in flight.
LEMMA UpPhantom ==
  ASSUME IInv, BootClean, RecoverNext, daemon' = "up"
  PROVE  JobsTend' /\ OrphansTended'
<1>1. /\ job["loop"] = Idle /\ job' = job /\ handle' = handle /\ row' = row /\ rec' = rec /\ ledger' = ledger
      /\ daemon = "orphans" /\ \A r \in Runs : ~Orphan(r)
  BY DEF RecoverNext, records
<1>2. \A r \in Runs : ~Live(r) /\ ~Live(r)'
  BY <1>1 DEF BootClean, Up, Live
<1>3. PICK k : k = job'["loop"]
  OBVIOUS
<1>4. k.do = "idle"
  BY <1>1, <1>3 DEF Idle
<1>5. k.do # "unstarted" /\ k.do \notin Settling /\ ~Shut(k) /\ ~Opens(k)
  BY <1>4 DEF Settling, Shut, Opens
<1>6. ~Holds(k)
  BY <1>4 DEF Holds, RowAhead, LastRowWrite, Lifting
<1>7. SettlesAlone' /\ Closed' /\ PinsHeld'
  BY <1>3, <1>5, <1>6 DEF SettlesAlone, Closed, PinsHeld
<1>8. LivePinned'
  BY <1>2 DEF LivePinned
<1>9. OrphansTended'
  BY <1>1 DEF OrphansTended, Orphan, NonTerminal, Live, PendingResume
<1> QED
  BY <1>7, <1>8, <1>9 DEF JobsTend

-----------------------------------------------------------------------------
(* Every step. *)

\* A record is opened only by the run that executes, or by the settle of one that is over;
\* a run ends by the engine's own account.
RecMoves == \A r \in Runs :
  /\ ledger'[r].item = ledger[r].item \/ ledger'[r].item \in Items
  /\ NonTerminal(r)' => NonTerminal(r) \/ handle[r].at = "running" \/ (~Live(r) /\ ledger[r].item \in Items)
  /\ handle'[r].at = "ended" =>
       \/ handle[r].at = "ended" /\ handle'[r].how = handle[r].how
       \/ handle'[r].how \in {"landed", "blocked", "exhausted"} => ~NonTerminal(r)'

LEMMA RecMovesKeep ==
  ASSUME IInv, RecordOwned, EndClosed, RecMoves
  PROVE  RecordOwned' /\ EndClosed'
<1>1. RecordOwned'
  <2> SUFFICES ASSUME NEW r \in Runs, NonTerminal(r)' PROVE ledger'[r].item \in Items
    BY DEF RecordOwned
  <2>1. ledger[r].item \in Items
    BY DEF RecMoves, RecordOwned, IInv, LiveOwned, Live
  <2> QED
    BY <2>1 DEF RecMoves
<1>2. EndClosed'
  <2> SUFFICES ASSUME NEW r \in Runs, handle'[r].at = "ended", handle'[r].how \in {"landed", "blocked", "exhausted"},
                      NonTerminal(r)'
               PROVE  FALSE
    BY DEF EndClosed
  <2>1. handle[r].at = "ended" /\ handle'[r].how = handle[r].how
    BY DEF RecMoves
  <2> QED
    BY <2>1 DEF RecMoves, EndClosed, Live
<1> QED
  BY <1>1, <1>2

LEMMA RecordRecMoves ==
  ASSUME IInv, ChurnInv, OpPlans, NEW t \in Threads, WriteRecord(t)
  PROVE  RecMoves
<1>1. handle' = handle /\ ledger' = ledger
  BY DEF WriteRecord, process
<1>2. ASSUME NEW r \in Runs, r = job[t].run, job[t].do = "provider_held" PROVE ~Live(r) /\ ledger[r].item \in Items
  <2>1. t = "loop"
    BY <1>2 DEF OpPlans, Verbing, Threads
  <2> QED
    BY <1>2, <2>1 DEF ChurnInv, JobsOf, RequeueOK, IInv, JobsNamed
<1>3. \A r \in Runs : NonTerminal(r)' => NonTerminal(r) \/ (~Live(r) /\ ledger[r].item \in Items)
  BY <1>2, RecordCloses
<1> QED
  BY <1>1, <1>3 DEF RecMoves

LEMMA NextRecMoves ==
  ASSUME IInv, ChurnInv, OpPlans, [Next]_vars
  PROVE  RecMoves
<1>0. /\ handle \in [Runs -> HandleType] /\ rec \in [Runs -> RecordStates]
      /\ ledger \in [Runs -> [item : Items \cup {NoItem}, result : Results]]
      /\ "loop" \in Threads /\ "op" \in Threads
  BY DEF IInv, TypeOK, Threads
<1>1. ASSUME ledger' = ledger, rec' = rec, \A r \in Runs : handle'[r].at \in {handle[r].at, "none", "running"} /\ handle'[r].how \in {handle[r].how, "none"}
      PROVE  RecMoves
  BY <1>1 DEF RecMoves, NonTerminal
<1>2. ASSUME ledger' = ledger, rec' = rec, handle' = handle PROVE RecMoves
  BY <1>2 DEF RecMoves, NonTerminal
<1>3. ASSUME NEW r, NEW x \in {"cancelled", "failed"}, rec' = [rec EXCEPT ![r] = x], ledger' = ledger, handle' = handle
      PROVE  RecMoves
  BY <1>0, <1>3 DEF RecMoves, NonTerminal
<1>4. ASSUME NEW how, Die(how) PROVE RecMoves
  BY <1>1, <1>4 DEF Die, NoHandles, records
<1>5. ASSUME NEW t \in Threads, Write(t) PROVE RecMoves
  <2>1. CASE WriteRecord(t)
    BY <2>1, RecordRecMoves
  <2>2. CASE WriteLedger(t)
    <3>1. PICK q, x : ledger' = [ledger EXCEPT ![q] = [ledger[q] EXCEPT !.result = x]]
      BY <2>2 DEF WriteLedger
    <3>2. \A r \in Runs : ledger'[r].item = ledger[r].item
      BY <1>0, <3>1
    <3>3. handle' = handle /\ rec' = rec
      BY <2>2 DEF WriteLedger, records, process
    <3> QED
      BY <3>2, <3>3 DEF RecMoves, NonTerminal
  <2> QED
    BY <1>2, <1>5, <2>1, <2>2 DEF Write, Sweep, WriteRow, TellOutcome, OutcomeRefused, TakeOutcome,
       TakeDecision, TellDecision, records, process
<1>6. CASE Tick
  <2>1. ASSUME NEW r \in Runs, PollOverride(r) PROVE RecMoves
    <3>1. PICK h : h = [handle[r] EXCEPT !.stop = TRUE] /\ handle' = [handle EXCEPT ![r] = h]
      BY <2>1 DEF PollOverride
    <3>2. h.at = handle[r].at /\ h.how = handle[r].how
      BY <1>0, <3>1 DEF HandleType
    <3>3. ledger' = ledger /\ rec' = rec /\ handle' = [handle EXCEPT ![r] = h]
      BY <2>1, <3>1 DEF PollOverride, records
    <3>4. h.at \in {handle[r].at, "none"} /\ h.how \in {handle[r].how, "none"}
      BY <3>2
    <3>5. \A s \in Runs : handle'[s].at \in {handle[s].at, "none", "running"} /\ handle'[s].how \in {handle[s].how, "none"}
      BY <1>0, <3>3, <3>4
    <3> QED
      BY <1>1, <3>3, <3>5
  <2>2. ASSUME NEW r \in Runs, SettleRun(r) PROVE RecMoves
    <3>1. PICK h : h = [at |-> "none", how |-> "none", stop |-> FALSE] /\ handle' = [handle EXCEPT ![r] = h]
      BY <2>2 DEF SettleRun
    <3>2. h.at = "none" /\ h.how = "none"
      BY <3>1
    <3>3. ledger' = ledger /\ rec' = rec /\ handle' = [handle EXCEPT ![r] = h]
      BY <2>2, <3>1 DEF SettleRun, records
    <3>4. h.at \in {handle[r].at, "none"} /\ h.how \in {handle[r].how, "none"}
      BY <3>2
    <3>5. \A s \in Runs : handle'[s].at \in {handle[s].at, "none", "running"} /\ handle'[s].how \in {handle[s].how, "none"}
      BY <1>0, <3>3, <3>4
    <3> QED
      BY <1>1, <3>3, <3>5
  <2>3. ASSUME NEW r \in Runs, StaleSweep(r) PROVE RecMoves
    BY <1>3, <2>3 DEF StaleSweep, Reconciled, process
  <2>4. ASSUME NEW i \in Items, Discover(i) \/ Pick(i) \/ DeliverPending(i) PROVE RecMoves
    BY <1>2, <2>4 DEF Discover, Pick, DeliverPending, records, process
  <2> QED
    BY <1>6, <2>1, <2>2, <2>3, <2>4 DEF Tick
<1>7. CASE LoopStep
  <2>1. CASE MarkRunning
    <3>1. PICK i, r : i = job["loop"].item /\ r = job["loop"].run
      OBVIOUS
    <3>2. i \in Items
      BY <1>0, <2>1, <3>1, AtPlace DEF MarkRunning
    <3>3. ledger' = [ledger EXCEPT ![r] = [item |-> i, result |-> "open"]] /\ rec' = rec /\ handle' = handle
      BY <2>1, <3>1 DEF MarkRunning, records, process
    <3>4. \A s \in Runs : ledger'[s].item = ledger[s].item \/ ledger'[s].item \in Items
      BY <1>0, <3>2, <3>3
    <3> QED
      BY <3>3, <3>4 DEF RecMoves, NonTerminal
  <2>2. CASE Launch
    <3>1. PICK r, h : h = [at |-> "running", how |-> "none", stop |-> FALSE] /\ handle' = [handle EXCEPT ![r] = h]
      BY <2>2 DEF Launch
    <3>2. h.at = "running" /\ h.how = "none"
      BY <3>1
    <3>3. \A s \in Runs : handle'[s].at \in {handle[s].at, "none", "running"} /\ handle'[s].how \in {handle[s].how, "none"}
      BY <1>0, <3>1, <3>2
    <3> QED
      BY <1>1, <2>2, <3>3 DEF Launch, records
  <2>3. CASE MarkResumingRaises
    BY <1>4, <2>3 DEF MarkResumingRaises
  <2>4. CASE ClaimWon \/ ClaimLost \/ MarkResuming \/ CancelledAgain \/ Report \/ LookUp
    BY <1>2, <2>4 DEF ClaimWon, ClaimLost, MarkResuming, CancelledAgain, Report, LookUp, records, process
  <2> QED
    BY <1>0, <1>5, <1>7, <2>1, <2>2, <2>3, <2>4 DEF LoopStep
<1>8. CASE Engine
  <2>1. ASSUME NEW r \in Runs, EngineBegin(r) PROVE RecMoves
    <3>1. rec' = [rec EXCEPT ![r] = "active"] /\ handle' = handle /\ ledger' = ledger /\ handle[r].at = "running"
      BY <2>1 DEF EngineBegin, process
    <3>2. \A s \in Runs : NonTerminal(s)' => NonTerminal(s) \/ handle[s].at = "running"
      BY <1>0, <3>1 DEF NonTerminal
    <3> QED
      BY <3>1, <3>2 DEF RecMoves
  <2>2. ASSUME NEW r \in Runs, NEW how \in Ends, EngineEnd(r, how) PROVE RecMoves
    <3>1. PICK h, x : /\ h = [handle[r] EXCEPT !.at = "ended", !.how = how] /\ handle' = [handle EXCEPT ![r] = h]
                      /\ rec' = [rec EXCEPT ![r] = x] /\ ledger' = ledger /\ handle[r].at = "running"
                      /\ x = CASE how \in {"died", "cancelled"} -> rec[r] [] how = "exhausted" -> "failed" [] OTHER -> how
      BY <2>2 DEF EngineEnd
    <3>2. h.how = how /\ (how \in {"landed", "blocked", "exhausted"} => x \notin {"active", "provider_held"})
      BY <1>0, <3>1 DEF HandleType
    <3>3. handle'[r].how = how /\ rec'[r] = x /\ \A s \in Runs \ {r} : handle'[s] = handle[s] /\ rec'[s] = rec[s]
      BY <1>0, <3>1, <3>2
    <3> QED
      BY <3>1, <3>2, <3>3 DEF RecMoves, NonTerminal
  <2> QED
    BY <1>8, <2>1, <2>2 DEF Engine
<1>9. CASE Operator
  <2>1. ASSUME NEW r \in Runs, NEW retry \in BOOLEAN, CancelRun(r, retry) PROVE RecMoves
    <3>1. PICK h : h = [handle[r] EXCEPT !.stop = TRUE] /\ handle' = [handle EXCEPT ![r] = h]
      BY <2>1 DEF CancelRun
    <3>2. h.at = handle[r].at /\ h.how = handle[r].how
      BY <1>0, <3>1 DEF HandleType
    <3>3. ledger' = ledger /\ rec' = rec /\ handle' = [handle EXCEPT ![r] = h]
      BY <2>1, <3>1 DEF CancelRun, records
    <3>4. h.at \in {handle[r].at, "none"} /\ h.how \in {handle[r].how, "none"}
      BY <3>2
    <3>5. \A s \in Runs : handle'[s].at \in {handle[s].at, "none", "running"} /\ handle'[s].how \in {handle[s].how, "none"}
      BY <1>0, <3>3, <3>4
    <3> QED
      BY <1>1, <3>3, <3>5
  <2>2. ASSUME NEW now \in BOOLEAN, StopDaemon(now) PROVE RecMoves
    <3>1. \A r \in Runs : handle'[r].at = handle[r].at /\ handle'[r].how = handle[r].how
      BY <1>0, <2>2 DEF StopDaemon, HandleType
    <3> QED
      BY <1>1, <2>2, <3>1 DEF StopDaemon, records
  <2>3. ASSUME NEW i \in Items, \/ AbandonItem(i) \/ RetryItem(i) \/ RequeueItem(i) \/ CliAbandon(i)
                                \/ CliRetry(i) \/ CliRequeue(i) \/ Relabel(i)
        PROVE  RecMoves
    BY <1>2, <2>3 DEF AbandonItem, RetryItem, RequeueItem, CliAbandon, CliRetry, CliRequeue, Relabel, records, process
  <2>4. ASSUME NEW r \in Runs, CancelPending(r) \/ ResumeRun(r) \/ GrantRounds(r) PROVE RecMoves
    BY <1>2, <2>4 DEF CancelPending, ResumeRun, GrantRounds, records, process
  <2> QED
    BY <1>9, <2>1, <2>2, <2>3, <2>4 DEF Operator
<1>10. CASE OpStep
  <2>1. CASE StopCurrent
    <3>1. \A r \in Runs : handle'[r].at = handle[r].at /\ handle'[r].how = handle[r].how
      BY <1>0, <2>1 DEF StopCurrent, HandleType
    <3> QED
      BY <1>1, <2>1, <3>1 DEF StopCurrent, records
  <2>2. CASE Regrant
    BY <1>2, <2>2 DEF Regrant, records, process
  <2> QED
    BY <1>0, <1>5, <1>10, <2>1, <2>2 DEF OpStep
<1>11. CASE Recover
  <2>1. ASSUME NEW r \in Runs, ReconcileOrphan(r) PROVE RecMoves
    BY <1>3, <2>1 DEF ReconcileOrphan, Reconciled, process
  <2> QED
    BY <1>2, <1>11, <2>1 DEF Recover, Restart, RecoverNext, RecoverRunning, SettleHalfClaim, SettleOffline,
       records, process
<1>12. CASE Exit \/ Crash
  BY <1>4, <1>12 DEF Exit, Crash
<1>13. CASE UNCHANGED vars
  BY <1>2, <1>13 DEF vars
<1> QED
  BY <1>6, <1>7, <1>8, <1>9, <1>10, <1>11, <1>12, <1>13 DEF Next

\* The verbs that leave no record behind, on items whose runs work a checkout.
TidyVerbs == {"abandon", "cancel", "cancel_retry", "resume", "grant", "stop"}

\* Nobody cancels a run that waits for its resume.
NoSlowCancel == job["op"].do # "cancel_pending"

LEMMA UpNext ==
  ASSUME IInv, RowInv, OpPlans, LoopPlans, NoSlowCancel, ChurnInv, RecordOwned, EndClosed,
         daemon = "up" => JobsTend /\ OrphansTended,
         Verbs \subseteq TidyVerbs, Items \subseteq CodeItems, [Next]_vars, daemon' = "up"
  PROVE  JobsTend' /\ OrphansTended'
<1>0. "loop" \in Threads /\ "op" \in Threads /\ ClaimPinned /\ BootClean
  BY DEF Threads, ChurnInv, RowInv
<1>1. CASE daemon # "up"
  <2>1. \A how : Die(how) => daemon' = how
    BY DEF Die
  <2>2. RecoverNext \/ daemon' = daemon \/ daemon' \in {"down", "raised", "claims", "stopping"}
    BY <1>1, <2>1 DEF Next, Tick, LoopStep, Engine, Operator, OpStep, Recover, Exit, Crash, Write, vars, process,
       Discover, Pick, DeliverPending, PollOverride, SettleRun, StaleSweep, ClaimWon, ClaimLost, MarkRunning,
       MarkResuming, MarkResumingRaises, Launch, CancelledAgain, Report, LookUp, Sweep, WriteRecord, WriteLedger,
       WriteRow, TellOutcome, OutcomeRefused, TakeOutcome, TakeDecision, TellDecision, EngineBegin, EngineEnd,
       AbandonItem, RetryItem, RequeueItem, CliAbandon, CliRetry, CliRequeue, Relabel, CancelPending, ResumeRun,
       GrantRounds, CancelRun, StopDaemon, StopCurrent, Regrant, Restart, RecoverRunning, SettleHalfClaim,
       SettleOffline, ReconcileOrphan
  <2> QED
    BY <1>0, <1>1, <2>2, UpPhantom
<1>2. CASE daemon = "up"
  <2>0. JobsTend /\ OrphansTended
    BY <1>2
  <2>1. ASSUME NEW t \in Threads, Write(t) PROVE JobsTend' /\ OrphansTended'
    <3>1. CASE WriteRecord(t)
      BY <2>0, <3>1, LoopRecordPhantom, OpRecordPhantom DEF Threads
    <3>2. CASE WriteRow(t)
      <4>1. t # "op"
        <5> SUFFICES ASSUME t = "op" PROVE FALSE
          OBVIOUS
        <5>1. At("op", "row")
          BY <3>2 DEF WriteRow
        <5> QED
          BY <1>0, <5>1, AtPlace, RowOfVerb DEF OpPlans, NoSlowCancel
      <4> QED
        BY <2>0, <3>2, <4>1, LoopRowPhantom DEF Threads
    <3> QED
      BY <2>0, <2>1, <3>1, <3>2, PhantomWrites DEF Write
  <2>2. CASE Tick
    BY <1>0, <1>2, <2>0, <2>2, PhantomOthers, PickPhantom, SettlePhantom DEF Tick
  <2>3. CASE LoopStep
    <3>1. ~MarkResumingRaises
      BY DEF MarkResumingRaises, Die
    <3> QED
      BY <1>0, <2>0, <2>1, <2>3, <3>1, PhantomOthers, MarkRunningPhantom, MarkResumingPhantom, LaunchPhantom,
         AgainPhantom DEF LoopStep
  <2>4. CASE Engine
    BY <2>0, <2>4, PhantomOthers DEF Engine
  <2>5. CASE Operator
    <3>1. \A i \in Items : ~RetryItem(i) /\ ~RequeueItem(i) /\ ~CliAbandon(i) /\ ~CliRetry(i) /\ ~CliRequeue(i) /\ ~Relabel(i)
      BY DEF RetryItem, RequeueItem, CliAbandon, CliRetry, CliRequeue, Relabel, May, TidyVerbs
    <3>2. \A r \in Runs : ~CancelPending(r)
      BY DEF CancelPending, May, TidyVerbs
    <3>3. \A now \in BOOLEAN : ~StopDaemon(now)
      BY DEF StopDaemon
    <3> QED
      BY <2>0, <2>5, <3>1, <3>2, <3>3, PhantomOthers, AbandonPhantom DEF Operator
  <2>6. CASE OpStep
    BY <1>0, <2>0, <2>1, <2>6, PhantomOthers, StopPhantom DEF OpStep
  <2>7. ~Exit /\ ~Crash
    BY DEF Exit, Crash, Die
  <2>8. ~Recover
    BY <1>2 DEF Recover, Restart, RecoverNext, RecoverRunning, SettleHalfClaim, SettleOffline, ReconcileOrphan
  <2>9. CASE UNCHANGED vars
    BY <2>0, <2>9, PhantomOthers
  <2> QED
    BY <2>2, <2>3, <2>4, <2>5, <2>6, <2>7, <2>8, <2>9 DEF Next
<1> QED
  BY <1>1, <1>2

LEMMA PhantomNext ==
  ASSUME IInv, RowInv, OpPlans, LoopPlans, NoSlowCancel, ChurnInv, PhantomInv,
         Verbs \subseteq TidyVerbs, Items \subseteq CodeItems, [Next]_vars
  PROVE  PhantomInv'
<1>1. RecordOwned' /\ EndClosed'
  BY NextRecMoves, RecMovesKeep DEF PhantomInv
<1>2. daemon' = "up" => JobsTend' /\ OrphansTended'
  BY UpNext DEF PhantomInv
<1> QED
  BY <1>1, <1>2 DEF PhantomInv

LEMMA PhantomInit == Init => PhantomInv
<1> SUFFICES ASSUME Init PROVE PhantomInv
  OBVIOUS
<1>1. job["loop"] = Idle /\ \A r \in Runs : rec[r] = "none" /\ handle[r].at = "none"
  BY DEF Init, Threads
<1>2. PICK k : k = job["loop"] /\ k.do = "idle"
  BY <1>1 DEF Idle
<1>3. k.do # "unstarted" /\ k.do \notin Settling /\ ~Shut(k) /\ ~Opens(k)
  BY <1>2 DEF Settling, Shut, Opens
<1>4. ~Holds(k)
  BY <1>2 DEF Holds, RowAhead, LastRowWrite, Lifting
<1>5. JobsTend
  BY <1>1, <1>2, <1>3, <1>4 DEF JobsTend, SettlesAlone, Closed, PinsHeld, LivePinned, Live
<1>6. RecordOwned /\ EndClosed /\ OrphansTended
  BY <1>1 DEF RecordOwned, EndClosed, OrphansTended, Orphan, NonTerminal
<1> QED
  BY <1>5, <1>6 DEF PhantomInv

\* At rest nobody tends anything.
LEMMA PhantomWithin == PhantomInv => NoPhantomRecord
<1> SUFFICES ASSUME PhantomInv, daemon = "up", job["loop"] = Idle, job["op"] = Idle, NEW r \in Runs, Orphan(r)
             PROVE  FALSE
  BY DEF NoPhantomRecord
<1>1. Tended(r)
  BY DEF PhantomInv, OrphansTended
<1> QED
  BY <1>1 DEF Tended, Tends, Drops, Idle

\* No record is left saying a run is active that nobody executes and no queued row will
\* resume, whatever crashes and whenever an operator abandons, cancels, resumes or grants
\* (#374).  Runs work a checkout, so admission keeps an item's runs one at a time: of items
\* without one an abandon may stop another run than the pinned one.  The verbs that unpin a
\* row, and the command line's, are left out: the record is then the stale sweep's.
THEOREM RecordsAreClosed ==
  ASSUME Verbs \subseteq {"abandon", "cancel", "cancel_retry", "resume", "grant", "stop"},
         Items \subseteq CodeItems
  PROVE  Spec => []NoPhantomRecord
<1>1. Verbs \subseteq TidyVerbs /\ "cancel_pending" \notin Verbs
  BY DEF TidyVerbs
<1>2. IInv /\ RowInv /\ OpPlans /\ [Next]_vars => RowInv' /\ OpPlans'
  BY RowInvNext
<1>3. IInv /\ LoopPlans /\ [Next]_vars => LoopPlans'
  BY LoopPlansNext
<1>4. IInv /\ RowInv /\ OpPlans /\ LoopPlans /\ ChurnInv /\ [Next]_vars => ChurnInv'
  BY ChurnNext
<1>5. IInv /\ RowInv /\ OpPlans /\ NoSlowCancel /\ [Next]_vars => NoSlowCancel'
  <2> SUFFICES ASSUME IInv, RowInv, OpPlans, NoSlowCancel, [Next]_vars PROVE NoSlowCancel'
    OBVIOUS
  <2>1. OpMoves
    BY NextMoves DEF RowInv, Moves
  <2> QED
    BY <1>1, <2>1 DEF OpMoves, NoSlowCancel
<1>6. IInv /\ RowInv /\ OpPlans /\ LoopPlans /\ NoSlowCancel /\ ChurnInv /\ PhantomInv /\ [Next]_vars => PhantomInv'
  BY <1>1, PhantomNext
<1>7. Init => NoSlowCancel
  BY DEF Init, NoSlowCancel, Idle, Threads
<1>8. Init => RowInv /\ OpPlans
  BY RowInvInit
<1>9. Init => ChurnInv /\ LoopPlans
  BY ChurnInit
<1> QED
  BY <1>2, <1>3, <1>4, <1>5, <1>6, <1>7, <1>8, <1>9, IInvInit, IInvNext, PhantomInit, PhantomWithin, PTL DEF Spec
=============================================================================
