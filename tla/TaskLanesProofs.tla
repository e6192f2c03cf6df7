--------------------------- MODULE TaskLanesProofs ---------------------------
(***************************************************************************)
(* The scheduler of a run's task graph, for every graph, number of lanes,  *)
(* budget and number of deaths: its type invariant, that no task is        *)
(* started before what it depends on is done, and that it implements the   *)
(* promise of TaskGraph.                                                   *)
(***************************************************************************)
EXTENDS TaskLanes, TLAPS

Over(t) == row[t].state \in Terminal

\* A lane was given only to a task whose dependencies are done.
LaneDeps == \A t \in Tasks : lane[t] # "none" => \A d \in Deps[t] : row[d].state = "done"

\* What waits has no lane and is not over.
WaitingOpen == \A t \in waiting : lane[t] = "none" /\ ~Over(t)

\* A lane returns only when its task is over.
ReturnedOver == \A t \in Tasks : lane[t] = "returned" => Over(t)

\* Until a lane raises, what the scheduler counts as settled is what the rows say.
SettledTrue == ~failure => \A s \in Terminal : \A t \in settled[s] : row[t].state = s

\* No lane outlives its scheduler.
IdleFree == pc = "idle" => \A t \in Tasks : lane[t] = "none"

IInv == /\ TypeOK
        /\ DepsFirst
        /\ LaneDeps
        /\ WaitingOpen
        /\ ReturnedOver
        /\ SettledTrue
        /\ IdleFree

-----------------------------------------------------------------------------
(* Rows.                                                                   *)

LEMMA RowFields ==
  ASSUME NEW r \in Row
  PROVE  /\ r.revisions \in Nat /\ r.revisions + 1 \in Nat
         /\ r.replans \in Nat /\ r.replans + 1 \in Nat
         /\ r.reauthors \in Nat /\ r.reauthors + 1 \in Nat
         /\ r.state \in States
  BY DEF Row

LEMMA RevisedTyped ==
  ASSUME NEW r \in Row, NEW v \in BOOLEAN
  PROVE  Revised(r, v) \in Row /\ Revised(r, v).state \in {"executing", "failed"}
<1>1. \A n \in Nat, s \in {"executing", "failed"} :
        LET q == [r EXCEPT !.revisions = n, !.state = s] IN q \in Row /\ q.state = s
  BY DEF Row, States, Terminal
<1>2. \A m \in Nat :
        LET q == [r EXCEPT !.replans = m, !.revisions = 0, !.state = "executing"]
        IN  q \in Row /\ q.state = "executing"
  BY DEF Row, States, Terminal
<1> QED
  BY <1>1, <1>2, RowFields DEF Revised

LEMMA SuspectedTyped ==
  ASSUME NEW r \in Row, NEW c \in BOOLEAN
  PROVE  /\ Suspected(r, c) \in Row
         /\ Suspected(r, c).state \in {r.state, "executing", "failed"}
<1>1. \A n \in Nat :
        LET q == [r EXCEPT !.reauthors = n, !.suspect = FALSE]
        IN  q \in Row /\ q.state = r.state
  BY DEF Row
<1>2. LET q == [r EXCEPT !.suspect = TRUE, !.state = "failed"]
      IN  q \in Row /\ q.state = "failed"
  BY DEF Row, States, Terminal
<1>3. \A m \in Nat :
        LET q == [r EXCEPT !.suspect = TRUE, !.replans = m, !.revisions = 0,
                           !.state = "executing"]
        IN  q \in Row /\ q.state = "executing"
  BY DEF Row, States, Terminal
<1> QED
  BY <1>1, <1>2, <1>3, RowFields DEF Suspected

\* How a phase of a lane leaves its task's row.
Phased(t) ==
  \E r \in Row :
    /\ row' = [row EXCEPT ![t] = r]
    /\ r.state \in {"executing", "verifying", "done", "failed"}

LEMMA PhaseShape ==
  ASSUME TypeOK, NEW t \in Tasks,
         Begin(t) \/ Build(t) \/ Verify(t) \/ Judge(t) \/ AbortTask(t)
  PROVE  /\ Phased(t)
         /\ Running(t) /\ ~Over(t)
         /\ UNCHANGED <<kind, waiting, settled, lane, failure, pc, stops>>
<1>1. row[t] \in Row
  BY DEF TypeOK
<1>2. \A s \in States : [row[t] EXCEPT !.state = s] \in Row
  BY <1>1 DEF Row
<1>3. CASE Begin(t)
  <2>1. row' = [row EXCEPT ![t] = [row[t] EXCEPT !.state = "executing"]]
    BY <1>3 DEF Begin
  <2>2. [row[t] EXCEPT !.state = "executing"].state = "executing"
    BY <1>1 DEF Row
  <2> QED
    BY <1>2, <1>3, <2>1, <2>2 DEF Begin, Phased, Over, Terminal, States
<1>4. CASE Build(t)
  <2>1. row' = [row EXCEPT ![t] = [row[t] EXCEPT !.state = "verifying"]]
    BY <1>4 DEF Build
  <2>2. [row[t] EXCEPT !.state = "verifying"].state = "verifying"
    BY <1>1 DEF Row
  <2> QED
    BY <1>2, <1>4, <2>1, <2>2 DEF Build, Phased, Over, Terminal, States
<1>5. CASE Verify(t)
  <2>1. \/ row' = [row EXCEPT ![t] = [row[t] EXCEPT !.state = "done"]]
        \/ row' = [row EXCEPT ![t] = Revised(row[t], TRUE)]
        \/ row' = [row EXCEPT ![t] = Revised(row[t], FALSE)]
        \/ row' = [row EXCEPT ![t] = Suspected(row[t], FALSE)]
        \/ row' = [row EXCEPT ![t] = Suspected(row[t], TRUE)]
    BY <1>5 DEF Verify
  <2>2. [row[t] EXCEPT !.state = "done"].state = "done"
    BY <1>1 DEF Row
  <2>3. row[t].state = "verifying"
    BY <1>5 DEF Verify
  <2>5. \A v \in BOOLEAN : /\ Revised(row[t], v) \in Row
                           /\ Revised(row[t], v).state \in {"executing", "failed"}
    BY <1>1, RevisedTyped
  <2>6. \A c \in BOOLEAN : /\ Suspected(row[t], c) \in Row
                           /\ Suspected(row[t], c).state \in {"verifying", "executing", "failed"}
    BY <1>1, <2>3, SuspectedTyped
  <2>4. Phased(t)
    BY <1>2, <2>1, <2>2, <2>5, <2>6 DEF Phased, States, Terminal
  <2> QED
    BY <1>5, <2>4 DEF Verify, Over, Terminal
<1>6. CASE Judge(t)
  <2>1. \/ row' = [row EXCEPT ![t] = [row[t] EXCEPT !.state = "done"]]
        \/ row' = [row EXCEPT ![t] = Revised(row[t], FALSE)]
        \/ row' = [row EXCEPT ![t] = [row[t] EXCEPT !.state = "failed"]]
    BY <1>6 DEF Judge
  <2>2. /\ [row[t] EXCEPT !.state = "done"].state = "done"
        /\ [row[t] EXCEPT !.state = "failed"].state = "failed"
    BY <1>1 DEF Row
  <2>3. Phased(t)
    BY <1>1, <1>2, <2>1, <2>2, RevisedTyped DEF Phased, States, Terminal
  <2> QED
    BY <1>6, <2>3 DEF Judge, Over, Terminal
<1>7. CASE AbortTask(t)
  <2>1. row' = [row EXCEPT ![t] = [row[t] EXCEPT !.state = "failed"]]
    BY <1>7 DEF AbortTask
  <2>2. [row[t] EXCEPT !.state = "failed"].state = "failed"
    BY <1>1 DEF Row
  <2> QED
    BY <1>2, <1>7, <2>1, <2>2 DEF AbortTask, Phased, Over, Terminal, States
<1> QED
  BY <1>3, <1>4, <1>5, <1>6, <1>7

-----------------------------------------------------------------------------
(* The steps.                                                              *)

LEMMA InitInv == Init => IInv
<1> SUFFICES ASSUME Init PROVE IInv
  OBVIOUS
<1>1. \A t \in Tasks : row[t].state = "pending"
  BY DEF Init
<1>2. TypeOK
  <2>1. [state |-> "pending", revisions |-> 0, replans |-> 0, suspect |-> FALSE,
         reauthors |-> 0] \in Row
    BY DEF Row, States
  <2>2. row \in [Tasks -> Row]
    BY <2>1 DEF Init
  <2>3. stops \in 0..MaxStops /\ settled \in [{"done", "failed", "skipped"} -> SUBSET Tasks]
    BY BudgetAssumption DEF Init, Terminal
  <2> QED
    BY <2>2, <2>3 DEF Init, TypeOK
<1> QED
  BY <1>1, <1>2, GraphAssumption
  DEF Init, IInv, DepsFirst, LaneDeps, WaitingOpen, ReturnedOver, SettledTrue, IdleFree, Over,
      Terminal

\* A row that is over is never written again, so what was done stays done.
LEMMA PhaseInv ==
  ASSUME IInv, NEW t \in Tasks,
         Begin(t) \/ Build(t) \/ Verify(t) \/ Judge(t) \/ AbortTask(t)
  PROVE  IInv'
<1> USE DEF IInv
<1>1. /\ Phased(t) /\ Running(t) /\ ~Over(t)
      /\ UNCHANGED <<kind, waiting, settled, lane, failure, pc, stops>>
  BY PhaseShape
<1>2. PICK r \in Row : /\ row' = [row EXCEPT ![t] = r]
                       /\ r.state \in {"executing", "verifying", "done", "failed"}
  BY <1>1 DEF Phased
<1>3. /\ row' \in [Tasks -> Row]
      /\ row'[t] = r
      /\ \A u \in Tasks \ {t} : row'[u] = row[u]
  BY <1>2 DEF TypeOK
<1>4. \A u \in Tasks : Over(u) => row'[u] = row[u]
  BY <1>1, <1>3
<1>5. \A u \in Tasks : row[u].state = "done" => row'[u].state = "done"
  BY <1>4 DEF Over, Terminal
<1>6. \A d \in Deps[t] : row[d].state = "done"
  BY <1>1 DEF LaneDeps, Running
<1>7. TypeOK'
  BY <1>1, <1>3 DEF TypeOK
<1>8. DepsFirst'
  BY <1>3, <1>5, <1>6, GraphAssumption DEF DepsFirst
<1>9. LaneDeps'
  BY <1>1, <1>5, GraphAssumption DEF LaneDeps
<1>10. WaitingOpen'
  BY <1>1, <1>3 DEF WaitingOpen, Running, Over, TypeOK
<1>11. ReturnedOver'
  BY <1>1, <1>3 DEF ReturnedOver, Running, Over
<1>12. SettledTrue'
  <2> SUFFICES ASSUME ~failure, NEW s \in Terminal, NEW u \in settled[s]
               PROVE  row'[u].state = s
    BY <1>1 DEF SettledTrue
  <2>1. u \in Tasks /\ row[u].state = s
    BY DEF SettledTrue, TypeOK, Terminal
  <2> QED
    BY <1>4, <2>1 DEF Over
<1>13. IdleFree'
  BY <1>1 DEF IdleFree
<1> QED
  BY <1>7, <1>8, <1>9, <1>10, <1>11, <1>12, <1>13

LEMMA EnterInv == ASSUME IInv, Enter PROVE IInv'
<1> USE DEF IInv
<1>1. TypeOK'
  BY DEF Enter, TypeOK, Terminal
<1>2. DepsFirst' /\ LaneDeps' /\ ReturnedOver'
  BY DEF Enter, DepsFirst, LaneDeps, ReturnedOver, Over
<1>3. WaitingOpen' /\ SettledTrue' /\ IdleFree'
  BY DEF Enter, WaitingOpen, SettledTrue, IdleFree, Over, Terminal
<1> QED
  BY <1>1, <1>2, <1>3

\* Ready, not barred and no lane has raised: every dependency is done.
LEMMA ReadyDone ==
  ASSUME IInv, NEW t \in waiting, Ready(t), ~Barred(t), ~failure
  PROVE  \A d \in Deps[t] : row[d].state = "done"
  BY GraphAssumption DEF IInv, TypeOK, Ready, Barred, SettledTrue, Terminal

LEMMA LaunchInv == ASSUME IInv, NEW t \in Tasks, Launch(t) PROVE IInv'
<1> USE DEF IInv
<1>1. t \in waiting /\ Ready(t) /\ ~Barred(t) /\ ~failure /\ pc = "scheduling"
  BY DEF Launch, First, Launchable
<1>2. /\ lane' = [lane EXCEPT ![t] = "running"]
      /\ waiting' = waiting \ {t}
      /\ UNCHANGED <<kind, row, settled, failure, pc, stops>>
  BY DEF Launch
<1>3. \A d \in Deps[t] : row[d].state = "done"
  BY <1>1, ReadyDone
<1>4. TypeOK'
  BY <1>2 DEF TypeOK
<1>5. DepsFirst' /\ SettledTrue'
  BY <1>2 DEF DepsFirst, SettledTrue
<1>6. LaneDeps'
  BY <1>2, <1>3 DEF LaneDeps, TypeOK
<1>7. WaitingOpen' /\ ReturnedOver' /\ IdleFree'
  BY <1>1, <1>2 DEF WaitingOpen, ReturnedOver, IdleFree, Over, TypeOK
<1> QED
  BY <1>4, <1>5, <1>6, <1>7

LEMMA SkipInv == ASSUME IInv, NEW t \in Tasks, SkipTask(t) PROVE IInv'
<1> USE DEF IInv
<1>1. t \in waiting /\ ~failure /\ pc = "scheduling" /\ ~Over(t) /\ lane[t] = "none"
  BY DEF SkipTask, First, Launchable, WaitingOpen
<1>2. /\ waiting' = waiting \ {t}
      /\ settled' = [settled EXCEPT !["skipped"] = @ \cup {t}]
      /\ UNCHANGED <<kind, lane, failure, pc, stops>>
  BY DEF SkipTask
<1>3. /\ row' \in [Tasks -> Row]
      /\ row'[t].state = "skipped"
      /\ \A u \in Tasks \ {t} : row'[u] = row[u]
  <2>1. row[t] \in Row /\ row' = [row EXCEPT ![t] = [row[t] EXCEPT !.state = "skipped"]]
    BY DEF SkipTask, TypeOK
  <2>2. LET q == [row[t] EXCEPT !.state = "skipped"] IN q \in Row /\ q.state = "skipped"
    BY <2>1 DEF Row, States, Terminal
  <2> QED
    BY <2>1, <2>2 DEF TypeOK
<1>4. \A u \in Tasks : Over(u) => row'[u] = row[u]
  BY <1>1, <1>3
<1>5. \A u \in Tasks : row[u].state = "done" => row'[u].state = "done"
  BY <1>4 DEF Over, Terminal
<1>6. TypeOK'
  BY <1>2, <1>3 DEF TypeOK
<1>7. DepsFirst' /\ LaneDeps'
  BY <1>2, <1>3, <1>5, GraphAssumption DEF DepsFirst, LaneDeps
<1>8. WaitingOpen' /\ ReturnedOver' /\ IdleFree'
  BY <1>1, <1>2, <1>3, <1>4 DEF WaitingOpen, ReturnedOver, IdleFree, Over, TypeOK, Terminal
<1>9. SettledTrue'
  <2> SUFFICES ASSUME NEW s \in Terminal, NEW u \in settled'[s]
               PROVE  row'[u].state = s
    BY DEF SettledTrue
  <2>1. CASE u = t
    <3>1. t \notin settled[s]
      BY <1>1 DEF SettledTrue, Over
    <3> QED
      BY <1>2, <1>3, <2>1, <3>1 DEF TypeOK, Terminal
  <2>2. CASE u # t
    <3>1. u \in settled[s] /\ u \in Tasks
      BY <1>2, <2>2 DEF TypeOK, Terminal
    <3> QED
      BY <1>1, <1>4, <3>1 DEF SettledTrue, Over
  <2> QED
    BY <2>1, <2>2
<1> QED
  BY <1>6, <1>7, <1>8, <1>9

\* A lane that raised may count as done what is not; from then on nothing is launched.
LEMMA CollectInv == ASSUME IInv, Collect PROVE IInv'
<1> USE DEF IInv
<1> DEFINE over == {t \in Tasks : lane[t] \in {"returned", "raised"}}
<1>1. /\ pc = "scheduling"
      /\ lane' = [t \in Tasks |-> IF t \in over THEN "none" ELSE lane[t]]
      /\ settled' = Finished(over)
      /\ failure' = (failure \/ \E t \in over : lane[t] = "raised")
      /\ UNCHANGED <<kind, row, waiting, pc, stops>>
  BY DEF Collect
<1>2. TypeOK'
  BY <1>1 DEF TypeOK, Finished, Terminal
<1>3. DepsFirst' /\ LaneDeps' /\ ReturnedOver'
  BY <1>1 DEF DepsFirst, LaneDeps, ReturnedOver, Over
<1>4. WaitingOpen' /\ IdleFree'
  BY <1>1 DEF WaitingOpen, IdleFree, Over, TypeOK
<1>5. SettledTrue'
  <2> SUFFICES ASSUME ~failure', NEW s \in Terminal, NEW t \in settled'[s]
               PROVE  row[t].state = s
    BY <1>1 DEF SettledTrue
  <2>1. ~failure /\ \A u \in over : lane[u] = "returned"
    BY <1>1
  <2>2. \A u \in over : Over(u)
    BY <2>1 DEF ReturnedOver
  <2>3. t \in settled[s] \/ (t \in over /\ row[t].state = s)
    BY <1>1, <2>2 DEF Finished, Over
  <2> QED
    BY <2>1, <2>3 DEF SettledTrue
<1> QED
  BY <1>2, <1>3, <1>4, <1>5

LEMMA LaneEndInv ==
  ASSUME IInv, NEW t \in Tasks, Return(t) \/ Raise(t)
  PROVE  IInv'
<1> USE DEF IInv
<1>1. /\ lane[t] = "running"
      /\ \/ lane' = [lane EXCEPT ![t] = "returned"] /\ Over(t)
         \/ lane' = [lane EXCEPT ![t] = "raised"]
      /\ UNCHANGED <<kind, row, waiting, settled, failure, pc>>
  BY DEF Return, Raise, Running, Over
<1>2. stops' \in 0..MaxStops
  BY BudgetAssumption DEF Return, Raise, TypeOK
<1>3. TypeOK'
  BY <1>1, <1>2 DEF TypeOK
<1> QED
  BY <1>1, <1>3
  DEF TypeOK, DepsFirst, LaneDeps, WaitingOpen, ReturnedOver, SettledTrue, IdleFree, Over

LEMMA StopInv == ASSUME IInv, Leave \/ Die \/ ResumeGraph PROVE IInv'
<1> USE DEF IInv
<1>1. CASE Leave
  BY <1>1 DEF Leave, TypeOK, DepsFirst, LaneDeps, WaitingOpen, ReturnedOver, SettledTrue,
              IdleFree, Over
<1>2. CASE Die \/ ResumeGraph
  <2>1. Forgotten /\ UNCHANGED <<kind, row>> /\ stops' \in 0..MaxStops
    BY <1>2, BudgetAssumption DEF Die, ResumeGraph, TypeOK
  <2>2. TypeOK'
    BY <2>1 DEF Forgotten, TypeOK, Terminal
  <2> QED
    BY <2>1, <2>2 DEF Forgotten, DepsFirst, LaneDeps, WaitingOpen, ReturnedOver, SettledTrue,
                      IdleFree, Terminal
<1> QED
  BY <1>1, <1>2

LEMMA StutterInv == ASSUME IInv, UNCHANGED vars PROVE IInv'
  BY DEF vars, IInv, TypeOK, DepsFirst, LaneDeps, WaitingOpen, ReturnedOver, SettledTrue,
         IdleFree, Over

LEMMA StepInv == IInv /\ [Next]_vars => IInv'
<1> SUFFICES ASSUME IInv, [Next]_vars PROVE IInv'
  OBVIOUS
<1>1. CASE Schedule
  BY <1>1, EnterInv, LaunchInv, SkipInv, CollectInv, StopInv DEF Schedule
<1>2. ASSUME NEW t \in Tasks, LaneStep(t) PROVE IInv'
  BY <1>2, PhaseInv, LaneEndInv DEF LaneStep
<1>3. CASE Die \/ ResumeGraph
  BY <1>3, StopInv
<1>4. CASE UNCHANGED vars
  BY <1>4, StutterInv
<1> QED
  BY <1>1, <1>2, <1>3, <1>4 DEF Next

\* The rows, the scheduler's sets and the lanes of _schedule_tasks have the types the
\* model gives them, for every graph and every budget.
THEOREM TypeCorrect == Spec => []TypeOK
<1>1. IInv => TypeOK
  BY DEF IInv
<1> QED
  BY <1>1, InitInv, StepInv, PTL DEF Spec

\* No task of any graph is started before all it depends on is done, however many lanes
\* there are and however often the run dies, raises and is resumed.
THEOREM DependenciesFirst == Spec => []DepsFirst
<1>1. IInv => DepsFirst
  BY DEF IInv
<1> QED
  BY <1>1, InitInv, StepInv, PTL DEF Spec

-----------------------------------------------------------------------------
(* The scheduler implements TaskGraph.                                     *)

\* A task as the abstract graph sees it.
Shown == [t \in Tasks |-> IF row[t].state \in Terminal THEN row[t].state ELSE "open"]

LEMMA InitPromise == Init => Promise!Init
<1> SUFFICES ASSUME Init PROVE Promise!Init
  OBVIOUS
<1>1. Shown \in [Tasks -> {"open"}]
  BY DEF Init, Shown, Terminal
<1> QED
  BY <1>1 DEF Promise!Init, Shown

\* A phase settles its task, whose dependencies are done, or shows nothing.
LEMMA PhasePromise ==
  ASSUME IInv, NEW t \in Tasks,
         Begin(t) \/ Build(t) \/ Verify(t) \/ Judge(t) \/ AbortTask(t)
  PROVE  Promise!Settle(t) \/ UNCHANGED Shown
<1> USE DEF IInv
<1>1. Phased(t) /\ Running(t) /\ ~Over(t)
  BY PhaseShape
<1>2. PICK r \in Row : /\ row' = [row EXCEPT ![t] = r]
                       /\ r.state \in {"executing", "verifying", "done", "failed"}
  BY <1>1 DEF Phased
<1>3. row'[t] = r /\ \A u \in Tasks \ {t} : row'[u] = row[u]
  BY <1>2 DEF TypeOK
<1>4. \A d \in Deps[t] : row[d].state = "done"
  BY <1>1 DEF LaneDeps, Running
<1>5. Shown[t] = "open" /\ \A d \in Deps[t] : Shown[d] = "done"
  BY <1>1, <1>4, GraphAssumption DEF Shown, Over, Terminal
<1>6. CASE r.state \in {"executing", "verifying"}
  BY <1>1, <1>3, <1>6 DEF Shown, Over, Terminal
<1>7. CASE r.state \in {"done", "failed"}
  <2>1. Shown' = [Shown EXCEPT ![t] = r.state]
    BY <1>3, <1>7 DEF Shown, Terminal
  <2> QED
    BY <1>5, <1>7, <2>1 DEF Promise!Settle, Shown
<1> QED
  BY <1>2, <1>6, <1>7

\* A task is skipped after something it depends on failed or was skipped.
LEMMA SkipPromise ==
  ASSUME IInv, NEW t \in Tasks, SkipTask(t)
  PROVE  Promise!Skip(t)
<1> USE DEF IInv
<1>1. t \in waiting /\ ~failure /\ ~Over(t) /\ Barred(t)
  BY DEF SkipTask, First, Launchable, WaitingOpen
<1>2. row' = [row EXCEPT ![t] = [row[t] EXCEPT !.state = "skipped"]] /\ row[t] \in Row
  BY DEF SkipTask, TypeOK
<1>3. row'[t].state = "skipped" /\ \A u \in Tasks \ {t} : row'[u] = row[u]
  BY <1>2 DEF TypeOK, Row
<1>4. PICK d \in Deps[t] : d \in settled["failed"] \cup settled["skipped"]
  BY <1>1 DEF Barred
<1>5. row[d].state \in {"failed", "skipped"} /\ d \in Tasks
  BY <1>1, <1>4, GraphAssumption DEF SettledTrue, Terminal
<1>6. Shown[t] = "open" /\ Shown[d] \in {"failed", "skipped"}
  BY <1>1, <1>5 DEF Shown, Over, Terminal
<1>7. Shown' = [Shown EXCEPT ![t] = "skipped"]
  BY <1>3 DEF Shown, Terminal
<1> QED
  BY <1>4, <1>6, <1>7 DEF Promise!Skip, Shown

LEMMA StepPromise == IInv /\ [Next]_vars => [Promise!Next]_Shown
<1> SUFFICES ASSUME IInv, [Next]_vars PROVE Promise!Next \/ UNCHANGED Shown
  OBVIOUS
<1>1. ASSUME UNCHANGED row PROVE UNCHANGED Shown
  BY <1>1 DEF Shown
<1>2. CASE Schedule
  BY <1>1, <1>2, SkipPromise DEF Schedule, Enter, Launch, Collect, Leave, Promise!Next
<1>3. ASSUME NEW t \in Tasks, LaneStep(t) PROVE Promise!Next \/ UNCHANGED Shown
  BY <1>1, <1>3, PhasePromise DEF LaneStep, Return, Raise, Promise!Next
<1>4. CASE Die \/ ResumeGraph \/ UNCHANGED vars
  BY <1>1, <1>4 DEF Die, ResumeGraph, vars
<1> QED
  BY <1>2, <1>3, <1>4 DEF Next

\* Lanes, budgets, deaths and resumes together keep the promise of a task graph: a task
\* succeeds or fails only after all it depends on succeeded, is skipped only after
\* something it depends on did not, and is settled once.
THEOREM ImplementsTaskGraph == Spec => KeepsOrder
  BY InitInv, StepInv, InitPromise, StepPromise, PTL
  DEF Spec, KeepsOrder, Promise!Spec, Shown

=============================================================================
