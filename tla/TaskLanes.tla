------------------------------ MODULE TaskLanes ------------------------------
(***************************************************************************)
(* A run's task graph: _schedule_tasks launches ready tasks into lanes,    *)
(* each lane walks its task through build and verify under its budgets, and*)
(* the rows it writes are what a resumed run starts from.                  *)
(***************************************************************************)
EXTENDS Naturals, FiniteSets

CONSTANTS Tasks,            \* the graph's tasks
          Deps,             \* what each task depends on
          Order,            \* each task's place in the saved order
          Lanes,            \* max_parallel_tasks
          MaxRevisions,     \* max_revisions_per_task
          MaxReplans,       \* max_replans_per_task
          MaxReauthors,     \* max_verify_reauthors_per_task
          MaxStops          \* bound on deaths, errors and cancellations

ASSUME GraphAssumption == /\ IsFiniteSet(Tasks)
                          /\ Deps \in [Tasks -> SUBSET Tasks]
                          /\ Order \in [Tasks -> Nat]
ASSUME OrderAssumption == \A t \in Tasks, u \in Tasks :
                            /\ (u \in Deps[t]) => Order[u] < Order[t]
                            /\ t # u => Order[t] # Order[u]
ASSUME BudgetAssumption == /\ Lanes \in Nat \ {0}
                           /\ MaxRevisions \in Nat /\ MaxReplans \in Nat
                           /\ MaxReauthors \in Nat /\ MaxStops \in Nat

VARIABLES
  kind,       \* a code run verifies its tasks, a workload judges them
  row,        \* the task rows: state, revisions, replans, suspect, reauthors
  waiting,    \* tasks not launched yet
  settled,    \* done_ids, failed_ids and skipped_ids of the scheduler
  lane,       \* what each task's lane is doing: none, running, returned, raised
  failure,    \* a lane raised
  pc,         \* idle, scheduling, ended (returned), raised
  stops       \* deaths, errors and cancellations so far

vars == <<kind, row, waiting, settled, lane, failure, pc, stops>>

Terminal == {"done", "failed", "skipped"}
States == {"pending", "executing", "verifying"} \cup Terminal
Row == [state : States, revisions : Nat, replans : Nat, suspect : BOOLEAN, reauthors : Nat]

TypeOK ==
  /\ kind \in {"code", "workload"}
  /\ row \in [Tasks -> Row]
  /\ waiting \subseteq Tasks
  /\ settled \in [{"done", "failed", "skipped"} -> SUBSET Tasks]
  /\ lane \in [Tasks -> {"none", "running", "returned", "raised"}]
  /\ failure \in BOOLEAN
  /\ pc \in {"idle", "scheduling", "ended", "raised"}
  /\ stops \in 0..MaxStops

InFlight == {t \in Tasks : lane[t] # "none"}

Init ==
  /\ kind \in {"code", "workload"}
  /\ row = [t \in Tasks |-> [state |-> "pending", revisions |-> 0, replans |-> 0,
                             suspect |-> FALSE, reauthors |-> 0]]
  /\ waiting = {}
  /\ settled = [s \in Terminal |-> {}]
  /\ lane = [t \in Tasks |-> "none"]
  /\ failure = FALSE
  /\ pc = "idle"
  /\ stops = 0

----------------------------------------------------------------------------
(* The scheduler.                                                          *)

\* _schedule_tasks reads the rows: what is terminal is settled, the rest waits.
Enter ==
  /\ pc = "idle"
  /\ pc' = "scheduling"
  /\ settled' = [s \in Terminal |-> {t \in Tasks : row[t].state = s}]
  /\ waiting' = {t \in Tasks : row[t].state \notin Terminal}
  /\ failure' = FALSE
  /\ UNCHANGED <<kind, row, lane, stops>>

\* Slip: a task is ready when some dependency is over.
Ready_Some(t) ==
  \/ Deps[t] = {}
  \/ \E d \in Deps[t] : \E s \in Terminal : d \in settled[s]

Ready(t) == \A d \in Deps[t] : \E s \in Terminal : d \in settled[s]

First(t) == /\ t \in waiting
            /\ Ready(t)
            /\ \A u \in waiting : Ready(u) => Order[t] <= Order[u]

LaneFree == Cardinality(InFlight) < Lanes

Barred(t) == Deps[t] \cap (settled["failed"] \cup settled["skipped"]) # {}

Launchable == waiting # {} /\ LaneFree /\ ~failure /\ \E t \in waiting : Ready(t)

Launch(t) ==
  /\ pc = "scheduling" /\ Launchable
  /\ First(t) /\ ~Barred(t)
  /\ waiting' = waiting \ {t}
  /\ lane' = [lane EXCEPT ![t] = "running"]
  /\ UNCHANGED <<kind, row, settled, failure, pc, stops>>

SkipTask(t) ==
  /\ pc = "scheduling" /\ Launchable
  /\ First(t) /\ Barred(t)
  /\ waiting' = waiting \ {t}
  /\ settled' = [settled EXCEPT !["skipped"] = @ \cup {t}]
  /\ row' = [row EXCEPT ![t].state = "skipped"]
  /\ UNCHANGED <<kind, lane, failure, pc, stops>>

\* finished(): anything neither failed nor skipped counts as done.
Finished(T) ==
  [s \in Terminal |->
     settled[s] \cup {t \in T : row[t].state = s
                                  \/ (s = "done" /\ row[t].state \notin Terminal)}]

\* wait(FIRST_COMPLETED): every lane that is over is collected at once.
Collect ==
  LET over == {t \in Tasks : lane[t] \in {"returned", "raised"}}
  IN /\ pc = "scheduling" /\ ~Launchable
     /\ over # {}
     /\ lane' = [t \in Tasks |-> IF t \in over THEN "none" ELSE lane[t]]
     /\ settled' = Finished(over)
     /\ failure' = (failure \/ \E t \in over : lane[t] = "raised")
     /\ UNCHANGED <<kind, row, waiting, pc, stops>>

\* Nothing in flight and nothing to launch: return, or raise the first error.
Leave ==
  /\ pc = "scheduling" /\ ~Launchable
  /\ InFlight = {}
  /\ pc' = (IF failure THEN "raised" ELSE "ended")
  /\ UNCHANGED <<kind, row, waiting, settled, lane, failure, stops>>

----------------------------------------------------------------------------
(* A lane: _run_task, one phase at a time.                                 *)

Running(t) == lane[t] = "running"

Begin(t) ==
  /\ Running(t) /\ row[t].state = "pending"
  /\ row' = [row EXCEPT ![t].state = "executing"]
  /\ UNCHANGED <<kind, waiting, settled, lane, failure, pc, stops>>

\* _phase_build, _phase_execute.
Build(t) ==
  /\ Running(t) /\ row[t].state = "executing"
  /\ row' = [row EXCEPT ![t].state = "verifying"]
  /\ UNCHANGED <<kind, waiting, settled, lane, failure, pc, stops>>

\* Slip: a fresh session does not cost a replan.
Revised_Free(r, verify) ==
  IF r.revisions < MaxRevisions
  THEN [r EXCEPT !.revisions = @ + 1, !.state = "executing"]
  ELSE IF verify
  THEN [r EXCEPT !.revisions = 0, !.state = "executing"]
  ELSE [r EXCEPT !.revisions = @ + 1, !.state = "failed"]

\* _register_revision: another attempt, then a fresh session, then failure.
Revised(r, verify) ==
  IF r.revisions < MaxRevisions
  THEN [r EXCEPT !.revisions = @ + 1, !.state = "executing"]
  ELSE IF verify /\ r.replans < MaxReplans
  THEN [r EXCEPT !.replans = @ + 1, !.revisions = 0, !.state = "executing"]
  ELSE [r EXCEPT !.revisions = @ + 1, !.state = "failed"]

\* _register_verify_suspect: change the check, else a fresh session, else fail.
Suspected(r, changed) ==
  IF changed
  THEN [r EXCEPT !.reauthors = @ + 1, !.suspect = FALSE]
  ELSE IF r.replans >= MaxReplans
  THEN [r EXCEPT !.suspect = TRUE, !.state = "failed"]
  ELSE [r EXCEPT !.suspect = TRUE, !.replans = @ + 1, !.revisions = 0, !.state = "executing"]

\* The task failed a check before, so it can fail one the same way again.
Tried(r) == r.revisions + r.replans + r.reauthors > 0

\* _phase_verify: passed, failed anew, or failed the same way again.
Verify(t) ==
  /\ kind = "code"
  /\ Running(t) /\ row[t].state = "verifying"
  /\ LET r == row[t]
     IN \/ row' = [row EXCEPT ![t].state = "done"]
        \/ row' = [row EXCEPT ![t] = Revised(r, TRUE)]
        \/ Tried(r) /\ r.suspect /\ row' = [row EXCEPT ![t] = Revised(r, FALSE)]
        \/ Tried(r) /\ ~r.suspect /\ row' = [row EXCEPT ![t] = Suspected(r, FALSE)]
        \/ /\ Tried(r) /\ ~r.suspect /\ r.reauthors < MaxReauthors
           /\ row' = [row EXCEPT ![t] = Suspected(r, TRUE)]
  /\ UNCHANGED <<kind, waiting, settled, lane, failure, pc, stops>>

\* _phase_judge: passed, unmet, or no usable verdict.
Judge(t) ==
  /\ kind = "workload"
  /\ Running(t) /\ row[t].state = "verifying"
  /\ \/ row' = [row EXCEPT ![t].state = "done"]
     \/ row' = [row EXCEPT ![t] = Revised(row[t], FALSE)]
     \/ row' = [row EXCEPT ![t].state = "failed"]
  /\ UNCHANGED <<kind, waiting, settled, lane, failure, pc, stops>>

\* Slip: an aborted task counts as skipped.
AbortTask_Skipped(t) ==
  /\ Running(t) /\ row[t].state \in {"executing", "verifying"}
  /\ row' = [row EXCEPT ![t].state = "skipped"]
  /\ UNCHANGED <<kind, waiting, settled, lane, failure, pc, stops>>

\* The sandbox is out of memory: the task fails at its phase boundary.
AbortTask(t) ==
  /\ Running(t) /\ row[t].state \in {"executing", "verifying"}
  /\ row' = [row EXCEPT ![t].state = "failed"]
  /\ UNCHANGED <<kind, waiting, settled, lane, failure, pc, stops>>

Return(t) ==
  /\ Running(t) /\ row[t].state \in Terminal
  /\ lane' = [lane EXCEPT ![t] = "returned"]
  /\ UNCHANGED <<kind, row, waiting, settled, failure, pc, stops>>

\* A worker error, a cancellation or the wall clock, at a phase boundary.
Raise(t) ==
  /\ Running(t) /\ stops < MaxStops
  /\ stops' = stops + 1
  /\ lane' = [lane EXCEPT ![t] = "raised"]
  /\ UNCHANGED <<kind, row, waiting, settled, failure, pc>>

----------------------------------------------------------------------------
(* The process dies, and a resumed run schedules what is left.             *)

Forgotten == /\ waiting' = {}
             /\ settled' = [s \in Terminal |-> {}]
             /\ lane' = [t \in Tasks |-> "none"]
             /\ failure' = FALSE
             /\ pc' = "idle"

Die == /\ pc = "scheduling" /\ stops < MaxStops
       /\ stops' = stops + 1
       /\ Forgotten
       /\ UNCHANGED <<kind, row>>

ResumeGraph == /\ pc = "raised"
               /\ Forgotten
               /\ UNCHANGED <<kind, row, stops>>

LaneStep(t) == Begin(t) \/ Build(t) \/ Verify(t) \/ Judge(t) \/ AbortTask(t) \/ Return(t) \/ Raise(t)

Schedule == Enter \/ (\E t \in Tasks : Launch(t) \/ SkipTask(t)) \/ Collect \/ Leave

Next == Schedule \/ (\E t \in Tasks : LaneStep(t)) \/ Die \/ ResumeGraph

Spec == Init /\ [][Next]_vars

\* The scheduler and every lane go on; a run that stopped is resumed.
FairSpec == /\ Spec
            /\ WF_vars(Schedule) /\ WF_vars(ResumeGraph)
            /\ \A t \in Tasks : WF_vars(LaneStep(t))

----------------------------------------------------------------------------
(* Properties.                                                             *)

\* A task that was started has every dependency done, across deaths, errors in
\* another lane and resumes; finished() counting an unfinished task as done
\* never starts a dependent.
DepsFirst == \A t \in Tasks :
               row[t].state \in {"executing", "verifying", "done"}
                 => \A d \in Deps[t] : row[d].state = "done"

\* What a task graph promises (TaskGraph): an unfinished row is open.
Promise == INSTANCE TaskGraph
             WITH st <- [t \in Tasks |-> IF row[t].state \in Terminal
                                          THEN row[t].state ELSE "open"]
KeepsOrder == Promise!Spec

\* Every graph is settled in the end, however often the run is stopped: the loop
\* is left with no error and every task accounted for.
GraphSettles == <>(pc = "ended" /\ \A t \in Tasks : row[t].state \in Terminal)
=============================================================================
