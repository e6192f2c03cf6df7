------------------------------ MODULE EpicRuns ------------------------------
(***************************************************************************)
(* Epic runs: the driver admits an epic's tasks to the daemon's queue in   *)
(* dependency order and follows them to the end, while people pause, stop, *)
(* retry and skip from the API, work the queue by hand, and the process    *)
(* may die between an admission and the write that records it.             *)
(***************************************************************************)
EXTENDS Naturals, Sequences

CONSTANTS Order,        \* the epic's tasks, in the plan's order
          Deps,         \* the tasks each one depends on
          MaxRuns,      \* bound on epic runs of this epic
          NoTask,
          MaxCtl,       \* bound on controls of an epic run
          MaxTrouble    \* bound on faults, deaths and people's acts on items and issues

Tasks == {Order[i] : i \in 1..Len(Order)}
Position(k) == CHOOSE i \in 1..Len(Order) : Order[i] = k
Runs == 1..MaxRuns          \* in the order they start
NoRun == 0

ASSUME EpicAssumption == /\ MaxRuns \in Nat
                         /\ Deps \in [Tasks -> SUBSET Tasks]
                         /\ NoTask \notin Tasks
                         /\ MaxCtl \in Nat /\ MaxTrouble \in Nat

VARIABLES
  run,        \* plan_epic_runs: the state of each epic run
  task,       \* plan_epic_run_tasks: each run's row of each task
  item,       \* work_items: the queue's row of each task's issue
  issue,      \* the issues on the forge; "known" is closed, and read back into the plan
  job,        \* what the loop's thread and the API's thread are in the middle of
  used,       \* controls and trouble so far
  delivered,  \* history: tasks whose item was done or whose issue was closed
  slipped     \* history: <<run, task>> whose item the run does not know is in the queue

vars == <<run, task, item, issue, job, used, delivered, slipped>>
ghosts == <<delivered, slipped>>

DONE == {"landed", "closed", "skipped"}
SETTLED == DONE \cup {"cancelled"}
STUCK == {"failed", "blocked"}
LIVE_RUN_STATES == {"running", "paused"}
TaskStates == SETTLED \cup STUCK \cup {"waiting", "ready", "queued", "running"}

\* A queued item with a run pinned to it is "resuming"; a parked one is "running"; a
\* blocked or cancelled one is "failed".
InQueue == {"queued", "resuming", "running"}
ItemStates == InQueue \cup {"none", "done", "failed"}

Waiting == [state |-> "waiting", item |-> FALSE]
NoRows == [k \in Tasks |-> Waiting]
\* asked is history: somebody else than the run it has for a parent queued it last.
NoItem == [state |-> "none", parent |-> NoRun, asked |-> FALSE]
Free == [at |-> "none", verb |-> "none", task |-> NoTask, run |-> NoRun, rows |-> NoRows,
         left |-> {}, tried |-> {}, moved |-> FALSE]

Threads == {"loop", "api"}
Row == [state : TaskStates, item : BOOLEAN]
Item == [state : ItemStates, parent : Runs \cup {NoRun}, asked : BOOLEAN]
Job == [at : {"none", "claim", "place", "admit", "adopt", "save", "act", "cancel"},
        verb : {"none", "retry", "skip", "again"}, task : Tasks \cup {NoTask},
        run : Runs \cup {NoRun}, rows : [Tasks -> Row], left : SUBSET Tasks,
        tried : SUBSET Tasks, moved : BOOLEAN]

Init ==
  /\ run = [r \in Runs |-> "none"]
  /\ task = [r \in Runs |-> NoRows]
  /\ item = [k \in Tasks |-> NoItem]
  /\ issue = [k \in Tasks |-> "open"]
  /\ job = [t \in Threads |-> Free]
  /\ used = [ctl |-> 0, trouble |-> 0]
  /\ delivered = {} /\ slipped = {}

\* What the bound counts.
Trouble == used.trouble < MaxTrouble /\ used' = [used EXCEPT !.trouble = @ + 1]

-----------------------------------------------------------------------------
(* Following and placing.                                                  *)

FromItem(state) ==
  CASE state \in {"queued", "resuming"} -> "queued"
    [] state = "running" -> "running"
    [] state = "done" -> "landed"
    [] state = "failed" -> "failed"

\* Slip: a row that left the queue is taken for one that finished.
Follow_GoneIsDone(row, it) ==
  IF ~row.item \/ row.state \in SETTLED THEN row
  ELSE IF it.state = "none" THEN [row EXCEPT !.state = "landed"]
  ELSE [row EXCEPT !.state = FromItem(it.state)]

\* Slip: the link to a row that left the queue is kept.
Follow_KeepsLink(row, it) ==
  IF ~row.item \/ row.state \in SETTLED THEN row
  ELSE IF it.state = "none" THEN [row EXCEPT !.state = "ready"]
  ELSE [row EXCEPT !.state = FromItem(it.state)]

\* _follow: an item that left the queue makes its task ready again.
Follow(row, it) ==
  IF ~row.item \/ row.state \in SETTLED THEN row
  ELSE IF it.state = "none" THEN [state |-> "ready", item |-> FALSE]
  ELSE [row EXCEPT !.state = FromItem(it.state)]

Readiness(k, rows) ==
  IF \E d \in Deps[k] : rows[d].state \in STUCK THEN "blocked"
  ELSE IF \E d \in Deps[k] : rows[d].state \notin DONE THEN "waiting"
  ELSE "ready"

\* Slip: a control and the loop's tick may both be in a pass.
Unlocked_Always == TRUE

\* The driver's lock: the tick tries it, a start or a control waits for it.
Unlocked == \A t \in Threads : job[t].at \in {"none", "claim"}

\* The first half of _drive: the rows are read and each follows its item.
Pass(r, rows, state, verb, k) ==
  LET now == [x \in Tasks |-> Follow(rows[x], item[x])]
  IN [Free EXCEPT !.at = IF state \in LIVE_RUN_STATES THEN "place" ELSE "save",
                  !.verb = verb, !.task = k, !.run = r, !.rows = now]

\* Tasks are taken in the plan's order.
First(left, k) == k \in left /\ \A x \in left : Position(k) <= Position(x)

\* The next admission of the round, the next round when one of this round moved, or the end.
Turn(j) == [j EXCEPT !.at = IF j.left # {} THEN "admit" ELSE IF j.moved THEN "place" ELSE "save"]

Passed(row) == row.item \/ row.state \in SETTLED \cup {"failed"}

\* A round of _place. Every task that is not admitted or settled is judged by the states
\* the round began with: closed when the plan knows its issue closed, to be admitted when
\* it is ready, was not tried on this pass and the run is running, else where it stands.
Place(t) ==
  /\ job[t].at = "place"
  /\ LET j == job[t]
         open == {k \in Tasks : ~Passed(j.rows[k])}
         closed == {k \in open : issue[k] = "known"}
         ready == {k \in open \ closed : Readiness(k, j.rows) = "ready"}
         admit == IF run[j.run] = "running" THEN ready \ j.tried ELSE {}
         rows == [k \in Tasks |->
           CASE k \in closed -> [j.rows[k] EXCEPT !.state = "closed"]
             [] k \in open \ (closed \cup admit \cup (ready \cap j.tried)) ->
                  [j.rows[k] EXCEPT !.state = Readiness(k, j.rows)]
             [] OTHER -> j.rows[k]]
     IN job' = [job EXCEPT ![t] = Turn([j EXCEPT !.rows = rows, !.left = admit,
                                                 !.moved = rows # j.rows])]
  /\ UNCHANGED <<run, task, item, issue, used, ghosts>>

\* The rows the queue write of an admission leaves: a live one as it stands; a finished
\* one queued again in place, under the parent it had, or replaced when its text was
\* edited; a missing one made.
Upserted(k, r) ==
  IF item[k].state \in InQueue THEN {item[k]}
  ELSE {[state |-> "queued", parent |-> r, asked |-> FALSE]} \cup
       {it \in {[item[k] EXCEPT !.state = "queued", !.asked = item[k].parent # r]} :
          item[k].state # "none"}

\* A task has its answer: the pass goes on to the next one, a retry to its end.
Answered(j, k, row) ==
  IF j.verb = "again" THEN [j EXCEPT !.at = "save", !.rows[k] = row, !.left = {}]
  ELSE Turn([j EXCEPT !.rows[k] = row, !.left = @ \ {k}, !.tried = @ \cup {k},
                      !.moved = @ \/ row.state # j.rows[k].state])

\* The first half of _admit. A workload profile that is gone refuses a task before the
\* queue is looked at; the forge may have the issue closed, be unreadable, or refuse it
\* by rule; else the item is in the queue, and still to be adopted when it has another
\* parent than this run.
Admission(t, j, k) ==
  \/ /\ item[k].state \in InQueue \/ issue[k] = "open"
     /\ \E it \in Upserted(k, j.run) :
          /\ item' = [item EXCEPT ![k] = it]
          /\ job' = [job EXCEPT ![t] =
               IF it.parent # j.run THEN [j EXCEPT !.at = "adopt"]
               ELSE Answered(j, k, [state |-> FromItem(it.state), item |-> TRUE])]
     /\ UNCHANGED used
  \/ /\ item[k].state \notin InQueue /\ issue[k] # "open"
     /\ job' = [job EXCEPT ![t] = Answered(j, k, [state |-> "closed", item |-> FALSE])]
     /\ UNCHANGED <<item, used>>
  \/ /\ Trouble
     /\ \E s \in {"ready", "failed"} :
          /\ s = "ready" => item[k].state \notin InQueue
          /\ job' = [job EXCEPT ![t] = Answered(j, k, [state |-> s, item |-> FALSE])]
     /\ UNCHANGED item

Admit(t) ==
  /\ job[t].at = "admit"
  /\ \E k \in job[t].left : First(job[t].left, k) /\ Admission(t, job[t], k)
  /\ UNCHANGED <<run, task, issue, ghosts>>

\* The second half, a transaction of its own: adopt names this run the parent of a row
\* that is still queued and that no dispatch has claimed, and the task is what the row is
\* by then. A row that has left the queue is followed as it was read.
Adopt(t) ==
  /\ job[t].at = "adopt"
  /\ \E k \in job[t].left, adopted \in BOOLEAN :
       LET state == IF item[k].state = "none" THEN "queued" ELSE item[k].state IN
       /\ First(job[t].left, k)
       /\ adopted => item[k].state = "queued"
       /\ item' = IF adopted THEN [item EXCEPT ![k].parent = job[t].run, ![k].asked = FALSE]
                  ELSE item
       /\ job' = [job EXCEPT ![t] =
                    Answered(job[t], k, [state |-> FromItem(state), item |-> TRUE])]
  /\ UNCHANGED <<run, task, issue, used, ghosts>>

Followed(row) == row.item /\ row.state \in {"queued", "running"}

\* EpicRunStore.save at the end of a pass: the rows, and the run's end when all is done.
\* A control goes on from the rows just written, or makes its second pass.
Save(t) ==
  /\ job[t].at = "save"
  /\ LET j == job[t]
         over == /\ run[j.run] \in LIVE_RUN_STATES /\ j.verb # "again"
                 /\ \A k \in Tasks : j.rows[k].state \in DONE
     IN /\ task' = [task EXCEPT ![j.run] = j.rows]
        /\ run' = [run EXCEPT ![j.run] = IF over THEN "completed" ELSE @]
        /\ slipped' = slipped \ {<<j.run, k>> : k \in {x \in Tasks : Followed(j.rows[x])}}
        /\ job' = [job EXCEPT ![t] =
             CASE j.verb \in {"retry", "skip"} -> [j EXCEPT !.at = "act"]
               [] j.verb = "again" -> Pass(j.run, j.rows, run[j.run], "none", NoTask)
               [] OTHER -> Free]
  /\ UNCHANGED <<item, issue, used, delivered>>

\* active(): the runs a tick passes over.
Active(r) == \/ run[r] \in LIVE_RUN_STATES
             \/ run[r] = "cancelled" /\ \E k \in Tasks : task[r][k].state \in {"queued", "running"}

\* Something for a pass to do: a row behind its item, or a task that stands otherwise, or
\* is there to be admitted. A pass that would find nothing changes nothing.
Due(r) ==
  \E k \in Tasks :
    \/ Follow(task[r][k], item[k]) # task[r][k]
    \/ /\ run[r] \in LIVE_RUN_STATES /\ ~Passed(task[r][k])
       /\ \/ issue[k] = "known"
          \/ Readiness(k, task[r]) # task[r][k].state
          \/ Readiness(k, task[r]) = "ready" /\ run[r] = "running"
    \/ run[r] \in LIVE_RUN_STATES /\ \A x \in Tasks : task[r][x].state \in DONE

Tick(r) ==
  /\ job["loop"].at = "none" /\ Unlocked /\ Active(r) /\ Due(r)
  /\ job' = [job EXCEPT !["loop"] = Pass(r, task[r], run[r], "none", NoTask)]
  /\ UNCHANGED <<run, task, item, issue, used, ghosts>>

-----------------------------------------------------------------------------
(* The controls, under the lock.                                           *)

Control == used.ctl < MaxCtl /\ job["api"].at = "none" /\ Unlocked
Counted == used' = [used EXCEPT !.ctl = @ + 1]

Latest(r) == run[r] # "none" /\ \A q \in Runs : q > r => run[q] = "none"
Addressed(r) == Latest(r) /\ run[r] \in LIVE_RUN_STATES      \* _refuse_ended

\* The run is recorded, then driven.
Start(r) ==
  /\ Control /\ Counted
  /\ run[r] = "none" /\ \A q \in Runs : q < r => run[q] \in {"completed", "cancelled"}
  /\ run' = [run EXCEPT ![r] = "running"]
  /\ job' = [job EXCEPT !["api"] = Pass(r, NoRows, "running", "none", NoTask)]
  /\ UNCHANGED <<task, item, issue, ghosts>>

Pause(r) ==
  /\ Control /\ Counted /\ Addressed(r) /\ run[r] = "running"
  /\ run' = [run EXCEPT ![r] = "paused"]
  /\ UNCHANGED <<task, item, issue, job, ghosts>>

Resume(r) ==
  /\ Control /\ Counted /\ Addressed(r) /\ run[r] = "paused"
  /\ run' = [run EXCEPT ![r] = "running"]
  /\ job' = [job EXCEPT !["api"] = Pass(r, task[r], "running", "none", NoTask)]
  /\ UNCHANGED <<task, item, issue, ghosts>>

\* retry and skip begin with a pass of their own.
RetryOrSkip(r, verb, k) ==
  /\ Control /\ Counted /\ Addressed(r)
  /\ job' = [job EXCEPT !["api"] = Pass(r, task[r], run[r], verb, k)]
  /\ UNCHANGED <<run, task, item, issue, ghosts>>

\* What a control does with the task once the pass is written. The item retry leaves the
\* row its parent, which may be an earlier run.
Act ==
  /\ job["api"].at = "act"
  /\ LET j == job["api"]
         k == j.task
         row == j.rows[k]
         again(new) == [j EXCEPT !.at = "save", !.verb = "again", !.rows[k] = new]
     IN \/ /\ IF j.verb = "retry" THEN row.state # "failed"
              ELSE row.state \in SETTLED \cup {"queued", "running"}
           /\ job' = [job EXCEPT !["api"] = Free]
           /\ UNCHANGED <<item, used>>
        \/ /\ j.verb = "skip" /\ row.state \notin SETTLED \cup {"queued", "running"}
           /\ job' = [job EXCEPT !["api"] = again([row EXCEPT !.state = "skipped"])]
           /\ UNCHANGED <<item, used>>
        \/ /\ j.verb = "retry" /\ row.state = "failed" /\ row.item /\ item[k].state = "failed"
           /\ item' = [item EXCEPT ![k].state = "queued", ![k].asked = item[k].parent # j.run]
           /\ job' = [job EXCEPT !["api"] = again([row EXCEPT !.state = "queued"])]
           /\ UNCHANGED used
        \/ /\ j.verb = "retry" /\ row.state = "failed" /\ ~(row.item /\ item[k].state = "failed")
           /\ Admission("api", [again([state |-> "ready", item |-> FALSE]) EXCEPT !.left = {k}], k)
  /\ UNCHANGED <<run, task, issue, ghosts>>

Cancel(r) ==
  /\ Control /\ Counted /\ Addressed(r)
  /\ job' = [job EXCEPT !["api"] = [Free EXCEPT !.at = "cancel", !.run = r,
                                                      !.rows = task[r], !.left = Tasks]]
  /\ UNCHANGED <<run, task, item, issue, ghosts>>

\* _withdraw: the item waits in the queue with no run started or pinned. The row says so
\* during a claim too.
Withdrawn(k, row) == row.state = "queued" /\ item[k].state = "queued"

\* cancel, one task at a time: the item abandon of each reports to the forge.
CancelTask ==
  /\ job["api"].at = "cancel"
  /\ LET j == job["api"]
     IN \E k \in Tasks :
          LET row == Follow(j.rows[k], item[k])
              out == Withdrawn(k, row)
              never == row.state \in {"waiting", "ready", "blocked"}
          IN /\ First(j.left, k)
             /\ item' = IF out THEN [item EXCEPT ![k].state = "failed"] ELSE item
             /\ job' = [job EXCEPT !["api"].left = @ \ {k}, !["api"].rows[k] =
                    IF out \/ never THEN [row EXCEPT !.state = "cancelled"] ELSE row]
  /\ UNCHANGED <<run, task, issue, used, ghosts>>

CancelSave ==
  /\ job["api"].at = "cancel" /\ job["api"].left = {}
  /\ LET j == job["api"]
     IN /\ task' = [task EXCEPT ![j.run] = j.rows]
        /\ run' = [run EXCEPT ![j.run] = "cancelled"]
  /\ job' = [job EXCEPT !["api"] = Free]
  /\ UNCHANGED <<item, issue, used, ghosts>>

-----------------------------------------------------------------------------
(* The queue, as the rest of the daemon moves it on the loop's thread.     *)

LoopIdle == job["loop"].at = "none"

\* _start_item reads a queued row and talks to the source.
Claim(k) ==
  /\ LoopIdle /\ item[k].state = "queued"
  /\ job' = [job EXCEPT !["loop"] = [Free EXCEPT !.at = "claim", !.task = k]]
  /\ UNCHANGED <<run, task, item, issue, used, ghosts>>

\* The claim is won: mark_running, whatever the row says by then.
MarkRunning ==
  /\ job["loop"].at = "claim"
  /\ LET k == job["loop"].task
     IN /\ item' = [item EXCEPT ![k].state = IF @ = "none" THEN @ ELSE "running"]
        /\ slipped' = slipped \cup (IF item[k].state = "queued" THEN {}
                                    ELSE {<<item[k].parent, k>>})
  /\ job' = [job EXCEPT !["loop"] = Free]
  /\ UNCHANGED <<run, task, issue, used, delivered>>

\* The claim is refused: discard forgets a row that is still queued.
ClaimLost ==
  /\ job["loop"].at = "claim" /\ Trouble
  /\ LET k == job["loop"].task
     IN item' = [item EXCEPT ![k] = IF @.state = "queued" THEN NoItem ELSE @]
  /\ job' = [job EXCEPT !["loop"] = Free]
  /\ UNCHANGED <<run, task, issue, ghosts>>

ResumeItem(k) ==
  /\ LoopIdle /\ item[k].state = "resuming"
  /\ item' = [item EXCEPT ![k].state = "running"]
  /\ UNCHANGED <<run, task, issue, job, used, ghosts>>

\* A run settles: merged or delivered, or given up.
Settle(k) ==
  /\ LoopIdle /\ item[k].state = "running"
  /\ \/ /\ item' = [item EXCEPT ![k].state = "done"]
        /\ delivered' = delivered \cup {k}
     \/ /\ item' = [item EXCEPT ![k].state = "failed"]
        /\ UNCHANGED delivered
  /\ UNCHANGED <<run, task, issue, job, used, slipped>>

\* An attempt fails with others left, or is interrupted and will be resumed.
Falter(k) ==
  /\ LoopIdle /\ item[k].state = "running" /\ Trouble
  /\ \E s \in {"queued", "resuming"} : item' = [item EXCEPT ![k].state = s]
  /\ UNCHANGED <<run, task, issue, job, ghosts>>

\* The merge or the daemon's report closes the issue of a finished item.
CloseIssue(k) ==
  /\ item[k].state = "done" /\ issue[k] = "open"
  /\ issue' = [issue EXCEPT ![k] = "closed"]
  /\ UNCHANGED <<run, task, item, job, used, ghosts>>

\* plans/reconcile: the plan reads the closed issue back.
ReadBack(k) ==
  /\ issue[k] = "closed"
  /\ issue' = [issue EXCEPT ![k] = "known"]
  /\ UNCHANGED <<run, task, item, job, used, ghosts>>

-----------------------------------------------------------------------------
(* People, faults and crashes.                                             *)

PersonCloses(k) ==
  /\ Trouble /\ issue[k] = "open"
  /\ issue' = [issue EXCEPT ![k] = "closed"]
  /\ delivered' = delivered \cup {k}
  /\ UNCHANGED <<run, task, item, job, slipped>>

\* A retry, a requeue or the trigger label on the issue.
PersonQueues(k) ==
  /\ Trouble /\ item[k].state \notin InQueue /\ issue[k] = "open"
  /\ item' = [item EXCEPT ![k].state = "queued", ![k].asked = TRUE]
  /\ UNCHANGED <<run, task, issue, job, ghosts>>

PersonAbandons(k) ==
  /\ Trouble /\ item[k].state \in InQueue
  /\ item' = [item EXCEPT ![k].state = "failed"]
  /\ UNCHANGED <<run, task, issue, job, ghosts>>

\* What a pass admitted and did not live to record.
Lost(t) == IF job[t].at \in {"place", "admit", "adopt", "save", "act"}
           THEN {<<job[t].run, k>> : k \in {x \in Tasks : /\ Followed(job[t].rows[x])
                                                          /\ ~Followed(task[job[t].run][x])}}
           ELSE {}

\* A pass that raises is dropped; the next one starts from the rows as they were.
Raise(t) ==
  /\ job[t].at \in {"place", "admit", "adopt", "act"} /\ Trouble
  /\ slipped' = slipped \cup Lost(t)
  /\ job' = [job EXCEPT ![t] = Free]
  /\ UNCHANGED <<run, task, item, issue, delivered>>

\* The process dies; recovery pins the runs in flight to their rows.
Crash ==
  /\ Trouble
  /\ job' = [t \in Threads |-> Free]
  /\ item' = [k \in Tasks |-> IF item[k].state = "running"
                              THEN [item[k] EXCEPT !.state = "resuming"] ELSE item[k]]
  /\ slipped' = slipped \cup UNION {Lost(t) : t \in Threads}
  /\ UNCHANGED <<run, task, issue, delivered>>

Next ==
  \/ \E t \in Threads : Place(t) \/ Admit(t) \/ Adopt(t) \/ Save(t) \/ Raise(t)
  \/ Act \/ CancelTask \/ CancelSave \/ MarkRunning \/ ClaimLost \/ Crash
  \/ \E r \in Runs : \/ Tick(r) \/ Start(r) \/ Pause(r) \/ Resume(r) \/ Cancel(r)
                     \/ \E verb \in {"retry", "skip"}, k \in Tasks : RetryOrSkip(r, verb, k)
  \/ \E k \in Tasks : \/ Claim(k) \/ ResumeItem(k) \/ Settle(k) \/ Falter(k)
                      \/ CloseIssue(k) \/ ReadBack(k)
                      \/ PersonCloses(k) \/ PersonQueues(k) \/ PersonAbandons(k)

Spec == Init /\ [][Next]_vars

\* A thread goes on with what it began; the tick comes to every run and every row.
LoopSteps == Place("loop") \/ Admit("loop") \/ Adopt("loop") \/ Save("loop") \/ MarkRunning
ApiSteps == Place("api") \/ Admit("api") \/ Adopt("api") \/ Save("api") \/ Act
            \/ CancelTask \/ CancelSave

Fairness ==
  /\ WF_vars(LoopSteps) /\ WF_vars(ApiSteps)
  /\ \A r \in Runs : WF_vars(Tick(r))
  /\ \A k \in Tasks : WF_vars(Claim(k) \/ ResumeItem(k)) /\ WF_vars(Settle(k))

FairSpec == Spec /\ Fairness

-----------------------------------------------------------------------------
(* Properties.                                                             *)

TypeOK ==
  /\ run \in [Runs -> LIVE_RUN_STATES \cup {"none", "completed", "cancelled"}]
  /\ task \in [Runs -> [Tasks -> Row]]
  /\ item \in [Tasks -> Item]
  /\ issue \in [Tasks -> {"open", "closed", "known"}]
  /\ job \in [Threads -> Job]
  /\ used \in [ctl : Nat, trouble : Nat]
  /\ delivered \subseteq Tasks /\ slipped \subseteq (Runs \cup {NoRun}) \X Tasks

Under(r, k) == item[k].state \in InQueue /\ item[k].parent = r
Mine(r, k) == Under(r, k) /\ ~item[k].asked

\* An epic run puts a task in the queue only when the work it depends on is in: delivered,
\* closed on the forge, or skipped by a person in that run. It stays so through lost
\* passes, retries, rows that left the queue and a second run of the same epic.
OrderKept ==
  \A r \in Runs, k \in Tasks :
    Under(r, k) => \A d \in Deps[k] : d \in delivered \/ task[r][d].state = "skipped"

\* Stopping an epic run leaves nothing of it in the queue but what it still follows: no
\* pass that was under way and no later one puts anything more there for it. Three things
\* stand under it all the same: an item whose pass was lost before it was recorded, one
\* whose dispatch was under way when it was withdrawn, and one that somebody else queued
\* again in place: a person, or a second run, until that run has adopted it.
StopHolds ==
  \A r \in Runs, k \in Tasks :
    run[r] = "cancelled" /\ Mine(r, k) => Followed(task[r][k]) \/ <<r, k>> \in slipped

\* The same of every item that stands under the run, which does not hold.
StopHoldsAlways ==
  \A r \in Runs, k \in Tasks : run[r] = "cancelled" /\ Under(r, k) => Followed(task[r][k])

\* A running epic run comes to its end, or to a failed task that needs a person, or a
\* person pauses or stops it: no task is left waiting for something that never comes.
Underway(r) == run[r] = "running" /\ \A k \in Tasks : task[r][k].state # "failed"
ComesToEnd == (\E r \in Runs : Underway(r)) ~> (\A r \in Runs : ~Underway(r))

=============================================================================
