---------------------------- MODULE EpicRunsProofs ----------------------------
(***************************************************************************)
(* Epic runs, for every plan, number of runs, controls and faults: a task  *)
(* is queued only when what it depends on is in, and a stopped run leaves  *)
(* nothing in the queue but what it follows.                               *)
(***************************************************************************)
EXTENDS EpicRuns, TLAPS

\* A thread inside the driver's lock.
Inside == {"place", "admit", "adopt", "save", "act", "cancel"}
InPass(t) == job[t].at \in Inside

\* What a task depends on is delivered, or was skipped by a person in this run.
DepsIn(r, k) == \A d \in Deps[k] : d \in delivered \/ task[r][d].state = "skipped"

\* One thread at a time, on a run that was started; a pass over a stopped run only
\* reads and saves.
JobsKept ==
  /\ ~(InPass("loop") /\ InPass("api"))
  /\ \A t \in Threads :
       /\ InPass(t) => job[t].run \in Runs /\ run[job[t].run] # "none"
       /\ job[t].at = "claim" => job[t].task \in Tasks
       /\ InPass(t) /\ job[t].verb \in {"retry", "skip"} => job[t].task \in Tasks
       /\ job[t].at = "act" => /\ job[t].task \in Tasks
                               /\ job[t].rows = task[job[t].run]
       /\ InPass(t) /\ run[job[t].run] = "cancelled"
          => job[t].at = "save" /\ job[t].verb = "none"
  /\ \A r \in Runs : run[r] = "none" => task[r] = NoRows

\* Done and closed mean that the work is in.
DoneDelivered == \A k \in Tasks : item[k].state = "done" \/ issue[k] # "open" => k \in delivered

\* What the rows of a run say is so: landed and closed work is in, and a task that was ever
\* admitted, or refused at its admission, had its dependencies in.
RowsTrue(r, rows) == \A k \in Tasks :
  /\ rows[k].state \in {"landed", "closed"} => k \in delivered
  /\ rows[k].item \/ rows[k].state = "failed" => DepsIn(r, k)

AllRowsTrue == /\ \A r \in Runs : RowsTrue(r, task[r])
               /\ \A t \in Threads : InPass(t) => RowsTrue(job[t].run, job[t].rows)

\* A skip is for good, and is written before anything is admitted on the strength of it.
SkipsKept == \A t \in Threads, k \in Tasks : InPass(t) =>
  /\ task[job[t].run][k].state = "skipped" => job[t].rows[k].state = "skipped"
  /\ job[t].at # "save" /\ job[t].rows[k].state = "skipped"
     => task[job[t].run][k].state = "skipped"

\* The tasks a round has still to admit are ready ones.
LeftReady == \A t \in Threads : job[t].at \in {"admit", "adopt"} =>
  \A k \in job[t].left : /\ DepsIn(job[t].run, k)
                         /\ ~job[t].rows[k].item /\ job[t].rows[k].state # "skipped"

\* An item with a parent was ready in that run.
ParentsReady == \A k \in Tasks : item[k].parent \in Runs => DepsIn(item[k].parent, k)

\* A run follows its items in the queue: in the rows of the pass under way, and in the
\* written rows when there is no pass that could be lost with what it admitted, and always
\* once the run is stopped.
Follows(r, k) ==
  /\ \A t \in Threads : InPass(t) /\ job[t].run = r => Followed(job[t].rows[k])
  /\ \/ run[r] = "cancelled"
     \/ \A t \in Threads : InPass(t) /\ job[t].run = r => job[t].at = "cancel"
     => Followed(task[r][k])
QueueFollowed == \A r \in Runs, k \in Tasks :
  Mine(r, k) => <<r, k>> \in slipped \/ Follows(r, k)

Rest == /\ JobsKept /\ DoneDelivered /\ AllRowsTrue /\ SkipsKept /\ LeftReady /\ ParentsReady
        /\ QueueFollowed

IInv == TypeOK /\ Rest

-----------------------------------------------------------------------------
(* Types.                                                                  *)

LEMMA Constants ==
  /\ Deps \in [Tasks -> SUBSET Tasks] /\ NoTask \notin Tasks
  /\ NoRun \notin Runs /\ Threads = {"loop", "api"}
  BY EpicAssumption DEF NoRun, Runs, Threads

LEMMA JobTypes ==
  ASSUME TypeOK, NEW t \in Threads
  PROVE  /\ job[t] \in Job
         /\ job[t].at \in {"none", "claim"} \cup Inside
         /\ job[t].verb \in {"none", "retry", "skip", "again"}
         /\ job[t].task \in Tasks \cup {NoTask} /\ job[t].run \in Runs \cup {NoRun}
         /\ job[t].rows \in [Tasks -> Row] /\ job[t].left \in SUBSET Tasks
         /\ job[t].tried \in SUBSET Tasks /\ job[t].moved \in BOOLEAN
  BY DEF TypeOK, Job, Inside

LEMMA ItemTypes ==
  ASSUME TypeOK, NEW k \in Tasks
  PROVE  /\ item[k] \in Item /\ item[k].state \in ItemStates
         /\ item[k].parent \in Runs \cup {NoRun} /\ item[k].asked \in BOOLEAN
  BY DEF TypeOK, Item

LEMMA TaskTypes ==
  ASSUME TypeOK, NEW r \in Runs
  PROVE  /\ task[r] \in [Tasks -> Row]
         /\ \A k \in Tasks : task[r][k] \in Row
  BY DEF TypeOK

LEMMA RowTypes ==
  ASSUME NEW row \in Row
  PROVE  row.state \in TaskStates /\ row.item \in BOOLEAN
  BY DEF Row

LEMMA NoRowsType ==
  /\ NoRows \in [Tasks -> Row]
  /\ \A k \in Tasks : NoRows[k].state = "waiting" /\ ~NoRows[k].item
  BY DEF NoRows, Waiting, Row, TaskStates

LEMMA FreeType ==
  Free \in Job /\ Free.at = "none" /\ Free.task = NoTask /\ Free.left = {}
  BY NoRowsType DEF Free, Job

LEMMA NoItemType ==
  NoItem \in Item /\ NoItem.state = "none" /\ NoItem.parent = NoRun
  BY DEF NoItem, Item, ItemStates

LEMMA TroubleType ==
  ASSUME TypeOK, Trouble \/ UNCHANGED used
  PROVE  used' \in [ctl : Nat, trouble : Nat]
<1>1. \A n \in Nat : [used EXCEPT !.trouble = n] \in [ctl : Nat, trouble : Nat]
  BY DEF TypeOK
<1>2. used.trouble \in Nat
  BY DEF TypeOK
<1>3. used.trouble + 1 \in Nat
  BY <1>2
<1> QED
  BY <1>1, <1>3 DEF Trouble, TypeOK

LEMMA CountedType ==
  ASSUME TypeOK, Counted
  PROVE  used' \in [ctl : Nat, trouble : Nat]
<1>1. \A n \in Nat : [used EXCEPT !.ctl = n] \in [ctl : Nat, trouble : Nat]
  BY DEF TypeOK
<1>2. used.ctl \in Nat
  BY DEF TypeOK
<1>3. used.ctl + 1 \in Nat
  BY <1>2
<1> QED
  BY <1>1, <1>3 DEF Counted

-----------------------------------------------------------------------------
(* Rows.                                                                   *)

\* Following an item neither makes nor loses a skip, finishes a row only with its item, and
\* keeps a row whose item is in the queue followed.
LEMMA FollowRow ==
  ASSUME NEW row \in Row, NEW it \in Item
  PROVE  LET f == Follow(row, it)
         IN /\ f \in Row
            /\ f.state = "skipped" <=> row.state = "skipped"
            /\ f.state \in {"landed", "closed"}
               => row.state \in {"landed", "closed"} \/ it.state = "done"
            /\ f.item \/ f.state = "failed" => row.item \/ row.state = "failed"
            /\ Followed(row) /\ it.state \in InQueue => Followed(f)
<1>1. it.state \in {"queued", "resuming", "running", "none", "done", "failed"}
  BY DEF Item, ItemStates, InQueue
<1>2. row.state \in TaskStates /\ row.item \in BOOLEAN
  BY RowTypes
<1>3. CASE ~row.item \/ row.state \in SETTLED
  BY <1>2, <1>3 DEF Follow, Followed, SETTLED, DONE
<1>4. CASE row.item /\ row.state \notin SETTLED /\ it.state = "none"
  BY <1>2, <1>4 DEF Follow, Row, TaskStates, SETTLED, DONE, InQueue
<1>5. CASE row.item /\ row.state \notin SETTLED /\ it.state # "none"
  <2>1. FromItem(it.state) \in {"queued", "running", "landed", "failed"}
        /\ (FromItem(it.state) = "landed" => it.state = "done")
        /\ (it.state \in InQueue => FromItem(it.state) \in {"queued", "running"})
    BY <1>1, <1>5 DEF FromItem, InQueue
  <2>2. \A s \in {"queued", "running", "landed", "failed"} :
          LET q == [row EXCEPT !.state = s] IN q \in Row /\ q.state = s /\ q.item = row.item
    BY DEF Row, TaskStates, SETTLED, DONE, STUCK
  <2>3. Follow(row, it) = [row EXCEPT !.state = FromItem(it.state)]
    BY <1>5 DEF Follow
  <2> QED
    BY <1>2, <1>5, <2>1, <2>2, <2>3 DEF Followed, SETTLED, DONE
<1> QED
  BY <1>2, <1>3, <1>4, <1>5

Verbs == {"none", "retry", "skip", "again"}

LEMMA PassJob ==
  ASSUME TypeOK, NEW r \in Runs, NEW rows \in [Tasks -> Row], NEW state,
         NEW verb \in Verbs, NEW k \in Tasks \cup {NoTask}, NEW J, J = Pass(r, rows, state, verb, k)
  PROVE  /\ J \in Job /\ J.at \in {"place", "save"} /\ J.run = r /\ J.verb = verb /\ J.task = k
         /\ \A x \in Tasks : J.rows[x] = Follow(rows[x], item[x])
         /\ state \notin LIVE_RUN_STATES => J.at = "save"
<1> DEFINE now == [x \in Tasks |-> Follow(rows[x], item[x])]
           at == IF state \in LIVE_RUN_STATES THEN "place" ELSE "save"
<1>1. \A x \in Tasks : Follow(rows[x], item[x]) \in Row
  BY ItemTypes, FollowRow
<1>2. now \in [Tasks -> Row]
  BY <1>1
<1>3. J = [Free EXCEPT !.at = at, !.verb = verb, !.task = k, !.run = r, !.rows = now]
  BY DEF Pass
<1>4. at \in {"place", "save"} /\ (state \notin LIVE_RUN_STATES => at = "save")
  OBVIOUS
<1> HIDE DEF now, at
<1>5. /\ J \in Job /\ J.at = at /\ J.run = r /\ J.verb = verb /\ J.task = k /\ J.rows = now
  BY <1>2, <1>3, <1>4, NoRowsType DEF Free, Job, Verbs
<1> QED
  BY <1>4, <1>5 DEF now

LEMMA PlainPass ==
  ASSUME TypeOK, NEW r \in Runs, NEW rows \in [Tasks -> Row], NEW state,
         NEW J, J = Pass(r, rows, state, "none", NoTask)
  PROVE  /\ J \in Job /\ J.at \in {"place", "save"} /\ J.run = r /\ J.verb = "none"
         /\ \A x \in Tasks : J.rows[x] = Follow(rows[x], item[x])
         /\ state \notin LIVE_RUN_STATES => J.at = "save"
<1> DEFINE now == [x \in Tasks |-> Follow(rows[x], item[x])]
           at == IF state \in LIVE_RUN_STATES THEN "place" ELSE "save"
<1>1. \A x \in Tasks : Follow(rows[x], item[x]) \in Row
  BY ItemTypes, FollowRow
<1>2. now \in [Tasks -> Row]
  BY <1>1
<1>3. J = [Free EXCEPT !.at = at, !.verb = "none", !.task = NoTask, !.run = r, !.rows = now]
  BY DEF Pass
<1>4. at \in {"place", "save"} /\ (state \notin LIVE_RUN_STATES => at = "save")
  OBVIOUS
<1> HIDE DEF now, at
<1>5. /\ J \in Job /\ J.at = at /\ J.run = r /\ J.verb = "none" /\ J.rows = now
  BY <1>2, <1>3, <1>4, NoRowsType DEF Free, Job
<1> QED
  BY <1>4, <1>5 DEF now

\* What is delivered stays so, and a skip that is written is kept.
LEMMA DepsStable ==
  ASSUME delivered \subseteq delivered',
         \A r \in Runs, d \in Tasks : task[r][d].state = "skipped" => task'[r][d].state = "skipped",
         NEW r \in Runs, NEW k \in Tasks, DepsIn(r, k)
  PROVE  DepsIn(r, k)'
  BY Constants DEF DepsIn

\* Readiness, by rows that are true, means that the dependencies are in.
LEMMA ReadyDeps ==
  ASSUME NEW r \in Runs, NEW rows \in [Tasks -> Row], NEW k \in Tasks,
         RowsTrue(r, rows), Readiness(k, rows) = "ready",
         \A d \in Tasks : rows[d].state = "skipped" => task[r][d].state = "skipped"
  PROVE  DepsIn(r, k)
<1>1. \A d \in Deps[k] : rows[d].state \in DONE
  BY DEF Readiness
<1>2. Deps[k] \subseteq Tasks
  BY Constants
<1> QED
  BY <1>1, <1>2 DEF DepsIn, RowsTrue, DONE

-----------------------------------------------------------------------------
(* One thread's step in its pass.                                          *)

LEMMA OnlyOne ==
  ASSUME JobsKept, NEW t \in Threads, InPass(t)
  PROVE  \A x \in Threads : x # t => ~InPass(x)
  BY Constants DEF JobsKept

LEMMA JobAt ==
  ASSUME TypeOK, NEW t \in Threads, NEW J \in Job, job' = [job EXCEPT ![t] = J]
  PROVE  /\ job' \in [Threads -> Job]
         /\ job'[t] = J
         /\ \A x \in Threads : x # t => job'[x] = job[x]
  BY DEF TypeOK

\* What the step of a pass must keep: the rows it goes on with are true and follow the
\* items, a skip stays, and what it has put in the queue was ready.
LEMMA WorkInv ==
  ASSUME IInv, NEW t \in Threads, job[t].at \in {"place", "admit", "adopt", "act", "cancel"},
         NEW J \in Job, job' = [job EXCEPT ![t] = J],
         J.at \in {"place", "admit", "adopt", "save", "cancel"},
         J.run = job[t].run, J.verb \in {job[t].verb, "again"}, J.task = job[t].task,
         UNCHANGED <<run, task, issue, ghosts>>,
         used' \in [ctl : Nat, trouble : Nat], item' \in [Tasks -> Item],
         \A k \in Tasks : item'[k].state = "done" => item[k].state = "done",
         \A k \in Tasks : \/ item'[k].parent = item[k].parent
                          \/ item'[k].parent = J.run /\ DepsIn(J.run, k),
         RowsTrue(J.run, J.rows),
         \A k \in Tasks : /\ task[J.run][k].state = "skipped" => J.rows[k].state = "skipped"
                          /\ J.at # "save" /\ J.rows[k].state = "skipped"
                             => task[J.run][k].state = "skipped",
         J.at \in {"admit", "adopt"} =>
            \A k \in J.left : /\ DepsIn(J.run, k)
                              /\ ~J.rows[k].item /\ J.rows[k].state # "skipped",
         \A k \in Tasks, r \in Runs : Mine(r, k)' =>
            \/ r = J.run /\ Followed(J.rows[k])
            \/ Mine(r, k) /\ (r # J.run \/ (Followed(job[t].rows[k]) => Followed(J.rows[k]))),
         J.at = "cancel" => /\ job[t].at = "cancel"
                            /\ \A k \in Tasks, r \in Runs : Mine(r, k)' => Mine(r, k)
  PROVE  IInv'
<1>1. TypeOK /\ Rest
  BY DEF IInv
<1>2. InPass(t) /\ JobsKept
  BY <1>1 DEF InPass, Inside, Rest
<1>3. \A x \in Threads : x # t => ~InPass(x) /\ job'[x] = job[x] /\ ~InPass(x)'
  BY <1>1, <1>2, OnlyOne, JobAt DEF InPass
<1>4. job' \in [Threads -> Job] /\ job'[t] = J /\ InPass(t)'
  BY <1>1, JobAt DEF InPass, Inside
<1>5. /\ J.run \in Runs /\ run[J.run] # "none" /\ run[J.run] # "cancelled"
      /\ J.verb \in {"retry", "skip"} => J.task \in Tasks
  BY <1>2 DEF JobsKept
<1>6. \A r \in Runs, k \in Tasks : DepsIn(r, k)' = DepsIn(r, k)
  BY DEF DepsIn, ghosts
<1>7. TypeOK'
  BY <1>1, <1>4 DEF TypeOK, ghosts
<1>8. JobsKept'
  <2>1. ~(InPass("loop") /\ InPass("api"))'
    BY <1>3, Constants
  <2>2. \A x \in Threads : x # t =>
          /\ ~InPass(x)' /\ job'[x].at # "act"
          /\ job'[x].at = "claim" => job'[x].task \in Tasks
    BY <1>2, <1>3 DEF JobsKept, InPass, Inside
  <2> QED
    BY <1>2, <1>4, <1>5, <2>1, <2>2 DEF JobsKept, InPass, Inside
<1>9. DoneDelivered'
  BY <1>1 DEF Rest, DoneDelivered, ghosts
<1>10. AllRowsTrue'
  <2>1. \A r \in Runs : RowsTrue(r, task[r])'
    BY <1>1, <1>6 DEF Rest, AllRowsTrue, RowsTrue, ghosts
  <2>2. RowsTrue(job[t].run, job[t].rows)'
    BY <1>4, <1>5, <1>6 DEF RowsTrue, ghosts
  <2> QED
    BY <1>3, <2>1, <2>2 DEF AllRowsTrue
<1>11. SkipsKept'
  BY <1>3, <1>4 DEF SkipsKept
<1>12. LeftReady'
  <2>1. \A x \in Threads : x # t => job'[x].at \notin {"admit", "adopt"}
    BY <1>3 DEF InPass, Inside
  <2> QED
    BY <1>4, <1>5, <1>6, <2>1 DEF LeftReady, Job
<1>13. ParentsReady'
  BY <1>1, <1>5, <1>6 DEF Rest, ParentsReady
<1>14. QueueFollowed'
  <2> SUFFICES ASSUME NEW r \in Runs, NEW k \in Tasks, Mine(r, k)', <<r, k>> \notin slipped
               PROVE  Follows(r, k)'
    BY DEF QueueFollowed, ghosts
  <2>1. CASE r = J.run
    <3>1. Followed(J.rows[k])
      BY <1>1, <1>2, <2>1 DEF Rest, QueueFollowed, Follows
    <3>2. J.at = "cancel" => Followed(task[r][k])
      <4> SUFFICES ASSUME J.at = "cancel" PROVE Followed(task[r][k])
        OBVIOUS
      <4>1. Follows(r, k)
        BY <1>1 DEF Rest, QueueFollowed
      <4> QED
        BY <1>3, <4>1 DEF Follows
    <3> QED
      BY <1>3, <1>4, <1>5, <2>1, <3>1, <3>2 DEF Follows
  <2>2. CASE r # J.run
    <3>1. Follows(r, k)
      BY <1>1, <2>2 DEF Rest, QueueFollowed
    <3> QED
      BY <1>3, <1>4, <2>2, <3>1 DEF Follows
  <2> QED
    BY <2>1, <2>2
<1> QED
  BY <1>7, <1>8, <1>9, <1>10, <1>11, <1>12, <1>13, <1>14 DEF IInv, Rest

-----------------------------------------------------------------------------
(* A pass or a stop begins, ends, is lost, or is not concerned.            *)

\* The rows a pass begins with are the run's, each following its item or as it was.
LEMMA BeginInv ==
  ASSUME IInv, NEW t \in Threads, \A x \in Threads : ~InPass(x),
         NEW r \in Runs, NEW J \in Job, job' = [job EXCEPT ![t] = J],
         J.at \in {"place", "save", "cancel"}, J.run = r,
         J.verb \in {"retry", "skip"} => J.task \in Tasks,
         \A k \in Tasks : J.rows[k] \in {task[r][k], Follow(task[r][k], item[k])},
         run' \in [Runs -> LIVE_RUN_STATES \cup {"none", "completed", "cancelled"}],
         run'[r] # "none", \A q \in Runs : q # r => run'[q] = run[q],
         run'[r] = "cancelled" => run[r] = "cancelled" /\ J.at = "save" /\ J.verb = "none",
         UNCHANGED <<task, item, issue, ghosts>>, used' \in [ctl : Nat, trouble : Nat]
  PROVE  IInv'
<1>1. TypeOK /\ Rest
  BY DEF IInv
<1>2. \A x \in Threads : x # t => job'[x] = job[x] /\ ~InPass(x)'
  BY <1>1, JobAt DEF InPass
<1>3. job' \in [Threads -> Job] /\ job'[t] = J /\ InPass(t)'
  BY <1>1, JobAt DEF InPass, Inside
<1>4. \A q \in Runs, k \in Tasks : DepsIn(q, k)' = DepsIn(q, k)
  BY DEF DepsIn, ghosts
<1>5. \A k \in Tasks :
        /\ J.rows[k].state = "skipped" <=> task[r][k].state = "skipped"
        /\ J.rows[k].state \in {"landed", "closed"}
           => task[r][k].state \in {"landed", "closed"} \/ item[k].state = "done"
        /\ J.rows[k].item \/ J.rows[k].state = "failed"
           => task[r][k].item \/ task[r][k].state = "failed"
        /\ Followed(task[r][k]) /\ item[k].state \in InQueue => Followed(J.rows[k])
  BY <1>1, TaskTypes, ItemTypes, FollowRow
<1>6. TypeOK'
  BY <1>1, <1>3 DEF TypeOK, ghosts
<1>7. JobsKept'
  <2>1. ~(InPass("loop") /\ InPass("api"))'
    BY <1>2, Constants
  <2>2. \A x \in Threads : x # t =>
          /\ ~InPass(x)' /\ job'[x].at # "act"
          /\ job'[x].at = "claim" => job'[x].task \in Tasks
    BY <1>1, <1>2 DEF Rest, JobsKept, InPass, Inside
  <2>3. \A q \in Runs : run'[q] = "none" => task'[q] = NoRows
    BY <1>1 DEF Rest, JobsKept
  <2> QED
    BY <1>3, <2>1, <2>2, <2>3 DEF JobsKept, InPass, Inside
<1>8. DoneDelivered'
  BY <1>1 DEF Rest, DoneDelivered, ghosts
<1>9. AllRowsTrue'
  <2>1. \A q \in Runs : RowsTrue(q, task[q])'
    BY <1>1, <1>4 DEF Rest, AllRowsTrue, RowsTrue, ghosts
  <2>2. RowsTrue(r, J.rows)
    BY <1>1, <1>5 DEF Rest, AllRowsTrue, RowsTrue, DoneDelivered
  <2>3. RowsTrue(job[t].run, job[t].rows)'
    BY <1>3, <1>4, <2>2 DEF RowsTrue, ghosts
  <2> QED
    BY <1>2, <2>1, <2>3 DEF AllRowsTrue
<1>10. SkipsKept'
  BY <1>2, <1>3, <1>5 DEF SkipsKept
<1>11. LeftReady'
  BY <1>2, <1>3 DEF LeftReady, InPass, Inside
<1>12. ParentsReady'
  BY <1>1, <1>4 DEF Rest, ParentsReady
<1>13. QueueFollowed'
  <2> SUFFICES ASSUME NEW q \in Runs, NEW k \in Tasks, Mine(q, k)', <<q, k>> \notin slipped
               PROVE  Follows(q, k)'
    BY DEF QueueFollowed, ghosts
  <2>1. Mine(q, k) /\ Followed(task[q][k])
    BY <1>1 DEF Rest, QueueFollowed, Follows, Mine, Under
  <2>2. q = r => Followed(J.rows[k])
    BY <1>5, <2>1 DEF Mine, Under
  <2> QED
    BY <1>2, <1>3, <2>1, <2>2 DEF Follows
<1> QED
  BY <1>6, <1>7, <1>8, <1>9, <1>10, <1>11, <1>12, <1>13 DEF IInv, Rest

\* When nobody is in a pass any more, what it put in the queue is in the run's rows or is
\* told to have slipped.
LEMMA NobodyInv ==
  ASSUME IInv, job' \in [Threads -> Job],
         \A t \in Threads : ~InPass(t)' /\ (job'[t].at = "claim" => job'[t].task \in Tasks),
         UNCHANGED <<run, task, issue, delivered>>, used' \in [ctl : Nat, trouble : Nat],
         item' \in [Tasks -> Item],
         \A k \in Tasks : /\ item'[k].state = "done" => item[k].state = "done"
                          /\ item'[k].parent = item[k].parent,
         \A k \in Tasks, r \in Runs : Mine(r, k)' => Mine(r, k),
         slipped \subseteq slipped', slipped' \subseteq (Runs \cup {NoRun}) \X Tasks,
         \A t \in Threads, k \in Tasks :
            InPass(t) /\ job[t].at # "cancel" /\ Followed(job[t].rows[k]) =>
            Followed(task[job[t].run][k]) \/ <<job[t].run, k>> \in slipped'
  PROVE  IInv'
<1>1. TypeOK /\ Rest
  BY DEF IInv
<1>2. \A r \in Runs, k \in Tasks : DepsIn(r, k)' = DepsIn(r, k)
  BY DEF DepsIn
<1>3. TypeOK'
  BY <1>1 DEF TypeOK
<1>4. JobsKept'
  <2>1. \A t \in Threads : job'[t].at # "act"
    BY DEF InPass, Inside
  <2> QED
    BY <1>1, <2>1, Constants DEF Rest, JobsKept
<1>5. DoneDelivered'
  BY <1>1 DEF Rest, DoneDelivered
<1>6. AllRowsTrue'
  BY <1>1, <1>2 DEF Rest, AllRowsTrue, RowsTrue
<1>7. SkipsKept'
  BY DEF SkipsKept
<1>8. LeftReady'
  BY DEF LeftReady, InPass, Inside
<1>9. ParentsReady'
  BY <1>1, <1>2 DEF Rest, ParentsReady
<1>10. QueueFollowed'
  <2> SUFFICES ASSUME NEW r \in Runs, NEW k \in Tasks, Mine(r, k)', <<r, k>> \notin slipped'
               PROVE  Follows(r, k)'
    BY DEF QueueFollowed
  <2>1. Follows(r, k)
    BY <1>1 DEF Rest, QueueFollowed
  <2>2. Followed(task[r][k])
    <3>1. CASE \E t \in Threads : InPass(t) /\ job[t].run = r /\ job[t].at # "cancel"
      BY <2>1, <3>1 DEF Follows
    <3>2. CASE \A t \in Threads : InPass(t) /\ job[t].run = r => job[t].at = "cancel"
      BY <2>1, <3>2 DEF Follows
    <3> QED
      BY <3>1, <3>2
  <2> QED
    BY <2>2 DEF Follows
<1> QED
  BY <1>3, <1>4, <1>5, <1>6, <1>7, <1>8, <1>9, <1>10 DEF IInv, Rest

\* A step of the queue, of people or of the forge, whatever pass is under way.
LEMMA ItemInv ==
  ASSUME IInv, job' \in [Threads -> Job],
         \A t \in Threads : \/ job'[t] = job[t]
                            \/ /\ ~InPass(t) /\ ~InPass(t)'
                               /\ job'[t].at = "claim" => job'[t].task \in Tasks,
         UNCHANGED <<run, task>>, used' \in [ctl : Nat, trouble : Nat],
         item' \in [Tasks -> Item], issue' \in [Tasks -> {"open", "closed", "known"}],
         delivered \subseteq delivered', delivered' \subseteq Tasks,
         \A k \in Tasks :
            /\ item'[k].state = "done" => item[k].state = "done" \/ k \in delivered'
            /\ issue'[k] # "open" => issue[k] # "open" \/ k \in delivered'
            /\ item'[k].parent \in {item[k].parent, NoRun},
         \A k \in Tasks, r \in Runs : Mine(r, k)' => Mine(r, k) \/ <<r, k>> \in slipped',
         slipped \subseteq slipped', slipped' \subseteq (Runs \cup {NoRun}) \X Tasks
  PROVE  IInv'
<1>1. TypeOK /\ Rest
  BY DEF IInv
<1>2. \A t \in Threads : /\ InPass(t)' <=> InPass(t)
                         /\ InPass(t) => job'[t] = job[t]
  BY DEF InPass
<1>3. \A r \in Runs, k \in Tasks : DepsIn(r, k) => DepsIn(r, k)'
  BY DEF DepsIn
<1>4. TypeOK'
  BY <1>1 DEF TypeOK
<1>5. JobsKept'
  <2>1. \A t \in Threads : job'[t].at = "act" => InPass(t)
    BY <1>2 DEF InPass, Inside
  <2>2. \A t \in Threads : job'[t].at = "claim" => job'[t].task \in Tasks
    BY <1>1 DEF Rest, JobsKept
  <2> QED
    BY <1>1, <1>2, <2>1, <2>2, Constants DEF Rest, JobsKept
<1>6. DoneDelivered'
  BY <1>1 DEF Rest, DoneDelivered
<1>7. AllRowsTrue'
  <2>1. \A r \in Runs : RowsTrue(r, task[r])'
    BY <1>1, <1>3 DEF Rest, AllRowsTrue, RowsTrue
  <2>2. ASSUME NEW t \in Threads, InPass(t)'
        PROVE  RowsTrue(job[t].run, job[t].rows)'
    <3>1. InPass(t) /\ job'[t] = job[t] /\ job[t].run \in Runs
      BY <1>1, <1>2, <2>2 DEF Rest, JobsKept
    <3> QED
      BY <1>1, <1>3, <3>1 DEF Rest, AllRowsTrue, RowsTrue
  <2> QED
    BY <2>1, <2>2 DEF AllRowsTrue
<1>8. SkipsKept'
  BY <1>1, <1>2 DEF Rest, SkipsKept
<1>9. LeftReady'
  <2> SUFFICES ASSUME NEW t \in Threads, job'[t].at \in {"admit", "adopt"},
                      NEW k \in job'[t].left
               PROVE  /\ DepsIn(job[t].run, k)'
                      /\ ~job'[t].rows[k].item /\ job'[t].rows[k].state # "skipped"
    BY DEF LeftReady
  <2>1. InPass(t) /\ job'[t] = job[t] /\ job[t].run \in Runs
    BY <1>1, <1>2 DEF Rest, JobsKept, InPass, Inside
  <2>2. k \in Tasks
    BY <1>1, <2>1, JobTypes
  <2> QED
    BY <1>1, <1>3, <2>1, <2>2 DEF Rest, LeftReady
<1>10. ParentsReady'
  BY <1>1, <1>3, Constants DEF Rest, ParentsReady
<1>11. QueueFollowed'
  <2> SUFFICES ASSUME NEW r \in Runs, NEW k \in Tasks, Mine(r, k)', <<r, k>> \notin slipped'
               PROVE  Follows(r, k)'
    BY DEF QueueFollowed
  <2>1. Follows(r, k)
    BY <1>1 DEF Rest, QueueFollowed
  <2> QED
    BY <1>2, <2>1 DEF Follows
<1> QED
  BY <1>4, <1>5, <1>6, <1>7, <1>8, <1>9, <1>10, <1>11 DEF IInv, Rest

\* The rows of a pass, or of a stop, are written, and the thread goes on from them or ends.
LEMMA WriteInv ==
  ASSUME IInv, NEW t \in Threads, job[t].at \in {"save", "cancel"},
         NEW r \in Runs, r = job[t].run, NEW R \in [Tasks -> Row], R = job[t].rows,
         task' = [task EXCEPT ![r] = R],
         run' \in [Runs -> LIVE_RUN_STATES \cup {"none", "completed", "cancelled"}],
         run'[r] # "none", \A q \in Runs : q # r => run'[q] = run[q],
         UNCHANGED <<item, issue, used, delivered>>, slipped' \subseteq slipped,
         \A q \in Runs, k \in Tasks :
            <<q, k>> \in slipped => <<q, k>> \in slipped' \/ (q = r /\ Followed(R[k])),
         NEW J \in Job, job' = [job EXCEPT ![t] = J], J.at \in {"none", "act", "place", "save"},
         J.at # "none" => /\ J.run = r /\ run'[r] # "cancelled"
                          /\ J.verb \in {"retry", "skip"} => J.task \in Tasks
                          /\ J.at = "act" => J.task \in Tasks /\ J.rows = R
                          /\ \A k \in Tasks : J.rows[k] \in {R[k], Follow(R[k], item[k])}
  PROVE  IInv'
<1>1. TypeOK /\ Rest
  BY DEF IInv
<1>2. InPass(t) /\ JobsKept
  BY <1>1 DEF InPass, Inside, Rest
<1>3. \A x \in Threads : x # t => ~InPass(x) /\ job'[x] = job[x] /\ ~InPass(x)'
  BY <1>1, <1>2, OnlyOne, JobAt DEF InPass
<1>4. job' \in [Threads -> Job] /\ job'[t] = J
  BY <1>1, JobAt
<1>5. task' \in [Runs -> [Tasks -> Row]] /\ task'[r] = R
      /\ \A q \in Runs : q # r => task'[q] = task[q]
  BY <1>1 DEF TypeOK
<1>6. \A q \in Runs, d \in Tasks : task[q][d].state = "skipped" => task'[q][d].state = "skipped"
  BY <1>1, <1>2, <1>5 DEF Rest, SkipsKept
<1>7. \A q \in Runs, k \in Tasks : DepsIn(q, k) => DepsIn(q, k)'
  BY <1>6, DepsStable
<1>8. \A k \in Tasks :
        LET row == J.rows[k]
        IN J.at # "none" =>
             /\ row.state = "skipped" <=> R[k].state = "skipped"
             /\ row.state \in {"landed", "closed"}
                => R[k].state \in {"landed", "closed"} \/ item[k].state = "done"
             /\ row.item \/ row.state = "failed" => R[k].item \/ R[k].state = "failed"
             /\ Followed(R[k]) /\ item[k].state \in InQueue => Followed(row)
  BY <1>1, ItemTypes, FollowRow
<1>9. RowsTrue(r, R)
  BY <1>1, <1>2 DEF Rest, AllRowsTrue
<1>10. TypeOK'
  BY <1>1, <1>4, <1>5 DEF TypeOK
<1>11. JobsKept'
  <2>1. ~(InPass("loop") /\ InPass("api"))'
    BY <1>3, Constants
  <2>2. \A x \in Threads : x # t =>
          /\ ~InPass(x)' /\ job'[x].at # "act"
          /\ job'[x].at = "claim" => job'[x].task \in Tasks
    BY <1>2, <1>3 DEF JobsKept, InPass, Inside
  <2>3. \A q \in Runs : run'[q] = "none" => task'[q] = NoRows
    BY <1>2, <1>5 DEF JobsKept
  <2>4. InPass(t)' => J.at # "none"
    BY <1>4 DEF InPass, Inside
  <2>5. J.at = "act" => J.at # "none" /\ J.rows = task'[J.run]
    BY <1>5
  <2> QED
    BY <1>4, <2>1, <2>2, <2>3, <2>4, <2>5 DEF JobsKept
<1>12. DoneDelivered'
  BY <1>1 DEF Rest, DoneDelivered
<1>13. AllRowsTrue'
  <2>1. \A q \in Runs : RowsTrue(q, task[q])'
    BY <1>1, <1>5, <1>7, <1>9 DEF Rest, AllRowsTrue, RowsTrue
  <2>2. J.at # "none" => RowsTrue(r, J.rows)
    BY <1>1, <1>8, <1>9 DEF Rest, RowsTrue, DoneDelivered
  <2>3. J.at # "none" => RowsTrue(job[t].run, job[t].rows)'
    BY <1>4, <1>7, <2>2 DEF RowsTrue
  <2> QED
    BY <1>3, <1>4, <2>1, <2>3 DEF AllRowsTrue, InPass, Inside
<1>14. SkipsKept'
  BY <1>3, <1>4, <1>5, <1>8 DEF SkipsKept, InPass, Inside
<1>15. LeftReady'
  BY <1>3, <1>4 DEF LeftReady, InPass, Inside
<1>16. ParentsReady'
  BY <1>1, <1>7 DEF Rest, ParentsReady
<1>17. QueueFollowed'
  <2> SUFFICES ASSUME NEW q \in Runs, NEW k \in Tasks, Mine(q, k)', <<q, k>> \notin slipped'
               PROVE  Follows(q, k)'
    BY DEF QueueFollowed
  <2>1. Mine(q, k) /\ (<<q, k>> \in slipped \/ Follows(q, k))
    BY <1>1 DEF Rest, QueueFollowed, Mine, Under
  <2>2. CASE q = r
    <3>1. Followed(R[k])
      BY <1>2, <2>1, <2>2 DEF Follows
    <3>2. J.at # "none" => Followed(J.rows[k])
      BY <1>8, <2>1, <3>1 DEF Mine, Under
    <3> QED
      BY <1>3, <1>4, <1>5, <2>2, <3>1, <3>2 DEF Follows, InPass, Inside
  <2>3. CASE q # r
    <3>1. Follows(q, k)
      BY <2>1, <2>3
    <3>2. Followed(task[q][k])
      BY <1>3, <2>3, <3>1 DEF Follows
    <3>3. \A x \in Threads : InPass(x)' => job'[x].run # q
      BY <1>3, <1>4, <2>3 DEF InPass, Inside
    <3> QED
      BY <1>5, <2>3, <3>2, <3>3 DEF Follows
  <2> QED
    BY <2>2, <2>3
<1> QED
  BY <1>10, <1>11, <1>12, <1>13, <1>14, <1>15, <1>16, <1>17 DEF IInv, Rest

-----------------------------------------------------------------------------
(* The steps of a pass.                                                    *)

LEMMA TurnJob ==
  ASSUME NEW j \in Job
  PROVE  /\ Turn(j) \in Job /\ Turn(j).at \in {"admit", "place", "save"}
         /\ Turn(j).run = j.run /\ Turn(j).verb = j.verb /\ Turn(j).task = j.task
         /\ Turn(j).rows = j.rows /\ Turn(j).left = j.left
<1> DEFINE at == IF j.left # {} THEN "admit" ELSE IF j.moved THEN "place" ELSE "save"
<1>1. at \in {"admit", "place", "save"}
  OBVIOUS
<1>2. Turn(j) = [j EXCEPT !.at = at]
  BY DEF Turn
<1> HIDE DEF at
<1> QED
  BY <1>1, <1>2 DEF Job

LEMMA AnsweredJob ==
  ASSUME NEW j \in Job, NEW k \in Tasks, NEW row \in Row
  PROVE  LET J == Answered(j, k, row)
         IN /\ J \in Job /\ J.at \in {"admit", "place", "save"}
            /\ J.run = j.run /\ J.verb = j.verb /\ J.task = j.task
            /\ J.rows = [j.rows EXCEPT ![k] = row] /\ J.left \subseteq j.left \ {k}
<1>1. /\ j.rows \in [Tasks -> Row] /\ j.left \in SUBSET Tasks /\ j.tried \in SUBSET Tasks
      /\ [j.rows EXCEPT ![k] = row] \in [Tasks -> Row]
  BY DEF Job
<1>2. CASE j.verb = "again"
  <2>1. Answered(j, k, row) = [j EXCEPT !.at = "save", !.rows = [j.rows EXCEPT ![k] = row],
                                        !.left = {}]
    BY <1>2 DEF Answered, Job
  <2> QED
    BY <1>1, <2>1 DEF Job
<1>3. CASE j.verb # "again"
  <2> DEFINE moved == j.moved \/ row.state # j.rows[k].state
  <2>1. PICK next : next = [j EXCEPT !.rows = [j.rows EXCEPT ![k] = row], !.left = j.left \ {k},
                                     !.tried = j.tried \cup {k}, !.moved = moved]
    OBVIOUS
  <2>2. Answered(j, k, row) = Turn(next)
    BY <1>3, <2>1 DEF Answered, Job
  <2>3. moved \in BOOLEAN /\ j.left \ {k} \in SUBSET Tasks /\ j.tried \cup {k} \in SUBSET Tasks
    BY <1>1
  <2> HIDE DEF moved
  <2>4. /\ next \in Job /\ next.rows = [j.rows EXCEPT ![k] = row] /\ next.left = j.left \ {k}
        /\ next.run = j.run /\ next.verb = j.verb /\ next.task = j.task
    BY <1>1, <2>1, <2>3 DEF Job
  <2> QED
    BY <2>2, <2>4, TurnJob
<1> QED
  BY <1>2, <1>3

\* A pass that has tasks to admit: its rows are true, it knows the skips that are written,
\* and what is left was ready.
Admitting(t, j) ==
  /\ j.run = job[t].run /\ j.verb \in {job[t].verb, "again"} /\ j.task = job[t].task
  /\ RowsTrue(j.run, j.rows)
  /\ \A x \in Tasks : j.rows[x].state = "skipped" <=> task[j.run][x].state = "skipped"
  /\ \A x \in j.left : DepsIn(j.run, x) /\ ~j.rows[x].item /\ j.rows[x].state # "skipped"
  /\ \A x \in Tasks : Followed(job[t].rows[x]) => Followed(j.rows[x])

LEMMA PassAdmitting ==
  ASSUME IInv, NEW t \in Threads, job[t].at \in {"admit", "adopt"}
  PROVE  Admitting(t, job[t])
  BY DEF IInv, Rest, AllRowsTrue, SkipsKept, LeftReady, Admitting, InPass, Inside

\* A task has its answer: what it left in the queue is its own and followed, or is as it
\* was, or stands under another run.
LEMMA AnsweredInv ==
  ASSUME IInv, NEW t \in Threads, job[t].at \in {"admit", "adopt", "act"},
         NEW j \in Job, Admitting(t, j), NEW k \in j.left, NEW row \in Row,
         job' = [job EXCEPT ![t] = Answered(j, k, row)],
         UNCHANGED <<run, task, issue, ghosts>>, used' \in [ctl : Nat, trouble : Nat],
         row.state # "skipped", row.state \in {"landed", "closed"} => k \in delivered,
         item' \in [Tasks -> Item],
         \A x \in Tasks : item'[x].state = "done" => item[x].state = "done",
         \A x \in Tasks : item'[x].parent = item[x].parent \/ (x = k /\ item'[x].parent = j.run),
         \A x \in Tasks, q \in Runs : Mine(q, x)' =>
            Mine(q, x) \/ (x = k /\ q = j.run /\ Followed(row))
  PROVE  IInv'
<1>1. k \in Tasks /\ j.rows \in [Tasks -> Row]
  BY DEF Job
<1>2. PICK J \in Job : J = Answered(j, k, row)
  BY <1>1, AnsweredJob
<1>3. /\ J.at \in {"admit", "place", "save"} /\ J.run = j.run /\ J.verb = j.verb /\ J.task = j.task
      /\ J.rows = [j.rows EXCEPT ![k] = row] /\ J.left \subseteq j.left \ {k}
  BY <1>1, <1>2, AnsweredJob
<1>4. J.rows[k] = row /\ \A x \in Tasks : x # k => J.rows[x] = j.rows[x]
  BY <1>1, <1>3
<1>5. /\ DepsIn(j.run, k) /\ ~Followed(job[t].rows[k])
  BY <1>1 DEF Admitting, Followed
<1>6. RowsTrue(J.run, J.rows)
  BY <1>3, <1>4, <1>5 DEF Admitting, RowsTrue
<1>7. \A x \in Tasks : J.rows[x].state = "skipped" <=> task[J.run][x].state = "skipped"
  BY <1>3, <1>4 DEF Admitting
<1>8. \A x \in J.left : /\ DepsIn(J.run, x)
                        /\ ~J.rows[x].item /\ J.rows[x].state # "skipped"
  <2>1. j.left \subseteq Tasks
    BY DEF Job
  <2> QED
    BY <2>1, <1>3, <1>4 DEF Admitting
<1>9. \A x \in Tasks, q \in Runs : Mine(q, x)' =>
        \/ q = J.run /\ Followed(J.rows[x])
        \/ Mine(q, x) /\ (q # J.run \/ (Followed(job[t].rows[x]) => Followed(J.rows[x])))
  BY <1>3, <1>4, <1>5 DEF Admitting
<1>10. /\ job[t].at \in {"place", "admit", "adopt", "act", "cancel"}
       /\ J.at \in {"place", "admit", "adopt", "save", "cancel"} /\ J.at # "cancel"
       /\ J.run = job[t].run /\ J.verb \in {job[t].verb, "again"} /\ J.task = job[t].task
       /\ job' = [job EXCEPT ![t] = J]
       /\ \A x \in Tasks : /\ task[J.run][x].state = "skipped" => J.rows[x].state = "skipped"
                           /\ J.at # "save" /\ J.rows[x].state = "skipped"
                              => task[J.run][x].state = "skipped"
       /\ \A x \in Tasks : \/ item'[x].parent = item[x].parent
                           \/ item'[x].parent = J.run /\ DepsIn(J.run, x)
  BY <1>2, <1>3, <1>5, <1>7 DEF Admitting
<1> QED
  BY <1>6, <1>8, <1>9, <1>10, WorkInv, Zenon

LEMMA PlaceInv ==
  ASSUME IInv, NEW t \in Threads, Place(t)
  PROVE  IInv'
<1> DEFINE j == job[t]
           open == {k \in Tasks : ~Passed(j.rows[k])}
           closed == {k \in open : issue[k] = "known"}
           ready == {k \in open \ closed : Readiness(k, j.rows) = "ready"}
           admit == IF run[j.run] = "running" THEN ready \ j.tried ELSE {}
           rows == [k \in Tasks |->
             CASE k \in closed -> [j.rows[k] EXCEPT !.state = "closed"]
               [] k \in open \ (closed \cup admit \cup (ready \cap j.tried)) ->
                    [j.rows[k] EXCEPT !.state = Readiness(k, j.rows)]
               [] OTHER -> j.rows[k]]
           next == [j EXCEPT !.rows = rows, !.left = admit, !.moved = rows # j.rows]
<1>1. TypeOK /\ Rest /\ job[t].at = "place" /\ InPass(t)
  BY DEF IInv, Place, InPass, Inside
<1>2. j \in Job /\ j.rows \in [Tasks -> Row] /\ j.run \in Runs
  BY <1>1, JobTypes DEF Rest, JobsKept
<1>3. RowsTrue(j.run, j.rows)
  BY <1>1 DEF Rest, AllRowsTrue
<1>4. \A k \in Tasks : j.rows[k].state = "skipped" <=> task[j.run][k].state = "skipped"
  BY <1>1 DEF Rest, SkipsKept
<1>5. \A k \in Tasks : j.rows[k] \in Row /\ Readiness(k, j.rows) \in {"blocked", "waiting", "ready"}
  BY <1>2 DEF Readiness
<1>6. \A k \in Tasks, s \in TaskStates :
        LET row == [j.rows[k] EXCEPT !.state = s]
        IN row \in Row /\ row.state = s /\ row.item = j.rows[k].item
  BY <1>5 DEF Row
<1>7. \A k \in open : j.rows[k].item = FALSE /\ j.rows[k].state \notin SETTLED
  BY <1>5 DEF Passed, Row
<1>8. \A k \in Tasks : \/ rows[k] = j.rows[k]
                       \/ /\ k \in open /\ rows[k] \in Row /\ rows[k].item = FALSE
                          /\ \/ rows[k].state = "closed" /\ issue[k] = "known"
                             \/ rows[k].state \in {"blocked", "waiting", "ready"}
  <2> SUFFICES ASSUME NEW k \in Tasks
               PROVE  \/ rows[k] = j.rows[k]
                      \/ /\ k \in open /\ rows[k] \in Row /\ rows[k].item = FALSE
                         /\ \/ rows[k].state = "closed" /\ issue[k] = "known"
                            \/ rows[k].state \in {"blocked", "waiting", "ready"}
    OBVIOUS
  <2>1. {"closed", "blocked", "waiting", "ready"} \subseteq TaskStates
    BY DEF TaskStates, SETTLED, DONE, STUCK
  <2>2. CASE k \in closed
    BY <1>6, <1>7, <2>1, <2>2
  <2>3. CASE k \in open /\ k \notin closed
    BY <1>5, <1>6, <1>7, <2>1, <2>3, SMTT(30)
  <2>4. CASE k \notin open
    BY <2>4
  <2> QED
    BY <2>2, <2>3, <2>4
<1>9. \A k \in admit : /\ k \in Tasks /\ rows[k] = j.rows[k] /\ j.rows[k].item = FALSE
                       /\ j.rows[k].state # "skipped" /\ DepsIn(j.run, k)
  <2>1. \A k \in admit : k \in open \ closed /\ Readiness(k, j.rows) = "ready" /\ k \in Tasks
    OBVIOUS
  <2>2. \A k \in admit : DepsIn(j.run, k)
    BY <1>2, <1>3, <1>4, <2>1, ReadyDeps
  <2>3. \A k \in admit : rows[k] = j.rows[k]
    BY <2>1
  <2>4. \A k \in admit : j.rows[k].state # "skipped"
    BY <1>7, <2>1 DEF SETTLED, DONE
  <2> QED
    BY <1>7, <2>1, <2>2, <2>3, <2>4
<1>10. rows \in [Tasks -> Row] /\ admit \in SUBSET Tasks
  <2>1. \A k \in Tasks : rows[k] \in Row
    BY <1>5, <1>8
  <2> HIDE DEF admit
  <2> QED
    BY <1>9, <2>1
<1>11. job' = [job EXCEPT ![t] = Turn(next)] /\ UNCHANGED <<run, task, item, issue, used, ghosts>>
  BY DEF Place
<1> HIDE DEF open, closed, ready, admit, rows
<1>12. /\ next \in Job /\ next.rows = rows /\ next.left = admit
       /\ next.run = j.run /\ next.verb = j.verb /\ next.task = j.task
  BY <1>2, <1>10 DEF Job
<1> HIDE DEF next
<1>13. PICK J \in Job : J = Turn(next)
  BY <1>12, TurnJob
<1>14. /\ J.at \in {"admit", "place", "save"} /\ J.run = j.run /\ J.verb = j.verb /\ J.task = j.task
       /\ J.rows = rows /\ J.left = admit
  BY <1>12, <1>13, TurnJob
<1>15. RowsTrue(J.run, J.rows)
  BY <1>1, <1>3, <1>8, <1>14 DEF RowsTrue, Rest, DoneDelivered
<1>16. \A k \in Tasks : J.rows[k].state = "skipped" <=> task[J.run][k].state = "skipped"
  BY <1>4, <1>7, <1>8, <1>14 DEF SETTLED, DONE
<1>17. \A k \in Tasks : Followed(j.rows[k]) => Followed(J.rows[k])
  BY <1>7, <1>8, <1>14 DEF Followed
<1>18. J.at = "admit" => \A k \in J.left : /\ DepsIn(J.run, k)
                                           /\ ~J.rows[k].item /\ J.rows[k].state # "skipped"
  BY <1>9, <1>14
<1>19. \A k \in Tasks, r \in Runs : Mine(r, k)' => Mine(r, k)
  BY <1>11 DEF Mine, Under
<1>20. used' \in [ctl : Nat, trouble : Nat] /\ item' \in [Tasks -> Item]
  BY <1>1, <1>11 DEF TypeOK
<1> QED
  BY <1>1, <1>11, <1>13, <1>14, <1>15, <1>16, <1>17, <1>18, <1>19, <1>20, WorkInv, ZenonT(40)

\* What the queue write of an admission leaves: the row as it stood, or a queued one under
\* the run, or under the parent it had and somebody else's to follow.
LEMMA UpsertedItem ==
  ASSUME TypeOK, NEW k \in Tasks, NEW r \in Runs, NEW it \in Upserted(k, r)
  PROVE  /\ it \in Item /\ it.state \in InQueue
         /\ it.parent = item[k].parent \/ it.parent = r
         /\ it = item[k] \/ it.asked \/ it.parent = r
         /\ item[k].state \in InQueue => it = item[k]
<1>1. item[k] \in Item
  BY ItemTypes
<1>2. CASE item[k].state \in InQueue
  BY <1>1, <1>2 DEF Upserted
<1>3. CASE item[k].state \notin InQueue /\ it = [state |-> "queued", parent |-> r, asked |-> FALSE]
  BY <1>3 DEF Item, ItemStates, InQueue
<1>4. CASE /\ item[k].state \notin InQueue
           /\ it = [item[k] EXCEPT !.state = "queued", !.asked = item[k].parent # r]
  <2>1. \A b \in BOOLEAN : LET new == [item[k] EXCEPT !.state = "queued", !.asked = b]
                           IN /\ new \in Item /\ new.state = "queued"
                              /\ new.parent = item[k].parent /\ new.asked = b
    BY <1>1 DEF Item, ItemStates, InQueue
  <2>2. (item[k].parent # r) \in BOOLEAN
    OBVIOUS
  <2>3. PICK b \in BOOLEAN : b = (item[k].parent # r)
    BY <2>2
  <2>4. /\ it \in Item /\ it.state = "queued" /\ it.parent = item[k].parent /\ it.asked = b
    BY <1>4, <2>1, <2>3
  <2> QED
    BY <1>4, <2>3, <2>4 DEF InQueue
<1> QED
  BY <1>2, <1>3, <1>4 DEF Upserted

\* The queue write and what comes of it: the task is answered, or is still to be adopted.
LEMMA AdmissionInv ==
  ASSUME IInv, NEW t \in Threads, job[t].at \in {"admit", "act"},
         NEW j \in Job, Admitting(t, j), NEW k \in j.left, Admission(t, j, k),
         UNCHANGED <<run, task, issue, ghosts>>
  PROVE  IInv'
<1>1. TypeOK /\ Rest /\ k \in Tasks /\ item \in [Tasks -> Item]
  BY DEF IInv, TypeOK, Job
<1>2. j.run \in Runs /\ job[t].run = j.run
  BY <1>1 DEF Rest, JobsKept, InPass, Inside, Admitting
<1>3. used' \in [ctl : Nat, trouble : Nat]
  BY <1>1, TroubleType DEF Admission
<1>4. ASSUME NEW row \in Row, UNCHANGED item,
             row.state # "skipped", row.state \in {"landed", "closed"} => k \in delivered,
             job' = [job EXCEPT ![t] = Answered(j, k, row)]
      PROVE  IInv'
  <2>1. \A x \in Tasks, q \in Runs : Mine(q, x)' => Mine(q, x)
    BY <1>4 DEF Mine, Under
  <2>2. job[t].at \in {"admit", "adopt", "act"} /\ item' \in [Tasks -> Item]
    BY <1>1, <1>4
  <2> QED
    BY <1>3, <1>4, <2>1, <2>2, AnsweredInv
<1>5. CASE \E it \in Upserted(k, j.run) :
             /\ item' = [item EXCEPT ![k] = it]
             /\ job' = [job EXCEPT ![t] =
                  IF it.parent # j.run THEN [j EXCEPT !.at = "adopt"]
                  ELSE Answered(j, k, [state |-> FromItem(it.state), item |-> TRUE])]
  <2>1. PICK it \in Upserted(k, j.run) :
             /\ item' = [item EXCEPT ![k] = it]
             /\ job' = [job EXCEPT ![t] =
                  IF it.parent # j.run THEN [j EXCEPT !.at = "adopt"]
                  ELSE Answered(j, k, [state |-> FromItem(it.state), item |-> TRUE])]
    BY <1>5
  <2>2. /\ it \in Item /\ it.state \in InQueue
        /\ it.parent = item[k].parent \/ it.parent = j.run
        /\ it = item[k] \/ it.asked \/ it.parent = j.run
    BY <1>1, <1>2, UpsertedItem
  <2>3. /\ item' \in [Tasks -> Item] /\ item'[k] = it
        /\ \A x \in Tasks : x # k => item'[x] = item[x]
    BY <1>1, <2>1, <2>2
  <2>4. /\ \A x \in Tasks : item'[x].state = "done" => item[x].state = "done"
        /\ \A x \in Tasks : item'[x].parent = item[x].parent \/ (x = k /\ item'[x].parent = j.run)
    BY <2>2, <2>3 DEF InQueue
  <2>5. \A x \in Tasks, q \in Runs : Mine(q, x)' =>
           Mine(q, x) \/ (x = k /\ q = j.run /\ it.parent = j.run)
    <3> SUFFICES ASSUME NEW x \in Tasks, NEW q \in Runs, Mine(q, x)'
                 PROVE  Mine(q, x) \/ (x = k /\ q = j.run /\ it.parent = j.run)
      OBVIOUS
    <3>1. CASE x # k
      BY <2>3, <3>1 DEF Mine, Under
    <3>2. CASE x = k
      BY <2>2, <2>3, <3>2 DEF Mine, Under
    <3> QED
      BY <3>1, <3>2
  <2>6. CASE it.parent = j.run
    <3>1. FromItem(it.state) \in {"queued", "running"}
      BY <2>2 DEF FromItem, InQueue
    <3>2. PICK row \in Row : row = [state |-> FromItem(it.state), item |-> TRUE]
      BY <3>1 DEF Row, TaskStates
    <3>3. Followed(row) /\ row.state \in {"queued", "running"}
      BY <3>1, <3>2 DEF Followed
    <3>4. \A x \in Tasks, q \in Runs : Mine(q, x)' =>
             Mine(q, x) \/ (x = k /\ q = j.run /\ Followed(row))
      BY <2>5, <3>3
    <3>5. /\ job[t].at \in {"admit", "adopt", "act"} /\ row.state # "skipped"
          /\ row.state \in {"landed", "closed"} => k \in delivered
      BY <3>3
    <3>6. job' = [job EXCEPT ![t] = Answered(j, k, row)]
      BY <2>1, <2>6, <3>2
    <3> QED
      BY <1>3, <2>3, <2>4, <3>4, <3>5, <3>6, AnsweredInv
  <2>7. CASE it.parent # j.run
    <3>1. PICK J \in Job : J = [j EXCEPT !.at = "adopt"]
      BY DEF Job
    <3>2. /\ J.at = "adopt" /\ J.run = j.run /\ J.verb = j.verb /\ J.task = j.task
          /\ J.rows = j.rows /\ J.left = j.left
      BY <3>1 DEF Job
    <3>3. /\ job' = [job EXCEPT ![t] = J]
          /\ J.at \in {"place", "admit", "adopt", "save", "cancel"} /\ J.at # "cancel"
          /\ J.run = job[t].run /\ J.verb \in {job[t].verb, "again"} /\ J.task = job[t].task
          /\ job[t].at \in {"place", "admit", "adopt", "act", "cancel"}
      BY <2>1, <2>7, <3>1, <3>2 DEF Admitting
    <3>4. /\ RowsTrue(J.run, J.rows)
          /\ \A x \in Tasks : /\ task[J.run][x].state = "skipped" => J.rows[x].state = "skipped"
                              /\ J.at # "save" /\ J.rows[x].state = "skipped"
                                 => task[J.run][x].state = "skipped"
          /\ \A x \in J.left : /\ DepsIn(J.run, x)
                               /\ ~J.rows[x].item /\ J.rows[x].state # "skipped"
      BY <3>2 DEF Admitting
    <3>5. \A x \in Tasks, q \in Runs : Mine(q, x)' =>
            \/ q = J.run /\ Followed(J.rows[x])
            \/ Mine(q, x) /\ (q # J.run \/ (Followed(job[t].rows[x]) => Followed(J.rows[x])))
      BY <2>5, <2>7, <3>2 DEF Admitting
    <3>6. \A x \in Tasks : \/ item'[x].parent = item[x].parent
                           \/ item'[x].parent = J.run /\ DepsIn(J.run, x)
      BY <2>2, <2>3, <2>7
    <3> QED
      BY <1>3, <2>3, <2>4, <3>3, <3>4, <3>5, <3>6, WorkInv, Zenon
  <2> QED
    BY <2>6, <2>7
<1>6. CASE /\ item[k].state \notin InQueue /\ issue[k] # "open"
           /\ job' = [job EXCEPT ![t] = Answered(j, k, [state |-> "closed", item |-> FALSE])]
           /\ UNCHANGED <<item, used>>
  <2>1. PICK row \in Row : row = [state |-> "closed", item |-> FALSE]
    BY DEF Row, TaskStates, SETTLED, DONE
  <2>2. k \in delivered
    BY <1>1, <1>6 DEF Rest, DoneDelivered
  <2> QED
    BY <1>4, <1>6, <2>1, <2>2
<1>7. CASE /\ UNCHANGED item
           /\ \E s \in {"ready", "failed"} :
                job' = [job EXCEPT ![t] = Answered(j, k, [state |-> s, item |-> FALSE])]
  <2>1. PICK s \in {"ready", "failed"} :
          job' = [job EXCEPT ![t] = Answered(j, k, [state |-> s, item |-> FALSE])]
    BY <1>7
  <2>2. PICK row \in Row : row = [state |-> s, item |-> FALSE]
    BY DEF Row, TaskStates, STUCK
  <2> QED
    BY <1>4, <1>7, <2>1, <2>2
<1> QED
  BY <1>5, <1>6, <1>7 DEF Admission

LEMMA AdmitInv ==
  ASSUME IInv, NEW t \in Threads, Admit(t)
  PROVE  IInv'
<1>1. /\ TypeOK /\ job[t].at = "admit" /\ UNCHANGED <<run, task, issue, ghosts>>
      /\ \E k \in job[t].left : Admission(t, job[t], k)
  BY DEF IInv, Admit
<1>2. PICK k \in job[t].left : Admission(t, job[t], k)
  BY <1>1
<1>3. job[t] \in Job /\ Admitting(t, job[t])
  BY <1>1, JobTypes, PassAdmitting
<1> QED
  BY <1>1, <1>2, <1>3, AdmissionInv

LEMMA AdoptInv ==
  ASSUME IInv, NEW t \in Threads, Adopt(t)
  PROVE  IInv'
<1> DEFINE j == job[t]
<1>1. /\ TypeOK /\ Rest /\ j.at = "adopt" /\ UNCHANGED <<run, task, issue, used, ghosts>>
      /\ item \in [Tasks -> Item] /\ used' \in [ctl : Nat, trouble : Nat]
  BY DEF IInv, Adopt, TypeOK
<1>2. j \in Job /\ Admitting(t, j)
  BY <1>1, JobTypes, PassAdmitting
<1>3. j.run \in Runs
  BY <1>1 DEF Rest, JobsKept, InPass, Inside
<1>4. PICK k \in j.left, adopted \in BOOLEAN :
        LET state == IF item[k].state = "none" THEN "queued" ELSE item[k].state IN
        /\ adopted => item[k].state = "queued"
        /\ item' = IF adopted THEN [item EXCEPT ![k].parent = j.run, ![k].asked = FALSE]
                   ELSE item
        /\ job' = [job EXCEPT ![t] =
                     Answered(j, k, [state |-> FromItem(state), item |-> TRUE])]
  BY DEF Adopt
<1>5. PICK state : state = IF item[k].state = "none" THEN "queued" ELSE item[k].state
  OBVIOUS
<1>6. k \in Tasks /\ item[k] \in Item /\ item[k].state \in ItemStates
  BY <1>1, <1>2, ItemTypes DEF Job
<1>7. state \in {"queued", "resuming", "running", "done", "failed"}
  BY <1>5, <1>6 DEF ItemStates, InQueue
<1>8. /\ FromItem(state) \in {"queued", "running", "landed", "failed"}
      /\ FromItem(state) = "landed" => state = "done"
  BY <1>7 DEF FromItem
<1>9. PICK row \in Row : row = [state |-> FromItem(state), item |-> TRUE]
  BY <1>8 DEF Row, TaskStates, SETTLED, DONE, STUCK
<1>10. row.state \in {"landed", "closed"} => k \in delivered
  BY <1>1, <1>5, <1>6, <1>8, <1>9 DEF Rest, DoneDelivered
<1>11. /\ job' = [job EXCEPT ![t] = Answered(j, k, row)]
       /\ row.state # "skipped" /\ j.at \in {"admit", "adopt", "act"}
  BY <1>1, <1>4, <1>5, <1>8, <1>9
<1>12. CASE ~adopted
  <2>1. item' = item
    BY <1>4, <1>12
  <2>2. \A x \in Tasks, q \in Runs : Mine(q, x)' => Mine(q, x)
    BY <2>1 DEF Mine, Under
  <2> QED
    BY <1>1, <1>2, <1>10, <1>11, <2>1, <2>2, AnsweredInv
<1>13. CASE adopted
  <2>1. PICK it \in Item : it = [item[k] EXCEPT !.parent = j.run, !.asked = FALSE]
    BY <1>3, <1>6 DEF Item
  <2>2. it.state = "queued" /\ it.parent = j.run
    BY <1>4, <1>6, <1>13, <2>1 DEF Item
  <2>3. item' = [item EXCEPT ![k] = it]
    BY <1>1, <1>4, <1>6, <1>13, <2>1
  <2>4. /\ item' \in [Tasks -> Item] /\ item'[k] = it
        /\ \A x \in Tasks : x # k => item'[x] = item[x]
    BY <1>1, <1>6, <2>3
  <2>5. Followed(row)
    <3>1. state = "queued"
      BY <1>4, <1>5, <1>13
    <3> QED
      BY <1>9, <3>1 DEF Followed, FromItem
  <2>6. \A x \in Tasks, q \in Runs : Mine(q, x)' =>
           Mine(q, x) \/ (x = k /\ q = j.run /\ Followed(row))
    BY <2>2, <2>4, <2>5 DEF Mine, Under
  <2>7. /\ \A x \in Tasks : item'[x].state = "done" => item[x].state = "done"
        /\ \A x \in Tasks : item'[x].parent = item[x].parent \/ (x = k /\ item'[x].parent = j.run)
    BY <2>2, <2>4
  <2> QED
    BY <1>1, <1>2, <1>10, <1>11, <2>4, <2>6, <2>7, AnsweredInv
<1> QED
  BY <1>12, <1>13

\* The row a control leaves, and the item under it.
LEMMA ActsOn ==
  ASSUME IInv, job["api"].at = "act", NEW k \in Tasks, k = job["api"].task,
         NEW r \in Runs, r = job["api"].run, NEW new \in Row,
         job' = [job EXCEPT !["api"] =
                   [job["api"] EXCEPT !.at = "save", !.verb = "again", !.rows[k] = new]],
         UNCHANGED <<run, task, issue, ghosts>>, used' \in [ctl : Nat, trouble : Nat],
         item' \in [Tasks -> Item],
         \A x \in Tasks : item'[x].state = "done" => item[x].state = "done",
         \A x \in Tasks : \/ item'[x].parent = item[x].parent
                          \/ item'[x].parent = r /\ DepsIn(r, x),
         task[r][k].state # "skipped", new.state \in {"landed", "closed"} => k \in delivered,
         new.item \/ new.state = "failed" => DepsIn(r, k),
         \A x \in Tasks, q \in Runs : Mine(q, x)' =>
            Mine(q, x) \/ (x = k /\ q = r /\ Followed(new)),
         ~Followed(task[r][k])
  PROVE  IInv'
<1> DEFINE j == job["api"]
<1>1. TypeOK /\ Rest /\ "api" \in Threads /\ InPass("api") /\ j.rows = task[r]
  BY Constants DEF IInv, InPass, Inside, Rest, JobsKept
<1>2. j \in Job /\ j.rows \in [Tasks -> Row]
  BY <1>1, JobTypes
<1>3. PICK J : J = [j EXCEPT !.at = "save", !.verb = "again", !.rows[k] = new]
  OBVIOUS
<1>4. /\ J \in Job /\ J.at = "save" /\ J.verb = "again" /\ J.run = r /\ J.task = j.task
      /\ J.rows = [j.rows EXCEPT ![k] = new]
  <2>1. [j.rows EXCEPT ![k] = new] \in [Tasks -> Row]
    BY <1>2
  <2>2. J = [j EXCEPT !.at = "save", !.verb = "again", !.rows = [j.rows EXCEPT ![k] = new]]
    BY <1>2, <1>3 DEF Job
  <2> QED
    BY <1>2, <2>1, <2>2 DEF Job
<1>5. J.rows[k] = new /\ \A x \in Tasks : x # k => J.rows[x] = task[r][x]
  BY <1>1, <1>2, <1>4
<1>6. RowsTrue(r, J.rows)
  BY <1>1, <1>5 DEF Rest, AllRowsTrue, RowsTrue
<1>7. \A x \in Tasks : task[r][x].state = "skipped" => J.rows[x].state = "skipped"
  BY <1>5
<1>8. \A x \in Tasks, q \in Runs : Mine(q, x)' =>
        \/ q = J.run /\ Followed(J.rows[x])
        \/ Mine(q, x) /\ (q # J.run \/ (Followed(job["api"].rows[x]) => Followed(J.rows[x])))
  BY <1>1, <1>4, <1>5
<1>9. job' = [job EXCEPT !["api"] = J]
  BY <1>3
<1>10. /\ job["api"].at \in {"place", "admit", "adopt", "act", "cancel"}
       /\ J.at \in {"place", "admit", "adopt", "save", "cancel"} /\ J.at = "save"
       /\ J.run = job["api"].run /\ J.verb \in {job["api"].verb, "again"}
       /\ J.task = job["api"].task
       /\ \A x \in Tasks : /\ task[J.run][x].state = "skipped" => J.rows[x].state = "skipped"
                           /\ J.at # "save" /\ J.rows[x].state = "skipped"
                              => task[J.run][x].state = "skipped"
       /\ RowsTrue(J.run, J.rows)
  BY <1>4, <1>6, <1>7
<1>11. \A x \in Tasks : \/ item'[x].parent = item[x].parent
                        \/ item'[x].parent = J.run /\ DepsIn(J.run, x)
  BY <1>4
<1> QED
  BY <1>1, <1>4, <1>8, <1>9, <1>10, <1>11, WorkInv, Zenon

LEMMA ActInv ==
  ASSUME IInv, Act
  PROVE  IInv'
<1> DEFINE j == job["api"]
           then(k, new) == [j EXCEPT !.at = "save", !.verb = "again", !.rows[k] = new]
<1>1. /\ TypeOK /\ Rest /\ "api" \in Threads /\ j.at = "act" /\ InPass("api")
      /\ UNCHANGED <<run, task, issue, ghosts>>
  BY Constants DEF IInv, Act, InPass, Inside
<1>2. /\ j.rows = task[j.run] /\ j.run \in Runs /\ j.task \in Tasks
      /\ RowsTrue(j.run, task[j.run])
  BY <1>1 DEF Rest, JobsKept, AllRowsTrue
<1>3. PICK r \in Runs, k \in Tasks : r = j.run /\ k = j.task
  BY <1>2
<1>4. PICK row \in Row : row = task[r][k]
  BY <1>1, TaskTypes
<1>5. row.state \in TaskStates /\ row.item \in BOOLEAN
  BY RowTypes
<1>6. /\ row.state \in {"landed", "closed"} => k \in delivered
      /\ row.item \/ row.state = "failed" => DepsIn(r, k)
  BY <1>2, <1>3, <1>4 DEF RowsTrue
<1>7. \A s \in TaskStates : LET new == [row EXCEPT !.state = s]
                            IN new \in Row /\ new.state = s /\ new.item = row.item
  BY <1>5 DEF Row
<1>8. /\ item \in [Tasks -> Item] /\ used \in [ctl : Nat, trouble : Nat]
  BY <1>1 DEF TypeOK
<1>9. CASE /\ job' = [job EXCEPT !["api"] = Free]
           /\ UNCHANGED <<item, used>>
  <2>1. job' \in [Threads -> Job] /\ \A t \in Threads : ~InPass(t)' /\ job'[t].at # "act"
    BY <1>1, <1>9, OnlyOne, JobAt, FreeType DEF InPass, Inside, Rest
  <2>2. \A t \in Threads : job'[t].at = "claim" => job'[t].task \in Tasks
    BY <1>1, <1>9, JobAt, FreeType DEF Rest, JobsKept
  <2>3. \A t \in Threads, x \in Tasks :
          InPass(t) /\ job[t].at # "cancel" /\ Followed(job[t].rows[x]) =>
          Followed(task[job[t].run][x])
    BY <1>1, <1>2, OnlyOne DEF Rest
  <2>4. slipped \subseteq slipped' /\ slipped' \subseteq (Runs \cup {NoRun}) \X Tasks
    BY <1>1 DEF TypeOK, ghosts
  <2>5. \A x \in Tasks, q \in Runs : Mine(q, x)' => Mine(q, x)
    BY <1>9 DEF Mine, Under
  <2> QED
    BY <1>1, <1>8, <1>9, <2>1, <2>2, <2>3, <2>4, <2>5, NobodyInv DEF ghosts
<1>10. CASE /\ row.state \notin SETTLED \cup {"queued", "running"}
            /\ job' = [job EXCEPT !["api"] = then(k, [row EXCEPT !.state = "skipped"])]
            /\ UNCHANGED <<item, used>>
  <2>1. PICK new \in Row :
          new = [row EXCEPT !.state = "skipped"] /\ new.state = "skipped" /\ new.item = row.item
    BY <1>7 DEF TaskStates, SETTLED, DONE
  <2>2. /\ \A x \in Tasks : item'[x].state = "done" => item[x].state = "done"
        /\ \A x \in Tasks : item'[x].parent = item[x].parent
        /\ \A x \in Tasks, q \in Runs : Mine(q, x)' => Mine(q, x)
    BY <1>10 DEF Mine, Under
  <2>3. row.state # "skipped" /\ ~Followed(row)
    BY <1>10 DEF SETTLED, DONE, Followed
  <2>4. new.item \/ new.state = "failed" => DepsIn(r, k)
    BY <1>6, <2>1
  <2>5. job' = [job EXCEPT !["api"] = then(k, new)]
    BY <1>10, <2>1
  <2>6. used' \in [ctl : Nat, trouble : Nat] /\ item' \in [Tasks -> Item]
    BY <1>8, <1>10
  <2> QED
    BY <1>1, <1>3, <1>4, <2>1, <2>2, <2>3, <2>4, <2>5, <2>6, ActsOn
<1>11. CASE /\ row.state = "failed" /\ row.item /\ item[k].state = "failed"
            /\ item' = [item EXCEPT ![k].state = "queued", ![k].asked = item[k].parent # j.run]
            /\ job' = [job EXCEPT !["api"] = then(k, [row EXCEPT !.state = "queued"])]
            /\ UNCHANGED used
  <2>1. PICK new \in Row :
          new = [row EXCEPT !.state = "queued"] /\ new.state = "queued" /\ new.item = row.item
    BY <1>7 DEF TaskStates
  <2>2. PICK it \in Item : /\ it = [item[k] EXCEPT !.state = "queued", !.asked = item[k].parent # r]
                           /\ it.state = "queued" /\ it.parent = item[k].parent
                           /\ it.asked = (item[k].parent # r)
    <3>1. item[k] \in Item
      BY <1>8
    <3>2. \A b \in BOOLEAN : LET again == [item[k] EXCEPT !.state = "queued", !.asked = b]
                             IN /\ again \in Item /\ again.state = "queued"
                                /\ again.parent = item[k].parent /\ again.asked = b
      BY <3>1 DEF Item, ItemStates, InQueue
    <3>3. (item[k].parent # r) \in BOOLEAN
      OBVIOUS
    <3> QED
      BY <3>2, <3>3
  <2>3. item' = [item EXCEPT ![k] = it]
    BY <1>3, <1>8, <1>11, <2>2
  <2>4. item' \in [Tasks -> Item] /\ item'[k] = it /\ \A x \in Tasks : x # k => item'[x] = item[x]
    BY <1>8, <2>3
  <2>5. /\ \A x \in Tasks : item'[x].state = "done" => item[x].state = "done"
        /\ \A x \in Tasks : item'[x].parent = item[x].parent
    BY <2>2, <2>4
  <2>6. \A x \in Tasks, q \in Runs : Mine(q, x)' =>
          Mine(q, x) \/ (x = k /\ q = r /\ Followed(new))
    BY <1>11, <2>1, <2>2, <2>4, ZenonT(40) DEF Mine, Under, Followed
  <2>7. row.state # "skipped" /\ ~Followed(row) /\ DepsIn(r, k)
    BY <1>6, <1>11 DEF Followed
  <2>8. job' = [job EXCEPT !["api"] = then(k, new)]
    BY <1>11, <2>1
  <2>9. used' \in [ctl : Nat, trouble : Nat] /\ new.state \notin {"landed", "closed"}
    BY <1>8, <1>11, <2>1
  <2>10. /\ task[r][k].state # "skipped" /\ ~Followed(task[r][k])
         /\ new.state \in {"landed", "closed"} => k \in delivered
         /\ new.item \/ new.state = "failed" => DepsIn(r, k)
         /\ job["api"].at = "act" /\ k = job["api"].task /\ r = job["api"].run
         /\ \A x \in Tasks : \/ item'[x].parent = item[x].parent
                             \/ item'[x].parent = r /\ DepsIn(r, x)
    BY <1>1, <1>3, <1>4, <2>5, <2>7, <2>9
  <2> QED
    BY <1>1, <2>4, <2>5, <2>6, <2>8, <2>9, <2>10, ActsOn, Zenon
<1>12. CASE /\ row.state = "failed"
            /\ Admission("api", [then(k, [state |-> "ready", item |-> FALSE])
                                   EXCEPT !.left = {k}], k)
  <2>1. PICK ready \in Row : ready = [state |-> "ready", item |-> FALSE]
    BY DEF Row, TaskStates
  <2>2. j \in Job /\ j.rows \in [Tasks -> Row]
    BY <1>1, JobTypes
  <2>3. [then(k, ready) EXCEPT !.left = {k}]
          = [j EXCEPT !.at = "save", !.verb = "again", !.rows = [j.rows EXCEPT ![k] = ready],
                      !.left = {k}]
    BY <2>2 DEF Job
  <2>4. PICK J \in Job : J = [then(k, ready) EXCEPT !.left = {k}]
    BY <2>2, <2>3 DEF Job
  <2>5. /\ J.run = r /\ J.task = j.task /\ J.verb = "again" /\ J.left = {k}
        /\ J.rows = [j.rows EXCEPT ![k] = ready]
    BY <1>3, <2>2, <2>3, <2>4 DEF Job
  <2>6. J.rows[k] = ready /\ \A x \in Tasks : x # k => J.rows[x] = task[r][x]
    BY <1>2, <1>3, <2>2, <2>5
  <2>7. DepsIn(r, k) /\ row.state # "skipped" /\ ~Followed(row)
    BY <1>6, <1>12 DEF Followed
  <2>8. Admitting("api", J)
    <3>1. RowsTrue(r, J.rows)
      BY <1>2, <1>3, <2>1, <2>6, <2>7 DEF RowsTrue
    <3>2. \A x \in Tasks : J.rows[x].state = "skipped" <=> task[r][x].state = "skipped"
      BY <1>4, <2>1, <2>6, <2>7
    <3>3. \A x \in Tasks : Followed(j.rows[x]) => Followed(J.rows[x])
      BY <1>2, <1>3, <1>4, <2>6, <2>7
    <3> QED
      BY <1>3, <2>1, <2>5, <2>6, <2>7, <3>1, <3>2, <3>3 DEF Admitting
  <2>9. Admission("api", J, k) /\ k \in J.left
    BY <1>12, <2>1, <2>4, <2>5
  <2> QED
    BY <1>1, <2>8, <2>9, AdmissionInv
<1> QED
  BY <1>2, <1>3, <1>4, <1>9, <1>10, <1>11, <1>12 DEF Act

LEMMA CancelTaskInv ==
  ASSUME IInv, CancelTask
  PROVE  IInv'
<1> DEFINE j == job["api"]
<1>1. /\ TypeOK /\ Rest /\ "api" \in Threads /\ j.at = "cancel" /\ InPass("api")
      /\ UNCHANGED <<run, task, issue, used, ghosts>>
  BY Constants DEF IInv, CancelTask, InPass, Inside
<1>2. j \in Job /\ j.rows \in [Tasks -> Row] /\ j.run \in Runs /\ j.left \in SUBSET Tasks
  BY <1>1, JobTypes DEF Rest, JobsKept
<1>3. PICK k \in Tasks :
        LET row == Follow(j.rows[k], item[k])
            out == Withdrawn(k, row)
            never == row.state \in {"waiting", "ready", "blocked"}
        IN /\ item' = IF out THEN [item EXCEPT ![k].state = "failed"] ELSE item
           /\ job' = [job EXCEPT !["api"].left = @ \ {k}, !["api"].rows[k] =
                  IF out \/ never THEN [row EXCEPT !.state = "cancelled"] ELSE row]
  BY DEF CancelTask
<1>4. PICK row \in Row : row = Follow(j.rows[k], item[k])
  BY <1>1, <1>2, ItemTypes, FollowRow
<1>5. /\ row.state = "skipped" <=> j.rows[k].state = "skipped"
      /\ row.state \in {"landed", "closed"}
         => j.rows[k].state \in {"landed", "closed"} \/ item[k].state = "done"
      /\ row.item \/ row.state = "failed" => j.rows[k].item \/ j.rows[k].state = "failed"
      /\ Followed(j.rows[k]) /\ item[k].state \in InQueue => Followed(row)
  BY <1>1, <1>2, <1>4, ItemTypes, FollowRow
<1>6. PICK out \in BOOLEAN : out <=> Withdrawn(k, row)
  OBVIOUS
<1>7. PICK new \in Row :
        new = IF out \/ row.state \in {"waiting", "ready", "blocked"}
              THEN [row EXCEPT !.state = "cancelled"] ELSE row
  BY DEF Row, TaskStates, SETTLED
<1>8. new = row \/ (/\ new.state = "cancelled" /\ new.item = row.item
                    /\ out \/ row.state \in {"waiting", "ready", "blocked"})
  BY <1>7 DEF Row
<1>9. /\ item' = IF out THEN [item EXCEPT ![k].state = "failed"] ELSE item
      /\ job' = [job EXCEPT !["api"].left = @ \ {k}, !["api"].rows[k] = new]
  BY <1>3, <1>4, <1>6, <1>7
<1>10. PICK J : J = [j EXCEPT !.left = @ \ {k}, !.rows[k] = new]
  OBVIOUS
<1>11. /\ J \in Job /\ J.at = "cancel" /\ J.run = j.run /\ J.verb = j.verb /\ J.task = j.task
       /\ J.rows = [j.rows EXCEPT ![k] = new] /\ job' = [job EXCEPT !["api"] = J]
  <2>1. [j.rows EXCEPT ![k] = new] \in [Tasks -> Row] /\ j.left \ {k} \in SUBSET Tasks
    BY <1>2
  <2>2. J = [j EXCEPT !.left = j.left \ {k}, !.rows = [j.rows EXCEPT ![k] = new]]
    BY <1>2, <1>10 DEF Job
  <2>3. J \in Job /\ J.at = "cancel" /\ J.run = j.run /\ J.verb = j.verb /\ J.task = j.task
        /\ J.rows = [j.rows EXCEPT ![k] = new]
    BY <1>1, <1>2, <2>1, <2>2 DEF Job
  <2>4. job' = [job EXCEPT !["api"] = J]
    BY <1>1, <1>2, <1>9, <1>10 DEF TypeOK, Job
  <2> QED
    BY <2>3, <2>4
<1>12. J.rows[k] = new /\ \A x \in Tasks : x # k => J.rows[x] = j.rows[x]
  BY <1>2, <1>11
<1>13. /\ item' \in [Tasks -> Item]
       /\ \A x \in Tasks : item'[x].parent = item[x].parent /\ item'[x].asked = item[x].asked
       /\ \A x \in Tasks : item'[x].state = item[x].state
                           \/ (x = k /\ out /\ item'[k].state = "failed")
  <2>1. item \in [Tasks -> Item] /\ item[k] \in Item
    BY <1>1 DEF TypeOK
  <2>2. [item[k] EXCEPT !.state = "failed"] \in Item
        /\ [item[k] EXCEPT !.state = "failed"].state = "failed"
        /\ [item[k] EXCEPT !.state = "failed"].parent = item[k].parent
        /\ [item[k] EXCEPT !.state = "failed"].asked = item[k].asked
    BY <2>1 DEF Item, ItemStates
  <2>3. PICK it \in Item : it = [item[k] EXCEPT !.state = "failed"]
    BY <2>2
  <2>4. CASE out
    <3>1. item' = [item EXCEPT ![k] = it]
      BY <1>9, <2>1, <2>3, <2>4
    <3> QED
      BY <2>1, <2>2, <2>3, <2>4, <3>1
  <2>5. CASE ~out
    BY <1>9, <2>1, <2>5
  <2> QED
    BY <2>4, <2>5
<1>14. \A x \in Tasks, r \in Runs : Mine(r, x)' => Mine(r, x)
  BY <1>13 DEF Mine, Under, InQueue
<1>15. RowsTrue(J.run, J.rows)
  <2>1. RowsTrue(j.run, j.rows) /\ DoneDelivered
    BY <1>1 DEF Rest, AllRowsTrue
  <2>2. new.state \in {"landed", "closed"} => row.state \in {"landed", "closed"}
    BY <1>8
  <2>3. new.item \/ new.state = "failed" => row.item \/ row.state = "failed"
    BY <1>8
  <2> QED
    BY <1>5, <1>11, <1>12, <2>1, <2>2, <2>3 DEF RowsTrue, DoneDelivered
<1>16. \A x \in Tasks : J.rows[x].state = "skipped" <=> task[J.run][x].state = "skipped"
  <2>1. \A x \in Tasks : j.rows[x].state = "skipped" <=> task[j.run][x].state = "skipped"
    BY <1>1 DEF Rest, SkipsKept
  <2>2. new.state = "skipped" <=> row.state = "skipped"
    BY <1>6, <1>8 DEF Withdrawn
  <2> QED
    BY <1>5, <1>11, <1>12, <2>1, <2>2
<1>17. \A x \in Tasks, r \in Runs : Mine(r, x)' =>
          Mine(r, x) /\ (Followed(j.rows[x]) => Followed(J.rows[x]))
  <2> SUFFICES ASSUME NEW x \in Tasks, NEW r \in Runs, Mine(r, x)', Followed(j.rows[x])
               PROVE  Followed(J.rows[x])
    BY <1>14
  <2>1. CASE x # k
    BY <1>12, <2>1
  <2>2. CASE x = k
    <3>1. item'[k].state \in InQueue /\ item[k].state \in InQueue
      BY <1>14, <2>2 DEF Mine, Under
    <3>2. ~out
      BY <1>6, <1>9, <1>13, <3>1 DEF InQueue, Withdrawn, TypeOK
    <3>3. Followed(row)
      BY <1>5, <2>2, <3>1
    <3> QED
      BY <1>8, <1>12, <2>2, <3>2, <3>3 DEF Followed
  <2> QED
    BY <2>1, <2>2
<1>18. /\ j.at \in {"place", "admit", "adopt", "act", "cancel"}
       /\ J.at \in {"place", "admit", "adopt", "save", "cancel"} /\ J.at = "cancel"
       /\ J.verb \in {j.verb, "again"}
       /\ used' \in [ctl : Nat, trouble : Nat]
       /\ \A x \in Tasks : item'[x].state = "done" => item[x].state = "done"
       /\ \A x \in Tasks : \/ item'[x].parent = item[x].parent
                           \/ item'[x].parent = J.run /\ DepsIn(J.run, x)
       /\ \A x \in Tasks : /\ task[J.run][x].state = "skipped" => J.rows[x].state = "skipped"
                           /\ J.at # "save" /\ J.rows[x].state = "skipped"
                              => task[J.run][x].state = "skipped"
       /\ \A x \in Tasks, r \in Runs : Mine(r, x)' =>
            \/ r = J.run /\ Followed(J.rows[x])
            \/ Mine(r, x) /\ (r # J.run \/ (Followed(j.rows[x]) => Followed(J.rows[x])))
  BY <1>1, <1>11, <1>13, <1>16, <1>17 DEF TypeOK
<1> QED
  BY <1>1, <1>11, <1>13, <1>14, <1>15, <1>18, WorkInv, Zenon

LEMMA SaveInv ==
  ASSUME IInv, NEW t \in Threads, Save(t)
  PROVE  IInv'
<1> DEFINE j == job[t]
<1>1. /\ TypeOK /\ Rest /\ j.at = "save" /\ InPass(t)
      /\ UNCHANGED <<item, issue, used, delivered>>
  BY DEF IInv, Save, InPass, Inside
<1>2. /\ j \in Job /\ j.run \in Runs /\ run[j.run] # "none"
      /\ j.verb \in {"none", "retry", "skip", "again"}
      /\ j.verb \in {"retry", "skip"} => j.task \in Tasks
      /\ run[j.run] = "cancelled" => j.verb = "none"
      /\ j.rows \in [Tasks -> Row]
  BY <1>1, JobTypes DEF Rest, JobsKept
<1>3. PICK r \in Runs, R \in [Tasks -> Row] : r = j.run /\ R = j.rows
  BY <1>2
<1>4. PICK over \in BOOLEAN : run' = [run EXCEPT ![r] = IF over THEN "completed" ELSE @]
  <2>1. \A p \in BOOLEAN : run' = [run EXCEPT ![r] = IF p THEN "completed" ELSE @]
          => \E over \in BOOLEAN : run' = [run EXCEPT ![r] = IF over THEN "completed" ELSE @]
    OBVIOUS
  <2> QED
    BY <1>3, <2>1 DEF Save
<1>5. /\ task' = [task EXCEPT ![r] = R]
      /\ slipped' = slipped \ {<<r, k>> : k \in {x \in Tasks : Followed(R[x])}}
  BY <1>3 DEF Save
<1>6. /\ run' \in [Runs -> LIVE_RUN_STATES \cup {"none", "completed", "cancelled"}]
      /\ run'[r] # "none" /\ \A q \in Runs : q # r => run'[q] = run[q]
      /\ run[r] # "cancelled" => run'[r] # "cancelled"
  BY <1>1, <1>2, <1>3, <1>4 DEF TypeOK
<1>7. /\ slipped' \subseteq slipped
      /\ \A q \in Runs, k \in Tasks :
            <<q, k>> \in slipped => <<q, k>> \in slipped' \/ (q = r /\ Followed(R[k]))
  BY <1>5
<1>8. PICK J \in Job :
        /\ job' = [job EXCEPT ![t] = J] /\ J.at \in {"none", "act", "place", "save"}
        /\ J.at # "none" => /\ J.run = r /\ run'[r] # "cancelled"
                            /\ J.verb \in {"retry", "skip"} => J.task \in Tasks
                            /\ J.at = "act" => J.task \in Tasks /\ J.rows = R
                            /\ \A k \in Tasks : J.rows[k] \in {R[k], Follow(R[k], item[k])}
  <2>1. CASE j.verb \in {"retry", "skip"}
    <3>1. PICK J : J = [j EXCEPT !.at = "act"]
      OBVIOUS
    <3>2. J \in Job /\ J.at = "act" /\ J.run = r /\ J.task = j.task /\ J.rows = R
      BY <1>2, <1>3, <3>1 DEF Job
    <3>3. job' = [job EXCEPT ![t] = J]
      BY <2>1, <3>1 DEF Save
    <3> QED
      BY <1>2, <1>3, <1>6, <2>1, <3>2, <3>3
  <2>2. CASE j.verb = "again"
    <3>1. PICK J, state : J = Pass(r, R, state, "none", NoTask) /\ state = run[r]
      OBVIOUS
    <3>2. J \in Job /\ J.at \in {"place", "save"} /\ J.run = r /\ J.verb = "none"
          /\ \A k \in Tasks : J.rows[k] = Follow(R[k], item[k])
      BY <1>1, <3>1, PlainPass
    <3>3. job' = [job EXCEPT ![t] = J]
      BY <1>3, <2>2, <3>1 DEF Save
    <3> QED
      BY <1>2, <1>3, <1>6, <2>2, <3>2, <3>3
  <2>3. CASE j.verb = "none"
    <3>1. job' = [job EXCEPT ![t] = Free]
      BY <2>3 DEF Save
    <3> QED
      BY <3>1, FreeType
  <2> QED
    BY <1>2, <2>1, <2>2, <2>3
<1>9. /\ job[t].at \in {"save", "cancel"} /\ r = job[t].run /\ R = job[t].rows
      /\ task' = [task EXCEPT ![r] = R]
  BY <1>1, <1>3, <1>5
<1> QED
  BY <1>1, <1>6, <1>7, <1>8, <1>9, WriteInv, ZenonT(60)

LEMMA CancelSaveInv ==
  ASSUME IInv, CancelSave
  PROVE  IInv'
<1> DEFINE j == job["api"]
<1>1. /\ TypeOK /\ Rest /\ "api" \in Threads /\ j.at = "cancel" /\ InPass("api")
      /\ UNCHANGED <<item, issue, used, delivered>> /\ slipped' = slipped
  BY Constants DEF IInv, CancelSave, InPass, Inside, ghosts
<1>2. j.run \in Runs /\ j.rows \in [Tasks -> Row]
  BY <1>1, JobTypes DEF Rest, JobsKept
<1>3. PICK r \in Runs, R \in [Tasks -> Row] : r = j.run /\ R = j.rows
  BY <1>2
<1>4. /\ task' = [task EXCEPT ![r] = R] /\ run' = [run EXCEPT ![r] = "cancelled"]
      /\ job' = [job EXCEPT !["api"] = Free]
  BY <1>3 DEF CancelSave
<1>5. /\ run' \in [Runs -> LIVE_RUN_STATES \cup {"none", "completed", "cancelled"}]
      /\ run'[r] # "none" /\ \A q \in Runs : q # r => run'[q] = run[q]
  BY <1>1, <1>4 DEF TypeOK
<1> QED
  BY <1>1, <1>3, <1>4, <1>5, FreeType, WriteInv

-----------------------------------------------------------------------------
(* The tick and the controls.                                              *)

LEMMA NobodyIn ==
  ASSUME Unlocked
  PROVE  \A t \in Threads : ~InPass(t)
  BY DEF Unlocked, InPass, Inside

LEMMA TickInv ==
  ASSUME IInv, NEW r \in Runs, Tick(r)
  PROVE  IInv'
<1>1. /\ TypeOK /\ Rest /\ "loop" \in Threads /\ Active(r)
      /\ UNCHANGED <<run, task, item, issue, used, ghosts>>
  BY Constants DEF IInv, Tick
<1>2. \A t \in Threads : ~InPass(t)
  BY NobodyIn DEF Tick
<1>3. PICK J, rows, state :
        J = Pass(r, rows, state, "none", NoTask) /\ rows = task[r] /\ state = run[r]
  OBVIOUS
<1>4. /\ J \in Job /\ J.at \in {"place", "save"} /\ J.run = r /\ J.verb = "none"
      /\ \A k \in Tasks : J.rows[k] = Follow(rows[k], item[k])
      /\ state \notin LIVE_RUN_STATES => J.at = "save"
  <2>1. rows \in [Tasks -> Row]
    BY <1>1, <1>3, TaskTypes
  <2> QED
    BY <1>1, <1>3, <2>1, PlainPass
<1>5. run[r] = "cancelled" => J.at = "save"
  BY <1>3, <1>4 DEF LIVE_RUN_STATES
<1>6. job' = [job EXCEPT !["loop"] = J]
  BY <1>3 DEF Tick
<1>7. run[r] # "none"
  BY <1>1 DEF Active, LIVE_RUN_STATES
<1> QED
  <2>1. /\ J.at \in {"place", "save", "cancel"} /\ J.verb \notin {"retry", "skip"}
        /\ \A k \in Tasks : J.rows[k] \in {task[r][k], Follow(task[r][k], item[k])}
        /\ run' \in [Runs -> LIVE_RUN_STATES \cup {"none", "completed", "cancelled"}]
        /\ run'[r] # "none" /\ \A q \in Runs : q # r => run'[q] = run[q]
        /\ run'[r] = "cancelled" => run[r] = "cancelled" /\ J.at = "save" /\ J.verb = "none"
        /\ used' \in [ctl : Nat, trouble : Nat]
    BY <1>1, <1>3, <1>4, <1>5, <1>7 DEF TypeOK
  <2> QED
    BY <1>1, <1>2, <1>4, <1>6, <2>1, BeginInv

\* A control that drives the run it has just set to running, or found alive.
LEMMA DrivenInv ==
  ASSUME IInv, Unlocked, Counted, NEW r \in Runs, NEW s \in LIVE_RUN_STATES,
         run' = [run EXCEPT ![r] = s], NEW verb \in {"none", "retry", "skip"},
         NEW k \in Tasks \cup {NoTask}, verb # "none" => k \in Tasks,
         job' = [job EXCEPT !["api"] = Pass(r, task[r], s, verb, k)],
         UNCHANGED <<task, item, issue, ghosts>>
  PROVE  IInv'
<1>1. TypeOK /\ "api" \in Threads
  BY Constants DEF IInv
<1>2. \A t \in Threads : ~InPass(t)
  BY NobodyIn
<1>3. PICK J, rows : J = Pass(r, rows, s, verb, k) /\ rows = task[r]
  OBVIOUS
<1>4. /\ J \in Job /\ J.at \in {"place", "save"} /\ J.run = r /\ J.verb = verb /\ J.task = k
      /\ \A x \in Tasks : J.rows[x] = Follow(rows[x], item[x])
  <2>1. verb \in Verbs /\ rows \in [Tasks -> Row]
    BY <1>1, <1>3, TaskTypes DEF Verbs
  <2> QED
    BY <1>1, <1>3, <2>1, PassJob
<1>5. /\ run' \in [Runs -> LIVE_RUN_STATES \cup {"none", "completed", "cancelled"}]
      /\ run'[r] # "none" /\ \A q \in Runs : q # r => run'[q] = run[q]
      /\ run'[r] # "cancelled"
  BY <1>1 DEF TypeOK, LIVE_RUN_STATES
<1>6. job' = [job EXCEPT !["api"] = J] /\ used' \in [ctl : Nat, trouble : Nat]
  BY <1>1, <1>3, CountedType
<1>7. /\ J.at \in {"place", "save", "cancel"} /\ (J.verb \in {"retry", "skip"} => J.task \in Tasks)
      /\ \A x \in Tasks : J.rows[x] \in {task[r][x], Follow(task[r][x], item[x])}
  BY <1>3, <1>4
<1>8. J \in Job /\ J.run = r
      /\ (run'[r] = "cancelled" => run[r] = "cancelled" /\ J.at = "save" /\ J.verb = "none")
  BY <1>4, <1>5
<1> QED
  BY <1>1, <1>2, <1>5, <1>6, <1>7, <1>8, BeginInv, ZenonT(60)

LEMMA StartInv ==
  ASSUME IInv, NEW r \in Runs, Start(r)
  PROVE  IInv'
<1>1. task[r] = NoRows
  BY DEF IInv, Rest, JobsKept, Start
<1>2. "running" \in LIVE_RUN_STATES
  BY DEF LIVE_RUN_STATES
<1> QED
  BY <1>1, <1>2, DrivenInv DEF Start, Control

LEMMA ResumeInv ==
  ASSUME IInv, NEW r \in Runs, Resume(r)
  PROVE  IInv'
<1>1. "running" \in LIVE_RUN_STATES
  BY DEF LIVE_RUN_STATES
<1> QED
  BY <1>1, DrivenInv DEF Resume, Control

LEMMA RetryOrSkipInv ==
  ASSUME IInv, NEW r \in Runs, NEW verb \in {"retry", "skip"}, NEW k \in Tasks,
         RetryOrSkip(r, verb, k)
  PROVE  IInv'
<1>1. PICK s \in LIVE_RUN_STATES : s = run[r]
  BY DEF RetryOrSkip, Addressed
<1>2. run' = [run EXCEPT ![r] = s]
  BY <1>1 DEF RetryOrSkip, IInv, TypeOK
<1> QED
  BY <1>1, <1>2, DrivenInv DEF RetryOrSkip, Control

LEMMA CancelInv ==
  ASSUME IInv, NEW r \in Runs, Cancel(r)
  PROVE  IInv'
<1>1. /\ TypeOK /\ "api" \in Threads /\ run[r] \in LIVE_RUN_STATES
      /\ UNCHANGED <<run, task, item, issue, ghosts>>
  BY Constants DEF IInv, Cancel, Addressed
<1>2. \A t \in Threads : ~InPass(t)
  BY NobodyIn DEF Cancel, Control
<1>3. PICK J : J = [Free EXCEPT !.at = "cancel", !.run = r, !.rows = task[r], !.left = Tasks]
  OBVIOUS
<1>4. J \in Job /\ J.at = "cancel" /\ J.run = r /\ J.verb = "none" /\ J.rows = task[r]
  <2>1. task[r] \in [Tasks -> Row]
    BY <1>1, TaskTypes
  <2> QED
    BY <1>3, <2>1, NoRowsType DEF Free, Job
<1>5. job' = [job EXCEPT !["api"] = J] /\ used' \in [ctl : Nat, trouble : Nat]
  BY <1>1, <1>3, CountedType DEF Cancel
<1>6. run' \in [Runs -> LIVE_RUN_STATES \cup {"none", "completed", "cancelled"}]
      /\ run'[r] # "none" /\ run'[r] # "cancelled"
  BY <1>1 DEF TypeOK, LIVE_RUN_STATES
<1> QED
  BY <1>1, <1>2, <1>4, <1>5, <1>6, BeginInv

LEMMA PauseInv ==
  ASSUME IInv, NEW r \in Runs, Pause(r)
  PROVE  IInv'
<1>1. /\ TypeOK /\ Rest /\ run[r] = "running" /\ run' = [run EXCEPT ![r] = "paused"]
      /\ UNCHANGED <<task, item, issue, job, ghosts>> /\ \A t \in Threads : ~InPass(t)
  BY NobodyIn DEF IInv, Pause, Control
<1>2. run' \in [Runs -> LIVE_RUN_STATES \cup {"none", "completed", "cancelled"}]
      /\ run'[r] = "paused" /\ \A q \in Runs : q # r => run'[q] = run[q]
  BY <1>1 DEF TypeOK, LIVE_RUN_STATES
<1>3. \A t \in Threads : ~InPass(t)' /\ job[t].at # "act"
  BY <1>1 DEF InPass, Inside
<1>4. \A q \in Runs, k \in Tasks : DepsIn(q, k)' = DepsIn(q, k)
  BY <1>1 DEF DepsIn, ghosts
<1>5. TypeOK'
  <2>1. used' \in [ctl : Nat, trouble : Nat]
    BY <1>1, CountedType DEF Pause
  <2> QED
    BY <1>1, <1>2, <2>1 DEF TypeOK, ghosts
<1>6. JobsKept'
  <2>1. \A t \in Threads : job[t].at = "claim" => job[t].task \in Tasks
    BY <1>1 DEF Rest, JobsKept
  <2>2. \A q \in Runs : run'[q] = "none" => task[q] = NoRows
    BY <1>1, <1>2 DEF Rest, JobsKept
  <2> QED
    BY <1>1, <1>3, <2>1, <2>2, Constants DEF JobsKept
<1>7. DoneDelivered' /\ SkipsKept'
  BY <1>1, <1>3 DEF Rest, DoneDelivered, SkipsKept, ghosts
<1>8. AllRowsTrue' /\ ParentsReady'
  BY <1>1, <1>3, <1>4 DEF Rest, AllRowsTrue, RowsTrue, ParentsReady, ghosts
<1>9. LeftReady'
  BY <1>1 DEF LeftReady, InPass, Inside
<1>10. QueueFollowed'
  <2> SUFFICES ASSUME NEW q \in Runs, NEW k \in Tasks, Mine(q, k)', <<q, k>> \notin slipped
               PROVE  Follows(q, k)'
    BY <1>1 DEF QueueFollowed, ghosts
  <2>1. Followed(task[q][k])
    BY <1>1 DEF Rest, QueueFollowed, Follows, Mine, Under
  <2> QED
    BY <1>1, <1>3, <2>1 DEF Follows
<1> QED
  BY <1>5, <1>6, <1>7, <1>8, <1>9, <1>10 DEF IInv, Rest

-----------------------------------------------------------------------------
(* A pass that is lost.                                                    *)

LEMMA LostSlips ==
  ASSUME TypeOK, JobsKept, NEW t \in Threads
  PROVE  /\ Lost(t) \subseteq (Runs \cup {NoRun}) \X Tasks
         /\ job[t].at # "cancel" => \A k \in Tasks : InPass(t) /\ Followed(job[t].rows[k]) =>
              Followed(task[job[t].run][k]) \/ <<job[t].run, k>> \in Lost(t)
<1>1. job[t].run \in Runs \cup {NoRun}
  BY JobTypes
<1> QED
  BY <1>1 DEF Lost, InPass, Inside

LEMMA RaiseInv ==
  ASSUME IInv, NEW t \in Threads, Raise(t)
  PROVE  IInv'
<1>1. /\ TypeOK /\ Rest /\ JobsKept /\ InPass(t) /\ job[t].at # "cancel"
      /\ job' = [job EXCEPT ![t] = Free] /\ slipped' = slipped \cup Lost(t)
      /\ UNCHANGED <<run, task, item, issue, delivered>>
  BY DEF IInv, Rest, Raise, InPass, Inside
<1>2. job' \in [Threads -> Job] /\ \A x \in Threads : ~InPass(x)'
  BY <1>1, OnlyOne, JobAt, FreeType DEF InPass, Inside
<1>3. \A x \in Threads : job'[x].at = "claim" => job'[x].task \in Tasks
  BY <1>1, JobAt, FreeType DEF JobsKept
<1>4. used' \in [ctl : Nat, trouble : Nat] /\ item' \in [Tasks -> Item]
  BY <1>1, TroubleType DEF Raise, TypeOK
<1>5. slipped \subseteq slipped' /\ slipped' \subseteq (Runs \cup {NoRun}) \X Tasks
  BY <1>1, LostSlips DEF TypeOK
<1>6. \A x \in Threads, k \in Tasks :
        InPass(x) /\ job[x].at # "cancel" /\ Followed(job[x].rows[k]) =>
        Followed(task[job[x].run][k]) \/ <<job[x].run, k>> \in slipped'
  BY <1>1, OnlyOne, LostSlips
<1>7. \A k \in Tasks, r \in Runs : Mine(r, k)' => Mine(r, k)
  BY <1>1 DEF Mine, Under
<1>8. \A k \in Tasks : /\ item'[k].state = "done" => item[k].state = "done"
                       /\ item'[k].parent = item[k].parent
  BY <1>1
<1> QED
  BY <1>1, <1>2, <1>3, <1>4, <1>5, <1>6, <1>7, <1>8, NobodyInv, Zenon

\* A stop that is lost has withdrawn items, and admitted none.
LEMMA CrashInv ==
  ASSUME IInv, Crash
  PROVE  IInv'
<1>1. /\ TypeOK /\ Rest /\ JobsKept
      /\ job' = [t \in Threads |-> Free]
      /\ slipped' = slipped \cup UNION {Lost(t) : t \in Threads}
      /\ UNCHANGED <<run, task, issue, delivered>>
  BY DEF IInv, Rest, Crash
<1>2. job' \in [Threads -> Job] /\ \A x \in Threads : ~InPass(x)' /\ job'[x].at # "claim"
  BY <1>1, FreeType DEF InPass, Inside
<1>3. used' \in [ctl : Nat, trouble : Nat]
  BY <1>1, TroubleType DEF Crash
<1>4. \A k \in Tasks : LET it == [item[k] EXCEPT !.state = "resuming"]
                       IN /\ it \in Item /\ it.state = "resuming" /\ it.parent = item[k].parent
                          /\ it.asked = item[k].asked
  <2>1. \A k \in Tasks : item[k] \in Item
    BY <1>1, ItemTypes
  <2> QED
    BY <2>1 DEF Item, ItemStates, InQueue
<1>5. item' = [k \in Tasks |-> IF item[k].state = "running"
                               THEN [item[k] EXCEPT !.state = "resuming"] ELSE item[k]]
  BY DEF Crash
<1>6. /\ item' \in [Tasks -> Item]
      /\ \A k \in Tasks : /\ item'[k].parent = item[k].parent /\ item'[k].asked = item[k].asked
                          /\ item'[k].state = IF item[k].state = "running" THEN "resuming"
                                              ELSE item[k].state
  BY <1>1, <1>4, <1>5, ItemTypes
<1>7. \A k \in Tasks : /\ item'[k].state = "done" => item[k].state = "done"
                       /\ item'[k].parent = item[k].parent
  BY <1>6
<1>8. \A k \in Tasks, r \in Runs : Mine(r, k)' => Mine(r, k)
  BY <1>6 DEF Mine, Under, InQueue
<1>9. slipped \subseteq slipped' /\ slipped' \subseteq (Runs \cup {NoRun}) \X Tasks
  <2>1. \A t \in Threads : Lost(t) \subseteq (Runs \cup {NoRun}) \X Tasks
    BY <1>1, LostSlips
  <2> QED
    BY <1>1, <2>1 DEF TypeOK
<1>10. \A t \in Threads, k \in Tasks :
         InPass(t) /\ job[t].at # "cancel" /\ Followed(job[t].rows[k]) =>
            Followed(task[job[t].run][k]) \/ <<job[t].run, k>> \in slipped'
  BY <1>1, LostSlips
<1>11. \A t \in Threads : ~InPass(t)' /\ (job'[t].at = "claim" => job'[t].task \in Tasks)
  BY <1>2
<1> QED
  BY <1>1, <1>2, <1>3, <1>6, <1>7, <1>8, <1>9, <1>10, <1>11, NobodyInv, Zenon

-----------------------------------------------------------------------------
(* The queue, the forge and people.                                        *)

LEMMA StateAt ==
  ASSUME TypeOK, NEW k \in Tasks, NEW s \in ItemStates, item' = [item EXCEPT ![k].state = s]
  PROVE  /\ item' \in [Tasks -> Item]
         /\ \A x \in Tasks : /\ item'[x].parent = item[x].parent
                             /\ item'[x].asked = item[x].asked
                             /\ item'[x].state = IF x = k THEN s ELSE item[x].state
<1>1. item \in [Tasks -> Item] /\ item[k] \in Item
  BY DEF TypeOK
<1>2. PICK it \in Item : /\ it = [item[k] EXCEPT !.state = s] /\ it.state = s
                         /\ it.parent = item[k].parent /\ it.asked = item[k].asked
  BY <1>1 DEF Item
<1>3. item' = [item EXCEPT ![k] = it]
  BY <1>1, <1>2
<1> QED
  BY <1>1, <1>2, <1>3

\* A row changes its state outside any pass, and is not put in the queue by it.
LEMMA StateInv ==
  ASSUME IInv, NEW k \in Tasks, NEW s \in ItemStates, item' = [item EXCEPT ![k].state = s],
         s = "done" => k \in delivered', s \in InQueue => item[k].state \in InQueue,
         UNCHANGED <<run, task, issue, job, slipped>>, used' \in [ctl : Nat, trouble : Nat],
         delivered \subseteq delivered', delivered' \subseteq Tasks
  PROVE  IInv'
<1>1. TypeOK
  BY DEF IInv
<1>2. /\ job' \in [Threads -> Job] /\ issue' \in [Tasks -> {"open", "closed", "known"}]
      /\ slipped \subseteq slipped' /\ slipped' \subseteq (Runs \cup {NoRun}) \X Tasks
      /\ \A t \in Threads : job'[t] = job[t]
  BY <1>1 DEF TypeOK
<1>3. /\ item' \in [Tasks -> Item]
      /\ \A x \in Tasks : /\ item'[x].parent = item[x].parent
                          /\ item'[x].asked = item[x].asked
                          /\ item'[x].state = IF x = k THEN s ELSE item[x].state
  BY <1>1, StateAt, ZenonT(40)
<1>4. \A x \in Tasks :
        /\ item'[x].state = "done" => item[x].state = "done" \/ x \in delivered'
        /\ issue'[x] # "open" => issue[x] # "open" \/ x \in delivered'
        /\ item'[x].parent \in {item[x].parent, NoRun}
  BY <1>3
<1>5. \A x \in Tasks, r \in Runs : Mine(r, x)' => Mine(r, x)
  BY <1>3 DEF Mine, Under
<1> QED
  BY <1>2, <1>3, <1>4, <1>5, ItemInv

LEMMA LoopNotIn ==
  ASSUME LoopIdle
  PROVE  ~InPass("loop")
  BY DEF LoopIdle, InPass, Inside

LEMMA ClaimInv ==
  ASSUME IInv, NEW k \in Tasks, Claim(k)
  PROVE  IInv'
<1>1. /\ TypeOK /\ "loop" \in Threads /\ UNCHANGED <<run, task, item, issue, used, ghosts>>
      /\ ~InPass("loop")
  BY LoopNotIn, Constants DEF IInv, Claim
<1>2. PICK J : J = [Free EXCEPT !.at = "claim", !.task = k]
  OBVIOUS
<1>3. J \in Job /\ J.at = "claim" /\ J.task = k
  BY <1>2, NoRowsType DEF Free, Job
<1>4. job' = [job EXCEPT !["loop"] = J]
  BY <1>2 DEF Claim
<1>5. /\ job' \in [Threads -> Job]
      /\ \A t \in Threads : \/ job'[t] = job[t]
                            \/ /\ ~InPass(t) /\ ~InPass(t)'
                               /\ job'[t].at = "claim" => job'[t].task \in Tasks
  BY <1>1, <1>3, <1>4, JobAt DEF InPass, Inside
<1>6. /\ used' \in [ctl : Nat, trouble : Nat] /\ item' \in [Tasks -> Item]
      /\ issue' \in [Tasks -> {"open", "closed", "known"}]
      /\ delivered \subseteq delivered' /\ delivered' \subseteq Tasks
      /\ slipped \subseteq slipped' /\ slipped' \subseteq (Runs \cup {NoRun}) \X Tasks
  BY <1>1 DEF TypeOK, ghosts
<1>7. \A x \in Tasks :
        /\ item'[x].state = "done" => item[x].state = "done" \/ x \in delivered'
        /\ issue'[x] # "open" => issue[x] # "open" \/ x \in delivered'
        /\ item'[x].parent \in {item[x].parent, NoRun}
  BY <1>1
<1>8. \A x \in Tasks, r \in Runs : Mine(r, x)' => Mine(r, x)
  BY <1>1 DEF Mine, Under
<1> QED
  BY <1>1, <1>5, <1>6, <1>7, <1>8, ItemInv

\* The claim ends: the loop's thread is free again.
LEMMA ClaimEnds ==
  ASSUME TypeOK, job["loop"].at = "claim", job' = [job EXCEPT !["loop"] = Free]
  PROVE  /\ job' \in [Threads -> Job]
         /\ \A t \in Threads : \/ job'[t] = job[t]
                               \/ /\ ~InPass(t) /\ ~InPass(t)'
                                  /\ job'[t].at = "claim" => job'[t].task \in Tasks
  BY JobAt, FreeType, Constants DEF InPass, Inside

LEMMA MarkRunningInv ==
  ASSUME IInv, MarkRunning
  PROVE  IInv'
<1>1. /\ TypeOK /\ UNCHANGED <<run, task, issue, used, delivered>> /\ job["loop"].at = "claim"
      /\ job' = [job EXCEPT !["loop"] = Free]
  BY DEF IInv, MarkRunning
<1>2. job["loop"].task \in Tasks
  BY <1>1, Constants DEF IInv, Rest, JobsKept
<1>3. PICK k \in Tasks : k = job["loop"].task
  BY <1>2
<1>4. /\ item' = [item EXCEPT ![k].state = IF @ = "none" THEN @ ELSE "running"]
      /\ slipped' = slipped \cup (IF item[k].state = "queued" THEN {}
                                  ELSE {<<item[k].parent, k>>})
  BY <1>3 DEF MarkRunning
<1>5. PICK s \in ItemStates : s = IF item[k].state = "none" THEN "none" ELSE "running"
  BY DEF ItemStates, InQueue
<1>6. item' = [item EXCEPT ![k].state = s]
  BY <1>1, <1>4, <1>5 DEF TypeOK, Item
<1>7. /\ item' \in [Tasks -> Item]
      /\ \A x \in Tasks : /\ item'[x].parent = item[x].parent
                          /\ item'[x].asked = item[x].asked
                          /\ item'[x].state = IF x = k THEN s ELSE item[x].state
  BY <1>1, <1>6, StateAt
<1>8. /\ used' \in [ctl : Nat, trouble : Nat]
      /\ issue' \in [Tasks -> {"open", "closed", "known"}]
      /\ delivered \subseteq delivered' /\ delivered' \subseteq Tasks
  BY <1>1 DEF TypeOK
<1>9. slipped \subseteq slipped' /\ slipped' \subseteq (Runs \cup {NoRun}) \X Tasks
  BY <1>1, <1>4, ItemTypes DEF TypeOK
<1>10. \A x \in Tasks :
        /\ item'[x].state = "done" => item[x].state = "done" \/ x \in delivered'
        /\ issue'[x] # "open" => issue[x] # "open" \/ x \in delivered'
        /\ item'[x].parent \in {item[x].parent, NoRun}
  BY <1>1, <1>5, <1>7
<1>11. \A x \in Tasks, r \in Runs : Mine(r, x)' => Mine(r, x) \/ <<r, x>> \in slipped'
  BY <1>4, <1>7 DEF Mine, Under, InQueue
<1> QED
  BY <1>1, <1>7, <1>8, <1>9, <1>10, <1>11, ClaimEnds, ItemInv

LEMMA ClaimLostInv ==
  ASSUME IInv, ClaimLost
  PROVE  IInv'
<1>1. /\ TypeOK /\ UNCHANGED <<run, task, issue, ghosts>> /\ job["loop"].at = "claim"
      /\ job' = [job EXCEPT !["loop"] = Free] /\ Trouble
  BY DEF IInv, ClaimLost
<1>2. job["loop"].task \in Tasks
  BY <1>1, Constants DEF IInv, Rest, JobsKept
<1>3. PICK k \in Tasks : k = job["loop"].task
  BY <1>2
<1>4. item' = [item EXCEPT ![k] = IF @.state = "queued" THEN NoItem ELSE @]
  BY <1>3 DEF ClaimLost
<1>5. PICK it \in Item : it = IF item[k].state = "queued" THEN NoItem ELSE item[k]
  BY <1>1, NoItemType, ItemTypes
<1>6. item' = [item EXCEPT ![k] = it]
  BY <1>1, <1>4, <1>5 DEF TypeOK
<1>7. /\ item' \in [Tasks -> Item] /\ item'[k] = it
      /\ \A x \in Tasks : x # k => item'[x] = item[x]
  BY <1>1, <1>6 DEF TypeOK
<1>8. /\ used' \in [ctl : Nat, trouble : Nat]
      /\ issue' \in [Tasks -> {"open", "closed", "known"}]
      /\ delivered \subseteq delivered' /\ delivered' \subseteq Tasks
      /\ slipped \subseteq slipped' /\ slipped' \subseteq (Runs \cup {NoRun}) \X Tasks
  BY <1>1, TroubleType DEF TypeOK, ghosts
<1>9. \A x \in Tasks :
        /\ item'[x].state = "done" => item[x].state = "done" \/ x \in delivered'
        /\ issue'[x] # "open" => issue[x] # "open" \/ x \in delivered'
        /\ item'[x].parent \in {item[x].parent, NoRun}
  BY <1>1, <1>5, <1>7, NoItemType
<1>10. \A x \in Tasks, r \in Runs : Mine(r, x)' => Mine(r, x)
  <2>1. NoItem.state \notin InQueue
    BY NoItemType DEF InQueue
  <2> QED
    BY <1>5, <1>7, <2>1 DEF Mine, Under
<1> QED
  BY <1>1, <1>7, <1>8, <1>9, <1>10, ClaimEnds, ItemInv

LEMMA RowInv ==
  ASSUME IInv, NEW k \in Tasks,
         ResumeItem(k) \/ Settle(k) \/ Falter(k) \/ PersonAbandons(k)
  PROVE  IInv'
<1>1. TypeOK
  BY DEF IInv
<1>2. {"running", "done", "failed", "queued", "resuming"} \subseteq ItemStates
  BY DEF ItemStates, InQueue
<1>3. Trouble => used' \in [ctl : Nat, trouble : Nat]
  BY <1>1, TroubleType
<1>4. used \in [ctl : Nat, trouble : Nat] /\ delivered \subseteq Tasks
  BY <1>1 DEF TypeOK
<1>5. PICK s \in ItemStates : /\ item' = [item EXCEPT ![k].state = s]
                              /\ s = "done" => k \in delivered'
                              /\ s \in InQueue => item[k].state \in InQueue
  BY <1>2 DEF ResumeItem, Settle, Falter, PersonAbandons, InQueue
<1>6. /\ UNCHANGED <<run, task, issue, job, slipped>> /\ used' \in [ctl : Nat, trouble : Nat]
      /\ delivered \subseteq delivered' /\ delivered' \subseteq Tasks
  BY <1>3, <1>4 DEF ResumeItem, Settle, Falter, PersonAbandons, ghosts
<1> QED
  BY <1>5, <1>6, StateInv

LEMMA IssueInv ==
  ASSUME IInv, NEW k \in Tasks, CloseIssue(k) \/ ReadBack(k) \/ PersonCloses(k)
  PROVE  IInv'
<1>1. TypeOK /\ DoneDelivered /\ UNCHANGED <<run, task, item, job, slipped>>
  BY DEF IInv, Rest, CloseIssue, ReadBack, PersonCloses, ghosts
<1>2. PICK s \in {"closed", "known"} : issue' = [issue EXCEPT ![k] = s]
  BY DEF CloseIssue, ReadBack, PersonCloses
<1>3. /\ delivered \subseteq delivered' /\ delivered' \subseteq Tasks /\ k \in delivered'
      /\ used' \in [ctl : Nat, trouble : Nat]
  BY <1>1, TroubleType
     DEF CloseIssue, ReadBack, PersonCloses, ghosts, TypeOK, DoneDelivered
<1>4. /\ issue' \in [Tasks -> {"open", "closed", "known"}]
      /\ \A x \in Tasks : x # k => issue'[x] = issue[x]
  BY <1>1, <1>2 DEF TypeOK
<1>5. /\ job' \in [Threads -> Job] /\ item' \in [Tasks -> Item]
      /\ slipped \subseteq slipped' /\ slipped' \subseteq (Runs \cup {NoRun}) \X Tasks
      /\ \A t \in Threads : job'[t] = job[t]
  BY <1>1 DEF TypeOK
<1>6. \A x \in Tasks :
        /\ item'[x].state = "done" => item[x].state = "done" \/ x \in delivered'
        /\ issue'[x] # "open" => issue[x] # "open" \/ x \in delivered'
        /\ item'[x].parent \in {item[x].parent, NoRun}
  BY <1>1, <1>3, <1>4
<1>7. \A x \in Tasks, r \in Runs : Mine(r, x)' => Mine(r, x)
  BY <1>1 DEF Mine, Under
<1> QED
  BY <1>1, <1>3, <1>4, <1>5, <1>6, <1>7, ItemInv

LEMMA PersonQueuesInv ==
  ASSUME IInv, NEW k \in Tasks, PersonQueues(k)
  PROVE  IInv'
<1>1. /\ TypeOK /\ UNCHANGED <<run, task, issue, job, ghosts>> /\ Trouble
      /\ item' = [item EXCEPT ![k].state = "queued", ![k].asked = TRUE]
  BY DEF IInv, PersonQueues
<1>2. item \in [Tasks -> Item] /\ item[k] \in Item
  BY <1>1 DEF TypeOK
<1>3. PICK it \in Item : /\ it = [item[k] EXCEPT !.state = "queued", !.asked = TRUE]
                         /\ it.state = "queued" /\ it.parent = item[k].parent /\ it.asked = TRUE
  <2>1. \A b \in BOOLEAN : LET new == [item[k] EXCEPT !.state = "queued", !.asked = b]
                           IN /\ new \in Item /\ new.state = "queued"
                              /\ new.parent = item[k].parent /\ new.asked = b
    BY <1>2 DEF Item, ItemStates, InQueue
  <2> QED
    BY <2>1
<1>4. item' = [item EXCEPT ![k] = it]
  BY <1>1, <1>2, <1>3
<1>5. /\ item' \in [Tasks -> Item] /\ item'[k] = it
      /\ \A x \in Tasks : x # k => item'[x] = item[x]
  BY <1>2, <1>4
<1>6. /\ job' \in [Threads -> Job] /\ issue' \in [Tasks -> {"open", "closed", "known"}]
      /\ slipped \subseteq slipped' /\ slipped' \subseteq (Runs \cup {NoRun}) \X Tasks
      /\ \A t \in Threads : job'[t] = job[t]
      /\ delivered \subseteq delivered' /\ delivered' \subseteq Tasks
      /\ used' \in [ctl : Nat, trouble : Nat] /\ UNCHANGED <<run, task>>
  BY <1>1, TroubleType DEF TypeOK, ghosts
<1>7. \A x \in Tasks :
        /\ item'[x].state = "done" => item[x].state = "done" \/ x \in delivered'
        /\ issue'[x] # "open" => issue[x] # "open" \/ x \in delivered'
        /\ item'[x].parent \in {item[x].parent, NoRun}
  BY <1>1, <1>3, <1>5
<1>8. \A x \in Tasks, r \in Runs : Mine(r, x)' => Mine(r, x)
  BY <1>3, <1>5 DEF Mine, Under
<1> QED
  BY <1>1, <1>5, <1>6, <1>7, <1>8, ItemInv

-----------------------------------------------------------------------------
(* The invariant, and what it means.                                       *)

LEMMA InitInv ==
  ASSUME Init
  PROVE  IInv
<1>1. /\ \A t \in Threads : job[t] = Free /\ ~InPass(t)
      /\ \A r \in Runs : task[r] = NoRows
      /\ \A k \in Tasks : item[k] = NoItem /\ issue[k] = "open"
  BY FreeType DEF Init, InPass, Inside
<1>2. \A r \in Runs, k \in Tasks : task[r][k].state = "waiting" /\ ~task[r][k].item
  BY <1>1, NoRowsType
<1>3. TypeOK
  BY FreeType, NoRowsType, NoItemType DEF Init, TypeOK
<1>4. JobsKept
  BY <1>1, FreeType, Constants DEF JobsKept
<1>5. DoneDelivered
  BY <1>1, NoItemType DEF DoneDelivered
<1>6. AllRowsTrue
  BY <1>1, <1>2 DEF AllRowsTrue, RowsTrue
<1>7. SkipsKept
  BY <1>1 DEF SkipsKept
<1>8. LeftReady
  BY <1>1, FreeType DEF LeftReady
<1>9. ParentsReady
  BY <1>1, NoItemType, Constants DEF ParentsReady
<1>10. QueueFollowed
  BY <1>1, NoItemType DEF QueueFollowed, Mine, Under, InQueue
<1> QED
  BY <1>3, <1>4, <1>5, <1>6, <1>7, <1>8, <1>9, <1>10 DEF IInv, Rest

LEMMA StutterInv ==
  ASSUME IInv, UNCHANGED vars
  PROVE  IInv'
<1>1. \A t \in Threads : InPass(t)' = InPass(t)
  BY DEF InPass, vars
<1>2. \A r \in Runs, k \in Tasks : DepsIn(r, k)' = DepsIn(r, k) /\ Mine(r, k)' = Mine(r, k)
  BY DEF DepsIn, Mine, Under, vars
<1>3. TypeOK'
  BY DEF IInv, TypeOK, vars
<1>4. JobsKept'
  BY <1>1, Constants DEF IInv, Rest, JobsKept, vars
<1>7. DoneDelivered' /\ SkipsKept'
  BY <1>1 DEF IInv, Rest, DoneDelivered, SkipsKept, vars
<1>5. AllRowsTrue' /\ ParentsReady'
  <2>1. \A r \in Runs : RowsTrue(r, task[r])'
    BY <1>2 DEF IInv, Rest, AllRowsTrue, RowsTrue, vars
  <2>2. ASSUME NEW t \in Threads, InPass(t)
        PROVE  RowsTrue(job[t].run, job[t].rows)'
    <3>1. RowsTrue(job[t].run, job[t].rows) /\ job[t].run \in Runs
      BY <2>2 DEF IInv, Rest, AllRowsTrue, JobsKept
    <3> QED
      BY <1>2, <3>1 DEF RowsTrue, vars
  <2>3. ParentsReady'
    BY <1>2 DEF IInv, Rest, ParentsReady, vars
  <2> QED
    BY <1>1, <2>1, <2>2, <2>3 DEF AllRowsTrue
<1>8. LeftReady'
  <2> SUFFICES ASSUME NEW t \in Threads, job[t].at \in {"admit", "adopt"},
                      NEW k \in job[t].left
               PROVE  /\ DepsIn(job[t].run, k)'
                      /\ ~job[t].rows[k].item /\ job[t].rows[k].state # "skipped"
    BY DEF LeftReady, vars
  <2>1. InPass(t) /\ job[t].run \in Runs /\ k \in Tasks
    BY JobTypes DEF IInv, Rest, JobsKept, InPass, Inside
  <2> QED
    BY <1>2, <2>1 DEF IInv, Rest, LeftReady, vars
<1>6. QueueFollowed'
  BY <1>1, <1>2 DEF IInv, Rest, QueueFollowed, Follows, vars
<1> QED
  BY <1>3, <1>4, <1>5, <1>6, <1>7, <1>8 DEF IInv, Rest

LEMMA StepInv ==
  ASSUME IInv, [Next]_vars
  PROVE  IInv'
<1>1. CASE \E t \in Threads : Place(t) \/ Admit(t) \/ Adopt(t) \/ Save(t) \/ Raise(t)
  BY <1>1, PlaceInv, AdmitInv, AdoptInv, SaveInv, RaiseInv
<1>2. CASE Act \/ CancelTask \/ CancelSave \/ MarkRunning \/ ClaimLost \/ Crash
  BY <1>2, ActInv, CancelTaskInv, CancelSaveInv, MarkRunningInv, ClaimLostInv, CrashInv
<1>3. CASE \E r \in Runs : \/ Tick(r) \/ Start(r) \/ Pause(r) \/ Resume(r) \/ Cancel(r)
                           \/ \E verb \in {"retry", "skip"}, k \in Tasks : RetryOrSkip(r, verb, k)
  BY <1>3, TickInv, StartInv, PauseInv, ResumeInv, CancelInv, RetryOrSkipInv
<1>4. CASE \E k \in Tasks : \/ Claim(k) \/ ResumeItem(k) \/ Settle(k) \/ Falter(k)
                            \/ CloseIssue(k) \/ ReadBack(k)
                            \/ PersonCloses(k) \/ PersonQueues(k) \/ PersonAbandons(k)
  BY <1>4, ClaimInv, RowInv, IssueInv, PersonQueuesInv
<1>5. CASE UNCHANGED vars
  BY <1>5, StutterInv
<1> QED
  BY <1>1, <1>2, <1>3, <1>4, <1>5 DEF Next

\* The invariant holds at every moment.
THEOREM Inductive == Spec => []IInv
<1>1. Init => IInv
  BY InitInv
<1>2. IInv /\ [Next]_vars => IInv'
  BY StepInv
<1> QED
  BY <1>1, <1>2, PTL DEF Spec

\* The runs, their tasks, the queue's rows, the issues, and what each thread is in the middle
\* of are always of their types, with the marks of what was delivered and what slipped.
THEOREM TypeCorrect == Spec => []TypeOK
<1>1. IInv => TypeOK
  BY DEF IInv
<1> QED
  BY <1>1, Inductive, PTL

\* A task in the queue under an epic run, whoever queued it last, has what it depends on
\* delivered, closed or skipped in that run: through lost passes, deaths, retries, skips,
\* people's own requeues, further runs of the same epic and the time until they adopt what
\* they queued, in whatever number.
THEOREM DependenciesIn == Spec => []OrderKept
<1>1. IInv => OrderKept
  BY DEF IInv, Rest, ParentsReady, DepsIn, OrderKept, Under
<1> QED
  BY <1>1, Inductive, PTL

\* A stopped epic run leaves nothing in the queue but what its own rows still follow, an
\* item whose pass was lost, one whose dispatch was under way when it was withdrawn, or one
\* that a person or another run has queued again and that has not been adopted since:
\* whatever pass, control or second run was going on, and for any number of them.
THEOREM StoppedIsStopped == Spec => []StopHolds
<1>1. IInv => StopHolds
  BY DEF IInv, Rest, QueueFollowed, Follows, StopHolds
<1> QED
  BY <1>1, Inductive, PTL

=============================================================================
