# A verification project for lantern

lantern (the `sbxloop` repository) runs coding agents unattended: a daemon finds labelled
issues, claims them, runs each in sandboxes through an engine, lands the pull request, and
reports back.  This directory holds TLA+ models of the part that must be right when nobody
is looking: the daemon's bookkeeping between the queue, the runs, the people who override
them and the crashes in between; the claim that keeps two daemons off one issue; the engine's
stages, task graph and landing; the record of what operators asked for; and epic runs.
Paths below are relative to
`src/packages/lantern/src/lantern/` unless they start with `src/`.

## 1. Inventory

| Component | State | Operations | Interacts with | What is hard | What makes it correct |
|---|---|---|---|---|---|
| Daemon loop (`daemon/loop.py`, `daemon/store.py`) | `work_items` rows, run ledger, resume log, debts (`pending_report`), run handles, cancel requests | tick, dispatch, launch, settle, operator verbs, deliver, quiesce, recover | engine threads, sources, CLI in another process, bridges and API on other threads | several writes per operation, no lock across them; crash between any two; another process flips rows | no stranded row, decisions stand, budgets bound, one code run per checkout, every debt paid |
| Circuit breaker (`daemon/loop.py`) | opening time, failure count (persisted); half-open mark, probe (memory) | gate, count, open, cool down, half-open, bind probe, reset | dispatch, settle, status queries | status queries run the transition on another thread; restart | one item through; never wedges |
| Parking (`daemon/loop.py`, `daemon/store.py`) | merge gates, review holds, landing threads | park, approve, land, release, poll, fix round, pause, resume, abandon, reconcile | the loop thread, landing threads, operators, the forge | each park is two rows in two tables; people act on the forge by themselves | never stranded, merged once, decisions stand |
| Run engine (`engine/engine.py`, `phases.py`, `store.py`) | run record, tasks, attempts, budgets | decompose, build, verify, gate, publish, cancel, resume | worker, landing, sandboxes | resume in the middle of a stage; cancellation points; granted rounds | a resumed run repeats nothing that must not repeat |
| Landing (`engine/landing.py`, `checks.py`, `review.py`) | the pull request as last seen | update, wait, reconcile threads, merge | forge | head moves while checks run; merge queues; 409 | merges only the head that was judged |
| Claims (`daemon/sources.py`, `github.py`) | labels and claim comments on the issue | discover, claim, release, report | forge, other daemons | two daemons, eventual consistency | at most one believes it won |
| Operations (`daemon/controls/`) | operation rows with idempotency keys | submit, execute, reconcile | API, loop | crash with an operation in flight, replays | each operation takes effect once |
| Epic runs, plans (`daemon/epicruns.py`, `plans/`) | epic run rows, plan drafts and generations | admit, stop, replan, publish | loop, forge | stop against dispatch; partial publication | dependency order, no double publication |
| Schedules, usage pool (`daemon/schedule.py`, `usagepool.py`) | due times, spend | fire, skip, share | loop | catch-up after downtime | one live item per schedule, fair share |
| Sandboxes, secrets (`sbx/`) | allocations, warm set, secret references | provision, claim warm, prune | engine, warmer thread | the warmer races a dispatch and a shutdown | no set used twice or leaked |
| Worker transport (`worker/`, lantern-worker) | pending jobs, streams | submit, host tools, cancel | sandbox processes | timeouts against late results | a result is for its own job |
| Collaboration store (`api/collaboration.py`, `external_work.py`) | channels, messages, turns, run posts, dirty queue | post, project a job, deliver a turn | loop, API clients | missed notifications, replays | each event is projected once, none is lost |
| Bridges, API, CLI, TUI, forge clients, configuration, database | presentation and I/O | - | the verbs above | - | - |

Modelled, wholly or in part: the first eight rows (of `plans/` only what a plan run asks,
proposes and hands over), each by the modules of the next section.  `PROJECT.json` lists every
component with its status and, under `hazards`, what is hard to test in them line by line.

## 2. Modules

| Module | Models |
|---|---|
| `DaemonLoop` | the queue row, ledger, run record, sandboxes, handles and debts of each item, and everything that writes them |
| `Breaker` | the circuit breaker, the loop's gate around it, and status queries |
| `Parking` | one item's parks: gates, review holds, landing threads, the forge |
| `Landing` | `land()` call by call, with the forge and people acting between any two calls |
| `JudgedMerge` | abstract: the program merges only a head it judged, while it is the head |
| `RunEngine` | one run through its stages and fix rounds, cancelled, killed and resumed |
| `TaskLanes` | a run's task graph in its lanes |
| `TaskGraph` | abstract: a task settles once, after what it depends on |
| `Claims` | the label-and-comment claim several daemons race for |
| `Operations` | operation records: accepted, claimed, carried out, judged, reconciled |
| `EpicRuns` | the driver that admits an epic's tasks in order, its controls, the queue |
| `MC*` | constants and symmetry for TLC (`Breaker`, `RunEngine`, `Operations` need none) |
| `*Proofs` | theorems and proofs (`DispatchProofs`: those of `Breaker` and of `Claims`) |

The specifications share no variables; each opens up what its neighbour has as one step.
`DaemonLoop` has an engine that begins and ends, which `RunEngine` opens; `RunEngine` has a
task graph and a landing as single steps, which `TaskLanes` and `Landing` open; `Parking` has
the launch and the landing of a run as single steps, which `DaemonLoop` and `Landing` open;
`DaemonLoop` takes the answer of `claim` as given, which `Claims` opens; `Operations` and
`EpicRuns` have a queue that moves as `DaemonLoop` says it may.  `DaemonLoop` leaves out the
three parked states (a parked run frees its slot and its row leaves the queue); `Breaker` does
not care which item a run is for.

### How code becomes steps

One store method is one SQLite transaction and is one step; so is one call to the forge.  In
`DaemonLoop` and `Parking` a handler that makes several store, sandbox or network calls
becomes a *plan*: `Plan(do)` is the list of its writes in the order the code makes them,
`job[t]` says which plan thread `t` is in and how far, and each kind of write is an action
(`WriteRow`, `WriteLedger`, `WriteRecord`, `Sweep`, `WriteGate`, ...) that any plan may be
at.  In the other modules a handler is a walk of its `pc` (or `call`, or `job`) from call to
call.  Either way another thread, the command line and a crash can fall between any two
writes.  What a handler *read* before it began is kept in its locals (`job`, `mem`, `snap`),
so it acts on stale values wherever the code does.  A method that is a compare-and-set in the
code (`abandon`, `retry`, `claim_merge_gate`, an operation's claim) is one guarded step; one
that writes unconditionally (`mark_running`, `mark_done`, `mark_cancelled`) does so here too.

`DaemonLoop`: `row` is `work_items`, `ledger` is `daemon_runs`, `resumes` the resume log,
`rec`/`rounds` the engine's record and fix-round budget, `boxes` the sandboxes that exist,
`handle`/`cancels` the loop's memory, `heard` the last thing the source was told (external),
`decided` a history variable for accepted abandons.  `Pick`, `ClaimWon`, `MarkRunning`,
`Launch` are a dispatch; `EngineBegin`/`EngineEnd` are the engine's thread as the loop sees
it; `SettleRun` takes `Verdict`, and the plan of that verdict follows; `recover` is the
phases `claims`, `running`, `offline`, `orphans`.

`Breaker`: `GateHalfOpens`, `GateMarks`, `GateProbe`, `Launch`, `BindProbes` are one pass of
the dispatcher; `StatusHalfOpens`/`StatusMarks` are the same method on the caller's thread.

`Parking`: `gate`, `hold` are the two tables, `job` has the loop, the operator's thread and a
pool of landing threads.  `Landing` is `land()` with its three kinds of answer.  A gate can be
approved from its creation on, before the item's row says gated; `overtaken` is history, the
runs whose landing made its last write before the settle wrote that row.

`Landing`: `cfg` is what the landing is entered with (from CI, resumed, or parked; draft,
merge gate, merge queue, required review); `pr`, `checks`, `obj`, `thr`, `inflight`, `entry`
are the forge's side, `mem`, `snap` the locals of `land()`, `store` what survives a death.
Each `Read...`, `UpdateBranch`, `Merge`, `Enqueue`, `Watch` is one call; `Surprise` is a
person or the forge in between.  Four clocks are kept, each capped where it is compared: the
landing's, the check poll's, the entry head's inherited one and the current head's own.

`RunEngine`: `row` is the run's record, `graph`/`fixes` the task rows, `gated` the tree, `pr`
the delivered head.  `Enter` writes a stage's state, one action per stage does its work, and
a fix round is `Budget`, `NoteRound`, `AppendFix`, `EnterFix`, `RunFix`: the counter, the
record, the task, the state and the run of it, each a write of its own.  `Interrupted` is
`_check_cancelled_and_clock` wherever the engine calls it (`Boundary`).  A plan run has stages
of its own: `Clarify` and `Ask` put questions on the plan record and park the run, `Proposal`
is the planner's turn, `Handover` writes the level to the plan and `RecordPublished` says on
the row that it did; `Answer`, `Withdraw` and `Approve` are people, on the same record
(`plan`).

`TaskLanes`: `row` is the task rows, `waiting`/`settled` the scheduler's sets, `lane` the
threads.  `Launch`, `Collect` and `Leave` are `_schedule_tasks`; the lane's steps are
`_run_task` with `Revised`, `Replan` and `Reauthor` as what a verdict does to a row.

`Claims`: `comments` is the issue's thread, a set of claim comments.  A comment carries the
daemon's token and its process (host and incarnation), the claims that were there before it
(`after`, which is the thread's order) and whether a start followed it (`ran`); `row` is each
daemon's queue row with its persisted token.

`Operations`: `op` is the operations table, `call` the thread of each request, `request` the
loop's `_cancel_requests`, `seen` the rows `reconcile_operations` is going through.  A verb
reads (`Look`), writes the row (`ApplyItem`, `MarkCancelled`), and then stops or closes the
run (`StopOrClose`, `SetRunState`); `Return` and `Raise` are the exits of `run_sync`, and
`Raise` may come at any call the verb makes, before its effect, between its writes or after
them (`operations.py:498`).

`EpicRuns`: `run` and `task` are the two tables, `item` and `issue` the queue and the forge;
`Tick`, `Place`, `Admit`, `Adopt`, `Save` are one pass of the driver, on the loop's thread or
inside a control; `Free` jobs mean the lock is free.  `Admit` is the queue write, which
queues a finished row again under the parent it had, and `Adopt` the later transaction that
names this run; `asked` marks what stands in the queue under a run that did not queue it.

### Refinements

`Landing` implements `JudgedMerge` (`KeepsPromise`): the pull request's head and status map to
themselves, and `vouched`, the heads for which a landing passed every check it makes, to
`judged`.  `TaskLanes` implements `TaskGraph` (`KeepsOrder`): a row that is neither done,
failed nor skipped maps to open.  Both are run as PROPERTYs of the detailed specification, and
proved (section 5).

### Abstractions

* Time delays dispatch and nothing else in the daemon: polls, backoff, caps, cooldowns and
  holds are "may happen at any moment".  `Wait` (a review wait of hours) is the exception: it
  does not fall inside another thread's two writes.  `Landing` keeps its clocks; `Claims` has
  one, whether a comment is older than `claim_stale_after_s`, which only a comment whose
  daemon is not in the middle of that claim becomes.
* Issues, branches, reasons, notices are left out.  A pull request is its state, a check run
  its verdict, a commit its number.
* In `DaemonLoop` and `Parking` the operator is one thread with one verb at a time; the
  command line is any process.
* Sandboxes kept for debugging (`keep_sandboxes`, keep on failure) are off.
* `Claims`: reading the comments and judging them is one step, and so is reading the issue
  with its trigger epoch.  A person labels the issue again only after an answer.
* `Operations`: the look for a run in flight and the stop or the close that follows are one
  step; a request sent again changes nothing (it is answered with the row, or a conflict); the
  four verbs stand for the operations that touch an item.
* `EpicRuns`: an admission's look at the queue, the forge's answer and the queue write are one
  step; the adoption is its own.  The bound on rounds in `_place` is left out, as two tasks never reach
  it.

## 3. Runs

Every run lists what it checks in `PROJECT.json`; each property has a mutant, a plausible slip
in the mapped definition that TLC shows the property catches.

| Run | Bounds | Shows |
|---|---|---|
| `loop` | 1 item, 2 runs, every end, 2 of 6 verbs, 1 crash | `RunningRowOwned`, `LiveAbandonSticks`, `ChurnBounded`, `NoPhantomRecord` |
| `loop_slots` | 2 items of one repository and a workload, 3 runs, 2 slots, 1 of 6 verbs | `OneCodeRunPerRepo`, `ConcurrencyLimit` |
| `loop_live` | fairness, 1 item, 2 runs, 1 verb (of the command line, or the cancel of a pending resume), 1 crash | `MergedIsHeard`, `OverriddenRunComesDown`, `DebtIsPaid`, `RecoveryCompletes`, `DoneIsFinal` |
| `breaker` | fairness, 4 runs, 3 slots, threshold 2, a reset, a query, a restart | `OneItemThrough`, `OverThresholdIsGuarded`, `DispatchNeverWedges` |
| `park` | code and workload, 2 runs, 2 landing threads, 4 verbs of 2 kinds | `NoStrandedPark` |
| `park_live` | fairness, code, 1 run, 2 landing threads, 2 of 5 verbs, 1 crash | `OneLandingPerGate`, `DoneIsLanded`, `DecisionStands`, `ApprovalSettles` |
| `landing` | fairness, 4 entries, 2 heads, budget of 2 updates, 2 acts of people, 1 death | `SettledMerge`, `UpdateBudget`, `KeepsPromise`, `Decides` |
| `lanes` | fairness, 3 tasks, 2 lanes, budgets of 1, 2 stops | `DepsFirst`, `KeepsOrder`, `GraphSettles` |
| `engine` | fairness, each kind of run, budgets of 1, 1 grant, 2 stops, 2 resumes, 1 cancellation | `DeliveredGated`, `MergedReviewed`, `RoundsPaid`, `ComesToRest` |
| `claims` | fairness, 2 daemons on one host, 2 requests, 1 failed call, 1 process killed | `OneOwner`, `NeverOrphaned`, `Served` |
| `operations` | fairness, 2 operations of 4 verbs, requests under 2 keys sent again at will, 2 runs, 1 crash | `AppliedOnce`, `ExpiredUntouched`, `VerdictTrue`, `OperationSettles` |
| `epics` | fairness, 2 tasks in order, 2 epic runs, 3 controls, 1 fault, death or act of a person | `OrderKept`, `StopHolds`, `ComesToEnd` |

Why the bounds are enough.  The races are between one settle or dispatch and one verb, so one
item, a run and its successor, and two verbs give every pair; items meet only through slots
and repositories, which `loop_slots` covers (and the theorems cover for any number).  A head
that is judged and one that replaces it are the two a landing can confuse, and two updates
spend a budget and ask for one more.  Three tasks in two lanes are a chain beside a third, so
that a failure, a skip and a success can overlap.  A budget of one is spent and refused within
a run; two deaths fall one inside what the other left.  Two daemons and two requests let a
claim outlive the request it was for.  Two operations under one item are the superseding and
the superseded one, and a request may be sent again at any moment.  Two epic runs let the second meet
what the first left.

Deadlock checking is off where requests, runs or acts are bounded or the system ends, because
it then really stops; in `breaker` it is on.

What the runs leave out on purpose, because the property does not hold there:

* `RunningRowOwned` and `NoPhantomRecord` are about the daemon while it is up: during a
  recovery there are such rows, and the run shows that the recovery removes them all.
* `loop` has no command-line verb and no requeue: the command line only flips the row, and
  the record of its run stays open until the next sweep or recovery.
* `DoneIsFinal` exempts one writer, the cancel of a pending resume that read the row before
  the resumed run merged (`LateCancel`, `loop.py:976`); `loop_live` has that verb.
* `NoStrandedPark` exempts the runs in `overtaken`: somebody approved between the gate's row
  (`loop.py:4102`) and the item's (4113), and the landing was over before the second.
* `OneItemThrough` and `OverThresholdIsGuarded` are claimed until the first status query or
  restart (`Undisturbed`); `DispatchNeverWedges` with both.
* `park` has no crash and no abandon or resume inside the process; `park_live` has only code
  items, because a crash inside a release leaves its gate `approving`.
* `OneOwner` is claimed until a process is killed, `NeverOrphaned` unless a failed call and a
  death come together and with two daemons (three orphan an issue by a death alone, below),
  `Served` unless the daemons' claims overlap for ever.
* `VerdictTrue` is about verdicts given by the process that did the work, and `operations` has
  no chat commands, which are served before the process has stamped its generation.  Of a verb
  that raised it says only that it is over: the record reads failed with code `crashed`, and
  the effect may have been written.  A write of the operations table that fails is not
  modelled: the record would stay running until the next recovery.
* `StopHolds` exempts the two kinds of item in `slipped` (its pass was lost before it was
  recorded; its dispatch was under way when it was withdrawn) and the items that are `asked`:
  queued again in place by a person, or by a second run until it adopts them
  (`store.py:2125`, `epicruns.py:882`), which it never does when an exception, a dispatch or
  a crash comes in between.
* `DeliveredGated` is about the enforced gate.  In the advisory and ci-only modes of
  verification a red gate, or none, is delivered (`engine.py:3530`); there `gated` stands for
  "the gate stage was passed", and the property says no more than that.

### What the code does not do

These statements of docstrings, comments or documents do not hold of the code as modelled.
Each is a definition of the module named; put it in the run's configuration (with
`SPECIFICATION Spec`, in place of the run's own properties) and TLC prints a behaviour
against it.

| Statement | Where | What happens |
|---|---|---|
| `SettlingAbandonSticks` | `DaemonLoop`, `loop` | an abandon accepted while its run settles is overwritten by the settle's own row write |
| `DoneIsFinalAlways` | `DaemonLoop`, `loop_live`, as PROPERTY | a cancel of a pending resume reads the row queued, the loop resumes the run and merges it, and `mark_cancelled` (`loop.py:999`) writes over done |
| `TickNeverRaises` | `DaemonLoop`, `loop_slots` | a requeue between two reads of a tick moves the pin, and `mark_resuming` raises out of the tick |
| `NoStrandedPark` | `Parking`, `park` with `MaxCrashes = 1` | a death between claiming a hold for a fix round and queueing the item leaves a parked row nobody will move |
| `NoStrandedParkAlways` | `Parking`, `park` | an approval is taken after the gate's row was made, and its landing is over before `mark_gated` (`loop.py:4113`) writes gated over a gate that is merged or dismissed |
| `OneLanding` | `Parking`, `park_live` | `resume_review` and a poll land one pull request at the same time |
| `SettledAlways` | `Landing`, `landing` | the head found on entry from the CI stage is trusted without checks and without the settle window |
| `HoldKept` | `Landing`, `landing` | a person returns the pull request to draft after the read, and the program marks it ready again |
| `StageKept` | `RunEngine`, `engine` | a resume that dies before its first stage resumes from provisioning the next time, not from the stage the run had reached |
| `CancelKept` | `RunEngine`, `engine` | a cancel written just before the drive's first state write is overwritten by it |
| `OneIssue` | `RunEngine`, `engine` | a death between opening an issue and recording it opens a second one |
| `OneProposal` | `RunEngine`, `engine` | a plan run dies after its proposal reached the plan and before its row says so; resumed, it delivers again (`engine.py:2366`) beside what a person has approved by then, where `engine.py:2301` says the record has it |
| `MergedIsFinal` | `RunEngine`, `engine`, as PROPERTY | a cancel that read the record before the merge writes cancelled over merged |
| `OneOwnerAlways` | `Claims`, `claims` | a daemon that won and died is taken for stale; on two hosts (`Host <- TwoHosts`, `MaxFaults = 0`) `settle_claim` (`sources.py:915`) keeps both, where `sources.py:630` promises the first comment only |
| `NeverOrphanedAlways` | `Claims`, `claims` | a failed call and then a death leave an issue that says claimed with no daemon to serve it |
| `NeverOrphaned` | `Claims`, `claims` with a third daemon, `MaxFaults = 0`, `MaxCycles = 1` | the winner takes the trigger off and dies; a second daemon has lost and not yet released, a third deletes the winner's comment as stale and loses to the second's; both release, and the winner's restart finds no comment of its own and forgets, where `sources.py:636` says a failure part-way can never lose the item |
| `VerdictTrueAlways` | `Operations`, `operations` | an abandon or a retry writes its row and then the source's report raises (`loop.py:1405`): the record says failed (`operations.py:498`) of an effect that stands |
| `NeverGuessed` | `Operations`, `operations` | a death after the claim and before the effect: recovery finds the item as the verb would leave it and answers succeeded (`operations.py:598`) |
| `ExpiredUntouched` | `Operations`, `operations` with `ChatUp = TRUE` | a chat command accepted before the generation is stamped is taken for the dead process's and expired while it is carried out |
| `StopHoldsAlways` | `EpicRuns`, `epics` | an item adopted in a pass that was lost, or taken by a dispatch (`store.py:2559`), stays in the queue of a stopped run; so does one that a person or a second run queued again in place, until it is adopted (`epicruns.py:882`) |

More behaviours of the same shapes are in the models and have no property of their own:

* read, then an unconditional write: an abandon while the dispatcher is claiming is
  overwritten by `mark_running` (`loop.py:2396`); a pause is written over an abandon;
* acting on whatever is there by then: a requeue stops the fresh run that followed it
  (`loop.py:1832`); a confirmed report clears a newer debt (`store.py:2847`); an abandon just
  before the run parks leaves the gate approvable (`loop.py:1366`); `resume_review`'s row
  write overtakes a poll's fix round; an abandon during a landing dismisses the gate and the
  pull request is merged all the same (`loop.py:1368`); with several slots "abandoned" is told
  while the run is still going (`loop.py:1726`);
* a crash between two writes of one decision: a release between the gate and the queue
  (`loop.py:4870`), a fix round between the hold and the queue (`loop.py:4590`);
* state that is not persisted or not cleaned up: a restart closes a half-open breaker, a
  status query half-opens it a second time (`loop.py:1952`); a spent resume budget, or a
  requeue of a provider-held run, leaves its sandboxes behind (`loop.py:2503`); a parked
  landing keeps no count of its branch updates, so each entry has a fresh budget
  (`UpdateBudget` says so).

## 4. Fairness

* Weak fairness of a thread's steps: it goes on with what it began (no lock is held across
  its waits).  This is all `Landing`, `RunEngine`, `TaskLanes`, `Operations` and `EpicRuns`
  assume of the program, with the supervisor's restart (`src/contrib/systemd`) where there is
  a death to come back from.
* Strong fairness, per run and per item, of `SettleRun`, `PollOverride` and `DeliverPending`:
  every tick goes through *all* handles and *all* debts, so none is passed over for ever, but
  each is disabled while the loop is busy.
* An engine that was *asked* to stop ends: it checks between phases and each phase has a
  timeout.  In `DaemonLoop` nothing says a run that was not asked ever ends; `Operations` and
  `EpicRuns` take it from `ComesToRest` that it does.
* The source confirms a report in the end (`SF TellOutcome`): `DebtIsPaid` is about the
  daemon's retries, not the forge's uptime.
* In `Breaker`, strong fairness of a launch: with work waiting and the gate open again and
  again, something is launched.
* `Landing`: time passes (`Pass`), and may pass between any two calls.  `Claims`: each daemon
  takes its next step, is restarted, and a comment left behind grows old.
* `EpicRuns`: a tick comes to every live epic run that has something to do (`Due` leaves out
  the passes that find nothing), and the dispatcher to every queued row.
* No fairness is assumed of people, requests, or the forge's side of a pull request.

## 5. Proofs

All proofs are checked by TLAPS for every value of the constants, from the assumptions named
in the modules (`ConstantsAssumption`, `BreakerAssumption`, `GraphAssumption` and the like:
model values distinct, ids finite where they are counted, budgets natural numbers, a task
graph without cycles).  Those that assume more say so in their
statement (`MergedIsReported`, `RecordsAreClosed`, `ParksHaveAWayOut`,
`ExpiredNeverApplied`, `TwoNeverOrphan`): each leaves out what breaks the property, and the paragraph below says how.  Each module
first strengthens the properties into an inductive invariant, which TLC looked for
counterexamples to before it was proved, then has one lemma per action.  None of the safety properties
is inductive by itself, and what has to be added is what the code relies on without saying so.

| Module | Theorems (property) |
|---|---|
| `DaemonLoopProofs` | `TypeCorrect`, `RepoExclusive` (`OneCodeRunPerRepo`), `SlotsRespected` (`ConcurrencyLimit`), `RunningIsOwned` (`RunningRowOwned`), `LiveAbandonIsFinal` (`LiveAbandonSticks`), `DoneStaysDone` (`DoneIsFinal`), `ChurnIsBounded` (`ChurnBounded`), `MergedIsReported` (`MergedIsHeard`, without the verbs that take debts), `RecordsAreClosed` (`NoPhantomRecord`, of checkout items, with the verbs of `loop`) |
| `DispatchProofs` | of `Breaker`: `BreakerTypeCorrect`, `HalfOpenAdmitsOne` (`OneItemThrough`), `ThresholdGuards` (`OverThresholdIsGuarded`); of `Claims`: `ClaimsTypeCorrect`, `FirstClaimOwns` (`OneOwner`), `FaultsNeverOrphan` (`NeverOrphaned` until a process is killed, any number of daemons), `TwoNeverOrphan` (`NeverOrphaned`, at most two daemons) |
| `ParkingProofs` | `TypeCorrect`, `DecisionsStand` (`DecisionStands`), `OneClickWins` (`OneLandingPerGate`), `DoneMeansLanded` (`DoneIsLanded`), `ParksHaveAWayOut` (`NoStrandedPark`, approvals and the command line's abandon, no crash) |
| `LandingProofs` | `TypeCorrect`, `NoRashMerge` (`SettledMerge`), `UpdatesBounded` (`UpdateBudget`), `ImplementsJudgedMerge` (`KeepsPromise`) |
| `RunEngineProofs` | `TypeCorrect`, `OnlyGatedIsDelivered` (`DeliveredGated`), `OnlyReviewedIsMerged` (`MergedReviewed`), `RoundsArePaid` (`RoundsPaid`) |
| `TaskLanesProofs` | `TypeCorrect`, `DependenciesFirst` (`DepsFirst`), `ImplementsTaskGraph` (`KeepsOrder`) |
| `OperationsProofs` | `TypeCorrect`, `KeyAppliesOnce` (`AppliedOnce`), `VerdictsAreTrue` (`VerdictTrue`), `ExpiredNeverApplied` (`ExpiredUntouched`, without chat commands) |
| `EpicRunsProofs` | `TypeCorrect`, `DependenciesIn` (`OrderKept`), `StoppedIsStopped` (`StopHolds`) |

**`DaemonLoopProofs`**, the two limits.  Admission is decided by `Pick` and the handle appears
only at `Launch`, several writes later.  `IInv` adds that a pinned run is one of its item's,
that a handle belongs to a run the ledger knows, that a job names its item, and
`LaunchReady`: while the loop is in a launch plan, the room and the free repository `Pick` saw
are still there.  It holds because only the loop thread launches, and verbs, crashes and
recovery only ever take handles away: the limits depend on handles alone, and no verb on rows
can break them.

**`DaemonLoopProofs`**, the rows.  A settle decides first and writes the row several writes
later, whatever the row says by then.  `RowInv` is about that window: a row the loop has still
to write runs only on the run being settled, which is over, and is not done (`RowAwaited`); a
running row of a daemon that is up is live, in a launch, or due to be written (`RunningOwned`);
recovery begins with nothing live and leaves nothing running (`BootClean`); and an abandon of
a live run finds no write of the loop on its way (`AbandonKept`), because the handle goes
before the first write of the settle, in one step.  The proof goes through `Moves`, which says
what any step may do to a row, to the loop's job, to a handle and to the process: every
action is reduced to it once, and the five parts are proved from it.  The theorems have all
thirteen verbs, where the run `loop` has six.  For `DoneStaysDone` the
loop's unconditional writes are harmless by `RowAwaited`, and the verbs' statements name the
states they take; that leaves the cancel of a pending resume, which decided on a row it read
and may find it done (section 3).

**`DaemonLoopProofs`**, the budgets.  Neither counter is bounded by anything a step can see: an
attempt is spent by the mark, and what allowed it was the pick, a requeue or a recovery long
before.  `ChurnInv` counts what is on its way beside what is spent: `Credit`, the attempts an
item has coming without another payment (a fresh start, a recovery that will queue it unpinned,
the dispatch under way, two of them once the process is to end), and `Owing`, its resumes (a
grant, a slow verb, a run still in the air whose row is queued).  Verbs, crashes and the first
exhaustion of a run pay one each (`Paid`), and every step moves spending, credit and payment
together.  Two things came out of it.  A crash between the record and the row of an attempt
that was given up leaves the grant on the record and the row running, and recovery grants
again, so the resumes' bound has to count crashes: an earlier one that did not held in the run
and failed with three crashes.  And the engine's refusal to resume an exhausted run
(`Refused`, `engine.py:661`) is needed: a run resumed without a grant could exhaust its rounds
again, and each time be granted a resume that nothing paid for.

**`DaemonLoopProofs`**, the merges.  `HeardInv`: what the loop is about to take from a merged
row is the merge it has told (`Tells`), a merged row owes its merge or nothing (`DebtsTrue`),
and the operator's thread takes no debt (`Mute`).  The last is why `MergedIsReported` leaves
out abandon, retry and grant in the process: each ends by taking the debt it finds, reports
its own decision, and the debt may by then be the merge of a run that landed in between.  The
command line's verbs are in: they write rows, and the loop delivers.

**`DaemonLoopProofs`**, the records.  `PhantomInv`: an open record that nobody executes and no
queued row waits for is `Tended`, by the loop (launching it, or with the write still to come)
or by an abandon of the row it is pinned to.  The delicate part is the abandon's: with a run of
the item in flight it leaves the record to that run's settle (`_cancel_if_current`,
`loop.py:1832`), so the run in flight has to be the pinned one (`LivePinned`).  Admission makes
it so for items that work a checkout; for others it is not so, and there TLC finds a record
left open with abandon, resume and grant, where a live run that lost its pin makes the abandon
stop the wrong one.  The verbs that unpin a row (retry, requeue, relabel), the command line's
abandon, and the cancel of a pending resume leave records to the stale sweep, and are not
verbs of `loop` either.

**`DispatchProofs`**, the breaker.  The two safety theorems speak of the behaviour up to the first status
query or restart, which are exactly the two things that break them; the invariant is
conditional on the same `Undisturbed`, and `StaysUndisturbed` says that once it is false it
stays false.  Under it the invariant says who can be a probe at each point of the dispatcher
(`ProbeTracked`: nobody between the gate and the launch, the run just launched until it is
bound, else the probe), that past the mark a tripped breaker that is not open is half-open
(`GateShut`), and that a count over the threshold is covered at every point but two
(`CountGuarded`).

**`DispatchProofs`**, the claim.  Until a process is killed the winner is unique because its
comment shields it (`Held`): for every daemon still in the race the winner's comment is live
and, once that daemon has posted, ahead of its own, so its verdict is that it lost.  Nothing
takes the shield down: a comment of a claim under way does not age, a rival deletes only what
it found before its own (`ClaimsOK`), and a new request begins a new cycle when nobody is past
the read of the issue (`RequestOK`, which also says that a wanted issue whose trigger is off
has a daemon about to mark it, or a claimed row).  `FirstClaimOwns` and `FaultsNeverOrphan`
follow, for any number of daemons, requests and failed calls.  Deaths need another argument: a
killed winner's comment *is* taken for stale.  What then holds, with every call answered, is
that a wanted issue without its trigger has an heir (`HeirOK`): a claimed row, or a daemon past
the race, or down, whose comment is still in the thread, from which `settle_claim` goes on.
Only a daemon that judges can delete the heir's comment, and with two daemons that leaves it
first in the thread: it wins and is the next heir, by `CycleOK` (one comment per daemon for a
request that is wanted).  With three it may be third to a second that has already lost, and
the issue is lost (section 3): `AtMostTwo` in `TwoNeverOrphan` is what the code needs, and the
proof is how the behaviour was found.

**`ParkingProofs`**.  `IInv` adds that a thread in the middle of anything but an abandon has a
run in hand, and that a running row names its run: without them a gate could be made for no
run at all.  `GateStands` and `HoldStands` say that each write keeps a finished row
finished; the other writers start from an open one.  `ClaimInv` says that a gate in a thread's
hand has left "open", from its claim to the thread's last write about it, so no second click
can claim it, and that a restart finds no thread in the middle of anything.  `LandInv` says
that gates, records and half-written jobs of a code item tell the truth about its pull
request.

**`ParkingProofs`**, the way out.  `ParksHaveAWayOut` has the verbs of `park`, approve and the
command line's abandon, no crash, and any number of runs, landing threads and verbs: this is
as far as the code goes, since a death (section 3), an abandon in the process, a resumed
review and a retry after an abandon each strand a park.  `NoStrandedPark` speaks of a system at
rest; `GateUp` and `HoldUp` say what is true on the way there, that a parked row's gate or hold
is up or in somebody's hand: a landing thread's until its last write, the poll's past its
claim, the operator's between claiming a held publication and queueing it.  The rest of
`ParkInv` is why the hand never lets go too early.  A settle finds no gate on the run it parks
and no wait standing, so what it inserts is not ignored (`Settling`); that holds because a wait
that stands belongs to the pinned run, which has no gate (`Holds`), a code item's run with a
gate is never resumed (`Gates`), and a run that may be resumed has no wait standing
(`Resumable`).  Between the gate and the row anybody may
approve.  `GateUp` therefore speaks of the row about to be written as well (`RowDue`): its
gate is open, or in a landing thread's hand until that thread's last write, or the run is
`overtaken`, which is the exception the property makes and the only one.  What a landing
thread has in hand it claimed alone (`Landings`).  The row is written without a look at its state, and an abandon from another
process may come between any two writes: `ParkClosed` says that a row closed under a handler
leaves nothing for the handler to break, and `ParkLoopRow` that a handler which then parks the
row again does it over a gate or a hold that is up.

**`LandingProofs`**.  `HeadSeen`: the head in hand is the last one seen, and the branch only
moves on from it.  `HeadJudged`: past the checks, and in the queue, that head was judged.
`ClockKept`: the landing's clock for a head is never ahead of the head's age, but for the one
it inherits on entry.  `AskedKept` and `TakenKept`: the counter in the record is at most one
behind the requests, and the process remembers the head it asked for.  The refinement maps
each call to a judgement, a merge of a judged head, or a stutter, and what people do to the
forge's own steps.

**`RunEngineProofs`**.  What a stage takes for granted (`Fit`: a gated tree to deliver, a
pull request to review, an approved one to land) holds of the stage in hand *and* of the stage
a resume would re-enter (`StagesFit`), because the row names the stage before the stage
touches anything (`StageTold`).  `Counted` and `BotOnce` keep the order of a round's writes:
counter, record, task.

**`TaskLanesProofs`**.  A lane was given only to a task whose dependencies are done
(`LaneDeps`), and until a lane raises, what the scheduler counts as settled is what the rows
say (`SettledTrue`); no lane outlives its scheduler (`IdleFree`), so a resume starts from the
rows alone.

**`OperationsProofs`**.  One operation for a key (`KeysOnce`), the claim before the effect
(`ClaimFirst`), and one place for a command in hand: its thread, the loop's request table,
the thread that replaced it, or the settle (`PlacesKept`); a verdict is given by whoever has
it, who then lets it go (`VerdictsKept`).  The places of a call are split by whether its
effect is written (`Before`, `After`): a return and a refusal know the side they are on, and
an exception, which may come on either, leaves the place in the step that writes the record.  `ExpiredNeverApplied` assumes `~ChatUp`, and then
nothing is in hand while recovery judges (`BootQuiet`); with chat commands it does not hold
(section 3).

**`EpicRunsProofs`**.  What the rows say is so, in the table and in the copy a pass works on
(`AllRowsTrue`); a skip is written before anything is admitted on the strength of it
(`SkipsKept`); what a round has left to admit is ready (`LeftReady`) and stays so for the item
that has the run for its parent (`ParentsReady`); and a run follows its items in the queue,
in the pass under way or in the written rows (`QueueFollowed`).  Strengthening it showed what
three controls do not reach: a second run's retry (`epicruns.py`, `retry`) queues an item that
keeps the first, stopped run for its parent, since only `adopt` sets one.  So does an
admission that finds a finished row, until its `Adopt`.  Such an item is in the queue because
somebody else asked, and `asked` says so; it stays so when the adoption never comes (an
exception, a dispatch or a crash between the two transactions).  The task to be adopted is
still one of those the round has left, so that it is ready in the run that adopts it is
`LeftReady`, and that its dependencies are in under the old parent is `ParentsReady`.

Model-checked only:

* every liveness property: fairness and `ENABLED` are beyond this prover.

## 6. Plan

Modules next: `WarmPool` (the warmer against a dispatch and a shutdown),
`WorkerTransport` (timeouts against late results), `Plans` (publication and reconciliation),
`Schedules`, `UsagePool`, `SecretState`, and the projection of jobs into conversations.

### Not modelled

* Inside modelled components: harvest and steering messages in the engine; of plans,
  everything but a plan run's questions and proposal;
  closing a finished epic on the forge and tasks that join it by a re-plan; delegations and
  the operations that do not touch an item; the daemon's side of `awaiting_answers`;
  `delete_work`, `dismiss_work`, usage caps and the provider hold's probe in the loop; how a
  verdict is computed from check runs.
* Whole components: schedules, usage pool, sandboxes, secrets, worker transport and the
  sandbox worker, mailbox, and the collaboration store have state worth a model and are in the
  plan above.  Bridges, API, TUI and forge clients are I/O around the same verbs;
  configuration, schema and text rules are sequential parsing; agent sessions are
  third-party.  These are most of the repository's lines: the models cover the small part that
  coordinates, and no more of the rest can be claimed than that it calls it.
