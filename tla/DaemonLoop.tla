----------------------------- MODULE DaemonLoop -----------------------------
(***************************************************************************)
(* The daemon's loop (daemon/loop.py) over its store (daemon/store.py):    *)
(* queue rows, the run ledger, the engine's run records, the run handles   *)
(* in memory, the operator's verbs from inside the process and from the    *)
(* command line, a crash at any point, and the recovery after it.          *)
(*                                                                         *)
(* Two threads write: the loop thread ("loop") and one operator thread     *)
(* ("op": a chat bridge, the API, the control channel).  Each verb, settle *)
(* and launch is a plan: the ordered list of separate store, sandbox and   *)
(* network writes the code performs.  Every write is a step of its own, so *)
(* the other thread, the command line and a crash can fall between any     *)
(* two.  Time (poll, backoff, caps, holds) only delays a dispatch and is   *)
(* left out: a queued item may be dispatched at any moment.                *)
(***************************************************************************)
EXTENDS Naturals, FiniteSets, Sequences

CONSTANTS
  Items, Runs,        \* work items and run ids
  NoItem, NoRun,      \* "none" for each
  CodeItems,          \* the items whose runs work a repository's checkout
  RepoOf,             \* RepoOf[i]: the repository item i belongs to
  MaxConcurrent,      \* [daemon] max_concurrent_runs
  MaxAttempts,        \* [daemon] max_attempts_per_item
  MaxResumes,         \* [daemon] max_resumes_per_item
  RetryRounds,        \* [landing] retry_rounds
  Ends,               \* the ways a run may end that this instance explores
  Verbs,              \* the operator's verbs this instance explores
  MaxVerbs,           \* bound on operator verbs (and re-applied labels)
  MaxCrashes          \* bound on crashes

AllEnds == {"landed", "blocked", "failed", "exhausted", "died", "cancelled", "provider_held"}

AllVerbs == {"abandon", "retry", "requeue", "cancel", "cancel_retry", "cancel_pending",
             "resume", "grant", "relabel", "stop", "cli_abandon", "cli_retry", "cli_requeue"}

ASSUME ConstantsAssumption ==
  /\ NoItem \notin Items
  /\ NoRun \notin Runs
  /\ CodeItems \subseteq Items
  /\ IsFiniteSet(Runs)
  /\ MaxConcurrent \in Nat \ {0}
  /\ MaxAttempts \in Nat \ {0}
  /\ MaxResumes \in Nat
  /\ RetryRounds \in Nat
  /\ Ends \subseteq AllEnds
  /\ Verbs \subseteq AllVerbs
  /\ MaxVerbs \in Nat
  /\ MaxCrashes \in Nat

VARIABLES
  row,      \* work_items: one row per item, durable
  resumes,  \* run_resumes: how many resumes each item has had, durable
  ledger,   \* daemon_runs: which item a run is for and how it was closed, durable
  rec,      \* the engine's run record (state.db), durable
  rounds,   \* the record's fix-round budget (exhausted, granted_rounds), durable
  boxes,    \* runs whose sandboxes exist on the host, durable
  handle,   \* DaemonLoop._runs: the runs in flight, in memory
  cancels,  \* DaemonLoop._cancel_requests, in memory
  daemon,   \* the process: down, a recovery phase, up or stopping
  job,      \* what each thread is in the middle of, in memory
  heard,    \* the last report the item's source received (external)
  decided,  \* history: an accepted abandon, and what the item was doing then
  verbs,    \* verbs used so far (bound)
  crashes   \* crashes so far (bound)

vars == <<row, resumes, ledger, rec, rounds, boxes, handle, cancels, daemon, job,
          heard, decided, verbs, crashes>>

ItemStates == {"absent", "queued", "running", "done", "failed", "blocked", "cancelled"}
Terminal == {"done", "failed", "blocked", "cancelled"}
Debts == {"none", "abandoned", "requeued", "merged", "blocked"}
Results == {"open", "abandoned", "requeued", "cancelled", "interrupted", "provider_held",
            "done", "blocked", "failed", "exhausted"}
RecordStates == {"none", "active", "provider_held", "landed", "blocked", "failed", "cancelled"}
Phases == {"down", "raised", "claims", "running", "offline", "orphans", "up", "stopping"}
Threads == {"loop", "op"}

(***************************************************************************)
(* The plans.  One entry per thing a thread does in several writes, in the *)
(* order the code makes them.                                              *)
(***************************************************************************)
Plan(do) ==
  CASE do = "claim"           -> <<"claim">>
    [] do = "start"           -> <<"mark", "launch">>
    [] do = "resume"          -> <<"sweep", "remark", "launch">>
    [] do = "provider_resume" -> <<"remark", "launch">>
    [] do = "deliver"         -> <<"pay", "paid">>
    \* _settle_override
    [] do = "overridden"      -> <<"record", "ledger", "pay", "paid">>
    [] do = "dropped"         -> <<"record", "ledger">>
    \* _settle_cancelled
    [] do = "cancelled"       -> <<"record", "ledger", "row", "report">>
    [] do = "cancelled_retry" -> <<"record", "ledger", "row", "again", "report">>
    \* _settle_run and _settle
    [] do = "interrupted"     -> <<"ledger">>
    [] do = "provider_held"   -> <<"record", "ledger", "row">>
    [] do \in {"done", "blocked"}   -> <<"ledger", "row", "look", "pay", "paid">>
    [] do \in {"failed", "given_up"} -> <<"ledger", "record", "row", "report">>
    [] do = "exhausted"       -> <<"record", "ledger", "row", "report">>
    [] do = "handed_over"     -> <<"ledger", "row", "report">>
    \* recover
    [] do \in {"resume_pending", "unstarted"} -> <<"row">>
    [] do \in {"close_abandoned", "close_requeued"} -> <<"sweep", "record", "ledger">>
    \* the operator's verbs
    [] do = "abandon"         -> <<"stop", "sweep", "record", "ledger", "pay", "paid">>
    [] do = "requeue"         -> <<"stop", "sweep", "record", "ledger">>
    [] do = "cancel_pending"  -> <<"row", "record">>
    [] do = "grant"           -> <<"record", "regrant", "pay", "paid">>
    [] OTHER                  -> <<>>

Launching == {"claim", "start", "resume", "provider_resume"}
Settling == {"overridden", "dropped", "cancelled", "cancelled_retry", "interrupted",
             "provider_held", "done", "blocked", "failed", "given_up", "exhausted",
             "handed_over"}
Recovering == {"resume_pending", "unstarted", "close_abandoned", "close_requeued"}
Verbing == {"abandon", "requeue", "cancel_pending", "grant"}
Doing == {"idle", "deliver"} \cup Launching \cup Settling \cup Recovering \cup Verbing

Idle == [do |-> "idle", item |-> NoItem, run |-> NoRun, step |-> 0, kind |-> "none"]

Begin(do, i, r, kind) == [do |-> do, item |-> i, run |-> r, step |-> 1, kind |-> kind]

\* Thread t is about to make write s of its plan.
At(t, s) == job[t].step \in 1..Len(Plan(job[t].do)) /\ Plan(job[t].do)[job[t].step] = s

Advance(t) == IF job[t].step >= Len(Plan(job[t].do)) THEN Idle
              ELSE [job[t] EXCEPT !.step = @ + 1]

Step(t) == job' = [job EXCEPT ![t] = Advance(t)]
Finish(t) == job' = [job EXCEPT ![t] = Idle]

(***************************************************************************)
(* State predicates the code computes.                                     *)
(***************************************************************************)
Live(r) == handle[r].at # "none"
LiveRuns == {r \in Runs : Live(r)}
Fresh(r) == ledger[r].item = NoItem
NonTerminal(r) == rec[r] \in {"active", "provider_held"}
\* _run_is_resumable: mid-flight, or the record was never created
Resumable(r) == NonTerminal(r) \/ rec[r] = "none"
OnRun(i, r) == row[i].state = "running" /\ row[i].run = r
PendingResume(i, r) == row[i].state = "queued" /\ row[i].run = r

Up == daemon \in {"up", "stopping"}
Serial == MaxConcurrent <= 1
\* The loop thread can begin something: one run at a time, it waits for the
\* run it dispatched (_dispatch: _await, then _settle_run).
LoopFree == job["loop"] = Idle /\ daemon = "up" /\ (Serial => LiveRuns = {})

\* Slip: room counted from the rows, which forget a run that is still stopping.
Room_ByRows == Cardinality({i \in Items : row[i].state = "running"}) < MaxConcurrent

Room == Cardinality(LiveRuns) < MaxConcurrent

Conflict(i, j) == i \in CodeItems /\ j \in CodeItems /\ RepoOf[i] = RepoOf[j]

\* Slip: the rows asked instead of the runs in flight.
AdmissionBlocked_ByRows(i) == \E j \in Items : row[j].state = "running" /\ Conflict(i, j)

AdmissionBlocked(i) == \E r \in LiveRuns : Conflict(i, ledger[r].item)

GrantedRetry(r) == rec[r] = "failed" /\ rounds[r] = "granted"

Init ==
  /\ row = [i \in Items |-> [state |-> "absent", run |-> NoRun, attempts |-> 0,
                             claim |-> "no", owed |-> "none"]]
  /\ resumes = [i \in Items |-> 0]
  /\ ledger = [r \in Runs |-> [item |-> NoItem, result |-> "open"]]
  /\ rec = [r \in Runs |-> "none"]
  /\ rounds = [r \in Runs |-> "fresh"]
  /\ boxes = {}
  /\ handle = [r \in Runs |-> [at |-> "none", how |-> "none", stop |-> FALSE]]
  /\ cancels = [r \in Runs |-> "none"]
  /\ daemon = "up"
  /\ job = [t \in Threads |-> Idle]
  /\ heard = [i \in Items |-> "none"]
  /\ decided = [i \in Items |-> "no"]
  /\ verbs = 0
  /\ crashes = 0

process == <<handle, cancels, daemon>>
bounds == <<verbs, crashes>>
external == <<heard, decided>>
records == <<rec, rounds, boxes>>

(***************************************************************************)
(* Discovery and dispatch (the loop thread).                               *)
(***************************************************************************)
\* upsert_new: an issue seen for the first time becomes a queued row.
Discover(i) ==
  /\ LoopFree
  /\ row[i].state = "absent"
  /\ row' = [row EXCEPT ![i] = [@ EXCEPT !.state = "queued"]]
  /\ UNCHANGED <<resumes, ledger, records, process, job, external, bounds>>

\* upsert_new, _requeue_terminal_row: a person re-applied the trigger label to
\* finished work, and only the dispatch bookkeeping is reset.
Relabel(i) ==
  /\ LoopFree
  /\ "relabel" \in Verbs /\ verbs < MaxVerbs
  /\ row[i].state \in Terminal
  /\ row' = [row EXCEPT ![i] = [state |-> "queued", run |-> NoRun, attempts |-> 0,
                                claim |-> "no", owed |-> "none"]]
  /\ decided' = [decided EXCEPT ![i] = "no"]
  /\ verbs' = verbs + 1
  /\ UNCHANGED <<resumes, ledger, records, process, job, heard, crashes>>

\* Slip: off by one on the attempt budget.
Failure_OneMore(i) == IF row[i].attempts <= MaxAttempts THEN "failed" ELSE "given_up"

\* A failed attempt: another one while the budget lasts.
Failure(i) == IF row[i].attempts < MaxAttempts THEN "failed" ELSE "given_up"

\* What _start_item and _resume decide for a queued item, from the row they read.
Dispatch(i) ==
  LET r == row[i].run IN
  IF row[i].claim # "yes" THEN "claim"
  ELSE IF r = NoRun THEN "start"
  ELSE IF rec[r] = "provider_held" THEN "provider_resume"
  ELSE IF GrantedRetry(r) \/ resumes[i] < MaxResumes THEN "resume"
  ELSE Failure(i)

\* _dispatch_pass: a queued item whose repository is free takes a free slot.
Pick(i) ==
  /\ LoopFree
  /\ Room
  /\ row[i].state = "queued"
  /\ ~AdmissionBlocked(i)
  /\ LET do == Dispatch(i) IN
     /\ \/ do = "start" /\ \E r \in Runs :
             Fresh(r) /\ job' = [job EXCEPT !["loop"] = Begin(do, i, r, "none")]
        \/ do # "start" /\ job' = [job EXCEPT !["loop"] = Begin(do, i, row[i].run, "none")]
     /\ row' = IF do = "claim" THEN [row EXCEPT ![i] = [@ EXCEPT !.claim = "posting"]] ELSE row
  /\ UNCHANGED <<resumes, ledger, records, process, external, bounds>>

\* source.claim answered yes: mark_claimed, then the item is dispatched fresh.
ClaimWon ==
  /\ At("loop", "claim")
  /\ LET i == job["loop"].item IN
     /\ row' = [row EXCEPT ![i] = [@ EXCEPT !.claim = "yes"]]
     /\ \E r \in Runs : Fresh(r) /\ job' = [job EXCEPT !["loop"] = Begin("start", i, r, "none")]
  /\ UNCHANGED <<resumes, ledger, records, process, external, bounds>>

\* source.claim answered no: discard, which deletes the row only while it is queued.
ClaimLost ==
  /\ At("loop", "claim")
  /\ LET i == job["loop"].item IN
     row' = IF row[i].state = "queued"
            THEN [row EXCEPT ![i] = [state |-> "absent", run |-> NoRun, attempts |-> 0,
                                     claim |-> "no", owed |-> "none"]]
            ELSE row
  /\ Finish("loop")
  /\ UNCHANGED <<resumes, ledger, records, process, external, bounds>>

\* mark_running: the row and the ledger row in one transaction, whatever the row's state is.
MarkRunning ==
  /\ At("loop", "mark")
  /\ LET i == job["loop"].item  r == job["loop"].run IN
     /\ row' = [row EXCEPT ![i] = [row[i] EXCEPT !.state = "running", !.run = r,
                                                  !.attempts = row[i].attempts + 1]]
     /\ ledger' = [ledger EXCEPT ![r] = [item |-> i, result |-> "open"]]
  /\ Step("loop")
  /\ UNCHANGED <<resumes, records, process, external, bounds>>

\* mark_resuming: conditional on the pin, not on the state.
MarkResuming ==
  /\ At("loop", "remark")
  /\ LET i == job["loop"].item  r == job["loop"].run IN
     /\ row[i].run = r
     /\ row' = [row EXCEPT ![i] = [@ EXCEPT !.state = "running"]]
     /\ resumes' = IF rec[r] = "provider_held" THEN resumes
                   ELSE [resumes EXCEPT ![i] = @ + 1]
  /\ Step("loop")
  /\ UNCHANGED <<ledger, records, process, external, bounds>>

NoHandles == [r \in Runs |-> [at |-> "none", how |-> "none", stop |-> FALSE]]

\* What the end of the process takes with it; the sandboxes stay.
Die(how) ==
  /\ daemon' = how
  /\ handle' = NoHandles
  /\ cancels' = [r \in Runs |-> "none"]
  /\ job' = [t \in Threads |-> Idle]
  /\ UNCHANGED <<row, resumes, ledger, records, external>>

\* mark_resuming found another pin: its KeyError leaves tick and run_forever.
MarkResumingRaises ==
  /\ At("loop", "remark")
  /\ row[job["loop"].item].run # job["loop"].run
  /\ Die("raised")
  /\ UNCHANGED bounds

\* _launch: the handle is registered and the engine thread starts.
Launch ==
  /\ At("loop", "launch")
  /\ handle' = [handle EXCEPT ![job["loop"].run] = [at |-> "running", how |-> "none", stop |-> FALSE]]
  /\ Step("loop")
  /\ UNCHANGED <<row, resumes, ledger, records, cancels, daemon, external, bounds>>

(***************************************************************************)
(* The engine's thread, seen from the loop.                                *)
(***************************************************************************)
\* resume refuses a merged run, and one that used up its fix rounds and was not
\* granted more since: its thread only ends.
Refused(r) == rec[r] = "landed" \/ rounds[r] \in {"exhausted", "spent"}

\* The run record exists (or leaves the state it was resumed from) and its
\* sandboxes are provisioned.
EngineBegin(r) ==
  /\ handle[r].at = "running" /\ ~Refused(r)
  /\ rec[r] # "active" \/ r \notin boxes
  /\ rec' = [rec EXCEPT ![r] = "active"]
  /\ boxes' = boxes \cup {r}
  /\ UNCHANGED <<row, resumes, ledger, rounds, process, job, external, bounds>>

\* The thread ends.  A pair is torn down on the way out, except a provider
\* hold's; a cancellation or an error leaves the record where it was.
EngineEnd(r, how) ==
  /\ handle[r].at = "running"
  /\ how \in Ends
  /\ how # "died" => rec[r] = "active" /\ r \in boxes
  /\ how = "cancelled" => handle[r].stop
  /\ handle' = [handle EXCEPT ![r] = [@ EXCEPT !.at = "ended", !.how = how]]
  /\ rec' = [rec EXCEPT ![r] = CASE how \in {"died", "cancelled"} -> @
                                 [] how = "exhausted" -> "failed"
                                 [] OTHER -> how]
  /\ rounds' = [rounds EXCEPT ![r] = IF how # "exhausted" THEN @
                                     ELSE IF @ = "granted" THEN "spent" ELSE "exhausted"]
  /\ boxes' = IF how = "provider_held" THEN boxes ELSE boxes \ {r}
  /\ UNCHANGED <<row, resumes, ledger, cancels, daemon, job, external, bounds>>

(***************************************************************************)
(* Settling (the loop thread).                                             *)
(***************************************************************************)
\* Slip: only the pin compared; an abandoned row keeps its pin.
Overridden_ByPin(r) == row[ledger[r].item].run # r

\* _operator_override: the row is no longer running on this run.
Overridden(r) ==
  LET i == ledger[r].item IN row[i].state # "absent" /\ ~OnRun(i, r)

\* Slip: only an abandon is honoured, not a requeue.
PollOverride_AbandonOnly(r) ==
  /\ job["loop"] = Idle /\ Up
  /\ handle[r].at = "running" /\ ~handle[r].stop
  /\ row[ledger[r].item].state = "failed"
  /\ handle' = [handle EXCEPT ![r] = [@ EXCEPT !.stop = TRUE]]
  /\ UNCHANGED <<row, resumes, ledger, records, cancels, daemon, job, external, bounds>>

\* _poll_overrides, between the waits of _await and in every _reap.
PollOverride(r) ==
  /\ job["loop"] = Idle /\ Up
  /\ handle[r].at = "running" /\ ~handle[r].stop
  /\ Overridden(r)
  /\ handle' = [handle EXCEPT ![r] = [@ EXCEPT !.stop = TRUE]]
  /\ UNCHANGED <<row, resumes, ledger, records, cancels, daemon, job, external, bounds>>

\* _settle: how the run ended into what happens to the item.
Outcome(i, r, how) ==
  CASE how = "landed"        -> "done"
    [] how = "blocked"       -> "blocked"
    [] how = "provider_held" -> "provider_held"
    [] how = "exhausted"     -> IF rounds[r] = "exhausted" /\ RetryRounds > 0
                                THEN "exhausted" ELSE "handed_over"
    [] OTHER                 -> Failure(i)

\* Slip: a run stopped at a boundary read as a shutdown even when none was asked.
Verdict_Interrupted(r) ==
  IF Overridden(r) THEN IF row[ledger[r].item].state = "failed" THEN "overridden" ELSE "dropped"
  ELSE IF handle[r].how \in {"died", "cancelled"} /\ Resumable(r) THEN "interrupted"
  ELSE Outcome(ledger[r].item, r, handle[r].how)

\* _settle_run: the operator's decision first, then a cancel that took
\* effect, then a shutdown at a boundary, then the run's own outcome.
Verdict(r) ==
  LET i == ledger[r].item
      stopped == handle[r].how = "cancelled" /\ Resumable(r)
      cut == handle[r].how \in {"died", "cancelled"} /\ Resumable(r)
  IN IF Overridden(r) THEN IF row[i].state = "failed" THEN "overridden" ELSE "dropped"
     ELSE IF cancels[r] = "cancel" /\ stopped THEN "cancelled"
     ELSE IF cancels[r] = "retry" /\ stopped THEN "cancelled_retry"
     ELSE IF daemon = "stopping" /\ cut THEN "interrupted"
     ELSE Outcome(i, r, handle[r].how)

\* _reap, _settle_run: the slot is freed, the cancel request consumed (and
\* the stale ones dropped), and the verdict's writes follow.
SettleRun(r) ==
  /\ job["loop"] = Idle /\ Up
  /\ handle[r].at = "ended"
  /\ LET i == ledger[r].item  v == Verdict(r) IN
     job' = [job EXCEPT !["loop"] =
               Begin(v, i, r, IF v = "overridden" THEN row[i].owed ELSE "none")]
  /\ handle' = [handle EXCEPT ![r] = [at |-> "none", how |-> "none", stop |-> FALSE]]
  /\ cancels' = [s \in Runs |-> IF s # r /\ Live(s) THEN cancels[s] ELSE "none"]
  /\ UNCHANGED <<row, resumes, ledger, records, daemon, external, bounds>>

(***************************************************************************)
(* The writes of a plan, shared by the two threads.                        *)
(***************************************************************************)
\* _remove_stale_run_sandboxes
Sweep(t) ==
  /\ At(t, "sweep")
  /\ boxes' = boxes \ {job[t].run}
  /\ Step(t)
  /\ UNCHANGED <<row, resumes, ledger, rec, rounds, process, external, bounds>>

\* Slip: a failed attempt leaves its record as the engine left it (#374).
RecordAfter_LeftOpen(do, r) ==
  CASE do \in {"exhausted", "grant", "failed", "given_up"} -> rec[r]
    [] do = "provider_held"            -> "provider_held"
    [] do = "cancel_pending"           -> "cancelled"
    [] OTHER                           -> IF NonTerminal(r) THEN "cancelled" ELSE rec[r]

\* The run record's state after thread t's write: _end_run_cancelled and
\* _close_run_record leave a terminal record alone, cancel_run and a provider
\* hold write whatever is there, a grant only moves the fix rounds.
RecordAfter(do, r) ==
  CASE do \in {"exhausted", "grant"}   -> rec[r]
    [] do = "provider_held"            -> "provider_held"
    [] do = "cancel_pending"           -> "cancelled"
    [] do \in {"failed", "given_up"}   -> IF NonTerminal(r) THEN "failed" ELSE rec[r]
    [] OTHER                           -> IF NonTerminal(r) THEN "cancelled" ELSE rec[r]

WriteRecord(t) ==
  /\ At(t, "record")
  /\ LET r == job[t].run  do == job[t].do IN
     /\ rec' = [rec EXCEPT ![r] = RecordAfter(do, r)]
     /\ rounds' = IF do \in {"exhausted", "grant"} THEN [rounds EXCEPT ![r] = "granted"] ELSE rounds
  /\ Step(t)
  /\ UNCHANGED <<row, resumes, ledger, boxes, process, external, bounds>>

LedgerAfter(do) ==
  CASE do \in {"overridden", "abandon", "close_abandoned"} -> "abandoned"
    [] do \in {"dropped", "requeue", "close_requeued"}     -> "requeued"
    [] do = "cancelled_retry"                              -> "cancelled"
    [] do \in {"given_up", "handed_over"}                  -> "failed"
    [] OTHER                                               -> do

\* finish_ledger
WriteLedger(t) ==
  /\ At(t, "ledger")
  /\ ledger' = [ledger EXCEPT ![job[t].run] = [@ EXCEPT !.result = LedgerAfter(job[t].do)]]
  /\ Step(t)
  /\ UNCHANGED <<row, resumes, records, process, external, bounds>>

\* Slip: a resume left pending without moving the row out of "running".
RowAfter_KeepsRunning(do, w) ==
  CASE do = "done"    -> [w EXCEPT !.state = "done", !.owed = "merged"]
    [] do = "blocked" -> [w EXCEPT !.state = "blocked", !.owed = "blocked"]
    [] do \in {"failed", "unstarted"} -> [w EXCEPT !.state = "queued", !.run = NoRun]
    [] do \in {"given_up", "handed_over"} -> [w EXCEPT !.state = "failed"]
    [] OTHER          -> w

\* mark_done, mark_blocked, mark_failed, mark_exhausted, mark_resume_pending,
\* mark_cancelled, mark_requeued_unstarted: none looks at the row's state.
RowAfter(do, w) ==
  CASE do = "done"    -> [w EXCEPT !.state = "done", !.owed = "merged"]
    [] do = "blocked" -> [w EXCEPT !.state = "blocked", !.owed = "blocked"]
    [] do \in {"failed", "unstarted"} -> [w EXCEPT !.state = "queued", !.run = NoRun]
    [] do \in {"given_up", "handed_over"} -> [w EXCEPT !.state = "failed"]
    [] do \in {"cancelled", "cancelled_retry", "cancel_pending"} -> [w EXCEPT !.state = "cancelled"]
    [] OTHER          -> [w EXCEPT !.state = "queued"]

WriteRow(t) ==
  /\ At(t, "row")
  /\ LET i == job[t].item IN
     row' = IF row[i].state = "absent" THEN row
            ELSE [row EXCEPT ![i] = RowAfter(job[t].do, @)]
  /\ Step(t)
  /\ UNCHANGED <<resumes, ledger, records, process, external, bounds>>

\* DaemonStore.retry's transition; the accepted states are its guard.
Retryable == {"failed", "blocked", "cancelled", "queued"}
Retried(w, owed) == [w EXCEPT !.state = "queued", !.attempts = 0, !.run = NoRun, !.owed = owed]

\* _settle_cancelled with retry: retry, then take_pending_report.
CancelledAgain ==
  /\ At("loop", "again")
  /\ LET i == job["loop"].item IN
     row' = IF row[i].state \in Retryable THEN [row EXCEPT ![i] = Retried(@, "none")] ELSE row
  /\ Step("loop")
  /\ UNCHANGED <<resumes, ledger, records, process, external, bounds>>

\* The reports _settle makes directly, with no debt recorded.
Report ==
  /\ At("loop", "report")
  /\ heard' = [heard EXCEPT ![job["loop"].item] =
                 CASE job["loop"].do \in {"failed", "exhausted"} -> "retry"
                   [] job["loop"].do \in {"given_up", "handed_over"} -> "abandoned"
                   [] OTHER -> "cancelled"]
  /\ Step("loop")
  /\ UNCHANGED <<row, resumes, ledger, records, process, decided, bounds>>

\* _settle reads the row back for the report it owes.
LookUp ==
  /\ At("loop", "look")
  /\ LET i == job["loop"].item IN
     job' = [job EXCEPT !["loop"] = [Advance("loop") EXCEPT !.kind = row[i].owed]]
  /\ UNCHANGED <<row, resumes, ledger, records, process, external, bounds>>

(***************************************************************************)
(* _deliver_report.  A run's outcome is told first and its debt taken once *)
(* the source confirms; an operator's decision is taken first, then told.  *)
(***************************************************************************)
Outcomes == {"merged", "blocked"}
Decisions == {"abandoned", "requeued"}

TellOutcome(t) ==
  /\ At(t, "pay") /\ job[t].kind \in Outcomes
  /\ heard' = [heard EXCEPT ![job[t].item] = job[t].kind]
  /\ Step(t)
  /\ UNCHANGED <<row, resumes, ledger, records, process, decided, bounds>>

\* Slip: the debt recorded as paid although the source did not confirm.
OutcomeRefused_Forgets(t) ==
  /\ At(t, "pay") /\ job[t].kind \in Outcomes
  /\ row' = [row EXCEPT ![job[t].item] = [@ EXCEPT !.owed = "none"]]
  /\ Finish(t)
  /\ UNCHANGED <<resumes, ledger, records, process, external, bounds>>

\* The source did not confirm: the debt stays for the next tick.
OutcomeRefused(t) ==
  /\ At(t, "pay") /\ job[t].kind \in Outcomes
  /\ Finish(t)
  /\ UNCHANGED <<row, resumes, ledger, records, process, external, bounds>>

TakeOutcome(t) ==
  /\ At(t, "paid") /\ job[t].kind \in Outcomes
  /\ row' = [row EXCEPT ![job[t].item] = [@ EXCEPT !.owed = "none"]]
  /\ Finish(t)
  /\ UNCHANGED <<resumes, ledger, records, process, external, bounds>>

TakeDecision(t) ==
  /\ At(t, "pay") /\ job[t].kind \notin Outcomes
  /\ LET i == job[t].item IN
     IF job[t].kind \in Decisions /\ row[i].owed # "none"
     THEN row' = [row EXCEPT ![i] = [@ EXCEPT !.owed = "none"]] /\ Step(t)
     ELSE row' = row /\ Finish(t)
  /\ UNCHANGED <<resumes, ledger, records, process, external, bounds>>

TellDecision(t) ==
  /\ At(t, "paid") /\ job[t].kind \in Decisions
  /\ heard' = [heard EXCEPT ![job[t].item] = job[t].kind]
  /\ Finish(t)
  /\ UNCHANGED <<row, resumes, ledger, records, process, decided, bounds>>

\* Slip: only operator decisions are swept.
DeliverPending_DecisionsOnly(i) ==
  /\ LoopFree \/ (job["loop"] = Idle /\ daemon = "orphans")
  /\ row[i].owed \in Decisions
  /\ job' = [job EXCEPT !["loop"] = Begin("deliver", i, NoRun, row[i].owed)]
  /\ UNCHANGED <<row, resumes, ledger, records, process, external, bounds>>

\* _deliver_pending_reports: every tick, and at the end of recovery.
DeliverPending(i) ==
  /\ LoopFree \/ (job["loop"] = Idle /\ daemon = "orphans")
  /\ row[i].owed # "none"
  /\ job' = [job EXCEPT !["loop"] = Begin("deliver", i, NoRun, row[i].owed)]
  /\ UNCHANGED <<row, resumes, ledger, records, process, external, bounds>>

\* _reconcile_run_record
Reconciled(r) == IF row[ledger[r].item].state = "cancelled" THEN "cancelled" ELSE "failed"

\* A record nobody executes and no queued row will resume.
Orphan(r) ==
  /\ NonTerminal(r) /\ ~Live(r)
  /\ ~PendingResume(ledger[r].item, r)

\* _reconcile_stale_runs: the tick's sweep, after run_stale_after_s of silence.
StaleSweep(r) ==
  /\ LoopFree
  /\ Orphan(r)
  /\ rec' = [rec EXCEPT ![r] = Reconciled(r)]
  /\ UNCHANGED <<row, resumes, ledger, rounds, boxes, process, job, external, bounds>>

(***************************************************************************)
(* The operator's verbs, in the process ("op" thread) and from the command *)
(* line, which only ever writes the row.                                   *)
(***************************************************************************)
\* Slip: a settled item accepted too.
Abandonable_Settled == {"queued", "running", "blocked", "done"}

Abandonable == {"queued", "running", "blocked"}

Abandoned(w) == [w EXCEPT !.state = "failed", !.owed = "abandoned"]
Requeued(w) == [w EXCEPT !.state = "queued", !.run = NoRun]

\* What the item was doing when its abandon was accepted (history only).
WhenAbandoned(i) ==
  IF row[i].state = "queued" THEN "queued"
  ELSE IF row[i].state = "running" /\ Live(row[i].run) THEN "live"
  ELSE "other"

May(verb) == verb \in Verbs /\ verbs < MaxVerbs /\ verbs' = verbs + 1
OpFree == job["op"] = Idle /\ Up
\* A verb of the operator's thread starts its plan; the command line's verbs need no daemon.
OpBegins(do, i, r, kind) == job' = [job EXCEPT !["op"] = Begin(do, i, r, kind)]

\* abandon_item: the row by compare-and-set, then the run or its remains, then the report.
AbandonItem(i) ==
  /\ OpFree /\ May("abandon")
  /\ row[i].state \in Abandonable
  /\ row' = [row EXCEPT ![i] = Abandoned(@)]
  /\ decided' = [decided EXCEPT ![i] = WhenAbandoned(i)]
  /\ OpBegins("abandon", i, row[i].run, "abandoned")
  /\ UNCHANGED <<resumes, ledger, records, process, heard, crashes>>

CliAbandon(i) ==
  /\ May("cli_abandon")
  /\ row[i].state \in Abandonable
  /\ row' = [row EXCEPT ![i] = Abandoned(@)]
  /\ decided' = [decided EXCEPT ![i] = WhenAbandoned(i)]
  /\ UNCHANGED <<resumes, ledger, records, process, job, heard, crashes>>

\* retry_item: the row, then the report.
RetryItem(i) ==
  /\ OpFree /\ May("retry")
  /\ row[i].state \in Retryable
  /\ row' = [row EXCEPT ![i] = Retried(@, "requeued")]
  /\ decided' = [decided EXCEPT ![i] = "no"]
  /\ OpBegins("deliver", i, NoRun, "requeued")
  /\ UNCHANGED <<resumes, ledger, records, process, heard, crashes>>

CliRetry(i) ==
  /\ May("cli_retry")
  /\ row[i].state \in Retryable
  /\ row' = [row EXCEPT ![i] = Retried(@, "requeued")]
  /\ decided' = [decided EXCEPT ![i] = "no"]
  /\ UNCHANGED <<resumes, ledger, records, process, job, heard, crashes>>

\* requeue_item: the pin is read first, the row written, then the run or its remains.
RequeueItem(i) ==
  /\ OpFree /\ May("requeue")
  /\ row[i].state \in {"queued", "running"}
  /\ row' = [row EXCEPT ![i] = Requeued(@)]
  /\ OpBegins("requeue", i, row[i].run, "none")
  /\ UNCHANGED <<resumes, ledger, records, process, external, crashes>>

CliRequeue(i) ==
  /\ May("cli_requeue")
  /\ row[i].state \in {"queued", "running"}
  /\ row' = [row EXCEPT ![i] = Requeued(@)]
  /\ UNCHANGED <<resumes, ledger, records, process, job, external, crashes>>

\* _cancel_if_current: every handle of the item is asked to stop; with none,
\* a pinned run is dead and is closed, and an unpinned item has nothing to close.
StopCurrent ==
  /\ At("op", "stop")
  /\ LET i == job["op"].item
         mine == {r \in LiveRuns : ledger[r].item = i}
     IN /\ handle' = [r \in Runs |-> IF r \in mine THEN [handle[r] EXCEPT !.stop = TRUE]
                                     ELSE handle[r]]
        /\ job' = [job EXCEPT !["op"] =
                     IF mine # {} THEN Idle
                     ELSE IF job["op"].run # NoRun THEN Advance("op")
                     ELSE IF job["op"].do = "abandon" THEN Begin("deliver", i, NoRun, "abandoned")
                     ELSE Idle]
  /\ UNCHANGED <<row, resumes, ledger, records, cancels, daemon, external, bounds>>

\* cancel_run on the run in flight: the request is recorded and the engine asked.
CancelRun(r, retry) ==
  /\ OpFree /\ May(IF retry THEN "cancel_retry" ELSE "cancel")
  /\ Live(r)
  /\ cancels' = [cancels EXCEPT ![r] = IF retry THEN "retry" ELSE "cancel"]
  /\ handle' = [handle EXCEPT ![r] = [@ EXCEPT !.stop = TRUE]]
  /\ UNCHANGED <<row, resumes, ledger, records, daemon, job, external, crashes>>

\* cancel_run and cancel_provider on a run waiting for its resume.
CancelPending(r) ==
  /\ OpFree /\ May("cancel_pending")
  /\ ~Live(r) /\ ~Fresh(r) /\ rec[r] # "none"
  /\ PendingResume(ledger[r].item, r)
  /\ OpBegins("cancel_pending", ledger[r].item, r, "none")
  /\ UNCHANGED <<row, resumes, ledger, records, process, external, crashes>>

\* resume_run, admit_resume: an operator puts a settled run back in the queue.
ResumeRun(r) ==
  /\ OpFree /\ May("resume")
  /\ ~Live(r) /\ ~Fresh(r) /\ rec[r] \in {"active", "provider_held", "failed", "blocked", "cancelled"}
  /\ rounds[r] # "exhausted"
  /\ LET i == ledger[r].item IN
     /\ row[i].run = r /\ row[i].state \in {"queued", "cancelled", "failed"}
     /\ resumes[i] < MaxResumes
     /\ row' = [row EXCEPT ![i] = [@ EXCEPT !.state = "queued"]]
     /\ decided' = [decided EXCEPT ![i] = "no"]
  /\ UNCHANGED <<resumes, ledger, records, process, job, heard, crashes>>

\* grant_rounds: the rounds are granted before the row is asked.
GrantRounds(r) ==
  /\ OpFree /\ May("grant")
  /\ ~Fresh(r) /\ rec[r] = "failed" /\ rounds[r] # "fresh"
  /\ LET i == ledger[r].item IN
     /\ row[i].run = r /\ row[i].state # "running"
     /\ OpBegins("grant", i, r, "none")
  /\ UNCHANGED <<row, resumes, ledger, records, process, external, crashes>>

\* resume_exhausted: refused unless the item is failed or queued on this run.
Regrant ==
  /\ At("op", "regrant")
  /\ LET i == job["op"].item  w == row[i] IN
     IF w.run = job["op"].run /\ w.state \in {"failed", "queued"}
     THEN LET owed == IF w.state = "failed" THEN "requeued" ELSE w.owed IN
          /\ row' = [row EXCEPT ![i] = [@ EXCEPT !.state = "queued", !.owed = owed]]
          /\ decided' = [decided EXCEPT ![i] = "no"]
          /\ job' = [job EXCEPT !["op"] = [Advance("op") EXCEPT !.kind = owed]]
     ELSE UNCHANGED <<row, decided>> /\ Finish("op")
  /\ UNCHANGED <<resumes, ledger, records, process, heard, bounds>>

(***************************************************************************)
(* The process: shutdown, crash, restart, recovery.                        *)
(***************************************************************************)
\* request_stop lets the runs finish; quiesce asks them to stop.
StopDaemon(now) ==
  /\ daemon = "up" /\ May("stop")
  /\ daemon' = "stopping"
  /\ handle' = [r \in Runs |-> IF now /\ Live(r) THEN [handle[r] EXCEPT !.stop = TRUE]
                               ELSE handle[r]]
  /\ UNCHANGED <<row, resumes, ledger, records, cancels, job, external, crashes>>

\* drain returned: every run is settled and the process ends.
Exit ==
  /\ daemon = "stopping" /\ LiveRuns = {}
  /\ job["loop"] = Idle
  /\ Die("down")
  /\ UNCHANGED bounds

Crash ==
  /\ daemon \notin {"down", "raised"} /\ crashes < MaxCrashes
  /\ crashes' = crashes + 1
  /\ Die("down")
  /\ UNCHANGED verbs

Restart ==
  /\ daemon \in {"down", "raised"}
  /\ daemon' = "claims"
  /\ UNCHANGED <<row, resumes, ledger, records, handle, cancels, job, external, bounds>>

HalfClaimed(i) == row[i].state = "queued" /\ row[i].claim = "posting"

\* _settle_half_claims: the source says whether the claim reached it.
SettleHalfClaim(i, landed) ==
  /\ daemon = "claims" /\ HalfClaimed(i)
  /\ row' = [row EXCEPT ![i] = [@ EXCEPT !.claim = IF landed THEN "yes" ELSE "no"]]
  /\ UNCHANGED <<resumes, ledger, records, process, job, external, bounds>>

\* What recover decides for a row a dead process left running.
Recovery(i) ==
  LET r == row[i].run IN
  CASE rec[r] = "none"                      -> "unstarted"
    [] rec[r] = "landed"                    -> "done"
    [] rec[r] = "blocked"                   -> "blocked"
    [] rec[r] \in {"failed", "cancelled"}   -> Failure(i)
    [] OTHER                                -> "resume_pending"

RecoverRunning(i) ==
  /\ daemon = "running" /\ job["loop"] = Idle
  /\ row[i].state = "running"
  /\ job' = [job EXCEPT !["loop"] = Begin(Recovery(i), i, row[i].run, "none")]
  /\ UNCHANGED <<row, resumes, ledger, records, process, external, bounds>>

\* unsettled_runs, and the two shapes an offline override leaves.
Unsettled(r) == ~Fresh(r) /\ ledger[r].result \in {"open", "interrupted"}
OfflineAbandon(r) == Unsettled(r) /\ row[ledger[r].item].state = "failed" /\ row[ledger[r].item].run = r
OfflineRequeue(r) == Unsettled(r) /\ row[ledger[r].item].state = "queued" /\ row[ledger[r].item].run # r

\* _settle_offline_overrides: close what the command line could only flip.
SettleOffline(r) ==
  /\ daemon = "offline" /\ job["loop"] = Idle
  /\ OfflineAbandon(r) \/ OfflineRequeue(r)
  /\ job' = [job EXCEPT !["loop"] =
               Begin(IF OfflineAbandon(r) THEN "close_abandoned" ELSE "close_requeued",
                     ledger[r].item, r, "none")]
  /\ UNCHANGED <<row, resumes, ledger, records, process, external, bounds>>

\* _reconcile_orphan_runs
ReconcileOrphan(r) ==
  /\ daemon = "orphans" /\ job["loop"] = Idle
  /\ Orphan(r)
  /\ rec' = [rec EXCEPT ![r] = Reconciled(r)]
  /\ UNCHANGED <<row, resumes, ledger, rounds, boxes, process, job, external, bounds>>

\* recover moves on when a phase has nothing left to do.
RecoverNext ==
  /\ job["loop"] = Idle
  /\ \/ daemon = "claims" /\ (\A i \in Items : ~HalfClaimed(i)) /\ daemon' = "running"
     \/ daemon = "running" /\ (\A i \in Items : row[i].state # "running") /\ daemon' = "offline"
     \/ daemon = "offline" /\ (\A r \in Runs : ~OfflineAbandon(r) /\ ~OfflineRequeue(r))
                           /\ daemon' = "orphans"
     \/ daemon = "orphans" /\ (\A r \in Runs : ~Orphan(r)) /\ daemon' = "up"
  /\ UNCHANGED <<row, resumes, ledger, records, handle, cancels, job, external, bounds>>

-----------------------------------------------------------------------------
Write(t) == \/ Sweep(t) \/ WriteRecord(t) \/ WriteLedger(t) \/ WriteRow(t)
            \/ TellOutcome(t) \/ OutcomeRefused(t) \/ TakeOutcome(t)
            \/ TakeDecision(t) \/ TellDecision(t)

LoopStep ==
  \/ ClaimWon \/ ClaimLost \/ MarkRunning \/ MarkResuming \/ MarkResumingRaises \/ Launch
  \/ Write("loop") \/ CancelledAgain \/ Report \/ LookUp

Tick ==
  \/ \E i \in Items : Discover(i) \/ Pick(i) \/ DeliverPending(i)
  \/ \E r \in Runs : PollOverride(r) \/ SettleRun(r) \/ StaleSweep(r)

Engine == \E r \in Runs : EngineBegin(r) \/ \E how \in Ends : EngineEnd(r, how)

OpStep == Write("op") \/ StopCurrent \/ Regrant

Operator ==
  \/ \E i \in Items : \/ AbandonItem(i) \/ RetryItem(i) \/ RequeueItem(i)
                      \/ CliAbandon(i) \/ CliRetry(i) \/ CliRequeue(i) \/ Relabel(i)
  \/ \E r \in Runs : \/ CancelPending(r) \/ ResumeRun(r) \/ GrantRounds(r)
                     \/ \E retry \in BOOLEAN : CancelRun(r, retry)
  \/ \E now \in BOOLEAN : StopDaemon(now)

Recover ==
  \/ Restart \/ RecoverNext
  \/ \E i \in Items : RecoverRunning(i) \/ \E landed \in BOOLEAN : SettleHalfClaim(i, landed)
  \/ \E r \in Runs : SettleOffline(r) \/ ReconcileOrphan(r)

Next == Tick \/ LoopStep \/ Engine \/ Operator \/ OpStep \/ Recover \/ Exit \/ Crash

Spec == Init /\ [][Next]_vars

\* An engine asked to stop reaches a boundary (or dies); nothing makes one that was
\* not asked ever end.
StoppedEngineEnds(r) == handle[r].stop /\ \E how \in Ends : EngineEnd(r, how)

\* Each thread finishes what it started; every tick looks at every handle and every
\* debt (so strong fairness per run and per item); the source confirms in the end;
\* the supervisor restarts the process and recover has no other work than its own.
Fairness ==
  /\ WF_vars(LoopStep) /\ WF_vars(OpStep) /\ WF_vars(Recover)
  /\ \A t \in Threads : SF_vars(TellOutcome(t))
  /\ \A i \in Items : SF_vars(DeliverPending(i))
  /\ \A r \in Runs : /\ SF_vars(SettleRun(r)) /\ SF_vars(PollOverride(r))
                     /\ WF_vars(StoppedEngineEnds(r))

FairSpec == Spec /\ Fairness

(***************************************************************************)
(* Properties.                                                             *)
(***************************************************************************)
RowType == [state : ItemStates, run : Runs \cup {NoRun}, attempts : Nat,
            claim : {"no", "posting", "yes"}, owed : Debts]
HandleType == [at : {"none", "running", "ended"}, how : AllEnds \cup {"none"}, stop : BOOLEAN]
JobType == [do : Doing, item : Items \cup {NoItem}, run : Runs \cup {NoRun}, step : Nat, kind : Debts]

\* Every variable holds a value of its kind.
TypeOK ==
  /\ row \in [Items -> RowType]
  /\ resumes \in [Items -> Nat]
  /\ ledger \in [Runs -> [item : Items \cup {NoItem}, result : Results]]
  /\ rec \in [Runs -> RecordStates]
  /\ rounds \in [Runs -> {"fresh", "exhausted", "granted", "spent"}]
  /\ boxes \subseteq Runs
  /\ handle \in [Runs -> HandleType]
  /\ cancels \in [Runs -> {"none", "cancel", "retry"}]
  /\ daemon \in Phases
  /\ job \in [Threads -> JobType]
  /\ heard \in [Items -> Debts \cup {"retry", "cancelled"}]
  /\ decided \in [Items -> {"no", "queued", "live", "other"}]
  /\ verbs \in Nat
  /\ crashes \in Nat

\* Two code runs never work one repository at once (_admission_blocked), whatever
\* operators requeue, abandon or resume while a run is still stopping.
OneCodeRunPerRepo ==
  \A r, s \in LiveRuns : Conflict(ledger[r].item, ledger[s].item) => r = s

\* _dispatch_pass never has more runs in flight than max_concurrent_runs.
ConcurrencyLimit == Cardinality(LiveRuns) <= MaxConcurrent

\* While the daemon is up a row says "running" only for a run that is in flight,
\* being launched or being settled: no interleaving of _settle_run, the operator's
\* verbs and recover strands an item in "running" with nobody to settle it.
RunningRowOwned ==
  daemon = "up" => \A i \in Items : row[i].state = "running" =>
    \/ Live(row[i].run)
    \/ job["loop"].item = i /\ job["loop"].do \in Launching \cup Settling

\* An abandon accepted while the item's run is in flight is final: neither the run's
\* own outcome (_settle_override), nor a crash and recovery, re-opens the item.
LiveAbandonSticks ==
  \A i \in Items : decided[i] = "live" => row[i].state \notin {"queued", "running"}

\* A merged item stays merged: no late settle, verb or recovery moves it anywhere but
\* back to the queue by a re-applied trigger label. One writer does: a cancel that found
\* the item waiting for its resume and writes its row after the resumed run has merged.
LateCancel(i) == job["op"].do = "cancel_pending" /\ job["op"].item = i
DoneIsFinal ==
  [][\A i \in Items : row[i].state = "done" =>
       \/ row'[i].state \in {"done", "queued"}
       \/ row'[i].state = "cancelled" /\ LateCancel(i)]_vars

\* The same without that cancel, which does not hold.
DoneIsFinalAlways ==
  [][\A i \in Items : row[i].state = "done" => row'[i].state \in {"done", "queued"}]_vars

\* The retry and resume budgets bound what the daemon does on its own: beyond them
\* only an operator's verb, a crash or a fix-round grant adds an attempt or a resume.
ChurnBounded ==
  \A i \in Items :
    /\ row[i].attempts <= MaxAttempts + verbs + crashes
    /\ resumes[i] <= MaxResumes + verbs + crashes
                     + Cardinality({r \in Runs : ledger[r].item = i /\ rounds[r] # "fresh"})

\* Both threads at rest, no record says a run is active that nobody executes and no
\* queued row will resume (#374): every settle, verb and recovery closes its record.
NoPhantomRecord ==
  daemon = "up" /\ job["loop"] = Idle /\ job["op"] = Idle => \A r \in Runs : ~Orphan(r)

\* A merged item whose debt is gone has been reported merged to its source, whatever
\* crashed or was refused on the way.
MergedIsHeard ==
  \A i \in Items : row[i].state = "done" /\ row[i].owed = "none" => heard[i] = "merged"

\* A run whose row an operator took away, from this process or another, is always
\* taken down and settled, with no further operator step (_poll_overrides).
OverriddenRunComesDown ==
  \A r \in Runs : (Live(r) /\ ~OnRun(ledger[r].item, r)) ~> ~Live(r)

\* A report owed to the source is not owed for ever: refusals, crashes and restarts
\* only delay it (pending_report, _deliver_pending_reports).
DebtIsPaid == \A i \in Items : row[i].owed # "none" ~> row[i].owed = "none"

\* A daemon that went down comes back up: no state a crash leaves behind keeps
\* recover from finishing.
RecoveryCompletes == daemon \notin {"up", "stopping"} ~> daemon = "up"

\* An abandon accepted for a running item is final, even while its run is being settled.
SettlingAbandonSticks ==
  \A i \in Items : decided[i] = "other" => row[i].state \notin {"queued", "running"}

\* No operator verb makes the loop thread raise out of its tick.
TickNeverRaises == daemon # "raised"
=============================================================================
