------------------------------- MODULE Parking -------------------------------
(***************************************************************************)
(* How a finished run waits for a person (daemon/loop.py, daemon/store.py): *)
(* a merge gate, a held publication, a review wait.  The queue row of one  *)
(* item, one gate row and one review-hold row per run of it, the pull      *)
(* request and its reviews on the forge, and the threads that settle,      *)
(* poll, approve, abandon and land.  Every store write is a step of its    *)
(* own; the launch of a run, whose window DaemonLoop models, is one step.  *)
(* Parks of different items share nothing but the threads.                 *)
(***************************************************************************)
EXTENDS Naturals

CONSTANTS
  Runs, NoRun,
  Landers,     \* landing threads that may be alive at once (bound)
  Kinds,       \* what the item may be: code, or a workload whose profile holds its result
  Parks,       \* how a run of the item may park
  Verbs,       \* the operator's verbs this instance explores
  MaxVerbs,    \* bound on the operator's verbs
  MaxCrashes   \* bound on crashes

AllKinds == {"code", "workload"}
AllParks == {"gated", "held", "awaiting_review"}
AllVerbs == {"approve", "abandon", "cli_abandon", "retry", "resume_review"}

ASSUME ParkingAssumption ==
  /\ NoRun \notin Runs
  /\ Landers \cap {"loop", "op"} = {}
  /\ Kinds \subseteq AllKinds /\ Parks \subseteq AllParks
  /\ Verbs \subseteq AllVerbs
  /\ MaxVerbs \in Nat /\ MaxCrashes \in Nat

VARIABLES
  row,      \* the item's work_items row: its state, its pinned run and its kind
  gate,     \* merge_gates, per run
  hold,     \* review_holds, per run
  rec,      \* the engine's record of each run
  pr,       \* each run's pull request (external)
  verdict,  \* what the reviewers of it say (external)
  waited,   \* runs whose review wait has lasted review_wait_s
  live,     \* the run in flight, in memory
  job,      \* what each thread is in the middle of, in memory
  daemon,   \* up, down, or a phase of recover
  used,     \* verbs and crashes so far (bounds)
  overtaken \* runs whose landing was over before their park was written (history)

vars == <<row, gate, hold, rec, pr, verdict, waited, live, job, daemon, used, overtaken>>

Threads == {"loop", "op"} \cup Landers
RowStates == {"queued", "running", "gated", "awaiting_review", "paused_review", "done", "failed"}
GateStates == {"none", "open", "approving", "merged", "released", "dismissed"}
HoldStates == {"none", "open", "approving", "fixing", "paused", "merged", "dismissed"}
RecordStates == {"new", "active", "landed", "failed"} \cup AllParks
OpenGate == {"open", "approving"}
OpenHold == {"open", "approving", "fixing", "paused"}

(***************************************************************************)
(* The plans: the writes of each handler, in order.                        *)
(***************************************************************************)
Plan(do) ==
  CASE do \in {"gated", "held"}         -> <<"gate", "row">>
    [] do = "awaiting_review"           -> <<"hold", "row">>
    [] do \in {"ended_landed", "ended_retry", "ended_failed"} -> <<"hold", "gate", "row">>
    [] do = "pause"                     -> <<"hold", "row">>
    [] do = "poll_closed"               -> <<"claim", "hold", "row">>
    [] do = "poll_changes"              -> <<"claim", "fix">>
    [] do = "poll_approved"             -> <<"claim">>
    [] do = "refix"                     -> <<"hold">>
    [] do = "release"                   -> <<"claim", "requeue">>
    [] do = "unrelease"                 -> <<"gate">>
    [] do = "abandon"                   -> <<"row", "dismiss">>
    [] do = "resume_open"               -> <<"hold">>
    [] do = "resume_paused"             -> <<"hold", "row">>
    \* _complete_landing and _complete_review_landing, once land() has answered
    [] do \in {"land_gate", "land_hold"} -> <<"land">>
    [] do = "gate_landed"               -> <<"record", "gate", "row">>
    [] do = "hold_landed"               -> <<"record", "hold", "row">>
    [] do = "gate_closed"               -> <<"gate", "row">>
    [] do = "hold_closed"               -> <<"hold", "row">>
    [] do = "gate_refused"              -> <<"gate">>
    [] do = "hold_refused"              -> <<"hold">>
    [] OTHER                            -> <<>>

Doing == {"idle", "gated", "held", "awaiting_review", "ended_landed", "ended_retry",
          "ended_failed", "pause", "poll_closed", "poll_changes", "poll_approved", "refix",
          "release", "unrelease", "abandon", "resume_open", "resume_paused", "land_gate",
          "land_hold", "gate_landed", "hold_landed", "gate_closed", "hold_closed",
          "gate_refused", "hold_refused"}

Idle == [do |-> "idle", run |-> NoRun, step |-> 0, saw |-> "queued"]
Begin(do, r) == [do |-> do, run |-> r, step |-> 1, saw |-> "queued"]

At(t, s) == job[t].step \in DOMAIN Plan(job[t].do) /\ Plan(job[t].do)[job[t].step] = s
Advance(t) == IF job[t].step + 1 \in DOMAIN Plan(job[t].do)
              THEN [job[t] EXCEPT !.step = @ + 1] ELSE Idle
Step(t) == job' = [job EXCEPT ![t] = Advance(t)]

Init ==
  /\ row \in [state : {"queued"}, run : {NoRun}, kind : Kinds]
  /\ gate = [r \in Runs |-> "none"]
  /\ hold = [r \in Runs |-> "none"]
  /\ rec = [r \in Runs |-> "new"]
  /\ pr = [r \in Runs |-> "none"]
  /\ verdict = [r \in Runs |-> "none"]
  /\ waited = {}
  /\ live = NoRun
  /\ job = [t \in Threads |-> Idle]
  /\ daemon = "up"
  /\ used = [verbs |-> 0, crashes |-> 0]
  /\ overtaken = {}

parks == <<gate, hold>>
forge == <<pr, verdict, waited>>

(***************************************************************************)
(* A run of the item.                                                      *)
(***************************************************************************)
LoopFree == job["loop"] = Idle /\ daemon = "up"
OnRun(r) == row.state = "running" /\ row.run = r
Held == row.kind = "workload"

\* _start_item, _launch: a fresh run for an unpinned item, the pinned run resumed
\* otherwise (_resume: released, asked for changes, or interrupted).
Dispatch(r) ==
  /\ LoopFree /\ live = NoRun
  /\ row.state = "queued"
  /\ IF row.run = NoRun THEN rec[r] = "new" ELSE row.run = r
  /\ row' = [row EXCEPT !.state = "running", !.run = r]
  /\ rec' = [rec EXCEPT ![r] = "active"]
  /\ live' = r
  /\ UNCHANGED <<parks, forge, job, daemon, used, overtaken>>

\* _resume past the resume budget: settled as failed, unless the resume is a release or a fix.
ResumeRefused(again) ==
  /\ LoopFree /\ live = NoRun
  /\ row.state = "queued" /\ row.run # NoRun
  /\ hold[row.run] # "fixing" /\ ~(Held /\ gate[row.run] = "approving")
  /\ job' = [job EXCEPT !["loop"] = Begin(IF again THEN "ended_retry" ELSE "ended_failed", row.run)]
  /\ UNCHANGED <<row, parks, rec, forge, live, daemon, used, overtaken>>

\* The engine ends the run: it parks, lands or fails.  A released run never holds again.
EngineEnd(r, how) ==
  /\ live = r /\ rec[r] = "active"
  /\ rec' = [rec EXCEPT ![r] = how]
  /\ how \in AllParks \cup {"landed"} => pr[r] \in {"none", "open"}
  /\ how = "held" => Held /\ gate[r] = "none"
  /\ how \in {"gated", "awaiting_review"} => ~Held
  /\ pr' = IF Held \/ how = "failed" THEN pr
           ELSE [pr EXCEPT ![r] = IF how = "landed" THEN "landed" ELSE "open"]
  /\ UNCHANGED <<row, parks, verdict, waited, live, job, daemon, used, overtaken>>

\* What _settle does with how the run ended; a failure retries or gives up (DaemonLoop).
Settlement(r, again) ==
  CASE rec[r] \in AllParks -> rec[r]
    [] rec[r] = "landed"   -> "ended_landed"
    [] OTHER               -> IF again THEN "ended_retry" ELSE "ended_failed"

\* _settle_run: an operator's decision stands; the run's own end is settled otherwise.
SettleRun(again) ==
  /\ LoopFree
  /\ live # NoRun /\ rec[live] # "active"
  /\ live' = NoRun
  /\ job' = IF OnRun(live) THEN [job EXCEPT !["loop"] = Begin(Settlement(live, again), live)] ELSE job
  /\ UNCHANGED <<row, parks, rec, forge, daemon, used, overtaken>>

(***************************************************************************)
(* The writes.                                                             *)
(***************************************************************************)
\* Slip: a landing that was refused leaves the gate as it was.
GateAfter_NotReopened(t, g) ==
  CASE job[t].do \in {"gated", "held"}           -> IF g = "none" THEN "open" ELSE g
    [] job[t].do \in {"gate_refused", "unrelease"} -> g
    [] job[t].do = "gate_landed"                 -> "merged"
    [] job[t].do = "gate_closed"                 -> "dismissed"
    [] OTHER -> IF ~Held \/ g \notin OpenGate THEN g
                ELSE IF job[t].do = "ended_landed" THEN "released" ELSE "dismissed"

\* Slip: a recovery's re-settle clobbers a gate that already has its decision.
GateAfter_Clobber(t, g) ==
  CASE job[t].do \in {"gated", "held", "gate_refused", "unrelease"} -> "open"
    [] job[t].do = "gate_landed" -> "merged"
    [] job[t].do = "gate_closed" -> "dismissed"
    [] OTHER                     -> g

\* create_merge_gate (INSERT OR IGNORE), reopen_merge_gate, resolve_merge_gate, and
\* _resolve_publish_gate when a run ends.
GateAfter(t, g) ==
  CASE job[t].do \in {"gated", "held"}           -> IF g = "none" THEN "open" ELSE g
    [] job[t].do \in {"gate_refused", "unrelease"} -> IF g \in OpenGate THEN "open" ELSE g
    [] job[t].do = "gate_landed"                 -> "merged"
    [] job[t].do = "gate_closed"                 -> "dismissed"
    [] OTHER -> IF ~Held \/ g \notin OpenGate THEN g
                ELSE IF job[t].do = "ended_landed" THEN "released" ELSE "dismissed"

WriteGate(t) ==
  /\ At(t, "gate")
  /\ gate' = [gate EXCEPT ![job[t].run] = GateAfter(t, @)]
  /\ Step(t)
  /\ UNCHANGED <<row, hold, rec, forge, live, daemon, used, overtaken>>

\* create_review_hold, reopen_review_hold, pause_review_hold, resolve_review_hold, and
\* the hold closed by a run that came back from a fix round and ended (_settle).
HoldAfter(t, h) ==
  CASE job[t].do = "awaiting_review" -> IF h \in OpenHold \cup {"none"} THEN "open" ELSE h
    [] job[t].do \in {"hold_refused", "refix", "resume_open", "resume_paused"} ->
         IF h \in OpenHold THEN "open" ELSE h
    [] job[t].do = "pause"           -> IF h = "open" THEN "paused" ELSE h
    [] job[t].do = "hold_landed"     -> "merged"
    [] job[t].do \in {"poll_closed", "hold_closed"} -> "dismissed"
    [] OTHER -> IF h \notin OpenHold THEN h
                ELSE IF job[t].do = "ended_landed" THEN "merged" ELSE "dismissed"

\* The wait starts over (since_at) when a run parks again and when an operator resumes it.
Restarting == {"awaiting_review", "resume_open", "resume_paused"}

WriteHold(t) ==
  /\ At(t, "hold")
  /\ hold' = [hold EXCEPT ![job[t].run] = HoldAfter(t, @)]
  /\ waited' = IF job[t].do \in Restarting THEN waited \ {job[t].run} ELSE waited
  /\ Step(t)
  /\ UNCHANGED <<row, gate, rec, pr, verdict, live, daemon, used, overtaken>>

Abandonable == {"queued", "running", "gated", "awaiting_review", "paused_review"}
Abandoned == IF row.state \in Abandonable THEN [row EXCEPT !.state = "failed"] ELSE row

\* Slip: a landing that found its pull request closed is taken for a landing.
RowAfter_ClosedIsDone(t) ==
  IF job[t].do \in {"gate_closed", "hold_closed", "gate_landed", "hold_landed", "ended_landed"}
  THEN [row EXCEPT !.state = "done"]
  ELSE IF job[t].do \in {"gated", "held"} THEN [row EXCEPT !.state = "gated"] ELSE row

\* mark_gated, mark_awaiting_review, mark_paused_review, mark_done and mark_failed do not
\* look at the row's state; abandon does.
RowAfter(t) ==
  CASE job[t].do \in {"gated", "held"}  -> [row EXCEPT !.state = "gated"]
    [] job[t].do \in {"awaiting_review", "resume_paused"} -> [row EXCEPT !.state = "awaiting_review"]
    [] job[t].do = "pause"              -> [row EXCEPT !.state = "paused_review"]
    [] job[t].do \in {"gate_landed", "hold_landed", "ended_landed"} -> [row EXCEPT !.state = "done"]
    [] job[t].do = "ended_retry"        -> [row EXCEPT !.state = "queued", !.run = NoRun]
    [] job[t].do = "ended_failed"       -> [row EXCEPT !.state = "failed"]
    [] OTHER                            -> Abandoned

\* The last write of a landing whose run the loop is still parking.
Overtakes(t) ==
  /\ job[t].do \in {"gate_landed", "gate_closed"}
  /\ job["loop"].do \in {"gated", "held"} /\ job["loop"].run = job[t].run

WriteRow(t) ==
  /\ At(t, "row")
  /\ job[t].do # "abandon"
  /\ row' = RowAfter(t)
  /\ overtaken' = IF Overtakes(t) THEN overtaken \cup {job[t].run} ELSE overtaken
  /\ Step(t)
  /\ UNCHANGED <<parks, rec, forge, live, daemon, used>>

(***************************************************************************)
(* Landing threads: approve_merge and the review poll start one.           *)
(***************************************************************************)
\* A landing thread for run r is started in a free slot.
Spawn(t, do, r) == job[t] = Idle /\ job' = [job EXCEPT ![t] = Begin(do, r)]

\* land() on the live pull request: merged (by it, or already), closed, or anything else
\* (refused, an error, cut short by a shutdown).
Landing(t, how) ==
  /\ At(t, "land")
  /\ LET r == job[t].run  on == IF job[t].do = "land_gate" THEN "gate" ELSE "hold" IN
     \/ /\ how = "landed" /\ pr[r] # "closed"
        /\ pr' = [pr EXCEPT ![r] = IF @ = "open" THEN "landed" ELSE @]
        /\ job' = [job EXCEPT ![t] = Begin(IF on = "gate" THEN "gate_landed" ELSE "hold_landed", r)]
     \/ /\ how = "closed" /\ pr[r] = "closed"
        /\ job' = [job EXCEPT ![t] = Begin(IF on = "gate" THEN "gate_closed" ELSE "hold_closed", r)]
        /\ UNCHANGED pr
     \/ /\ how = "refused"
        /\ job' = [job EXCEPT ![t] = Begin(IF on = "gate" THEN "gate_refused" ELSE "hold_refused", r)]
        /\ UNCHANGED pr
  /\ UNCHANGED <<row, parks, rec, verdict, waited, live, daemon, used, overtaken>>

\* reconcile_run: the record of a landed park says merged.
WriteRecord(t) ==
  /\ At(t, "record")
  /\ rec' = [rec EXCEPT ![job[t].run] = "landed"]
  /\ Step(t)
  /\ UNCHANGED <<row, parks, forge, live, daemon, used, overtaken>>

(***************************************************************************)
(* The review poll (the loop thread).                                      *)
(***************************************************************************)
\* review_wait_s goes by: hours, so never in the middle of anybody's writes.
Wait(r) ==
  /\ \A t \in {"loop", "op"} : job[t] = Idle
  /\ hold[r] = "open" /\ r \notin waited
  /\ waited' = waited \cup {r}
  /\ UNCHANGED <<row, parks, rec, pr, verdict, live, job, daemon, used, overtaken>>

\* _poll_review_hold: the wait ran out, or what the forge says of the pull request.
Poll(r) ==
  /\ LoopFree /\ hold[r] = "open"
  /\ \E do \in {"pause", "poll_closed", "poll_changes", "poll_approved"} :
       /\ do = "pause" <=> r \in waited
       /\ do = "poll_closed" => pr[r] = "closed"
       /\ do = "poll_changes" => pr[r] = "open" /\ verdict[r] = "changes"
       /\ do = "poll_approved" => \/ pr[r] \in {"landed", "by_hand"}
                                  \/ pr[r] = "open" /\ verdict[r] = "approved"
       /\ job' = [job EXCEPT !["loop"] = Begin(do, r)]
  /\ UNCHANGED <<row, parks, rec, forge, live, daemon, used, overtaken>>

\* claim_review_hold, by compare-and-set; an approval's landing thread starts with it.
ClaimHold ==
  /\ At("loop", "claim")
  /\ LET r == job["loop"].run  do == job["loop"].do IN
     IF hold[r] # "open" THEN job' = [job EXCEPT !["loop"] = Idle] /\ UNCHANGED hold
     ELSE /\ hold' = [hold EXCEPT ![r] = IF do = "poll_changes" THEN "fixing" ELSE "approving"]
          /\ IF do = "poll_approved"
             THEN \E t \in Landers : job[t] = Idle
                    /\ job' = [job EXCEPT !["loop"] = Idle, ![t] = Begin("land_hold", r)]
             ELSE Step("loop")
  /\ UNCHANGED <<row, gate, rec, forge, live, daemon, used, overtaken>>

\* resume_for_fix; refused, the wait goes back up.
ResumeForFix ==
  /\ At("loop", "fix")
  /\ LET r == job["loop"].run IN
     IF row.run = r /\ row.state \in {"awaiting_review", "paused_review"}
     THEN row' = [row EXCEPT !.state = "queued"] /\ Step("loop")
     ELSE job' = [job EXCEPT !["loop"] = Begin("refix", r)] /\ UNCHANGED row
  /\ UNCHANGED <<parks, rec, forge, live, daemon, used, overtaken>>

(***************************************************************************)
(* The operator.                                                           *)
(***************************************************************************)
May(verb) ==
  /\ verb \in Verbs /\ used.verbs < MaxVerbs
  /\ used' = [used EXCEPT !.verbs = @ + 1]
OpFree == job["op"] = Idle /\ daemon = "up"

\* Slip: a gate that is being approved can be approved again.
ApproveMerge_Twice(r) ==
  /\ OpFree /\ May("approve") /\ ~Held
  /\ gate[r] \in OpenGate
  /\ gate' = [gate EXCEPT ![r] = "approving"]
  /\ \E t \in Landers : Spawn(t, "land_gate", r)
  /\ UNCHANGED <<row, hold, rec, forge, live, daemon, overtaken>>

\* approve_merge: any open gate, its row written or not; claim_merge_gate by compare-and-set,
\* and the landing thread.
ApproveMerge(r) ==
  /\ OpFree /\ May("approve") /\ ~Held
  /\ gate[r] = "open"
  /\ gate' = [gate EXCEPT ![r] = "approving"]
  /\ \E t \in Landers : Spawn(t, "land_gate", r)
  /\ UNCHANGED <<row, hold, rec, forge, live, daemon, overtaken>>

\* approve_merge on a held publication: _release_hold.
Release(r) ==
  /\ OpFree /\ May("approve") /\ Held
  /\ gate[r] \in OpenGate
  /\ job' = [job EXCEPT !["op"] = Begin("release", r)]
  /\ UNCHANGED <<row, parks, rec, forge, live, daemon, overtaken>>

ClaimRelease ==
  /\ At("op", "claim")
  /\ LET r == job["op"].run IN
     IF gate[r] = "open" THEN gate' = [gate EXCEPT ![r] = "approving"] /\ Step("op")
     ELSE job' = [job EXCEPT !["op"] = Idle] /\ UNCHANGED gate
  /\ UNCHANGED <<row, hold, rec, forge, live, daemon, used, overtaken>>

\* resume_for_release; refused, the gate goes back up.
ResumeForRelease ==
  /\ At("op", "requeue")
  /\ LET r == job["op"].run IN
     IF row.state = "gated" /\ row.run = r
     THEN row' = [row EXCEPT !.state = "queued"] /\ Step("op")
     ELSE job' = [job EXCEPT !["op"] = Begin("unrelease", r)] /\ UNCHANGED row
  /\ UNCHANGED <<parks, rec, forge, live, daemon, used, overtaken>>

\* abandon_item reads the row, ...
AbandonItem ==
  /\ OpFree /\ May("abandon")
  /\ job' = [job EXCEPT !["op"] = [Begin("abandon", row.run) EXCEPT !.saw = row.state]]
  /\ UNCHANGED <<row, parks, rec, forge, live, daemon, overtaken>>

\* ... writes it by compare-and-set, ...
AbandonRow ==
  /\ At("op", "row") /\ job["op"].do = "abandon"
  /\ row' = Abandoned
  /\ job' = [job EXCEPT !["op"] = IF row.state \in Abandonable /\ job["op"].run # NoRun
                                  THEN Advance("op") ELSE Idle]
  /\ UNCHANGED <<parks, rec, forge, live, daemon, used, overtaken>>

\* ... and closes the park the row it read was in.
Dismiss ==
  /\ At("op", "dismiss")
  /\ LET r == job["op"].run  saw == job["op"].saw IN
     /\ gate' = IF saw = "gated" /\ gate[r] \in OpenGate
                THEN [gate EXCEPT ![r] = "dismissed"] ELSE gate
     /\ hold' = IF saw \in {"awaiting_review", "paused_review"} /\ hold[r] \in OpenHold
                THEN [hold EXCEPT ![r] = "dismissed"] ELSE hold
  /\ Step("op")
  /\ UNCHANGED <<row, rec, forge, live, daemon, used, overtaken>>

\* lantern daemon abandon: the row only.
CliAbandon ==
  /\ May("cli_abandon")
  /\ row.state \in Abandonable
  /\ row' = Abandoned
  /\ UNCHANGED <<parks, rec, forge, live, job, daemon, overtaken>>

\* retry_item
RetryItem ==
  /\ OpFree /\ May("retry")
  /\ row.state \in {"failed", "queued"}
  /\ row' = [row EXCEPT !.state = "queued", !.run = NoRun]
  /\ UNCHANGED <<parks, rec, forge, live, job, daemon, overtaken>>

\* resume_review: what it does next depends on the hold it read.
ResumeReview(r) ==
  /\ OpFree /\ May("resume_review")
  /\ hold[r] \in {"open", "paused"}
  /\ job' = [job EXCEPT !["op"] =
               Begin(IF hold[r] = "paused" THEN "resume_paused" ELSE "resume_open", r)]
  /\ UNCHANGED <<row, parks, rec, forge, live, daemon, overtaken>>

(***************************************************************************)
(* The forge, where people act on their own.                               *)
(***************************************************************************)
ForgeClose(r, how) ==
  /\ pr[r] = "open" /\ live # r
  /\ pr' = [pr EXCEPT ![r] = how]
  /\ UNCHANGED <<row, parks, rec, verdict, waited, live, job, daemon, used, overtaken>>

Review(r, v) ==
  /\ "awaiting_review" \in Parks
  /\ pr[r] = "open" /\ verdict[r] # v
  /\ verdict' = [verdict EXCEPT ![r] = v]
  /\ UNCHANGED <<row, parks, rec, pr, waited, live, job, daemon, used, overtaken>>

(***************************************************************************)
(* Crash and recovery.                                                     *)
(***************************************************************************)
Crash ==
  /\ daemon # "down" /\ used.crashes < MaxCrashes
  /\ used' = [used EXCEPT !.crashes = @ + 1]
  /\ daemon' = "down" /\ live' = NoRun
  /\ job' = [t \in Threads |-> Idle]
  /\ UNCHANGED <<row, parks, rec, forge, overtaken>>

Restart ==
  /\ daemon = "down"
  /\ daemon' = "gates"
  /\ UNCHANGED <<row, parks, rec, forge, live, job, used, overtaken>>

Interrupted(r) == gate[r] = "approving" /\ ~Held

\* Slip: an interrupted approval is left as the dead process left it.
ReconcileGates_Skip ==
  /\ daemon = "gates"
  /\ daemon' = "holds"
  /\ UNCHANGED <<row, parks, rec, forge, live, job, used, overtaken>>

\* _reconcile_gates: an interrupted approval puts the gate back up.
ReconcileGates ==
  /\ daemon = "gates"
  /\ gate' = [r \in Runs |-> IF Interrupted(r) THEN "open" ELSE gate[r]]
  /\ daemon' = "holds"
  /\ UNCHANGED <<row, hold, rec, forge, live, job, used, overtaken>>

\* _reconcile_review_holds: an interrupted landing puts the wait back up.
ReconcileHolds ==
  /\ daemon = "holds"
  /\ hold' = [r \in Runs |-> IF hold[r] = "approving" THEN "open" ELSE hold[r]]
  /\ daemon' = "rows"
  /\ UNCHANGED <<row, gate, rec, forge, live, job, used, overtaken>>

\* recover, for the row a dead process left running: an ended run is settled, an
\* interrupted one queued for its resume.
RecoverRow(again) ==
  /\ daemon = "rows"
  /\ daemon' = "up"
  /\ IF row.state # "running" THEN UNCHANGED <<row, job>>
     ELSE IF rec[row.run] = "active" THEN row' = [row EXCEPT !.state = "queued"] /\ UNCHANGED job
     ELSE /\ job' = [job EXCEPT !["loop"] = Begin(Settlement(row.run, again), row.run)]
          /\ UNCHANGED row
  /\ UNCHANGED <<parks, rec, forge, live, used, overtaken>>

-----------------------------------------------------------------------------
Write(t) == WriteGate(t) \/ WriteHold(t) \/ WriteRow(t)

LoopStep == Write("loop") \/ ClaimHold \/ ResumeForFix

OpStep == Write("op") \/ ClaimRelease \/ ResumeForRelease \/ AbandonRow \/ Dismiss

LanderStep(t) ==
  \/ Write(t) \/ WriteRecord(t)
  \/ \E how \in {"landed", "closed", "refused"} : Landing(t, how)

Tick ==
  \/ \E r \in Runs : Dispatch(r) \/ Poll(r) \/ Wait(r)
  \/ \E again \in BOOLEAN : SettleRun(again) \/ ResumeRefused(again)

Engine == \E r \in Runs, how \in Parks \cup {"landed", "failed"} : EngineEnd(r, how)

Operator ==
  \/ \E r \in Runs : ApproveMerge(r) \/ Release(r) \/ ResumeReview(r)
  \/ AbandonItem \/ CliAbandon \/ RetryItem

Forge == \E r \in Runs : \/ \E how \in {"closed", "by_hand"} : ForgeClose(r, how)
                         \/ \E v \in {"approved", "changes"} : Review(r, v)

Recover == Restart \/ ReconcileGates \/ ReconcileHolds \/ \E again \in BOOLEAN : RecoverRow(again)

Next ==
  \/ Tick \/ Engine \/ LoopStep \/ Operator \/ OpStep \/ Forge \/ Recover \/ Crash
  \/ \E t \in Landers : LanderStep(t)

Spec == Init /\ [][Next]_vars

\* Every thread goes on with what it began (a landing ends: its waits are bounded), and
\* the supervisor restarts the process.
Fairness ==
  /\ WF_vars(LoopStep) /\ WF_vars(OpStep) /\ WF_vars(Recover)
  /\ \A t \in Landers : WF_vars(LanderStep(t))

FairSpec == Spec /\ Fairness

(***************************************************************************)
(* Properties.                                                             *)
(***************************************************************************)
\* Every variable holds a value of its kind.
TypeOK ==
  /\ row \in [state : RowStates, run : Runs \cup {NoRun}, kind : AllKinds]
  /\ gate \in [Runs -> GateStates]
  /\ hold \in [Runs -> HoldStates]
  /\ rec \in [Runs -> RecordStates]
  /\ pr \in [Runs -> {"none", "open", "landed", "by_hand", "closed"}]
  /\ verdict \in [Runs -> {"none", "approved", "changes"}]
  /\ waited \subseteq Runs
  /\ live \in Runs \cup {NoRun}
  /\ job \in [Threads -> [do : Doing, run : Runs \cup {NoRun}, step : Nat, saw : RowStates]]
  /\ daemon \in {"up", "down", "gates", "holds", "rows"}
  /\ used \in [verbs : Nat, crashes : Nat]
  /\ overtaken \subseteq Runs

AtRest == daemon = "up" /\ \A t \in Threads : job[t] = Idle

GateStanding == row.run \in Runs /\ gate[row.run] = "open"
HoldStanding == row.run \in Runs /\ hold[row.run] \in {"open", "paused"}
Waiting == {"awaiting_review", "paused_review"}

\* A parked item has its way out: with every thread at rest, a gated item's gate is open
\* to its approver, and a waiting item's review hold is polled or can be re-armed.  The one
\* exception is a landing that was approved and over between the gate and the row of its
\* own park: mark_gated is then written over what it left.
NoStrandedPark ==
  AtRest =>
    /\ row.state = "gated" => GateStanding \/ row.run \in overtaken
    /\ row.state \in Waiting => HoldStanding

\* Without the exception it does not hold: the item is gated over a gate that is merged or
\* dismissed.
NoStrandedParkAlways ==
  AtRest => (row.state = "gated" => GateStanding) /\ (row.state \in Waiting => HoldStanding)

BothLand(t, u, how) ==
  /\ At(t, "land") /\ At(u, "land") /\ job[t].run = job[u].run
  /\ job[t].do \in how /\ job[u].do \in how

\* One approval, one landing: two threads never land one gate at once, whoever clicks, and
\* whatever was abandoned, refused or interrupted before (claim_merge_gate: "exactly one
\* click/command wins").
OneLandingPerGate == \A t, u \in Landers : BothLand(t, u, {"land_gate"}) => t = u

\* Two threads never land one pull request at once (claim_review_hold: "the poll that saw
\* the review acts on it exactly once").
OneLanding == \A t, u \in Landers : BothLand(t, u, {"land_gate", "land_hold"}) => t = u

\* A step leaves a finished gate and a finished hold finished.
StandingStep ==
  \A r \in Runs :
    /\ gate[r] \in {"merged", "released", "dismissed"} => gate'[r] \notin OpenGate
    /\ hold[r] \in {"merged", "dismissed"} => hold'[r] \notin OpenHold

\* A decision taken on a gate or a hold stands: no re-settle of the run, late landing,
\* resume or recovery puts a finished one back up (create_merge_gate, create_review_hold).
DecisionStands == [][StandingStep]_vars

\* An item is done only when the pull request of one of its runs is merged, whatever was
\* closed, abandoned, retried or re-opened while the landing was going on.
DoneIsLanded ==
  row.state = "done" /\ ~Held => \E r \in Runs : pr[r] \in {"landed", "by_hand"}

\* An approval that was taken ends: the gate and the hold leave "approving", whatever the
\* landing meets, a crash in the middle of it included (_reconcile_gates).
ApprovalSettles ==
  \A r \in Runs : (gate[r] = "approving" \/ hold[r] = "approving") ~>
                  (gate[r] # "approving" /\ hold[r] # "approving")
=============================================================================
