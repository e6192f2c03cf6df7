------------------------------ MODULE RunEngine ------------------------------
(***************************************************************************)
(* One run, driven by the engine through its stages: provisioning, the task*)
(* graph, then for a code run gate, deliver, review, CI and landing with   *)
(* fix rounds between them, for a workload judge, hold and publish, for a  *)
(* tool run publish, and for a plan run a person's answers and a proposal. *)
(* The run's row is shared with whoever cancels it, grants it rounds or    *)
(* resumes it, and is what is left when the process dies.  A task graph    *)
(* (TaskLanes) and a landing (Landing) are single steps here.              *)
(***************************************************************************)
EXTENDS Naturals, Sequences

CONSTANTS MaxReview,        \* [landing] max_review_rounds
          MaxCi,            \* [landing] max_ci_rounds
          MaxGrants,        \* bound on rounds granted later
          MaxStops,         \* bound on deaths and infrastructure errors
          MaxResumes,       \* bound on resumes
          MaxCancels,       \* bound on cancellations
          Kinds             \* the kinds of run checked

ASSUME BudgetsAssumption == /\ MaxReview \in Nat /\ MaxCi \in Nat
                            /\ MaxGrants \in Nat /\ MaxStops \in Nat
                            /\ MaxResumes \in Nat /\ MaxCancels \in Nat
ASSUME KindsAssumption == Kinds \subseteq {"code", "local", "workload", "tool", "plan"}

VARIABLES
  kind,       \* code, local (code with no repository to deliver to), workload, tool, plan
  holds,      \* the profile publishes only when released
  row,        \* the run's row in the store
  graph,      \* the task rows: none, planned, done, failed
  fixes,      \* the fix tasks, in order
  gated,      \* the workspace passed the gate as it stands
  pr,         \* the delivered head: gated, approved
  plan,       \* what the plan holds of this run: its questions, the level it proposed
  pc,         \* the engine's next step, down when no process drives the run
  mem,        \* its locals: the stage, the fix round, how the run ends
  event,      \* request_cancel was called on this process
  cancelling, \* another process has read the row and will write cancelled
  hist        \* what happened, for the properties

vars == <<kind, holds, row, graph, fixes, gated, pr, plan, pc, mem, event, cancelling, hist>>
work == <<kind, holds, graph, fixes, gated, pr, plan>>
others == <<event, cancelling>>

PIPELINE_STAGES == {"gating", "delivering", "reviewing", "fixing", "awaiting_ci", "landing"}
LATE_STAGES == {"judging", "publishing"}
PLAN_STAGES == {"clarifying", "awaiting_answers", "proposing"}
GRAPH_STATES == {"decomposing", "building", "planning", "executing"}
TERMINAL_RUN_STATES == {"merged", "completed", "failed", "blocked", "cancelled",
                        "gated", "awaiting_review", "held", "awaiting_answers"}
RESUMABLE_RUN_STATES ==
  {"provider_held", "created", "provisioning", "failed", "blocked", "cancelled",
   "awaiting_review", "held"} \cup GRAPH_STATES \cup PIPELINE_STAGES \cup LATE_STAGES
                                  \cup PLAN_STAGES
RunStates == TERMINAL_RUN_STATES \cup RESUMABLE_RUN_STATES
Rounds == {"none", "review", "ci", "advisory", "bot"}
Steps == {"down", "drive", "provision", "phases", "plan", "tasks", "check", "enter", "work",
          "budget", "note", "append", "fixing", "fixrun", "stamp", "record", "ending",
          "clarify", "ask", "propose", "proposal", "handover"}

NoHead == [open |-> FALSE, gated |-> FALSE, approved |-> FALSE]

Init ==
  /\ kind \in Kinds
  /\ holds \in BOOLEAN /\ (holds => kind = "workload")
  /\ row = [state |-> "created", stage |-> "created", exhausted |-> FALSE, review |-> 0,
            ci |-> 0, granted |-> 0, bot |-> FALSE, advisory |-> FALSE, published |-> FALSE,
            credentials |-> FALSE]
  /\ graph = IF kind \in {"tool", "plan"} THEN "planned" ELSE "none"
  /\ fixes = <<>>
  /\ gated = FALSE
  /\ pr = NoHead
  /\ plan = [questions |-> "none", level |-> "none"]
  /\ pc = "drive"
  /\ mem = [stage |-> "created", fix |-> "none", regate |-> FALSE, final |-> "created"]
  /\ event = FALSE
  /\ cancelling = FALSE
  /\ hist = [stops |-> 0, resumes |-> 0, cancels |-> 0, cancelled |-> FALSE, rash |-> FALSE,
             botRounds |-> 0, issues |-> 0, reached |-> "created"]

----------------------------------------------------------------------------
(* The row.                                                                *)

\* set_run_state: unconditional; a state that is no end is also the stage a
\* resume re-enters.
WithState(r, s) ==
  [r EXCEPT !.state = s,
            !.stage = IF s \in TERMINAL_RUN_STATES \cup {"provider_held"} THEN @ ELSE s]

SetState(s) == row' = WithState(row, s)

Cancelled == event \/ row.state = "cancelled"

----------------------------------------------------------------------------
(* Driving a run.                                                          *)

\* Raised out of the engine: the row keeps the state it has.
Down == /\ pc' = "down"
        /\ event' = FALSE
        /\ mem' = [mem EXCEPT !.fix = "none", !.regate = FALSE, !.final = "created"]

\* The pipeline returns how the run ended.
End(s) == mem' = [mem EXCEPT !.final = s] /\ pc' = "ending"

\* To a stage, past the boundary where cancellation is honoured.
To(s) == mem' = [mem EXCEPT !.stage = s, !.regate = FALSE, !.fix = "none"] /\ pc' = "check"

Drive ==
  /\ pc = "drive"
  /\ SetState("provisioning")
  /\ pc' = "provision"
  /\ UNCHANGED <<work, mem, others, hist>>

\* The stages a resume re-enters past the task graph.
Reentered == CASE kind = "workload" -> LATE_STAGES
               [] kind = "tool" -> {"publishing"}
               [] OTHER -> PIPELINE_STAGES

Provision ==
  /\ pc = "provision"
  /\ pc' = (IF kind = "plan"
            THEN IF mem.stage = "proposing" THEN "propose" ELSE "clarify"
            ELSE IF mem.stage \in Reentered THEN "check" ELSE "phases")
  /\ UNCHANGED <<work, row, mem, others, hist>>

\* _run_phases: plan once, then run what is left of the graph.  Nothing here
\* looks at the row before it writes it.
Phases ==
  /\ pc = "phases"
  /\ IF graph = "none"
     THEN /\ SetState(IF kind = "workload" THEN "planning" ELSE "decomposing")
          /\ pc' = "plan"
     ELSE /\ SetState(IF kind \in {"workload", "tool"} THEN "executing" ELSE "building")
          /\ pc' = "tasks"
  /\ UNCHANGED <<work, mem, others, hist>>

\* _grant_needs: a workload whose needs are refused fails; one granted a new
\* credential is driven again on sandboxes that hold it.
Needs ==
  /\ pc = "phases" /\ kind = "workload" /\ graph # "none"
  /\ \/ End("failed") /\ UNCHANGED row
     \/ /\ ~row.credentials
        /\ row' = [row EXCEPT !.credentials = TRUE]
        /\ mem' = [mem EXCEPT !.stage = "executing"]
        /\ pc' = "drive"
  /\ UNCHANGED <<work, others, hist>>

Plan ==
  /\ pc = "plan"
  /\ graph' = "planned"
  /\ pc' = "phases"
  /\ UNCHANGED <<kind, holds, row, fixes, gated, pr, plan, mem, others, hist>>

FirstStage == CASE kind = "workload" -> "judging"
                [] kind = "tool" -> "publishing"
                [] OTHER -> "gating"

Tasks ==
  /\ pc = "tasks" /\ kind # "tool"
  /\ \/ /\ graph = "planned"
        /\ gated' = FALSE
        /\ \/ graph' = "done" /\ To(FirstStage)
           \/ graph' = "failed" /\ End("failed")
     \/ graph = "done" /\ To(FirstStage) /\ UNCHANGED <<graph, gated>>
     \/ graph = "failed" /\ End("failed") /\ UNCHANGED <<graph, gated>>
  /\ UNCHANGED <<kind, holds, row, fixes, pr, plan, others, hist>>

\* _stage_execute_tool: a resume runs what is not done again, failed or not.
ToolTasks ==
  /\ pc = "tasks" /\ kind = "tool"
  /\ \/ graph' = "done" /\ To(FirstStage)
     \/ graph # "done" /\ graph' = "failed" /\ End("failed")
  /\ UNCHANGED <<kind, holds, row, fixes, gated, pr, plan, others, hist>>

\* Between the stages, before each task, turn and delivery, and in every wait
\* for the forge.
Boundary ==
  \/ pc \in {"check", "fixrun", "ask", "handover"}
  \/ pc = "tasks" /\ (graph = "planned" \/ (graph = "failed" /\ kind = "tool"))
  \/ pc = "proposal" /\ ~row.published /\ graph # "done"
  \/ pc = "work" /\ mem.stage \in {"awaiting_ci", "landing"}

\* _check_cancelled_and_clock: the drive is given up; only the clock writes.
Interrupted ==
  /\ Boundary
  /\ IF Cancelled THEN UNCHANGED row ELSE SetState("failed")
  /\ Down
  /\ UNCHANGED <<work, cancelling, hist>>

Check ==
  /\ pc = "check" /\ ~Cancelled
  /\ pc' = "enter"
  /\ UNCHANGED <<work, row, mem, others, hist>>

PendingFixes == {i \in DOMAIN fixes : fixes[i] = "pending"}
LastPending == CHOOSE i \in PendingFixes : \A j \in PendingFixes : j <= i

\* Each stage starts by writing its own name; a resume at fixing only when a
\* fix task is still in flight.
Enter ==
  /\ pc = "enter"
  /\ IF mem.stage = "fixing"
     THEN /\ IF PendingFixes = {} THEN To("gating") ELSE pc' = "fixing" /\ UNCHANGED mem
          /\ UNCHANGED <<row, hist>>
     ELSE /\ SetState(mem.stage)
          /\ hist' = [hist EXCEPT !.reached = mem.stage]
          /\ pc' = "work"
          /\ UNCHANGED mem
  /\ UNCHANGED <<work, others>>

----------------------------------------------------------------------------
(* The stages of a code run.                                               *)

Fix(k, regate) ==
  /\ mem' = [mem EXCEPT !.fix = k, !.regate = regate]
  /\ pc' = "budget"

\* _stage_gate: a red gate buys a round and is run again at once.
Gate ==
  /\ pc = "work" /\ mem.stage = "gating"
  /\ \/ gated' = TRUE /\ (IF kind = "local" THEN End("completed") ELSE To("delivering"))
     \/ gated' = FALSE /\ Fix("ci", TRUE)
  /\ UNCHANGED <<kind, holds, row, graph, fixes, pr, plan, others, hist>>

\* _stage_deliver: the pull request's head becomes the workspace.
Deliver ==
  /\ pc = "work" /\ mem.stage = "delivering"
  /\ \/ /\ pr' = [open |-> TRUE, gated |-> gated, approved |-> FALSE]
        /\ To("reviewing")
     \/ End("blocked") /\ UNCHANGED pr
  /\ UNCHANGED <<kind, holds, row, graph, fixes, gated, plan, others, hist>>

Review ==
  /\ pc = "work" /\ mem.stage = "reviewing"
  /\ \/ pr' = [pr EXCEPT !.approved = TRUE] /\ To("awaiting_ci")
     \/ Fix("review", FALSE) /\ UNCHANGED pr
  /\ UNCHANGED <<kind, holds, row, graph, fixes, gated, plan, others, hist>>

Limit(k) == row.granted + IF k = "review" THEN MaxReview ELSE MaxCi
Spent(k) == IF k = "review" THEN row.review ELSE row.ci

\* Slip: a skipped automated round is not recorded.
SkipRound_Unrecorded(k) == row.ci >= Limit("ci") /\ UNCHANGED row

\* _automated_round_unaffordable: a machine's wish with no round left for it is
\* recorded as spent and merged over.
SkipRound(k) ==
  /\ row.ci >= Limit("ci")
  /\ row' = (IF k = "bot" THEN [row EXCEPT !.bot = TRUE] ELSE [row EXCEPT !.advisory = TRUE])

\* Red only in checks the base does not require, or an automated reviewer: one
\* round while there is one, else the landing goes on.
Automated(k) ==
  /\ ~(IF k = "bot" THEN row.bot ELSE row.advisory)
  /\ \/ SkipRound(k) /\ To("landing")
     \/ row.ci < Limit("ci") /\ Fix(k, FALSE) /\ UNCHANGED row

AwaitCi ==
  /\ pc = "work" /\ mem.stage = "awaiting_ci"
  /\ \/ To("landing") /\ UNCHANGED row
     \/ End("blocked") /\ UNCHANGED row
     \/ Fix("ci", FALSE) /\ UNCHANGED row
     \/ Automated("advisory")
  /\ UNCHANGED <<work, others, hist>>

Land ==
  /\ pc = "work" /\ mem.stage = "landing"
  /\ \/ /\ End("merged")
        /\ hist' = [hist EXCEPT !.rash = @ \/ ~(pr.approved /\ pr.gated)]
        /\ UNCHANGED row
     \/ /\ \E s \in {"gated", "awaiting_review", "blocked", "failed"} : End(s)
        /\ UNCHANGED <<row, hist>>
     \/ Fix("ci", FALSE) /\ UNCHANGED <<row, hist>>
     \/ Automated("bot") /\ UNCHANGED hist
     \/ Automated("advisory") /\ UNCHANGED hist
  /\ UNCHANGED <<work, others>>

----------------------------------------------------------------------------
(* A fix round.                                                            *)

\* Slip: the counter is checked after it is spent.
OverBudget_After(k) == Spent(k) > Limit(k)

OverBudget(k) == Spent(k) >= Limit(k)

Budget ==
  /\ pc = "budget"
  /\ \/ /\ OverBudget(mem.fix)
        /\ row' = [row EXCEPT !.exhausted = TRUE]
        /\ End("failed")
     \/ /\ ~OverBudget(mem.fix)
        /\ row' = (IF mem.fix = "review" THEN [row EXCEPT !.review = @ + 1]
                                         ELSE [row EXCEPT !.ci = @ + 1])
        /\ pc' = "note"
        /\ UNCHANGED mem
  /\ UNCHANGED <<work, others, hist>>

\* A machine's round is recorded as spent before it is run; so is an advisory
\* check that was red beside a required one.
NoteRound ==
  /\ pc = "note"
  /\ \/ mem.fix = "bot" /\ row' = [row EXCEPT !.bot = TRUE]
     \/ /\ mem.fix = "advisory" \/ (mem.fix = "ci" /\ mem.stage # "gating")
        /\ row' = [row EXCEPT !.advisory = TRUE]
     \/ mem.fix \in {"review", "ci"} /\ UNCHANGED row
  /\ pc' = "append"
  /\ UNCHANGED <<work, mem, others, hist>>

\* The base is merged into the workspace and the task appended.
AppendFix ==
  /\ pc = "append"
  /\ gated' = FALSE
  /\ fixes' = Append(fixes, "pending")
  /\ hist' = [hist EXCEPT !.botRounds = IF mem.fix = "bot" THEN @ + 1 ELSE @]
  /\ pc' = "fixing"
  /\ UNCHANGED <<kind, holds, row, graph, pr, plan, mem, others>>

EnterFix ==
  /\ pc = "fixing"
  /\ SetState("fixing")
  /\ hist' = [hist EXCEPT !.reached = "fixing"]
  /\ pc' = "fixrun"
  /\ UNCHANGED <<work, mem, others>>

\* Slip: a review round that answered every finding counts as approved.
AfterFix_Wait == To(IF mem.fix = "review" THEN "awaiting_ci" ELSE "gating")

\* Slip: a finished round is delivered without going back to the gate.
AfterFix_Deliver == To("delivering")

\* Back to the gate; the gate's own round without a boundary in between.
AfterFix == IF mem.regate
            THEN /\ mem' = [mem EXCEPT !.stage = "gating", !.regate = FALSE, !.fix = "none"]
                 /\ pc' = "enter"
            ELSE To("gating")

RunFix ==
  /\ pc = "fixrun"
  /\ gated' = FALSE
  /\ \/ fixes' = [fixes EXCEPT ![LastPending] = "done"] /\ AfterFix
     \/ fixes' = [fixes EXCEPT ![LastPending] = "failed"] /\ End("failed")
  /\ UNCHANGED <<kind, holds, row, graph, pr, plan, others, hist>>

----------------------------------------------------------------------------
(* The stages of a workload.                                               *)

Judge ==
  /\ pc = "work" /\ mem.stage = "judging"
  /\ \/ End("failed")
     \/ holds /\ pc' = "stamp" /\ UNCHANGED mem
     \/ ~holds /\ To("publishing")
  /\ UNCHANGED <<work, row, others, hist>>

\* _hold_before_publish: the stage is stamped, then the run parks.
StampHold ==
  /\ pc = "stamp"
  /\ SetState("publishing")
  /\ hist' = [hist EXCEPT !.reached = "publishing"]
  /\ End("held")
  /\ UNCHANGED <<work, others>>

Landed == row.published

\* _stage_publish: the result issue is created, then recorded on the row.
Publish ==
  /\ pc = "work" /\ mem.stage = "publishing"
  /\ \/ Landed /\ End("completed") /\ UNCHANGED hist
     \/ ~Landed /\ End("failed") /\ UNCHANGED hist
     \/ /\ ~Landed
        /\ hist' = [hist EXCEPT !.issues = @ + 1]
        /\ pc' = "record"
        /\ UNCHANGED mem
  /\ UNCHANGED <<work, row, others>>

RecordPublished ==
  /\ pc = "record"
  /\ row' = [row EXCEPT !.published = TRUE]
  /\ End("completed")
  /\ UNCHANGED <<work, others, hist>>

----------------------------------------------------------------------------
(* The stages of a plan run.                                               *)

\* _stage_clarify: questions this run asked are not asked again; settled, the
\* run goes on, still open it parks without a turn.
Clarify ==
  /\ pc = "clarify"
  /\ \/ plan.questions \in {"settled", "withdrawn"} /\ pc' = "propose" /\ UNCHANGED <<row, mem, hist>>
     \/ plan.questions = "open" /\ End("awaiting_answers") /\ UNCHANGED <<row, hist>>
     \/ plan.questions = "none" /\ pc' = "propose" /\ UNCHANGED <<row, mem, hist>>
     \/ /\ plan.questions = "none"
        /\ SetState("clarifying")
        /\ hist' = [hist EXCEPT !.reached = "clarifying"]
        /\ pc' = "ask"
        /\ UNCHANGED mem
     \/ End("failed") /\ UNCHANGED <<row, hist>>
  /\ UNCHANGED <<work, others>>

\* The planner knows enough, asks, or answers nothing usable.
Ask ==
  /\ pc = "ask" /\ ~Cancelled
  /\ \/ pc' = "propose" /\ UNCHANGED <<plan, mem>>
     \/ plan' = [plan EXCEPT !.questions = "open"] /\ End("awaiting_answers")
     \/ End("failed") /\ UNCHANGED plan
  /\ UNCHANGED <<kind, holds, row, graph, fixes, gated, pr, others, hist>>

Propose ==
  /\ pc = "propose"
  /\ SetState("proposing")
  /\ hist' = [hist EXCEPT !.reached = "proposing"]
  /\ pc' = "proposal"
  /\ UNCHANGED <<work, mem, others>>

\* _stage_propose: a delivered proposal ends the run, a stored one is delivered
\* without a second turn.
Proposal ==
  /\ pc = "proposal"
  /\ \/ row.published /\ End("completed") /\ UNCHANGED graph
     \/ ~row.published /\ graph = "done" /\ pc' = "handover" /\ UNCHANGED <<graph, mem>>
     \/ ~row.published /\ End("failed") /\ UNCHANGED graph
     \/ /\ ~row.published /\ graph # "done" /\ ~Cancelled
        /\ \/ graph' = "done" /\ pc' = "handover" /\ UNCHANGED mem
           \/ graph' = "failed" /\ End("failed")
  /\ UNCHANGED <<kind, holds, row, fixes, gated, pr, plan, others, hist>>

\* deliver_proposal: what is still proposed is replaced, what a person approved
\* stays where it is.
Handover ==
  /\ pc = "handover" /\ ~Cancelled
  /\ \/ End("failed") /\ UNCHANGED plan
     \/ /\ plan' = [plan EXCEPT !.level = IF @ \in {"none", "proposed"} THEN "proposed" ELSE "twice"]
        /\ pc' = "record"
        /\ UNCHANGED mem
  /\ UNCHANGED <<kind, holds, row, graph, fixes, gated, pr, others, hist>>

----------------------------------------------------------------------------
(* The end of a drive, and its faults.                                     *)

Finish ==
  /\ pc = "ending"
  /\ SetState(mem.final)
  /\ Down
  /\ UNCHANGED <<work, cancelling, hist>>

\* The provider refuses work: the run is held with its sandboxes kept.
ProviderHeld ==
  /\ \/ pc \in {"plan", "tasks", "fixrun", "ask", "proposal"} /\ kind # "tool"
     \/ pc = "work" /\ mem.stage = "reviewing"
  /\ hist.stops < MaxStops
  /\ hist' = [hist EXCEPT !.stops = @ + 1]
  /\ IF event THEN Down /\ UNCHANGED cancelling ELSE End("provider_held") /\ UNCHANGED others
  /\ UNCHANGED <<work, row>>

\* The process dies, or a call to a sandbox or the forge raises.
Die ==
  /\ pc # "down"
  /\ hist.stops < MaxStops
  /\ hist' = [hist EXCEPT !.stops = @ + 1]
  /\ Down
  /\ UNCHANGED <<work, row, cancelling>>

----------------------------------------------------------------------------
(* Others.                                                                 *)

\* resume: the stage is read before the row leaves its terminal state.
Resume ==
  /\ pc = "down" /\ hist.resumes < MaxResumes
  /\ row.state \in RESUMABLE_RUN_STATES /\ ~row.exhausted
  /\ mem' = [mem EXCEPT !.stage = row.stage]
  /\ IF row.state \in TERMINAL_RUN_STATES THEN SetState("provisioning") ELSE UNCHANGED row
  /\ pc' = "drive"
  /\ hist' = [hist EXCEPT !.resumes = @ + 1, !.cancelled = FALSE]
  /\ UNCHANGED <<work, others>>

GrantRounds ==
  /\ row.granted < MaxGrants /\ row.exhausted
  /\ row' = [row EXCEPT !.granted = @ + 1, !.exhausted = FALSE]
  /\ UNCHANGED <<work, pc, mem, others, hist>>

\* cancel, from another process: read the row, then write it.
CancelRead ==
  /\ ~cancelling /\ hist.cancels < MaxCancels
  /\ row.state \notin TERMINAL_RUN_STATES
  /\ cancelling' = TRUE
  /\ hist' = [hist EXCEPT !.cancels = @ + 1]
  /\ UNCHANGED <<work, row, pc, mem, event>>

CancelWrite ==
  /\ cancelling
  /\ SetState("cancelled")
  /\ cancelling' = FALSE
  /\ hist' = [hist EXCEPT !.cancelled = TRUE]
  /\ UNCHANGED <<work, pc, mem, event>>

RequestCancel ==
  /\ pc # "down" /\ ~event /\ hist.cancels < MaxCancels
  /\ event' = TRUE
  /\ hist' = [hist EXCEPT !.cancels = @ + 1]
  /\ UNCHANGED <<work, row, pc, mem, cancelling>>

\* A person answers or skips the questions of a parked run.
Answer ==
  /\ plan.questions = "open" /\ row.state = "awaiting_answers"
  /\ plan' = [plan EXCEPT !.questions = "settled"]
  /\ UNCHANGED <<kind, holds, row, graph, fixes, gated, pr, pc, mem, others, hist>>

\* The run was given up before they did.
Withdraw ==
  /\ plan.questions = "open" /\ row.state = "awaiting_answers"
  /\ plan' = [plan EXCEPT !.questions = "withdrawn"]
  /\ UNCHANGED <<kind, holds, row, graph, fixes, gated, pr, pc, mem, others, hist>>

\* approve: the proposed level becomes a person's.
Approve ==
  /\ plan.level = "proposed"
  /\ plan' = [plan EXCEPT !.level = "approved"]
  /\ UNCHANGED <<kind, holds, row, graph, fixes, gated, pr, pc, mem, others, hist>>

Engine == \/ Drive \/ Provision \/ Phases \/ Needs \/ Plan \/ Tasks \/ ToolTasks
          \/ Check \/ Interrupted \/ Enter
          \/ Gate \/ Deliver \/ Review \/ AwaitCi \/ Land
          \/ Budget \/ NoteRound \/ AppendFix \/ EnterFix \/ RunFix
          \/ Judge \/ StampHold \/ Publish \/ RecordPublished
          \/ Clarify \/ Ask \/ Propose \/ Proposal \/ Handover \/ Finish

Next == \/ Engine \/ ProviderHeld \/ Die
        \/ Resume \/ GrantRounds \/ CancelRead \/ CancelWrite \/ RequestCancel
        \/ Answer \/ Withdraw \/ Approve

Spec == Init /\ [][Next]_vars

\* The engine takes its next step; nobody is obliged to resume or to cancel.
FairSpec == Spec /\ WF_vars(Engine)

----------------------------------------------------------------------------
(* Properties.                                                             *)

Row == [state : RunStates, stage : RunStates, exhausted : BOOLEAN, review : Nat, ci : Nat,
        granted : Nat, bot : BOOLEAN, advisory : BOOLEAN, published : BOOLEAN,
        credentials : BOOLEAN]

TypeOK ==
  /\ kind \in Kinds /\ holds \in BOOLEAN
  /\ row \in Row
  /\ graph \in {"none", "planned", "done", "failed"}
  /\ fixes \in Seq({"pending", "done", "failed"})
  /\ gated \in BOOLEAN
  /\ pr \in [open : BOOLEAN, gated : BOOLEAN, approved : BOOLEAN]
  /\ plan \in [questions : {"none", "open", "settled", "withdrawn"},
              level : {"none", "proposed", "approved", "twice"}]
  /\ pc \in Steps
  /\ mem \in [stage : RunStates, fix : Rounds, regate : BOOLEAN, final : RunStates]
  /\ event \in BOOLEAN /\ cancelling \in BOOLEAN
  /\ hist \in [stops : Nat, resumes : Nat, cancels : Nat, cancelled : BOOLEAN,
               rash : BOOLEAN, botRounds : Nat, issues : Nat, reached : RunStates]

\* A red tree is never delivered: whatever the round was for, and wherever the
\* run died and was resumed, the head of the pull request passed the gate.
DeliveredGated == pr.open => pr.gated

\* The engine merges only a head its own review approved since it was delivered.
MergedReviewed == ~hist.rash

\* Rounds are paid for before they are run and never beyond the budget and the
\* grants, across deaths between the counter, the record and the task; an
\* automated reviewer's objection buys one round, whatever dies when.
RoundsPaid ==
  /\ row.review <= MaxReview + row.granted
  /\ row.ci <= MaxCi + row.granted
  /\ Len(fixes) <= row.review + row.ci
  /\ hist.botRounds <= 1

\* Every drive of a run comes to rest: no stage sends it round for ever.
ComesToRest == <>[](pc = "down")

\* A resume re-enters the stage the run was in.
StageKept ==
  (pc = "provision" /\ hist.reached # "created") => mem.stage = hist.reached

\* A run cancelled in the store stays cancelled until it is resumed.
CancelKept == hist.cancelled => row.state = "cancelled"

\* "One issue per run, however many times the stage is entered."
OneIssue == hist.issues <= 1

\* A resume after the delivery landed delivers nothing: what a person approved
\* of a proposal is not proposed to them again.
OneProposal == plan.level # "twice"

\* A merged run is never rewritten.
MergedIsFinal == [][row.state = "merged" => row'.state = "merged"]_vars
=============================================================================
