--------------------------- MODULE RunEngineProofs ---------------------------
(***************************************************************************)
(* A run, for every budget, kind of run and number of deaths, resumes and  *)
(* cancellations: its type invariant, that only a gated tree is delivered, *)
(* that only a reviewed head is merged, and that every fix round was paid  *)
(* for within the budget.                                                  *)
(***************************************************************************)
EXTENDS RunEngine, SequenceTheorems, TLAPS

Mem == [stage : RunStates, fix : Rounds, regate : BOOLEAN, final : RunStates]
Hist == [stops : Nat, resumes : Nat, cancels : Nat, cancelled : BOOLEAN,
         rash : BOOLEAN, botRounds : Nat, issues : Nat, reached : RunStates]

\* The stages a fix round is bought from.
FixStages == {"gating", "reviewing", "awaiting_ci", "landing"}
Buying == {"budget", "note", "append"}
Fixing == {"fixing", "fixrun"}

\* The states that leave the stage alone.
Ends == TERMINAL_RUN_STATES \cup {"provider_held"}

\* What a stage takes for granted of the workspace and the pull request.
Fit(s) == /\ s = "delivering" => gated
          /\ s = "reviewing" => pr.open
          /\ s \in {"awaiting_ci", "landing"} => pr.open /\ pr.approved

\* The stage being worked on, and the stage a resume will re-enter, can be entered.
StagesFit == /\ Fit(mem.stage) /\ Fit(row.stage)
             /\ mem.stage \notin Ends /\ row.stage \notin Ends

\* The row says which stage is worked on: what changes the workspace happens under a stage
\* other than delivering, so a death there is resumed at one that checks it again.
StageTold ==
  /\ pc \in {"work"} \cup Buying => row.stage = mem.stage
  /\ pc \in Buying => mem.stage \in FixStages
  /\ pc \in Fixing => mem.stage \in FixStages \cup {"fixing"}
  /\ pc = "fixrun" => row.stage = "fixing"
  /\ pc = "tasks" => row.stage \in GRAPH_STATES
  /\ pc \in {"phases", "plan", "tasks"} => mem.stage \notin PIPELINE_STAGES /\ kind # "plan"

\* Only a code run has the stages of the pipeline.
PipelineOfCode ==
  \A s \in {mem.stage, row.stage} : s \in PIPELINE_STAGES => kind \in {"code", "local"}

\* The counter moves before the task is appended, and an automated reviewer's round is
\* recorded before it is run.
Counted ==
  /\ row.review <= MaxReview + row.granted
  /\ row.ci <= MaxCi + row.granted
  /\ Len(fixes) <= row.review + row.ci
  /\ pc \in {"note", "append"} => Len(fixes) < row.review + row.ci

BotOnce ==
  /\ hist.botRounds <= 1
  /\ hist.botRounds = 1 => row.bot
  /\ pc \in Buying /\ mem.fix = "bot" => hist.botRounds = 0
  /\ pc = "append" /\ mem.fix = "bot" => row.bot

\* The parts of the invariant that are about stages and rounds.
Rest == /\ DeliveredGated
        /\ MergedReviewed
        /\ StagesFit
        /\ StageTold
        /\ PipelineOfCode
        /\ Counted
        /\ BotOnce

Core == TypeOK /\ Rest

\* A pipeline ends in a state that leaves the stage alone.
EndsKnown == pc = "ending" => mem.final \in Ends

IInv == Core /\ EndsKnown

-----------------------------------------------------------------------------
(* The row and the locals.                                                 *)

LEMMA RunStatesAre ==
  RunStates = {"merged", "completed", "failed", "blocked", "cancelled", "gated",
               "awaiting_review", "held", "awaiting_answers", "provider_held", "created",
               "provisioning", "decomposing", "building", "planning", "executing", "gating",
               "delivering", "reviewing", "fixing", "awaiting_ci", "landing", "judging",
               "publishing", "clarifying", "proposing"}
  BY DEF RunStates, TERMINAL_RUN_STATES, RESUMABLE_RUN_STATES, GRAPH_STATES, PIPELINE_STAGES,
         LATE_STAGES, PLAN_STAGES

\* set_run_state changes the state and the stage alone.
LEMMA SetStateRow ==
  ASSUME row \in Row, NEW s \in RunStates, SetState(s)
  PROVE  /\ row' \in Row
         /\ row'.stage = (IF s \in Ends THEN row.stage ELSE s)
         /\ row'.review = row.review /\ row'.ci = row.ci /\ row'.granted = row.granted
         /\ row'.bot = row.bot
<1>1. row' = [row EXCEPT !.state = s, !.stage = IF s \in Ends THEN row.stage ELSE s]
  BY DEF SetState, WithState, Ends
<1>2. \A z \in RunStates :
        LET q == [row EXCEPT !.state = s, !.stage = z]
        IN  /\ q \in Row /\ q.stage = z
            /\ q.review = row.review /\ q.ci = row.ci /\ q.granted = row.granted
            /\ q.bot = row.bot
  BY DEF Row
<1>3. row.stage \in RunStates
  BY DEF Row
<1> QED
  BY <1>1, <1>2, <1>3

LEMMA EndMem ==
  ASSUME mem \in Mem, NEW s \in RunStates, End(s)
  PROVE  /\ mem' \in Mem /\ mem'.stage = mem.stage /\ mem'.fix = mem.fix
         /\ pc' = "ending"
  BY DEF Mem, End

LEMMA ToMem ==
  ASSUME mem \in Mem, NEW s \in RunStates, To(s)
  PROVE  /\ mem' \in Mem /\ mem'.stage = s /\ mem'.fix = "none"
         /\ pc' = "check"
  BY DEF Mem, To, Rounds

LEMMA FixMem ==
  ASSUME mem \in Mem, NEW k \in Rounds, NEW b \in BOOLEAN, Fix(k, b)
  PROVE  /\ mem' \in Mem /\ mem'.stage = mem.stage /\ mem'.fix = k
         /\ pc' = "budget"
  BY DEF Mem, Fix

LEMMA DownMem ==
  ASSUME mem \in Mem, Down
  PROVE  /\ mem' \in Mem /\ mem'.stage = mem.stage /\ mem'.fix = "none"
         /\ pc' = "down" /\ event' = FALSE
  BY RunStatesAre DEF Mem, Down, Rounds

\* Changes that none of the other parts of the invariant depends on.
RowQuiet == /\ row' \in Row
            /\ row'.stage = row.stage
            /\ row'.review = row.review /\ row'.ci = row.ci /\ row'.granted = row.granted
            /\ row'.bot = row.bot

HistQuiet == hist' \in Hist /\ hist'.rash = hist.rash /\ hist'.botRounds = hist.botRounds

LEMMA HistMarks ==
  ASSUME hist \in Hist, NEW n \in Nat, NEW s \in RunStates, NEW b \in BOOLEAN
  PROVE  /\ hist' = [hist EXCEPT !.reached = s] => HistQuiet
         /\ hist' = [hist EXCEPT !.stops = n] => HistQuiet
         /\ hist' = [hist EXCEPT !.cancels = n] => HistQuiet
         /\ hist' = [hist EXCEPT !.issues = n] => HistQuiet
         /\ hist' = [hist EXCEPT !.cancelled = b] => HistQuiet
         /\ hist' = [hist EXCEPT !.resumes = n, !.cancelled = b] => HistQuiet
  BY DEF Hist, HistQuiet

LEMMA HistNumbers ==
  ASSUME hist \in Hist
  PROVE  /\ hist.stops + 1 \in Nat /\ hist.cancels + 1 \in Nat /\ hist.issues + 1 \in Nat
         /\ hist.resumes + 1 \in Nat
  BY DEF Hist

LEMMA RowMarks ==
  ASSUME row \in Row, NEW b \in BOOLEAN
  PROVE  /\ row' = [row EXCEPT !.credentials = b] => RowQuiet
         /\ row' = [row EXCEPT !.exhausted = b] => RowQuiet
         /\ row' = [row EXCEPT !.published = b] => RowQuiet
         /\ row' = [row EXCEPT !.advisory = b] => RowQuiet
  BY DEF Row, RowQuiet

LEMMA RowSame == TypeOK /\ UNCHANGED row => RowQuiet
  BY DEF TypeOK, RowQuiet

LEMMA HistSame == TypeOK /\ UNCHANGED hist => HistQuiet
  BY DEF TypeOK, Hist, HistQuiet

\* TypeOK, one variable at a time.
LEMMA Typed ==
  ASSUME TypeOK, UNCHANGED <<kind, holds>>, row' \in Row,
         graph' \in {"none", "planned", "done", "failed"},
         fixes' \in Seq({"pending", "done", "failed"}), gated' \in BOOLEAN,
         pr' \in [open : BOOLEAN, gated : BOOLEAN, approved : BOOLEAN],
         plan' \in [questions : {"none", "open", "settled", "withdrawn"},
                    level : {"none", "proposed", "approved", "twice"}],
         pc' \in Steps, mem' \in Mem, event' \in BOOLEAN, cancelling' \in BOOLEAN,
         hist' \in Hist
  PROVE  TypeOK'
  BY DEF TypeOK, Mem, Hist

LEMMA Types ==
  TypeOK => /\ row \in Row /\ mem \in Mem /\ hist \in Hist
            /\ graph \in {"none", "planned", "done", "failed"}
            /\ fixes \in Seq({"pending", "done", "failed"}) /\ gated \in BOOLEAN
            /\ pr \in [open : BOOLEAN, gated : BOOLEAN, approved : BOOLEAN]
            /\ plan \in [questions : {"none", "open", "settled", "withdrawn"},
                         level : {"none", "proposed", "approved", "twice"}]
            /\ pc \in Steps /\ event \in BOOLEAN /\ cancelling \in BOOLEAN
  BY DEF TypeOK, Mem, Hist

\* A step that changes no count, no tree and no pull request, and where the run is.
LEMMA QuietRest ==
  ASSUME TypeOK, Rest, RowQuiet, HistQuiet, UNCHANGED <<kind, fixes, gated, pr>>,
         mem' \in Mem, mem'.stage = mem.stage,
         pc' \in Steps \ ({"work", "fixrun", "tasks"} \cup Buying),
         pc' \in {"phases", "plan"} => mem.stage \notin PIPELINE_STAGES /\ kind # "plan",
         pc' = "fixing" => mem.stage \in FixStages \cup {"fixing"}
  PROVE  Rest'
  BY DEF Rest, RowQuiet, HistQuiet, DeliveredGated, MergedReviewed, StagesFit, Fit, StageTold,
         PipelineOfCode, Counted, BotOnce, Fixing, Buying

-----------------------------------------------------------------------------
(* Driving: from a resume to the stages.                                   *)

\* A state that is written moves the stage, and the step goes on with that stage.
LEMMA DriveInv == ASSUME Core, Drive PROVE Core'
<1> USE DEF Core
<1>1. /\ row' \in Row /\ row'.stage = "provisioning"
      /\ row'.review = row.review /\ row'.ci = row.ci /\ row'.granted = row.granted
      /\ row'.bot = row.bot
  BY Types, SetStateRow, RunStatesAre DEF Drive, Ends, TERMINAL_RUN_STATES
<1>2. pc' = "provision" /\ UNCHANGED <<kind, holds, graph, fixes, gated, pr, plan, mem, event,
                                       cancelling, hist>>
  BY DEF Drive, work, others
<1>3. TypeOK'
  BY <1>1, <1>2, Types, Typed DEF Steps
<1> QED
  BY <1>1, <1>2, <1>3 DEF Rest, DeliveredGated, MergedReviewed, StagesFit, Fit, StageTold,
    PipelineOfCode, Counted, BotOnce, Buying, Fixing, FixStages, PIPELINE_STAGES, GRAPH_STATES,
    Ends, TERMINAL_RUN_STATES

\* Past the graph only the stages of the run's kind are re-entered.
LEMMA ProvisionInv == ASSUME Core, Provision PROVE Core'
<1> USE DEF Core
<1>1. /\ pc' \in {"propose", "clarify", "check", "phases"}
      /\ pc' = "phases" => mem.stage \notin Reentered /\ kind # "plan"
      /\ UNCHANGED <<kind, holds, graph, fixes, gated, pr, plan, row, mem, event, cancelling, hist>>
  BY DEF Provision, work, others
<1>2. TypeOK'
  BY <1>1, Types, Typed DEF Steps
<1>3. RowQuiet /\ HistQuiet
  BY <1>1, RowSame, HistSame
<1>4. pc' = "phases" => mem.stage \notin PIPELINE_STAGES /\ kind # "plan"
  BY <1>1 DEF Rest, PipelineOfCode, Reentered
<1>5. Rest'
  BY <1>1, <1>3, <1>4, Types, QuietRest DEF Steps, Buying
<1> QED
  BY <1>2, <1>5

LEMMA PhasesInv == ASSUME Core, Phases PROVE Core'
<1> USE DEF Core
<1>1. PICK s \in {"planning", "decomposing", "executing", "building"} : SetState(s)
  BY DEF Phases
<1>2. /\ row' \in Row /\ row'.stage = s
      /\ row'.review = row.review /\ row'.ci = row.ci /\ row'.granted = row.granted
      /\ row'.bot = row.bot
  BY <1>1, Types, SetStateRow, RunStatesAre DEF Ends, TERMINAL_RUN_STATES
<1>3. /\ pc = "phases" /\ pc' \in {"plan", "tasks"}
      /\ UNCHANGED <<kind, holds, graph, fixes, gated, pr, plan, mem, event, cancelling, hist>>
  BY DEF Phases, work, others
<1>4. TypeOK'
  BY <1>2, <1>3, Types, Typed DEF Steps
<1> QED
  BY <1>2, <1>3, <1>4 DEF Rest, DeliveredGated, MergedReviewed, StagesFit, Fit, StageTold,
    PipelineOfCode, Counted, BotOnce, Buying, Fixing, FixStages, PIPELINE_STAGES, GRAPH_STATES,
    Ends, TERMINAL_RUN_STATES

LEMMA NeedsInv == ASSUME Core, Needs PROVE Core'
<1> USE DEF Core
<1>1. /\ pc = "phases"
      /\ UNCHANGED <<kind, holds, graph, fixes, gated, pr, plan, event, cancelling, hist>>
  BY DEF Needs, work, others
<1>2. HistQuiet
  BY <1>1, HistSame
<1>3. CASE End("failed") /\ UNCHANGED row
  <2>1. RowQuiet
    BY <1>3, RowSame
  <2>2. mem' \in Mem /\ mem'.stage = mem.stage /\ pc' = "ending"
    BY <1>3, Types, EndMem, RunStatesAre
  <2>3. TypeOK'
    BY <1>1, <1>3, <2>2, Types, Typed DEF Steps
  <2>4. Rest'
    BY <1>1, <1>2, <2>1, <2>2, QuietRest DEF Steps, Buying
  <2> QED
    BY <2>3, <2>4
<1>4. CASE /\ row' = [row EXCEPT !.credentials = TRUE]
           /\ mem' = [mem EXCEPT !.stage = "executing"]
           /\ pc' = "drive"
  <2>1. RowQuiet
    BY <1>4, Types, RowMarks
  <2>2. mem' \in Mem /\ mem'.stage = "executing"
    BY <1>4, Types, RunStatesAre DEF Mem
  <2>3. TypeOK'
    BY <1>1, <1>4, <2>1, <2>2, Types, Typed DEF Steps, RowQuiet
  <2>4. Rest'
    BY <1>1, <1>4, <2>1, <2>2 DEF Rest, RowQuiet, DeliveredGated, MergedReviewed, StagesFit, Fit, StageTold,
    PipelineOfCode, Counted, BotOnce, Buying, Fixing, FixStages, PIPELINE_STAGES, GRAPH_STATES,
    Ends, TERMINAL_RUN_STATES
  <2> QED
    BY <2>3, <2>4
<1> QED
  BY <1>3, <1>4 DEF Needs

LEMMA PlanInv == ASSUME Core, Plan PROVE Core'
<1> USE DEF Core
<1>1. /\ pc = "phases" \/ pc = "plan"
      /\ pc' = "phases" /\ graph' = "planned"
      /\ UNCHANGED <<kind, holds, row, fixes, gated, pr, plan, mem, event, cancelling, hist>>
  BY DEF Plan, others
<1>2. TypeOK'
  BY <1>1, Types, Typed DEF Steps
<1>3. RowQuiet /\ HistQuiet /\ mem.stage \notin PIPELINE_STAGES /\ kind # "plan"
  BY <1>1, RowSame, HistSame DEF Rest, StageTold
<1>4. Rest'
  BY <1>1, <1>3, Types, QuietRest DEF Steps, Buying
<1> QED
  BY <1>2, <1>4

\* A graph that ran leaves the tree ungated, under a stage that goes back to the gate.
LEMMA TasksInv == ASSUME Core, Tasks \/ ToolTasks PROVE Core'
<1> USE DEF Core
<1>1. /\ pc = "tasks"
      /\ graph' \in {"none", "planned", "done", "failed"}
      /\ gated' \in {gated, FALSE}
      /\ To(FirstStage) \/ End("failed")
      /\ UNCHANGED <<kind, holds, row, fixes, pr, plan, event, cancelling, hist>>
  BY Types DEF Tasks, ToolTasks, others
<1>2. /\ FirstStage \in {"judging", "publishing", "gating"}
      /\ FirstStage = "gating" => kind \in {"code", "local"}
  BY <1>1, KindsAssumption DEF FirstStage, Rest, StageTold, TypeOK
<1>3. /\ mem' \in Mem /\ pc' \in {"check", "ending"}
      /\ \/ mem'.stage = mem.stage
         \/ mem'.stage \in {"judging", "publishing", "gating"} /\ mem'.stage = FirstStage
  BY <1>1, <1>2, Types, ToMem, EndMem, RunStatesAre
<1>4. TypeOK'
  <2>1. gated' \in BOOLEAN
    BY <1>1, Types
  <2> QED
    BY <1>1, <1>3, <2>1, Types, Typed DEF Steps
<1> QED
  BY <1>1, <1>2, <1>3, <1>4 DEF Rest, DeliveredGated, MergedReviewed, StagesFit, Fit, StageTold,
    PipelineOfCode, Counted, BotOnce, Buying, Fixing, FixStages, PIPELINE_STAGES, GRAPH_STATES,
    Ends, TERMINAL_RUN_STATES

\* The drive is given up: a state that is an end leaves the stage as it was.
LEMMA InterruptedInv == ASSUME Core, Interrupted PROVE Core'
<1> USE DEF Core
<1>1. UNCHANGED <<kind, holds, graph, fixes, gated, pr, plan, cancelling, hist>>
  BY DEF Interrupted, work
<1>2. RowQuiet
  <2>1. CASE UNCHANGED row
    BY <2>1, RowSame
  <2>2. CASE SetState("failed")
    BY <2>2, Types, SetStateRow, RunStatesAre DEF Ends, TERMINAL_RUN_STATES, RowQuiet
  <2> QED
    BY <2>1, <2>2 DEF Interrupted
<1>3. mem' \in Mem /\ mem'.stage = mem.stage /\ pc' = "down" /\ event' = FALSE
  BY Types, DownMem DEF Interrupted
<1>4. HistQuiet
  BY <1>1, HistSame
<1>5. TypeOK'
  BY <1>1, <1>2, <1>3, Types, Typed, ZenonT(40) DEF Steps, RowQuiet
<1>6. Rest'
  BY <1>1, <1>2, <1>3, <1>4, QuietRest DEF Steps, Buying
<1> QED
  BY <1>5, <1>6

LEMMA CheckInv == ASSUME Core, Check PROVE Core'
<1> USE DEF Core
<1>1. /\ pc' = "enter"
      /\ UNCHANGED <<kind, holds, graph, fixes, gated, pr, plan, row, mem, event, cancelling, hist>>
  BY DEF Check, work, others
<1>2. TypeOK'
  BY <1>1, Types, Typed DEF Steps
<1>3. RowQuiet /\ HistQuiet
  BY <1>1, RowSame, HistSame
<1>4. Rest'
  BY <1>1, <1>3, Types, QuietRest DEF Steps, Buying
<1> QED
  BY <1>2, <1>4

\* A stage is told before it is worked on.
LEMMA EnterInv == ASSUME Core, Enter PROVE Core'
<1> USE DEF Core
<1>1. /\ pc = "enter"
      /\ UNCHANGED <<kind, holds, graph, fixes, gated, pr, plan, event, cancelling>>
  BY DEF Enter, work, others
<1>2. CASE mem.stage = "fixing"
  <2>1. UNCHANGED <<row, hist>> /\ (To("gating") \/ (pc' = "fixing" /\ UNCHANGED mem))
    BY <1>2 DEF Enter
  <2>2. RowQuiet /\ HistQuiet
    BY <2>1, RowSame, HistSame
  <2>3. /\ mem' \in Mem
        /\ \/ mem'.stage = "gating" /\ pc' = "check"
           \/ mem'.stage = "fixing" /\ pc' = "fixing"
    BY <1>2, <2>1, Types, ToMem, RunStatesAre
  <2>4. TypeOK'
    BY <1>1, <2>1, <2>3, Types, Typed DEF Steps
  <2>5. Rest'
    BY <1>1, <1>2, <2>1, <2>3 DEF Rest, DeliveredGated, MergedReviewed, StagesFit, Fit, StageTold,
    PipelineOfCode, Counted, BotOnce, Buying, Fixing, FixStages, PIPELINE_STAGES, GRAPH_STATES,
    Ends, TERMINAL_RUN_STATES
  <2> QED
    BY <2>4, <2>5
<1>3. CASE mem.stage # "fixing"
  <2>1. /\ SetState(mem.stage) /\ hist' = [hist EXCEPT !.reached = mem.stage]
        /\ pc' = "work" /\ UNCHANGED mem
    BY <1>3 DEF Enter
  <2>2. mem.stage \in RunStates
    BY Types DEF Mem
  <2>3. HistQuiet
    BY <2>1, <2>2, Types, HistMarks
  <2>4. /\ row' \in Row /\ row'.stage = (IF mem.stage \in Ends THEN row.stage ELSE mem.stage)
        /\ row'.review = row.review /\ row'.ci = row.ci /\ row'.granted = row.granted
        /\ row'.bot = row.bot
    BY <2>1, <2>2, Types, SetStateRow
  <2>5. TypeOK'
    BY <1>1, <2>1, <2>3, <2>4, Types, Typed DEF Steps, HistQuiet
  <2>6. Rest'
    BY <1>1, <2>1, <2>3, <2>4 DEF Rest, HistQuiet, DeliveredGated, MergedReviewed, StagesFit, Fit, StageTold,
    PipelineOfCode, Counted, BotOnce, Buying, Fixing, FixStages, PIPELINE_STAGES, GRAPH_STATES,
    Ends, TERMINAL_RUN_STATES
  <2> QED
    BY <2>5, <2>6
<1> QED
  BY <1>2, <1>3

-----------------------------------------------------------------------------
(* The stages of a code run.                                               *)

LEMMA GateInv == ASSUME Core, Gate PROVE Core'
<1> USE DEF Core
<1>1. /\ pc = "work" /\ mem.stage = "gating"
      /\ UNCHANGED <<kind, holds, row, graph, fixes, pr, plan, event, cancelling, hist>>
  BY DEF Gate, others
<1>2. CASE gated' = TRUE /\ (IF kind = "local" THEN End("completed") ELSE To("delivering"))
  <2>1. /\ mem' \in Mem /\ pc' \in {"ending", "check"}
        /\ mem'.stage \in {"gating", "delivering"}
    BY <1>1, <1>2, Types, EndMem, ToMem, RunStatesAre
  <2>2. TypeOK'
    BY <1>1, <1>2, <2>1, Types, Typed DEF Steps
  <2>3. Rest'
    BY <1>1, <1>2, <2>1 DEF Rest, DeliveredGated, MergedReviewed, StagesFit, Fit, StageTold,
    PipelineOfCode, Counted, BotOnce, Buying, Fixing, FixStages, PIPELINE_STAGES, GRAPH_STATES,
    Ends, TERMINAL_RUN_STATES
  <2> QED
    BY <2>2, <2>3
<1>3. CASE gated' = FALSE /\ Fix("ci", TRUE)
  <2>1. mem' \in Mem /\ pc' = "budget" /\ mem'.stage = "gating" /\ mem'.fix = "ci"
    BY <1>1, <1>3, Types, FixMem DEF Rounds
  <2>2. gated' \in BOOLEAN
    BY <1>3
  <2>3. TypeOK'
    BY <1>1, <2>1, <2>2, Types, Typed DEF Steps
  <2>4. Rest'
    BY <1>1, <1>3, <2>1 DEF Rest, DeliveredGated, MergedReviewed, StagesFit, Fit, StageTold,
    PipelineOfCode, Counted, BotOnce, Buying, Fixing, FixStages, PIPELINE_STAGES, GRAPH_STATES,
    Ends, TERMINAL_RUN_STATES
  <2> QED
    BY <2>3, <2>4
<1> QED
  BY <1>2, <1>3 DEF Gate

\* What is delivered is the gated tree, and no review stands for it yet.
LEMMA DeliverInv == ASSUME Core, Deliver PROVE Core'
<1> USE DEF Core
<1>1. /\ pc = "work" /\ mem.stage = "delivering"
      /\ UNCHANGED <<kind, holds, row, graph, fixes, gated, plan, event, cancelling, hist>>
  BY DEF Deliver, others
<1>2. CASE pr' = [open |-> TRUE, gated |-> gated, approved |-> FALSE] /\ To("reviewing")
  <2>1. mem' \in Mem /\ pc' = "check" /\ mem'.stage = "reviewing"
    BY <1>2, Types, ToMem, RunStatesAre
  <2>2. gated /\ row.stage = "delivering"
    BY <1>1 DEF Rest, StagesFit, Fit, StageTold
  <2>3. /\ pr' \in [open : BOOLEAN, gated : BOOLEAN, approved : BOOLEAN]
        /\ pr'.open /\ pr'.gated
    BY <1>2, <2>2, Types
  <2>4. TypeOK'
    BY <1>1, <2>1, <2>3, Types, Typed DEF Steps
  <2>5. Rest'
    BY <1>1, <2>1, <2>2, <2>3 DEF Rest, DeliveredGated, MergedReviewed, StagesFit, Fit, StageTold,
    PipelineOfCode, Counted, BotOnce, Buying, Fixing, FixStages, PIPELINE_STAGES, GRAPH_STATES,
    Ends, TERMINAL_RUN_STATES
  <2> QED
    BY <2>4, <2>5
<1>3. CASE End("blocked") /\ UNCHANGED pr
  <2>1. mem' \in Mem /\ mem'.stage = mem.stage /\ pc' = "ending"
    BY <1>3, Types, EndMem, RunStatesAre
  <2>2. TypeOK'
    BY <1>1, <1>3, <2>1, Types, Typed DEF Steps
  <2>3. RowQuiet /\ HistQuiet
    BY <1>1, RowSame, HistSame
  <2>4. Rest'
    BY <1>1, <1>3, <2>1, <2>3, QuietRest DEF Steps, Buying
  <2> QED
    BY <2>2, <2>4
<1> QED
  BY <1>2, <1>3 DEF Deliver

LEMMA ReviewInv == ASSUME Core, Review PROVE Core'
<1> USE DEF Core
<1>1. /\ pc = "work" /\ mem.stage = "reviewing"
      /\ UNCHANGED <<kind, holds, row, graph, fixes, gated, plan, event, cancelling, hist>>
  BY DEF Review, others
<1>2. CASE pr' = [pr EXCEPT !.approved = TRUE] /\ To("awaiting_ci")
  <2>1. mem' \in Mem /\ pc' = "check" /\ mem'.stage = "awaiting_ci"
    BY <1>2, Types, ToMem, RunStatesAre
  <2>2. pr.open /\ pr.gated /\ row.stage = "reviewing"
    BY <1>1 DEF Rest, StagesFit, Fit, StageTold, DeliveredGated
  <2>3. /\ pr' \in [open : BOOLEAN, gated : BOOLEAN, approved : BOOLEAN]
        /\ pr'.open /\ pr'.gated /\ pr'.approved
    BY <1>2, <2>2, Types
  <2>4. TypeOK'
    BY <1>1, <2>1, <2>3, Types, Typed DEF Steps
  <2>5. Rest'
    BY <1>1, <2>1, <2>2, <2>3 DEF Rest, DeliveredGated, MergedReviewed, StagesFit, Fit, StageTold,
    PipelineOfCode, Counted, BotOnce, Buying, Fixing, FixStages, PIPELINE_STAGES, GRAPH_STATES,
    Ends, TERMINAL_RUN_STATES
  <2> QED
    BY <2>4, <2>5
<1>3. CASE Fix("review", FALSE) /\ UNCHANGED pr
  <2>1. mem' \in Mem /\ pc' = "budget" /\ mem'.stage = "reviewing" /\ mem'.fix = "review"
    BY <1>1, <1>3, Types, FixMem DEF Rounds
  <2>2. TypeOK'
    BY <1>1, <1>3, <2>1, Types, Typed DEF Steps
  <2>3. Rest'
    BY <1>1, <1>3, <2>1 DEF Rest, DeliveredGated, MergedReviewed, StagesFit, Fit, StageTold,
    PipelineOfCode, Counted, BotOnce, Buying, Fixing, FixStages, PIPELINE_STAGES, GRAPH_STATES,
    Ends, TERMINAL_RUN_STATES
  <2> QED
    BY <2>2, <2>3
<1> QED
  BY <1>2, <1>3 DEF Review

\* A round bought at a stage past the review, or none: the stage keeps what it takes for
\* granted, and a machine's round is bought only when none was recorded.
LEMMA AutomatedRow ==
  ASSUME TypeOK, NEW k \in {"bot", "advisory"}, Automated(k)
  PROVE  /\ row' \in Row /\ row'.stage = row.stage
         /\ row'.review = row.review /\ row'.ci = row.ci /\ row'.granted = row.granted
         /\ row.bot => row'.bot
         /\ \/ To("landing")
            \/ Fix(k, FALSE) /\ (k = "bot" => ~row.bot)
<1>1. LET q == [row EXCEPT !.bot = TRUE]
      IN  /\ q \in Row /\ q.stage = row.stage /\ q.review = row.review /\ q.ci = row.ci
          /\ q.granted = row.granted /\ q.bot
  BY Types DEF Row
<1>2. LET q == [row EXCEPT !.advisory = TRUE]
      IN  /\ q \in Row /\ q.stage = row.stage /\ q.review = row.review /\ q.ci = row.ci
          /\ q.granted = row.granted /\ q.bot = row.bot
  BY Types DEF Row
<1>3. row' \in {row, [row EXCEPT !.bot = TRUE], [row EXCEPT !.advisory = TRUE]}
  BY DEF Automated, SkipRound
<1> QED
  BY <1>1, <1>2, <1>3, Types DEF Automated

LEMMA AwaitCiInv == ASSUME Core, AwaitCi PROVE Core'
<1> USE DEF Core
<1>1. /\ pc = "work" /\ mem.stage = "awaiting_ci"
      /\ UNCHANGED <<kind, holds, graph, fixes, gated, pr, plan, event, cancelling, hist>>
  BY DEF AwaitCi, work, others
<1>2. /\ row' \in Row /\ row'.stage = row.stage
      /\ row'.review = row.review /\ row'.ci = row.ci /\ row'.granted = row.granted
      /\ row.bot => row'.bot
  BY Types, AutomatedRow DEF AwaitCi
<1>3. /\ mem' \in Mem /\ pc' \in {"check", "ending", "budget"}
      /\ pc' = "check" => mem'.stage = "landing"
      /\ pc' # "check" => mem'.stage = mem.stage
      /\ pc' = "budget" => mem'.fix # "bot"
  <2>1. CASE To("landing")
    BY <2>1, Types, ToMem, RunStatesAre
  <2>2. CASE End("blocked")
    BY <2>2, Types, EndMem, RunStatesAre
  <2>3. CASE Fix("ci", FALSE) \/ Fix("advisory", FALSE)
    BY <2>3, Types, FixMem DEF Rounds
  <2> QED
    BY <2>1, <2>2, <2>3, AutomatedRow DEF AwaitCi
<1>4. TypeOK'
  BY <1>1, <1>2, <1>3, Types, Typed DEF Steps
<1>5. Rest'
  BY <1>1, <1>2, <1>3 DEF Rest, DeliveredGated, MergedReviewed, StagesFit, Fit, StageTold,
    PipelineOfCode, Counted, BotOnce, Buying, Fixing, FixStages, PIPELINE_STAGES, GRAPH_STATES,
    Ends, TERMINAL_RUN_STATES
<1> QED
  BY <1>4, <1>5

\* The one step that merges: the stage is only reached with an approved, gated head.
LEMMA LandInv == ASSUME Core, Land PROVE Core'
<1> USE DEF Core
<1>1. /\ pc = "work" /\ mem.stage = "landing"
      /\ UNCHANGED <<kind, holds, graph, fixes, gated, pr, plan, event, cancelling>>
  BY DEF Land, work, others
<1>2. pr.open /\ pr.approved /\ pr.gated
  BY <1>1 DEF Rest, StagesFit, Fit, DeliveredGated
<1>3. HistQuiet
  <2>1. CASE UNCHANGED hist
    BY <2>1, HistSame
  <2>2. CASE hist' = [hist EXCEPT !.rash = @ \/ ~(pr.approved /\ pr.gated)]
    <3>1. ~hist.rash
      BY DEF Rest, MergedReviewed
    <3>2. hist' = [hist EXCEPT !.rash = hist.rash \/ FALSE]
      BY <1>2, <2>2
    <3>3. (hist.rash \/ FALSE) = hist.rash
      BY Types DEF Hist
    <3>4. hist' = [hist EXCEPT !.rash = hist.rash]
      BY <3>2, <3>3
    <3> QED
      BY <3>4, Types DEF Hist, HistQuiet
  <2> QED
    BY <2>1, <2>2 DEF Land
<1>4. /\ row' \in Row /\ row'.stage = row.stage
      /\ row'.review = row.review /\ row'.ci = row.ci /\ row'.granted = row.granted
      /\ row.bot => row'.bot
  BY Types, AutomatedRow DEF Land
<1>5. /\ mem' \in Mem /\ pc' \in {"check", "ending", "budget"}
      /\ pc' = "check" => mem'.stage = "landing"
      /\ pc' # "check" => mem'.stage = mem.stage
      /\ pc' = "budget" /\ mem'.fix = "bot" => ~row.bot
  <2>1. CASE To("landing")
    BY <2>1, Types, ToMem, RunStatesAre
  <2>2. ASSUME NEW s \in {"merged", "gated", "awaiting_review", "blocked", "failed"}, End(s)
        PROVE  /\ mem' \in Mem /\ pc' = "ending" /\ mem'.stage = mem.stage
    BY <2>2, Types, EndMem, RunStatesAre
  <2>3. CASE Fix("ci", FALSE) \/ Fix("advisory", FALSE)
    BY <2>3, Types, FixMem DEF Rounds
  <2>4. CASE Fix("bot", FALSE) /\ ~row.bot
    BY <2>4, Types, FixMem DEF Rounds
  <2> QED
    BY <2>1, <2>2, <2>3, <2>4, AutomatedRow DEF Land
<1>6. TypeOK'
  BY <1>1, <1>3, <1>4, <1>5, Types, Typed DEF Steps, HistQuiet
<1>7. Rest'
  <2>1. hist.botRounds \in Nat
    BY Types DEF Hist
  <2> QED
    BY <1>1, <1>2, <1>3, <1>4, <1>5, <2>1 DEF Rest, HistQuiet, DeliveredGated, MergedReviewed, StagesFit, Fit, StageTold,
    PipelineOfCode, Counted, BotOnce, Buying, Fixing, FixStages, PIPELINE_STAGES, GRAPH_STATES,
    Ends, TERMINAL_RUN_STATES
<1> QED
  BY <1>6, <1>7

-----------------------------------------------------------------------------
(* A fix round.                                                            *)

LEMMA BudgetInv == ASSUME Core, Budget PROVE Core'
<1> USE DEF Core
<1>1. /\ pc = "budget"
      /\ UNCHANGED <<kind, holds, graph, fixes, gated, pr, plan, event, cancelling, hist>>
  BY DEF Budget, work, others
<1>2. CASE row' = [row EXCEPT !.exhausted = TRUE] /\ End("failed")
  <2>1. RowQuiet
    BY <1>2, Types, RowMarks
  <2>2. mem' \in Mem /\ mem'.stage = mem.stage /\ pc' = "ending"
    BY <1>2, Types, EndMem, RunStatesAre
  <2>3. TypeOK'
    BY <1>1, <2>1, <2>2, Types, Typed DEF Steps, RowQuiet
  <2>4. HistQuiet
    BY <1>1, HistSame
  <2>5. Rest'
    BY <1>1, <2>1, <2>2, <2>4, QuietRest DEF Steps, Buying
  <2> QED
    BY <2>3, <2>5
<1>3. CASE /\ ~OverBudget(mem.fix)
           /\ row' = (IF mem.fix = "review" THEN [row EXCEPT !.review = @ + 1]
                                            ELSE [row EXCEPT !.ci = @ + 1])
           /\ pc' = "note" /\ UNCHANGED mem
  <2>1. /\ row.review \in Nat /\ row.ci \in Nat /\ row.granted \in Nat
        /\ MaxReview \in Nat /\ MaxCi \in Nat /\ Len(fixes) \in Nat
    BY Types, BudgetsAssumption, LenProperties DEF Row
  <2>2. \A n \in Nat :
          /\ LET q == [row EXCEPT !.review = n]
             IN  /\ q \in Row /\ q.stage = row.stage /\ q.review = n /\ q.ci = row.ci
                 /\ q.granted = row.granted /\ q.bot = row.bot
          /\ LET q == [row EXCEPT !.ci = n]
             IN  /\ q \in Row /\ q.stage = row.stage /\ q.review = row.review /\ q.ci = n
                 /\ q.granted = row.granted /\ q.bot = row.bot
    BY Types DEF Row
  <2>3. /\ row' \in Row /\ row'.stage = row.stage /\ row'.bot = row.bot
        /\ row'.granted = row.granted
        /\ \/ /\ row'.review = row.review + 1 /\ row'.ci = row.ci
              /\ row.review < MaxReview + row.granted
           \/ /\ row'.review = row.review /\ row'.ci = row.ci + 1
              /\ row.ci < MaxCi + row.granted
    <3>1. CASE mem.fix = "review"
      <4>1. row' = [row EXCEPT !.review = row.review + 1] /\ row.review + 1 \in Nat
        BY <1>3, <2>1, <3>1
      <4>2. row.review < MaxReview + row.granted
        BY <1>3, <2>1, <3>1 DEF OverBudget, Spent, Limit
      <4> QED
        BY <2>2, <4>1, <4>2
    <3>2. CASE mem.fix # "review"
      <4>1. row' = [row EXCEPT !.ci = row.ci + 1] /\ row.ci + 1 \in Nat
        BY <1>3, <2>1, <3>2
      <4>2. row.ci < MaxCi + row.granted
        BY <1>3, <2>1, <3>2 DEF OverBudget, Spent, Limit
      <4> QED
        BY <2>2, <4>1, <4>2
    <3> QED
      BY <3>1, <3>2
  <2>4. TypeOK'
    BY <1>1, <1>3, <2>3, Types, Typed DEF Steps
  <2>5. Counted'
    BY <1>1, <1>3, <2>1, <2>3, SMTT(30) DEF Rest, Counted
  <2>6. Rest'
    BY <1>1, <1>3, <2>3, <2>5
    DEF Rest, DeliveredGated, MergedReviewed, StagesFit, Fit, StageTold, PipelineOfCode,
        BotOnce, Buying, Fixing
  <2> QED
    BY <2>4, <2>6
<1> QED
  BY <1>2, <1>3 DEF Budget

LEMMA NoteRoundInv == ASSUME Core, NoteRound PROVE Core'
<1> USE DEF Core
<1>1. /\ pc = "note" /\ pc' = "append"
      /\ UNCHANGED <<kind, holds, graph, fixes, gated, pr, plan, mem, event, cancelling, hist>>
  BY DEF NoteRound, work, others
<1>2. /\ row' \in Row /\ row'.stage = row.stage
      /\ row'.review = row.review /\ row'.ci = row.ci /\ row'.granted = row.granted
      /\ row.bot => row'.bot
      /\ mem.fix = "bot" => row'.bot
  <2>1. LET q == [row EXCEPT !.bot = TRUE]
        IN  /\ q \in Row /\ q.stage = row.stage /\ q.review = row.review /\ q.ci = row.ci
            /\ q.granted = row.granted /\ q.bot
    BY Types DEF Row
  <2>2. LET q == [row EXCEPT !.advisory = TRUE]
        IN  /\ q \in Row /\ q.stage = row.stage /\ q.review = row.review /\ q.ci = row.ci
            /\ q.granted = row.granted /\ q.bot = row.bot
    BY Types DEF Row
  <2> QED
    BY <2>1, <2>2, Types DEF NoteRound
<1>3. TypeOK'
  BY <1>1, <1>2, Types, Typed DEF Steps
<1>4. Rest'
  BY <1>1, <1>2 DEF Rest, DeliveredGated, MergedReviewed, StagesFit, Fit, StageTold,
    PipelineOfCode, Counted, BotOnce, Buying, Fixing, FixStages, PIPELINE_STAGES, GRAPH_STATES,
    Ends, TERMINAL_RUN_STATES
<1> QED
  BY <1>3, <1>4

\* The counter was moved two steps ago: the task is the one it paid for.
LEMMA AppendFixInv == ASSUME Core, AppendFix PROVE Core'
<1> USE DEF Core
<1>1. /\ pc = "append" /\ pc' = "fixing" /\ gated' = FALSE
      /\ fixes' = Append(fixes, "pending")
      /\ UNCHANGED <<kind, holds, row, graph, pr, plan, mem, event, cancelling>>
  BY DEF AppendFix, others
<1>2. /\ fixes' \in Seq({"pending", "done", "failed"}) /\ Len(fixes') = Len(fixes) + 1
      /\ Len(fixes) \in Nat
  BY <1>1, Types, AppendProperties, LenProperties
<1>3. /\ hist' \in Hist /\ hist'.rash = hist.rash
      /\ hist'.botRounds = (IF mem.fix = "bot" THEN hist.botRounds + 1 ELSE hist.botRounds)
  <2>1. \A n \in Nat : LET h == [hist EXCEPT !.botRounds = n]
                       IN  h \in Hist /\ h.rash = hist.rash /\ h.botRounds = n
    BY Types DEF Hist
  <2>2. hist.botRounds \in Nat /\ hist.botRounds + 1 \in Nat
    BY Types DEF Hist
  <2> QED
    BY <2>1, <2>2 DEF AppendFix
<1>4. TypeOK'
  <2>1. gated' \in BOOLEAN
    BY <1>1
  <2> QED
    BY <1>1, <1>2, <1>3, <2>1, Types, Typed DEF Steps
<1>5. Counted'
  <2>1. row.review \in Nat /\ row.ci \in Nat
    BY Types DEF Row
  <2> QED
    BY <1>1, <1>2, <2>1 DEF Rest, Counted
<1>6. BotOnce'
  BY <1>1, <1>3 DEF Rest, BotOnce, Buying
<1>7. Rest'
  BY <1>1, <1>3, <1>5, <1>6
  DEF Rest, DeliveredGated, MergedReviewed, StagesFit, Fit, StageTold, PipelineOfCode, Buying,
      Fixing, FixStages
<1> QED
  BY <1>4, <1>7

LEMMA EnterFixInv == ASSUME Core, EnterFix PROVE Core'
<1> USE DEF Core
<1>1. /\ pc = "fixing" /\ pc' = "fixrun" /\ hist' = [hist EXCEPT !.reached = "fixing"]
      /\ UNCHANGED <<kind, holds, graph, fixes, gated, pr, plan, mem, event, cancelling>>
  BY DEF EnterFix, work, others
<1>2. /\ row' \in Row /\ row'.stage = "fixing"
      /\ row'.review = row.review /\ row'.ci = row.ci /\ row'.granted = row.granted
      /\ row'.bot = row.bot
  BY Types, SetStateRow, RunStatesAre DEF EnterFix, Ends, TERMINAL_RUN_STATES
<1>3. HistQuiet
  BY <1>1, Types, HistMarks, RunStatesAre
<1>4. TypeOK'
  BY <1>1, <1>2, <1>3, Types, Typed DEF Steps, HistQuiet
<1>5. mem.stage \in PIPELINE_STAGES
  BY <1>1 DEF Rest, StageTold, Fixing, FixStages, PIPELINE_STAGES
<1>6. Rest'
  BY <1>1, <1>2, <1>3, <1>5 DEF Rest, HistQuiet, DeliveredGated, MergedReviewed, StagesFit, Fit, StageTold,
    PipelineOfCode, Counted, BotOnce, Buying, Fixing, FixStages, PIPELINE_STAGES, GRAPH_STATES,
    Ends, TERMINAL_RUN_STATES
<1> QED
  BY <1>4, <1>6

\* A round that ran leaves the tree ungated, and goes back to the gate.
LEMMA RunFixInv == ASSUME Core, RunFix PROVE Core'
<1> USE DEF Core
<1>1. /\ pc = "fixrun" /\ gated' = FALSE
      /\ \E e \in {"done", "failed"} : fixes' = [fixes EXCEPT ![LastPending] = e]
      /\ AfterFix \/ End("failed")
      /\ UNCHANGED <<kind, holds, row, graph, pr, plan, event, cancelling, hist>>
  BY DEF RunFix, others
<1>2. fixes' \in Seq({"pending", "done", "failed"}) /\ Len(fixes') = Len(fixes)
  <2>1. PICK e \in {"done", "failed"} : fixes' = [fixes EXCEPT ![LastPending] = e]
    BY <1>1
  <2>2. CASE LastPending \in 1 .. Len(fixes)
    BY <2>1, <2>2, Types, ExceptSeq
  <2>3. CASE LastPending \notin 1 .. Len(fixes)
    <3>1. DOMAIN fixes = 1 .. Len(fixes) /\ fixes = [i \in DOMAIN fixes |-> fixes[i]]
      BY Types, LenProperties
    <3>2. fixes' = [i \in DOMAIN fixes |-> fixes[i]]
      BY <2>1, <2>3, <3>1
    <3> QED
      BY <3>1, <3>2, Types
  <2> QED
    BY <2>2, <2>3
<1>3. /\ mem' \in Mem /\ pc' \in {"check", "enter", "ending"}
      /\ mem'.stage \in {mem.stage, "gating"}
  <2>1. CASE End("failed")
    BY <2>1, Types, EndMem, RunStatesAre
  <2>2. CASE To("gating")
    BY <2>2, Types, ToMem, RunStatesAre
  <2>3. CASE mem' = [mem EXCEPT !.stage = "gating", !.regate = FALSE, !.fix = "none"]
              /\ pc' = "enter"
    BY <2>3, Types, RunStatesAre DEF Mem, Rounds
  <2> QED
    BY <1>1, <2>1, <2>2, <2>3 DEF AfterFix
<1>4. TypeOK'
  <2>1. gated' \in BOOLEAN
    BY <1>1
  <2> QED
    BY <1>1, <1>2, <1>3, <2>1, Types, Typed DEF Steps
<1>5. row.stage = "fixing" /\ mem.stage \in FixStages \cup {"fixing"}
      /\ kind \in {"code", "local"}
  BY <1>1 DEF Rest, StageTold, Fixing, PipelineOfCode, PIPELINE_STAGES
<1>6. Rest'
  BY <1>1, <1>2, <1>3, <1>5 DEF Rest, DeliveredGated, MergedReviewed, StagesFit, Fit, StageTold,
    PipelineOfCode, Counted, BotOnce, Buying, Fixing, FixStages, PIPELINE_STAGES, GRAPH_STATES,
    Ends, TERMINAL_RUN_STATES
<1> QED
  BY <1>4, <1>6

-----------------------------------------------------------------------------
(* The stages of a workload and of a plan run.                             *)

\* A stage outside the pipeline is told.
LEMMA MoveRest ==
  ASSUME TypeOK, Rest, HistQuiet, UNCHANGED <<kind, fixes, gated, pr>>,
         NEW s \in {"clarifying", "proposing", "publishing"}, SetState(s),
         mem' \in Mem, mem'.stage = mem.stage,
         pc' \in {"ask", "proposal", "ending"}
  PROVE  row' \in Row /\ Rest'
<1>1. /\ row' \in Row /\ row'.stage = s
      /\ row'.review = row.review /\ row'.ci = row.ci /\ row'.granted = row.granted
      /\ row'.bot = row.bot
  BY Types, SetStateRow, RunStatesAre DEF Ends, TERMINAL_RUN_STATES
<1> QED
  BY <1>1 DEF Rest, HistQuiet, DeliveredGated, MergedReviewed, StagesFit, Fit, StageTold,
    PipelineOfCode, Counted, BotOnce, Buying, Fixing, FixStages, PIPELINE_STAGES, GRAPH_STATES,
    Ends, TERMINAL_RUN_STATES

LEMMA JudgeInv == ASSUME Core, Judge PROVE Core'
<1> USE DEF Core
<1>1. /\ pc = "work" /\ mem.stage = "judging"
      /\ UNCHANGED <<kind, holds, graph, fixes, gated, pr, plan, row, event, cancelling, hist>>
  BY DEF Judge, work, others
<1>2. /\ mem' \in Mem /\ pc' \in {"ending", "stamp", "check"}
      /\ mem'.stage \in {"judging", "publishing"}
  BY <1>1, Types, EndMem, ToMem, RunStatesAre DEF Judge
<1>3. TypeOK'
  BY <1>1, <1>2, Types, Typed DEF Steps
<1>4. Rest'
  BY <1>1, <1>2 DEF Rest, DeliveredGated, MergedReviewed, StagesFit, Fit, StageTold,
    PipelineOfCode, Counted, BotOnce, Buying, Fixing, FixStages, PIPELINE_STAGES, GRAPH_STATES,
    Ends, TERMINAL_RUN_STATES
<1> QED
  BY <1>3, <1>4

LEMMA StampHoldInv == ASSUME Core, StampHold PROVE Core'
<1> USE DEF Core
<1>1. /\ SetState("publishing") /\ hist' = [hist EXCEPT !.reached = "publishing"]
      /\ End("held")
      /\ UNCHANGED <<kind, holds, graph, fixes, gated, pr, plan, event, cancelling>>
  BY DEF StampHold, work, others
<1>2. HistQuiet
  BY <1>1, Types, HistMarks, RunStatesAre
<1>3. mem' \in Mem /\ mem'.stage = mem.stage /\ pc' = "ending"
  BY <1>1, Types, EndMem, RunStatesAre
<1>4. row' \in Row /\ Rest'
  BY <1>1, <1>2, <1>3, MoveRest
<1>5. TypeOK'
  BY <1>1, <1>2, <1>3, <1>4, Types, Typed DEF Steps, HistQuiet
<1> QED
  BY <1>4, <1>5

LEMMA PublishInv == ASSUME Core, Publish PROVE Core'
<1> USE DEF Core
<1>1. UNCHANGED <<kind, holds, graph, fixes, gated, pr, plan, row, event, cancelling>>
  BY DEF Publish, work, others
<1>2. RowQuiet
  BY <1>1, RowSame
<1>3. HistQuiet
  <2>1. CASE UNCHANGED hist
    BY <2>1, HistSame
  <2>2. CASE hist' = [hist EXCEPT !.issues = hist.issues + 1]
    BY <2>2, Types, HistMarks, HistNumbers, RunStatesAre
  <2> QED
    BY <2>1, <2>2 DEF Publish
<1>4. mem' \in Mem /\ mem'.stage = mem.stage /\ pc' \in {"ending", "record"}
  BY Types, EndMem, RunStatesAre DEF Publish
<1>5. TypeOK'
  BY <1>1, <1>3, <1>4, Types, Typed DEF Steps, HistQuiet
<1>6. Rest'
  BY <1>1, <1>2, <1>3, <1>4, QuietRest DEF Steps, Buying
<1> QED
  BY <1>5, <1>6

LEMMA RecordPublishedInv == ASSUME Core, RecordPublished PROVE Core'
<1> USE DEF Core
<1>1. /\ row' = [row EXCEPT !.published = TRUE] /\ End("completed")
      /\ UNCHANGED <<kind, holds, graph, fixes, gated, pr, plan, event, cancelling, hist>>
  BY DEF RecordPublished, work, others
<1>2. RowQuiet /\ HistQuiet
  BY <1>1, Types, RowMarks, HistSame
<1>3. mem' \in Mem /\ mem'.stage = mem.stage /\ pc' = "ending"
  BY <1>1, Types, EndMem, RunStatesAre
<1>4. TypeOK'
  BY <1>1, <1>2, <1>3, Types, Typed DEF Steps, RowQuiet
<1>5. Rest'
  BY <1>1, <1>2, <1>3, QuietRest DEF Steps, Buying
<1> QED
  BY <1>4, <1>5

LEMMA ClarifyInv == ASSUME Core, Clarify PROVE Core'
<1> USE DEF Core
<1>1. UNCHANGED <<kind, holds, graph, fixes, gated, pr, plan, event, cancelling>>
  BY DEF Clarify, work, others
<1>2. /\ mem' \in Mem /\ mem'.stage = mem.stage /\ pc' \in {"propose", "ending", "ask"}
  BY Types, EndMem, RunStatesAre DEF Clarify
<1>3. CASE UNCHANGED <<row, hist>>
  <2>1. RowQuiet /\ HistQuiet
    BY <1>3, RowSame, HistSame
  <2>2. TypeOK'
    BY <1>1, <1>2, <1>3, Types, Typed DEF Steps
  <2>3. Rest'
    BY <1>1, <1>2, <2>1, QuietRest DEF Steps, Buying
  <2> QED
    BY <2>2, <2>3
<1>4. CASE /\ SetState("clarifying") /\ hist' = [hist EXCEPT !.reached = "clarifying"]
           /\ pc' = "ask"
  <2>1. HistQuiet
    BY <1>4, Types, HistMarks, RunStatesAre
  <2>2. row' \in Row /\ Rest'
    BY <1>1, <1>2, <1>4, <2>1, MoveRest
  <2>3. TypeOK'
    BY <1>1, <1>2, <1>4, <2>1, <2>2, Types, Typed DEF Steps, HistQuiet
  <2> QED
    BY <2>2, <2>3
<1> QED
  BY <1>3, <1>4 DEF Clarify

\* Questions, a stored proposal and its delivery: the plan moves, not the row.
LEMMA PlanStageInv == ASSUME Core, Ask \/ Proposal \/ Handover PROVE Core'
<1> USE DEF Core
<1>1. /\ UNCHANGED <<kind, holds, row, fixes, gated, pr, event, cancelling, hist>>
      /\ graph' \in {"none", "planned", "done", "failed"}
  BY Types DEF Ask, Proposal, Handover, others
<1>2. plan' \in [questions : {"none", "open", "settled", "withdrawn"},
                 level : {"none", "proposed", "approved", "twice"}]
  BY Types DEF Ask, Proposal, Handover
<1>3. /\ mem' \in Mem /\ mem'.stage = mem.stage
      /\ pc' \in {"propose", "ending", "handover", "record"}
  BY Types, EndMem, RunStatesAre DEF Ask, Proposal, Handover
<1>4. RowQuiet /\ HistQuiet
  BY <1>1, RowSame, HistSame
<1>5. TypeOK'
  BY <1>1, <1>2, <1>3, Types, Typed DEF Steps
<1>6. Rest'
  BY <1>1, <1>3, <1>4, QuietRest DEF Steps, Buying
<1> QED
  BY <1>5, <1>6

LEMMA ProposeInv == ASSUME Core, Propose PROVE Core'
<1> USE DEF Core
<1>1. /\ SetState("proposing") /\ hist' = [hist EXCEPT !.reached = "proposing"]
      /\ pc' = "proposal"
      /\ UNCHANGED <<kind, holds, graph, fixes, gated, pr, plan, mem, event, cancelling>>
  BY DEF Propose, work, others
<1>2. HistQuiet
  BY <1>1, Types, HistMarks, RunStatesAre
<1>3. row' \in Row /\ Rest'
  BY <1>1, <1>2, Types, MoveRest
<1>4. TypeOK'
  BY <1>1, <1>2, <1>3, Types, Typed DEF Steps, HistQuiet
<1> QED
  BY <1>3, <1>4

-----------------------------------------------------------------------------
(* The end of a drive, its faults, and the others.                         *)

\* How the pipeline says it ended leaves the stage alone.
LEMMA FinishInv == ASSUME Core, EndsKnown, Finish PROVE Core'
<1> USE DEF Core
<1>1. /\ pc = "ending" /\ SetState(mem.final) /\ Down
      /\ UNCHANGED <<kind, holds, graph, fixes, gated, pr, plan, cancelling, hist>>
  BY DEF Finish, work
<1>2. mem.final \in Ends
  BY <1>1 DEF EndsKnown
<1>3. RowQuiet
  BY <1>1, <1>2, Types, SetStateRow DEF RowQuiet, Mem
<1>4. mem' \in Mem /\ mem'.stage = mem.stage /\ pc' = "down" /\ event' = FALSE
  BY <1>1, Types, DownMem
<1>5. HistQuiet
  BY <1>1, HistSame
<1>6. TypeOK'
  BY <1>1, <1>3, <1>4, Types, Typed, ZenonT(40) DEF Steps, RowQuiet
<1>7. Rest'
  BY <1>1, <1>3, <1>4, <1>5, QuietRest DEF Steps, Buying
<1> QED
  BY <1>6, <1>7

LEMMA FaultInv == ASSUME Core, ProviderHeld \/ Die PROVE Core'
<1> USE DEF Core
<1>1. /\ hist' = [hist EXCEPT !.stops = hist.stops + 1]
      /\ UNCHANGED <<kind, holds, graph, fixes, gated, pr, plan, row, cancelling>>
      /\ Down \/ (End("provider_held") /\ UNCHANGED event)
  BY DEF ProviderHeld, Die, work, others
<1>2. RowQuiet /\ HistQuiet
  BY <1>1, Types, RowSame, HistMarks, HistNumbers, RunStatesAre
<1>3. mem' \in Mem /\ mem'.stage = mem.stage /\ pc' \in {"down", "ending"} /\ event' \in BOOLEAN
  BY <1>1, Types, DownMem, EndMem, RunStatesAre
<1>4. TypeOK'
  BY <1>1, <1>2, <1>3, Types, Typed DEF Steps, HistQuiet
<1>5. Rest'
  BY <1>1, <1>2, <1>3, QuietRest DEF Steps, Buying
<1> QED
  BY <1>4, <1>5

\* The stage a resume re-enters is the row's, before the row is written.
LEMMA ResumeInv == ASSUME Core, Resume PROVE Core'
<1> USE DEF Core
<1>1. /\ mem' = [mem EXCEPT !.stage = row.stage] /\ pc' = "drive"
      /\ hist' = [hist EXCEPT !.resumes = hist.resumes + 1, !.cancelled = FALSE]
      /\ SetState("provisioning") \/ UNCHANGED row
      /\ UNCHANGED <<kind, holds, graph, fixes, gated, pr, plan, event, cancelling>>
  BY DEF Resume, work, others
<1>2. HistQuiet
  BY <1>1, Types, HistMarks, HistNumbers, RunStatesAre
<1>3. mem' \in Mem /\ mem'.stage = row.stage
  BY <1>1, Types DEF Mem, Row
<1>4. /\ row' \in Row /\ row'.stage \in {row.stage, "provisioning"}
      /\ row'.review = row.review /\ row'.ci = row.ci /\ row'.granted = row.granted
      /\ row'.bot = row.bot
  BY <1>1, Types, SetStateRow, RunStatesAre DEF Ends, TERMINAL_RUN_STATES
<1>5. TypeOK'
  BY <1>1, <1>2, <1>3, <1>4, Types, Typed DEF Steps, HistQuiet
<1>6. Rest'
  BY <1>1, <1>2, <1>3, <1>4 DEF Rest, HistQuiet, DeliveredGated, MergedReviewed, StagesFit, Fit,
    StageTold, PipelineOfCode, Counted, BotOnce, Buying, Fixing, FixStages, PIPELINE_STAGES,
    GRAPH_STATES, Ends, TERMINAL_RUN_STATES
<1> QED
  BY <1>5, <1>6

\* Nobody else moves the stage, the counters or the tree.
LEMMA KeptRest ==
  ASSUME TypeOK, Rest, RowQuiet, HistQuiet, UNCHANGED <<kind, fixes, gated, pr, mem, pc>>
  PROVE  Rest'
  BY DEF Rest, RowQuiet, HistQuiet, DeliveredGated, MergedReviewed, StagesFit, Fit, StageTold,
         PipelineOfCode, Counted, BotOnce

LEMMA GrantInv == ASSUME Core, GrantRounds PROVE Core'
<1> USE DEF Core
<1>1. /\ row' = [row EXCEPT !.granted = row.granted + 1, !.exhausted = FALSE]
      /\ UNCHANGED <<kind, holds, graph, fixes, gated, pr, plan, pc, mem, event, cancelling, hist>>
  BY DEF GrantRounds, work, others
<1>2. /\ row.granted \in Nat /\ row.granted + 1 \in Nat /\ MaxReview \in Nat /\ MaxCi \in Nat
      /\ row.review \in Nat /\ row.ci \in Nat
  BY Types, BudgetsAssumption DEF Row
<1>3. \A n \in Nat : LET q == [row EXCEPT !.granted = n, !.exhausted = FALSE]
                     IN  /\ q \in Row /\ q.stage = row.stage /\ q.review = row.review
                         /\ q.ci = row.ci /\ q.granted = n /\ q.bot = row.bot
  BY Types DEF Row
<1>4. /\ row' \in Row /\ row'.stage = row.stage /\ row'.review = row.review
      /\ row'.ci = row.ci /\ row'.granted = row.granted + 1 /\ row'.bot = row.bot
  BY <1>1, <1>2, <1>3
<1>5. TypeOK'
  BY <1>1, <1>4, Types, Typed
<1>6. Counted'
  BY <1>1, <1>2, <1>4, SMTT(30) DEF Rest, Counted
<1>7. Rest'
  BY <1>1, <1>4, <1>6
  DEF Rest, DeliveredGated, MergedReviewed, StagesFit, Fit, StageTold, PipelineOfCode, BotOnce
<1> QED
  BY <1>5, <1>7

LEMMA CancelInv == ASSUME Core, CancelRead \/ CancelWrite \/ RequestCancel PROVE Core'
<1> USE DEF Core
<1>1. UNCHANGED <<kind, holds, graph, fixes, gated, pr, plan, pc, mem>>
  BY DEF CancelRead, CancelWrite, RequestCancel, work
<1>2. event' \in BOOLEAN /\ cancelling' \in BOOLEAN
  BY Types DEF CancelRead, CancelWrite, RequestCancel
<1>3. RowQuiet
  <2>1. CASE UNCHANGED row
    BY <2>1, RowSame
  <2>2. CASE SetState("cancelled")
    BY <2>2, Types, SetStateRow, RunStatesAre DEF Ends, TERMINAL_RUN_STATES, RowQuiet
  <2> QED
    BY <2>1, <2>2 DEF CancelRead, CancelWrite, RequestCancel
<1>4. HistQuiet
  <2>1. \/ hist' = [hist EXCEPT !.cancels = hist.cancels + 1]
        \/ hist' = [hist EXCEPT !.cancelled = TRUE]
    BY DEF CancelRead, CancelWrite, RequestCancel
  <2> QED
    BY <2>1, Types, HistMarks, HistNumbers, RunStatesAre
<1>5. TypeOK'
  BY <1>1, <1>2, <1>3, <1>4, Types, Typed DEF RowQuiet, HistQuiet
<1>6. Rest'
  BY <1>1, <1>3, <1>4, KeptRest
<1> QED
  BY <1>5, <1>6

LEMMA PersonInv == ASSUME Core, Answer \/ Withdraw \/ Approve PROVE Core'
<1> USE DEF Core
<1>1. UNCHANGED <<kind, holds, row, graph, fixes, gated, pr, pc, mem, event, cancelling, hist>>
  BY DEF Answer, Withdraw, Approve, others
<1>2. plan' \in [questions : {"none", "open", "settled", "withdrawn"},
                 level : {"none", "proposed", "approved", "twice"}]
  BY Types DEF Answer, Withdraw, Approve
<1>3. RowQuiet /\ HistQuiet
  BY <1>1, RowSame, HistSame
<1>4. TypeOK'
  BY <1>1, <1>2, Types, Typed
<1>5. Rest'
  BY <1>1, <1>3, KeptRest
<1> QED
  BY <1>4, <1>5

-----------------------------------------------------------------------------
(* The end states.                                                         *)

LEMMA EndKnown ==
  ASSUME mem \in Mem, NEW s \in Ends, End(s)
  PROVE  mem'.final \in Ends
  BY DEF Mem, End

LEMMA FinalIsEnd == ASSUME TypeOK, EndsKnown, Next PROVE EndsKnown'
<1> SUFFICES ASSUME pc' = "ending" PROVE mem'.final \in Ends
  BY DEF EndsKnown
<1>1. CASE \E s \in Ends : End(s)
  BY <1>1, Types, EndKnown
<1>2. CASE UNCHANGED <<pc, mem>>
  BY <1>2 DEF EndsKnown
<1>3. CASE \/ Drive \/ Provision \/ Phases \/ Plan \/ Check \/ Enter \/ NoteRound \/ AppendFix
           \/ EnterFix \/ Propose \/ Finish \/ Interrupted \/ Die \/ Resume
  BY <1>3 DEF Drive, Provision, Phases, Plan, Check, Enter, NoteRound, AppendFix, EnterFix,
              Propose, Finish, Interrupted, Die, Resume, To, Down
<1>4. CASE Needs \/ Tasks \/ ToolTasks \/ Gate \/ Deliver \/ Review \/ Budget \/ RunFix
  BY <1>1, <1>4 DEF Needs, Tasks, ToolTasks, Gate, Deliver, Review, Budget, RunFix, AfterFix,
                    To, Fix, Ends, TERMINAL_RUN_STATES
<1>5. CASE AwaitCi \/ Land
  BY <1>1, <1>5 DEF AwaitCi, Land, Automated, To, Fix, Ends, TERMINAL_RUN_STATES
<1>6. CASE Judge \/ StampHold \/ Publish \/ RecordPublished \/ Clarify \/ Ask \/ Proposal
           \/ Handover \/ ProviderHeld
  BY <1>1, <1>6 DEF Judge, StampHold, Publish, RecordPublished, Clarify, Ask, Proposal, Handover,
                    ProviderHeld, To, Down, Ends, TERMINAL_RUN_STATES
<1>7. CASE \/ GrantRounds \/ CancelRead \/ CancelWrite \/ RequestCancel \/ Answer \/ Withdraw
           \/ Approve
  BY <1>2, <1>7 DEF GrantRounds, CancelRead, CancelWrite, RequestCancel, Answer, Withdraw, Approve
<1> QED
  BY <1>3, <1>4, <1>5, <1>6, <1>7 DEF Next, Engine

-----------------------------------------------------------------------------
(* The theorems.                                                           *)

LEMMA InitInv == Init => IInv
<1> SUFFICES ASSUME Init PROVE IInv
  OBVIOUS
<1>1. /\ row \in Row /\ row.stage = "created" /\ row.review = 0 /\ row.ci = 0 /\ row.granted = 0
  BY RunStatesAre DEF Init, Row
<1>2. mem \in Mem /\ mem.stage = "created" /\ mem.fix = "none"
  BY RunStatesAre DEF Init, Mem, Rounds
<1>3. hist \in Hist /\ hist.botRounds = 0 /\ ~hist.rash
  BY RunStatesAre DEF Init, Hist
<1>4. fixes \in Seq({"pending", "done", "failed"}) /\ Len(fixes) = 0
  BY EmptySeq DEF Init
<1>5. /\ pr \in [open : BOOLEAN, gated : BOOLEAN, approved : BOOLEAN] /\ ~pr.open
      /\ plan \in [questions : {"none", "open", "settled", "withdrawn"},
                   level : {"none", "proposed", "approved", "twice"}]
      /\ graph \in {"none", "planned", "done", "failed"}
  BY DEF Init, NoHead
<1>6. TypeOK
  <2>1. gated \in BOOLEAN /\ event \in BOOLEAN /\ cancelling \in BOOLEAN
    BY DEF Init
  <2>2. kind \in Kinds /\ holds \in BOOLEAN /\ pc \in Steps
    BY DEF Init, Steps
  <2> QED
    BY <1>1, <1>2, <1>3, <1>4, <1>5, <2>1, <2>2 DEF TypeOK, Mem, Hist
<1>7. Counted
  BY <1>1, <1>4, BudgetsAssumption DEF Counted, Init
<1>8. Rest
  BY <1>1, <1>2, <1>3, <1>5, <1>7
  DEF Init, Rest, DeliveredGated, MergedReviewed, StagesFit, Fit, StageTold, PipelineOfCode,
      BotOnce, Buying, Fixing, PIPELINE_STAGES, Ends, TERMINAL_RUN_STATES
<1> QED
  BY <1>6, <1>8 DEF Init, IInv, Core, EndsKnown

LEMMA StutterInv == ASSUME IInv, UNCHANGED vars PROVE IInv'
  BY DEF vars, IInv, Core, TypeOK, EndsKnown, Rest, DeliveredGated, MergedReviewed, StagesFit, Fit,
         StageTold, PipelineOfCode, Counted, BotOnce

LEMMA StepInv == IInv /\ [Next]_vars => IInv'
<1> SUFFICES ASSUME IInv, [Next]_vars PROVE IInv'
  OBVIOUS
<1>1. Core /\ TypeOK /\ EndsKnown
  BY DEF IInv, Core
<1>2. CASE UNCHANGED vars
  BY <1>2, StutterInv
<1>3. CASE Engine
  <2>1. Core'
    BY <1>1, <1>3, DriveInv, ProvisionInv, PhasesInv, NeedsInv, PlanInv, TasksInv, CheckInv,
       InterruptedInv, EnterInv, GateInv, DeliverInv, ReviewInv, AwaitCiInv, LandInv, BudgetInv,
       NoteRoundInv, AppendFixInv, EnterFixInv, RunFixInv, JudgeInv, StampHoldInv, PublishInv,
       RecordPublishedInv, ClarifyInv, PlanStageInv, ProposeInv, FinishInv
    DEF Engine
  <2> QED
    BY <1>1, <1>3, <2>1, FinalIsEnd DEF Next, IInv
<1>4. CASE Next /\ ~Engine
  <2>1. Core'
    BY <1>1, <1>4, FaultInv, ResumeInv, GrantInv, CancelInv, PersonInv DEF Next
  <2> QED
    BY <1>1, <1>4, <2>1, FinalIsEnd DEF IInv
<1> QED
  BY <1>2, <1>3, <1>4

LEMMA Invariant == Spec => []IInv
  BY InitInv, StepInv, PTL DEF Spec

\* The run's row, its tasks and the engine's locals have the types the model gives them, for
\* every budget and every number of deaths, resumes and cancellations.
THEOREM TypeCorrect == Spec => []TypeOK
<1>1. IInv => TypeOK
  BY DEF IInv, Core
<1> QED
  BY <1>1, Invariant, PTL

\* The head of a delivered pull request passed the gate as it stands, wherever the run died
\* and was resumed: every stage that changes the tree is re-entered before the delivery.
THEOREM OnlyGatedIsDelivered == Spec => []DeliveredGated
<1>1. IInv => DeliveredGated
  BY DEF IInv, Core, Rest
<1> QED
  BY <1>1, Invariant, PTL

\* The engine merges only a gated head that its own review approved since the delivery.
THEOREM OnlyReviewedIsMerged == Spec => []MergedReviewed
<1>1. IInv => MergedReviewed
  BY DEF IInv, Core, Rest
<1> QED
  BY <1>1, Invariant, PTL

\* No run has more fix rounds than its budgets and grants pay for, and none more than one
\* for an automated reviewer, wherever it died between the counter, the record and the task.
THEOREM RoundsArePaid == Spec => []RoundsPaid
<1>1. IInv => RoundsPaid
  BY DEF IInv, Core, Rest, Counted, BotOnce, RoundsPaid
<1> QED
  BY <1>1, Invariant, PTL

=============================================================================
