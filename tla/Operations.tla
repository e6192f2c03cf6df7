---------------------------- MODULE Operations ----------------------------
(* Durable operations: a control command leaves a record before it acts      *)
(* (daemon/controls/operations.py). A surface's thread accepts the command,  *)
(* claims it for its process's generation, applies the verb and finishes the *)
(* record; the cancel of a run in flight is finished by the loop that        *)
(* settles the run; what a dead process left is judged at the next recovery  *)
(* from what the stores show.                                                *)
(*                                                                           *)
(* One work item and the runs it is given, seen through four verbs: retry,   *)
(* requeue and abandon write the row and then do more, cancel is deferred or *)
(* settles a run awaiting its resume. A verb is refused, or a call it makes  *)
(* raises, before its effect or after it. API calls carry an idempotency key *)
(* and may be sent again; chat commands carry none and are served from the   *)
(* moment the bridges are up, before recovery.                               *)
EXTENDS Naturals, FiniteSets

CONSTANTS
  Keys,        \* idempotency keys the API's clients use
  Chat,        \* the mark of a command without a key
  ChatUp,      \* whether commands arrive by chat too
  Verbs,       \* the verbs this instance explores
  MaxOps,      \* bound on operation rows
  MaxRuns,     \* bound on the item's runs
  MaxCrashes   \* bound on crashes of the daemon

AllVerbs == {"retry", "requeue", "abandon", "cancel"}

ASSUME OperationsAssumption ==
  /\ Chat \notin Keys
  /\ ChatUp \in BOOLEAN
  /\ Verbs \subseteq AllVerbs
  /\ {MaxOps, MaxRuns, MaxCrashes} \subseteq Nat

Ids == 1 .. MaxOps
Runs == 1 .. MaxRuns
None == 0                          \* no run, no operation, no generation

VARIABLES
  op,       \* operation rows: state, key, verb, target run, claiming generation
  row,      \* the item's row: state and pinned run
  rec,      \* the engine's record of each run
  daemon,   \* "down", "boot", "stamped", "reconciling", "up"
  gen,      \* the generation of this process, None before recover stamps it
  seen,     \* the pending rows reconcile_operations read and has yet to judge
  call,     \* where each command's thread is in run_sync
  live,     \* the run in flight
  stop,     \* the engine of the live run was asked to stop
  request,  \* the cancel request standing for each run
  settle,   \* the loop's settle of a finished run
  boots, crashes,
  applied,  \* ghost: the operations whose promised effect was written
  judged    \* ghost: the operations whose verdict recovery gave

stored   == <<op, row, rec>>
ghosts   == <<applied, judged>>
loopVars == <<live, stop, settle>>
vars == <<op, row, rec, daemon, gen, seen, call, live, stop, request, settle, boots,
          crashes, applied, judged>>

-----------------------------------------------------------------------------
NoRow == [state |-> "none", key |-> Chat, verb |-> "none", run |-> None, gen |-> None]
\* TERMINAL_OPERATION_STATES; "crashed" is failed with error_code "crashed".
Done == {"succeeded", "failed", "crashed", "expired"}
NoCall == [at |-> "none", prev |-> None, pin |-> None]
Settled == [at |-> "idle", run |-> None, how |-> "none", cancel |-> None]

Init ==
  /\ op = [i \in Ids |-> NoRow]
  /\ row = [state |-> "queued", pin |-> None]
  /\ rec = [r \in Runs |-> "none"]
  /\ daemon = "up" /\ gen = 1 /\ seen = {}
  /\ call = [i \in Ids |-> NoCall]
  /\ live = None /\ stop = FALSE /\ settle = Settled
  /\ request = [r \in Runs |-> None]
  /\ boots = 1 /\ crashes = 0
  /\ applied = {} /\ judged = {}

Serving(key) == daemon = "up" \/ (key = Chat /\ daemon # "down")

\* finish: a no-op on a row that is already terminal, and on no row at all.
Finished(table, i, state) ==
  IF i = None THEN table
  ELSE IF table[i].state \in Done THEN table
  ELSE [table EXCEPT ![i].state = state]

-----------------------------------------------------------------------------
(* The surface's thread: accept, claim, apply, finish.                       *)

\* Slip: every request is a new command, its key written down and never looked up.
Existing_NoLookup(key) == {}

\* The operation an idempotency pair already names.
Existing(key) == {i \in Ids : key # Chat /\ op[i].state # "none" /\ op[i].key = key}

Fresh(i) == op[i].state = "none" /\ \A j \in Ids : op[j].state = "none" => i <= j

\* run_sync's accept. A cancel names the run the caller saw pinned. A request sent
\* again gets the row that is there, or a conflict: neither runs anything.
Accept(key, verb) ==
  /\ Serving(key)
  /\ verb = "cancel" => row.pin # None
  /\ \/ /\ Existing(key) # {}
        /\ UNCHANGED <<op, call>>
     \/ /\ Existing(key) = {}
        /\ \E i \in Ids :
             /\ Fresh(i)
             /\ op' = [op EXCEPT ![i] = [state |-> "accepted", key |-> key, verb |-> verb,
                                         run |-> IF verb = "cancel" THEN row.pin ELSE None,
                                         gen |-> None]]
             /\ call' = [call EXCEPT ![i].at = "accepted"]
  /\ UNCHANGED <<row, rec, daemon, gen, seen, loopVars, request, boots, crashes, ghosts>>

\* Slip: the effect before the claim: what the record is there to prevent.
Claim_AfterEffect(i) ==
  /\ call[i].at = "accepted"
  /\ call' = [call EXCEPT ![i].at = "claimed"]
  /\ UNCHANGED <<op, row, rec, daemon, gen, seen, loopVars, request, boots, crashes,
                 ghosts>>

\* claim moves an accepted row only; the thread goes on either way.
Claim(i) ==
  /\ call[i].at = "accepted"
  /\ op' = IF op[i].state = "accepted"
             THEN [op EXCEPT ![i].state = "running", ![i].gen = gen] ELSE op
  /\ call' = [call EXCEPT ![i].at = "claimed"]
  /\ UNCHANGED <<row, rec, daemon, gen, seen, loopVars, request, boots, crashes, ghosts>>

\* The states _transition's WHERE allows, of those an item without a park has.
Eligible(verb) ==
  IF verb = "retry" THEN {"failed", "cancelled", "queued"} ELSE {"running", "queued"}

\* _end_run_cancelled: a no-op on a record that is already terminal.
Ended(r) == IF r # None /\ rec[r] = "active" THEN [rec EXCEPT ![r] = "cancelled"] ELSE rec

\* The verb reads the item before it writes (before, pinned). A cancel that found no
\* run in flight goes on only for a queued item pinned to the run it names.
Look(i) ==
  LET pending == row.state = "queued" /\ row.pin = op[i].run IN
  /\ call[i].at = IF op[i].verb = "cancel" THEN "missed" ELSE "claimed"
  /\ call' = [call EXCEPT ![i] =
                [at |-> IF op[i].verb = "cancel" /\ ~pending THEN "refused" ELSE "looked",
                 prev |-> None, pin |-> IF op[i].verb = "requeue" THEN row.pin ELSE None]]
  /\ UNCHANGED <<stored, daemon, gen, seen, loopVars, request, boots, crashes, ghosts>>

\* The verbs that write the item's row, one conditional statement each. A requeue
\* drops the pin it read before; an abandon keeps the one that stands.
ApplyItem(i) ==
  LET verb == op[i].verb IN
  /\ call[i].at = "looked" /\ verb # "cancel"
  /\ \/ /\ row.state \in Eligible(verb)
        /\ row' = IF verb = "abandon" THEN [row EXCEPT !.state = "failed"]
                  ELSE [state |-> "queued", pin |-> None]
        /\ applied' = applied \cup {i}
        /\ call' = [call EXCEPT ![i] =
                      [at |-> IF verb = "retry" THEN "applied" ELSE "written", prev |-> None,
                       pin |-> IF verb = "abandon" THEN row.pin ELSE call[i].pin]]
     \/ /\ row.state \notin Eligible(verb)
        /\ call' = [call EXCEPT ![i].at = "refused"]
        /\ UNCHANGED <<row, applied>>
  /\ UNCHANGED <<op, rec, daemon, gen, seen, loopVars, request, boots, crashes, judged>>

\* Then abandon and requeue ask the item's run in flight to stop (_cancel_if_current)
\* or, with none in flight, close the run the row was pinned to (_close_dead_run).
StopOrClose(i) ==
  /\ call[i].at = "written" /\ op[i].verb # "cancel"
  /\ IF live # None THEN stop' = TRUE /\ UNCHANGED rec
     ELSE rec' = Ended(call[i].pin) /\ UNCHANGED stop
  /\ call' = [call EXCEPT ![i] = [at |-> "applied", prev |-> None, pin |-> None]]
  /\ UNCHANGED <<op, row, daemon, gen, seen, live, settle, request, boots, crashes, ghosts>>

\* cancel_run under the lock: the request stands for the run in flight, and takes the
\* place of an earlier one.
ApplyCancel(i) ==
  /\ call[i].at = "claimed" /\ op[i].verb = "cancel"
  /\ \/ /\ live = op[i].run
        /\ request' = [request EXCEPT ![live] = i]
        /\ call' = [call EXCEPT ![i] = [at |-> "signal", prev |-> request[live], pin |-> None]]
     \/ /\ live # op[i].run
        /\ call' = [call EXCEPT ![i].at = "missed"]
        /\ UNCHANGED request
  /\ UNCHANGED <<stored, daemon, gen, seen, loopVars, boots, crashes, ghosts>>

\* Slip: the replaced request is forgotten: nobody is left to finish its record.
Signal_Forgets(i) ==
  /\ call[i].at = "signal"
  /\ stop' = (stop \/ live = op[i].run)
  /\ call' = [call EXCEPT ![i] = NoCall]
  /\ UNCHANGED <<stored, daemon, gen, seen, live, settle, request, boots, crashes, ghosts>>

\* Outside the lock: the replaced request's record is closed, the engine is asked to
\* stop, and the call returns with its own record still running (deferred).
Signal(i) ==
  /\ call[i].at = "signal"
  /\ op' = Finished(op, call[i].prev, "failed")
  /\ stop' = (stop \/ live = op[i].run)
  /\ call' = [call EXCEPT ![i] = NoCall]
  /\ UNCHANGED <<row, rec, daemon, gen, seen, live, settle, request, boots, crashes, ghosts>>

\* cancel_run of a run awaiting its resume settles it by two writes, each whatever
\* stands there by now: mark_cancelled, then set_run_state in the engine's store.
MarkCancelled(i) ==
  /\ call[i].at = "looked" /\ op[i].verb = "cancel"
  /\ row' = [row EXCEPT !.state = "cancelled"]
  /\ call' = [call EXCEPT ![i].at = "marked"]
  /\ UNCHANGED <<op, rec, daemon, gen, seen, loopVars, request, boots, crashes, ghosts>>

SetRunState(i) ==
  /\ call[i].at = "marked"
  /\ rec' = [rec EXCEPT ![op[i].run] = "cancelled"]
  /\ applied' = applied \cup {i}
  /\ call' = [call EXCEPT ![i].at = "applied"]
  /\ UNCHANGED <<op, row, daemon, gen, seen, loopVars, request, boots, crashes, judged>>

\* The call's own verdict: run_sync's for the item verbs and every refusal, the
\* service's for a cancel settled on the spot.
Return(i) ==
  /\ call[i].at \in {"applied", "refused"}
  /\ op' = Finished(op, i, IF call[i].at = "applied" THEN "succeeded" ELSE "failed")
  /\ call' = [call EXCEPT ![i] = NoCall]
  /\ UNCHANGED <<row, rec, daemon, gen, seen, loopVars, request, boots, crashes, ghosts>>

\* run_sync's other exit: a call the verb makes raises, before the effect (a read),
\* between its writes (the sandboxes, the engine's store) or after the last of them
\* (the source's report, the run's chronology).
Raise(i) ==
  /\ call[i].at \in {"claimed", "missed", "looked", "written", "marked", "applied"}
  /\ op' = Finished(op, i, "crashed")
  /\ call' = [call EXCEPT ![i] = NoCall]
  /\ UNCHANGED <<row, rec, daemon, gen, seen, loopVars, request, boots, crashes, ghosts>>

-----------------------------------------------------------------------------
(* The loop: dispatch a run, settle it, honour the cancel standing for it.   *)

Idle == daemon = "up" /\ settle = Settled

\* A queued item starts a fresh run, or resumes the one it is pinned to.
Dispatch(r) ==
  /\ Idle /\ live = None /\ row.state = "queued"
  /\ \/ row.pin = r
     \/ row.pin = None /\ rec[r] = "none" /\ \A q \in Runs : rec[q] = "none" => r <= q
  /\ row' = [state |-> "running", pin |-> r]
  /\ rec' = [rec EXCEPT ![r] = "active"]
  /\ live' = r /\ stop' = FALSE
  /\ UNCHANGED <<op, daemon, gen, seen, call, request, settle, boots, crashes, ghosts>>

\* The run's thread has ended and the loop takes its handle away (_settle_run, under
\* the lock). A run asked to stop may stop at a boundary, still resumable, or have
\* ended on its own by then.
Reap(how) ==
  /\ Idle /\ live # None
  /\ how = "stopped" => stop
  /\ rec' = IF how = "stopped" THEN rec ELSE [rec EXCEPT ![live] = how]
  /\ live' = None /\ stop' = FALSE
  /\ settle' = [at |-> "take", run |-> live, how |-> how, cancel |-> None]
  /\ UNCHANGED <<op, row, daemon, gen, seen, call, request, boots, crashes, ghosts>>

Overridden == row.state # "running" \/ row.pin # settle.run

\* Slip: the cancel is believed because it was asked for, however the run ended.
Honoured_Asked == request[settle.run] # None

Honoured == settle.how = "stopped" /\ request[settle.run] # None

\* _take_cancel, after the look for an override. A decision about the item outranks a
\* cancel, and a cancel that came too late says so: both records are failed.
TakeCancel ==
  LET i == request[settle.run] IN
  /\ settle.at = "take" /\ daemon = "up"
  /\ request' = [request EXCEPT ![settle.run] = None]
  /\ \/ /\ Overridden
        /\ op' = Finished(op, i, "failed")
        /\ rec' = Ended(settle.run)
        /\ settle' = Settled
     \/ /\ ~Overridden /\ Honoured
        /\ settle' = [settle EXCEPT !.at = "record", !.cancel = i]
        /\ UNCHANGED <<op, rec>>
     \/ /\ ~Overridden /\ ~Honoured
        /\ op' = Finished(op, i, "failed")
        /\ settle' = [settle EXCEPT !.at = "own"]
        /\ UNCHANGED rec
  /\ UNCHANGED <<row, daemon, gen, seen, call, live, stop, boots, crashes, ghosts>>

\* The run's own outcome: merged, or failed and perhaps queued again.
SettleOwn ==
  /\ settle.at = "own" /\ daemon = "up"
  /\ \/ settle.how = "merged" /\ row' = [row EXCEPT !.state = "done"]
     \/ settle.how # "merged" /\ row' \in {[row EXCEPT !.state = "failed"],
                                           [state |-> "queued", pin |-> None]}
  /\ settle' = Settled
  /\ UNCHANGED <<op, rec, daemon, gen, seen, call, live, stop, request, boots, crashes,
                 ghosts>>

\* _settle_cancelled: the run's record first, then the row, then the operation.
CancelRecord ==
  /\ settle.at = "record" /\ daemon = "up"
  /\ rec' = Ended(settle.run)
  /\ applied' = IF rec'[settle.run] = "cancelled" THEN applied \cup {settle.cancel} ELSE applied
  /\ settle' = [settle EXCEPT !.at = "row"]
  /\ UNCHANGED <<op, row, daemon, gen, seen, call, live, stop, request, boots, crashes,
                 judged>>

CancelRow ==
  /\ settle.at = "row" /\ daemon = "up"
  /\ row' = [row EXCEPT !.state = "cancelled"]
  /\ settle' = [settle EXCEPT !.at = "finish"]
  /\ UNCHANGED <<op, rec, daemon, gen, seen, call, live, stop, request, boots, crashes,
                 ghosts>>

FinishCancel ==
  /\ settle.at = "finish" /\ daemon = "up"
  /\ op' = Finished(op, settle.cancel, "succeeded")
  /\ settle' = Settled
  /\ UNCHANGED <<row, rec, daemon, gen, seen, call, live, stop, request, boots, crashes,
                 ghosts>>

-----------------------------------------------------------------------------
(* The process dies, and the next one recovers.                              *)

Crash ==
  /\ daemon # "down" /\ crashes < MaxCrashes
  /\ crashes' = crashes + 1
  /\ daemon' = "down" /\ gen' = None /\ seen' = {}
  /\ call' = [i \in Ids |-> NoCall]
  /\ live' = None /\ stop' = FALSE /\ settle' = Settled
  /\ request' = [r \in Runs |-> None]
  /\ UNCHANGED <<stored, boots, ghosts>>

Boot ==
  /\ daemon = "down" /\ daemon' = "boot"
  /\ UNCHANGED <<stored, gen, seen, call, loopVars, request, boots, crashes, ghosts>>

\* recover stamps the generation first.
Stamp ==
  /\ daemon = "boot" /\ daemon' = "stamped"
  /\ boots' = boots + 1 /\ gen' = boots'
  /\ UNCHANGED <<stored, seen, call, loopVars, request, crashes, ghosts>>

\* reconcile_operations reads the unsettled rows once, with the state each has now.
ReadPending ==
  /\ daemon = "stamped" /\ daemon' = "reconciling"
  /\ seen' = {[id |-> i, state |-> op[i].state, gen |-> op[i].gen] :
                i \in {j \in Ids : op[j].state \in {"accepted", "running"}}}
  /\ UNCHANGED <<stored, gen, call, loopVars, request, boots, crashes, ghosts>>

\* _judge: the verdict the row of the item, or the record of the run, suggests.
Judge(i) ==
  LET holds == CASE op[i].verb = "cancel"  -> rec[op[i].run] = "cancelled"
                 [] op[i].verb = "abandon" -> row.state = "failed"
                 [] OTHER                  -> row.state = "queued"
  IN IF holds THEN "succeeded" ELSE "failed"

\* The verdict on one row, from the state that was read: a row nobody claimed is
\* expired, one of this generation is left alone, any other is judged.
Reconcile(p) ==
  /\ daemon = "reconciling" /\ p \in seen /\ seen' = seen \ {p}
  /\ LET mine    == p.state = "running" /\ p.gen = gen
         verdict == IF p.state = "accepted" THEN "expired" ELSE Judge(p.id)
     IN /\ op' = IF mine THEN op ELSE Finished(op, p.id, verdict)
        /\ judged' = IF op' = op THEN judged ELSE judged \cup {p.id}
  /\ UNCHANGED <<row, rec, daemon, gen, call, loopVars, request, boots, crashes, applied>>

\* The rest of recover: a running row is queued to resume, or settled as its run ended.
RecoverItems ==
  /\ daemon = "reconciling" /\ seen = {}
  /\ daemon' = "up"
  /\ \/ row.state # "running" /\ UNCHANGED row
     \/ row.state = "running" /\ rec[row.pin] = "active"
        /\ row' = [row EXCEPT !.state = "queued"]
     \/ row.state = "running" /\ rec[row.pin] = "merged"
        /\ row' = [row EXCEPT !.state = "done"]
     \/ row.state = "running" /\ rec[row.pin] \in {"failed", "cancelled"}
        /\ row' \in {[row EXCEPT !.state = "failed"], [state |-> "queued", pin |-> None]}
  /\ UNCHANGED <<op, rec, gen, seen, call, loopVars, request, boots, crashes, ghosts>>

-----------------------------------------------------------------------------
Surfaces == Keys \cup (IF ChatUp THEN {Chat} ELSE {})

Ask  == \E key \in Surfaces, verb \in Verbs : Accept(key, verb)
Verb(i) == Look(i) \/ ApplyItem(i) \/ StopOrClose(i) \/ ApplyCancel(i) \/ Signal(i)
           \/ MarkCancelled(i) \/ SetRunState(i)
Step(i) == Claim(i) \/ Verb(i) \/ Return(i) \/ Raise(i)
EngineEnds == \E how \in {"merged", "failed", "stopped"} : Reap(how)
Settle == TakeCancel \/ SettleOwn \/ CancelRecord \/ CancelRow \/ FinishCancel
Recover == Boot \/ Stamp \/ ReadPending \/ (\E p \in seen : Reconcile(p)) \/ RecoverItems

Next ==
  \/ Ask \/ Crash \/ Recover \/ Settle \/ EngineEnds
  \/ \E i \in Ids : Step(i)
  \/ \E r \in Runs : Dispatch(r)

Spec == Init /\ [][Next]_vars

\* A thread that is scheduled goes on, a run ends, the loop settles what ended, and a
\* supervisor starts the daemon again. Nobody has to send a request.
FairSpec ==
  /\ Spec
  /\ WF_vars(Recover) /\ WF_vars(Settle) /\ WF_vars(EngineEnds)
  /\ \A i \in Ids : WF_vars(Step(i))

-----------------------------------------------------------------------------
RowOf == [state : {"none", "accepted", "running"} \cup Done, key : Keys \cup {Chat},
          verb : AllVerbs \cup {"none"}, run : Runs \cup {None}, gen : Nat]

CallOf == [at : {"none", "accepted", "claimed", "missed", "looked", "written", "marked",
                 "applied", "refused", "signal"},
           prev : Ids \cup {None}, pin : Runs \cup {None}]
SettleOf == [at : {"idle", "take", "own", "record", "row", "finish"}, run : Runs \cup {None},
             how : {"none", "merged", "failed", "stopped"}, cancel : Ids \cup {None}]
ItemOf == [state : {"queued", "running", "done", "failed", "cancelled"}, pin : Runs \cup {None}]
ReadOf == [id : Ids, state : {"accepted", "running"}, gen : Nat]

TypeOK ==
  /\ op \in [Ids -> RowOf]
  /\ row \in ItemOf
  /\ rec \in [Runs -> {"none", "active", "merged", "failed", "cancelled"}]
  /\ daemon \in {"down", "boot", "stamped", "reconciling", "up"}
  /\ gen \in Nat /\ boots \in Nat
  /\ seen \subseteq ReadOf
  /\ call \in [Ids -> CallOf]
  /\ live \in Runs \cup {None} /\ stop \in BOOLEAN
  /\ request \in [Runs -> Ids \cup {None}]
  /\ settle \in SettleOf
  /\ crashes \in 0..MaxCrashes
  /\ applied \subseteq Ids /\ judged \subseteq Ids

\* A client that got no answer sends its request again, across crashes and restarts:
\* the effect its key asks for is written at most once.
AppliedOnce ==
  \A k \in Keys : Cardinality({i \in applied : op[i].key = k}) <= 1

\* An operation recovery declared expired was never carried out: the claim is written
\* before the effect, so a row still accepted stands for nothing done ("stale intent
\* is never applied at boot").
ExpiredUntouched ==
  \A i \in Ids : op[i].state = "expired" => i \notin applied /\ call[i] = NoCall

\* A verdict given by the process that did the work says what happened, whatever other
\* cancels, decisions about the item and settles it raced with: succeeded means this
\* very operation's effect was written, failed that it was refused or superseded and
\* its effect was not. A verb that crashed (an exception inside it, operations.py:498)
\* may have written it or not, and is over: no thread and no settle goes on with it.
VerdictTrue ==
  \A i \in Ids \ judged :
    /\ op[i].state = "succeeded" => i \in applied
    /\ op[i].state = "failed" => i \notin applied
    /\ op[i].state = "crashed" =>
         call[i].at = "none" /\ settle.cancel # i /\ \A r \in Runs : request[r] # i

\* The same of every verdict of this process. It does not hold: the row is written,
\* then the report to the source raises, and the record says failed.
VerdictTrueAlways ==
  \A i \in Ids : op[i].state \in {"succeeded", "failed", "crashed"} /\ i \notin judged =>
    (op[i].state = "succeeded" <=> i \in applied)

\* Every command that was accepted is settled in the end, the deferred cancel of a run
\* that ends another way and the ones a dead process left included.
OperationSettles ==
  \A i \in Ids : op[i].state \in {"accepted", "running"} ~> op[i].state \in Done

\* No verdict claims an effect that was not written, recovery's included ("it is never
\* guessed succeeded").
NeverGuessed ==
  \A i \in Ids : op[i].state = "succeeded" => i \in applied
============================================================================
