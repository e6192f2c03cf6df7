--------------------------- MODULE OperationsProofs ---------------------------
(***************************************************************************)
(* Durable operations, for every number of keys, commands, runs and        *)
(* deaths: an effect is written once for its key, an operation declared    *)
(* expired was never carried out, and a verdict says what happened.        *)
(***************************************************************************)
EXTENDS Operations, TLAPS, FiniteSetTheorems

\* A thread that has not written the effect of its command, and one that has.
Before == {"accepted", "claimed", "missed", "looked", "marked", "refused"}
After == {"written", "applied"}

\* The commands somebody in this process may still apply or give a verdict on.
Asked(i) == \E r \in Runs : request[r] = i
InHand(i) == \/ call[i].at \in Before \cup After
             \/ Asked(i)
             \/ settle.cancel = i

Replaced(i) == \E j \in Ids : call[j].at = "signal" /\ call[j].prev = i

\* One operation for each key.
KeysOnce == \A i, j \in Ids :
  op[i].state # "none" /\ op[j].state # "none" /\ op[i].key = op[j].key /\ op[i].key # Chat => i = j

\* The record comes before the effect: what was applied, or is past its claim, was claimed.
ClaimFirst == \A i \in Ids :
  /\ call[i] # NoCall => op[i].state # "none"
  /\ \/ call[i].at \notin {"none", "accepted"}
     \/ Asked(i) \/ Replaced(i) \/ settle.cancel = i \/ i \in applied
     => op[i].state \notin {"none", "accepted"}
  /\ op[i].verb = "cancel" => op[i].run \in Runs

\* The loop works on one run, and only while the daemon is up.
LoopKept ==
  /\ daemon # "up" => live = None /\ settle = Settled /\ \A r \in Runs : request[r] = None
  /\ live # None => settle = Settled /\ rec[live] \in {"active", "cancelled"}
  /\ settle.at # "idle" => settle.run \in Runs
  /\ settle.at = "record" \/ (settle.at = "take" /\ settle.how = "stopped")
     => rec[settle.run] \in {"active", "cancelled"}
  /\ settle.cancel # None <=> settle.at \in {"record", "row", "finish"}

\* A command in hand has one place, and is applied in it or not yet.
PlacesKept == \A i \in Ids :
  /\ call[i].at \in Before => i \notin applied
  /\ call[i].at \in After => i \in applied
  /\ call[i].at \in Before \cup After => settle.cancel # i
  /\ Asked(i) => /\ i \notin applied /\ settle.cancel # i
                 /\ call[i].at \in {"none", "signal"}
                 /\ request[op[i].run] = i /\ \A r \in Runs : request[r] = i => r = op[i].run
  /\ Replaced(i) => /\ i \notin applied /\ settle.cancel # i /\ ~Asked(i)
                    /\ call[i].at \in {"none", "signal"}
  /\ settle.cancel = i => (i \in applied <=> settle.at # "record")

\* A verdict this process gave is the last word: nobody has the command in hand any more.
VerdictsKept == \A i \in Ids :
  op[i].state \in {"succeeded", "failed", "crashed"} /\ i \notin judged =>
    /\ op[i].state = "succeeded" => i \in applied
    /\ op[i].state = "failed" => i \notin applied
    /\ op[i].state = "crashed" => call[i].at # "signal"
    /\ ~InHand(i)

\* Without commands by chat nothing is in hand while recovery judges.
BootQuiet ==
  /\ seen # {} => daemon = "reconciling"
  /\ \A p \in seen : op[p.id].state # "none"
  /\ ~ChatUp =>
       /\ daemon # "up" => \A i \in Ids : call[i] = NoCall
       /\ \A p \in seen : op[p.id].state = p.state /\ op[p.id].gen = p.gen
       /\ \A i \in Ids : op[i].state = "expired" => i \notin applied /\ ~InHand(i)
                                                   /\ call[i] = NoCall

Rest == KeysOnce /\ ClaimFirst /\ LoopKept /\ PlacesKept /\ VerdictsKept /\ BootQuiet

IInv == TypeOK /\ Rest

-----------------------------------------------------------------------------
(* Types, and what the updates of a row or of a call leave.                *)

CallAts == {"none", "accepted", "claimed", "missed", "looked", "written", "marked", "applied",
            "refused", "signal"}
OpStates == {"none", "accepted", "running"} \cup Done

LEMMA Constants ==
  /\ MaxCrashes \in Nat /\ Verbs \subseteq AllVerbs /\ Chat \notin Keys
  /\ None = 0 /\ None \notin Ids /\ None \notin Runs /\ Surfaces \subseteq Keys \cup {Chat}
  BY OperationsAssumption DEF Ids, Runs, None, Surfaces

LEMMA RowTypes ==
  ASSUME TypeOK, NEW i \in Ids
  PROVE  /\ op[i] \in RowOf /\ op[i].state \in OpStates /\ op[i].key \in Keys \cup {Chat}
         /\ op[i].verb \in AllVerbs \cup {"none"} /\ op[i].run \in Runs \cup {None}
         /\ op[i].gen \in Nat
  BY DEF TypeOK, RowOf, OpStates

LEMMA CallTypes ==
  ASSUME TypeOK, NEW i \in Ids
  PROVE  call[i] \in CallOf /\ call[i].at \in CallAts /\ call[i].prev \in Ids \cup {None}
         /\ call[i].pin \in Runs \cup {None}
  BY DEF TypeOK, CallOf, CallAts

LEMMA SettleTypes ==
  ASSUME TypeOK
  PROVE  /\ settle \in SettleOf /\ settle.cancel \in Ids \cup {None}
         /\ settle.run \in Runs \cup {None}
         /\ settle.at \in {"idle", "take", "own", "record", "row", "finish"}
         /\ settle.how \in {"none", "merged", "failed", "stopped"}
  BY DEF TypeOK, SettleOf

LEMMA CallAt ==
  ASSUME TypeOK, NEW i \in Ids, NEW a \in CallAts, call' = [call EXCEPT ![i].at = a]
  PROVE  /\ call' \in [Ids -> CallOf]
         /\ call'[i].at = a /\ call'[i].prev = call[i].prev
         /\ \A x \in Ids \ {i} : call'[x] = call[x]
  BY DEF TypeOK, CallOf, CallAts

LEMMA CallSet ==
  ASSUME TypeOK, NEW i \in Ids, NEW c \in CallOf, call' = [call EXCEPT ![i] = c]
  PROVE  /\ call' \in [Ids -> CallOf] /\ call'[i] = c
         /\ \A x \in Ids \ {i} : call'[x] = call[x]
  BY DEF TypeOK

LEMMA NoCallType == NoCall \in CallOf /\ NoCall.at = "none" /\ NoCall.prev = None
  BY DEF NoCall, CallOf

LEMMA SettledType ==
  Settled \in SettleOf /\ Settled.at = "idle" /\ Settled.cancel = None
  BY DEF Settled, SettleOf

\* finish changes the state of one row, and only of one without a verdict.
LEMMA FinishedRow ==
  ASSUME TypeOK, NEW x \in Ids \cup {None}, NEW s \in Done
  PROVE  /\ Finished(op, x, s) \in [Ids -> RowOf]
         /\ \A i \in Ids :
              /\ Finished(op, x, s)[i].key = op[i].key
              /\ Finished(op, x, s)[i].verb = op[i].verb
              /\ Finished(op, x, s)[i].run = op[i].run
              /\ Finished(op, x, s)[i].gen = op[i].gen
              /\ i # x \/ op[i].state \in Done => Finished(op, x, s)[i] = op[i]
              /\ i = x /\ op[i].state \notin Done => Finished(op, x, s)[i].state = s
<1>1. CASE x = None
  BY <1>1, Constants DEF Finished, TypeOK
<1>2. CASE x \in Ids /\ op[x].state \in Done
  BY <1>2, Constants DEF Finished, TypeOK
<1>3. CASE x \in Ids /\ op[x].state \notin Done
  <2>1. Finished(op, x, s) = [op EXCEPT ![x].state = s]
    BY <1>3, Constants DEF Finished
  <2>2. [op EXCEPT ![x].state = s] \in [Ids -> RowOf]
    BY <1>3 DEF TypeOK, RowOf
  <2>3. \A i \in Ids \ {x} : [op EXCEPT ![x].state = s][i] = op[i]
    BY <1>3 DEF TypeOK
  <2>4. /\ [op EXCEPT ![x].state = s][x].state = s
        /\ [op EXCEPT ![x].state = s][x].key = op[x].key
        /\ [op EXCEPT ![x].state = s][x].verb = op[x].verb
        /\ [op EXCEPT ![x].state = s][x].run = op[x].run
        /\ [op EXCEPT ![x].state = s][x].gen = op[x].gen
    BY <1>3 DEF TypeOK, RowOf
  <2> HIDE DEF Finished
  <2> QED
    BY <1>3, <2>1, <2>2, <2>3, <2>4
<1> QED
  BY <1>1, <1>2, <1>3

-----------------------------------------------------------------------------
(* A command arrives and is claimed.                                       *)

LEMMA AcceptInv ==
  ASSUME IInv, NEW key \in Surfaces, NEW verb \in Verbs, Accept(key, verb)
  PROVE  IInv'
<1> USE DEF IInv
<1>0. UNCHANGED <<row, rec, daemon, gen, seen, live, stop, settle, request,
                                           boots, crashes, applied, judged>>
  BY Constants DEF Accept, TypeOK, loopVars, ghosts
<1>1. CASE UNCHANGED <<op, call>>
  <2>1. TypeOK'
    BY <1>0, <1>1 DEF TypeOK
  <2>2. Rest'
    BY <1>0, <1>1 DEF Rest, KeysOnce, ClaimFirst, LoopKept, PlacesKept, VerdictsKept, BootQuiet,
       Asked, InHand, Replaced
  <2> QED
    BY <2>1, <2>2
<1>2. ASSUME Existing(key) = {}, NEW i \in Ids, Fresh(i),
             op' = [op EXCEPT ![i] = [state |-> "accepted", key |-> key, verb |-> verb,
                                      run |-> IF verb = "cancel" THEN row.pin ELSE None,
                                      gen |-> None]],
             call' = [call EXCEPT ![i].at = "accepted"]
      PROVE  IInv'
  <2> DEFINE new == [state |-> "accepted", key |-> key, verb |-> verb,
                     run |-> IF verb = "cancel" THEN row.pin ELSE None, gen |-> None]
  <2>1. new \in RowOf
    BY Constants DEF TypeOK, RowOf, ItemOf
  <2>2. /\ new.state = "accepted" /\ new.key = key /\ new.verb = verb
        /\ verb = "cancel" => new.run \in Runs
    BY DEF Accept, TypeOK, ItemOf
  <2> HIDE DEF new
  <2>3. op' \in [Ids -> RowOf] /\ op'[i] = new /\ \A x \in Ids \ {i} : op'[x] = op[x]
    BY <1>2, <2>1 DEF TypeOK, new
  <2>4. /\ call' \in [Ids -> CallOf] /\ call'[i].at = "accepted" /\ call'[i].prev = call[i].prev
        /\ \A x \in Ids \ {i} : call'[x] = call[x]
    BY <1>2, CallAt DEF CallAts
  <2>5. TypeOK'
    BY <1>0, <2>3, <2>4 DEF TypeOK
  <2>6. op[i].state = "none"
    BY <1>2 DEF Fresh
  <2>7. /\ call[i] = NoCall /\ ~Asked(i) /\ ~Replaced(i) /\ settle.cancel # i /\ i \notin applied
    BY <2>6 DEF Rest, ClaimFirst
  <2>8. KeysOnce'
    <3>1. \A j \in Ids : op[j].state # "none" /\ op[j].key = key => key = Chat
      BY <1>2 DEF Existing
    <3> QED
      BY <2>2, <2>3, <2>6, <3>1 DEF Rest, KeysOnce
  <2>9. ClaimFirst'
    <3>1. \A x \in Ids : Asked(x)' <=> Asked(x)
      BY <1>0 DEF Asked
    <3>2. \A x \in Ids : Replaced(x)' => Replaced(x)
      BY <2>4 DEF Replaced
    <3> QED
      BY <1>0, <2>2, <2>3, <2>4, <2>7, <3>1, <3>2, NoCallType DEF Rest, ClaimFirst, NoCall
  <2>10. LoopKept'
    BY <1>0 DEF Rest, LoopKept
  <2>11. PlacesKept'
    BY <1>0, <2>3, <2>4, <2>7 DEF Rest, PlacesKept, Asked, Replaced, Before, After
  <2>12. VerdictsKept'
    BY <1>0, <2>2, <2>3, <2>4, <2>7 DEF Rest, VerdictsKept, InHand, Asked
  <2>13. BootQuiet'
    <3>1. \A p \in seen : p.id # i /\ p.id \in Ids
      BY <2>6 DEF Rest, BootQuiet, TypeOK, ReadOf
    <3>2. ~ChatUp => daemon = "up"
      BY Constants DEF Accept, Serving, Surfaces
    <3> QED
      BY <1>0, <2>2, <2>3, <2>4, <3>1, <3>2 DEF Rest, BootQuiet, InHand, Asked
  <2> QED
    BY <2>5, <2>8, <2>9, <2>10, <2>11, <2>12, <2>13 DEF Rest
<1> QED
  BY <1>1, <1>2 DEF Accept

LEMMA ClaimInv ==
  ASSUME IInv, NEW i \in Ids, Claim(i)
  PROVE  IInv'
<1> USE DEF IInv
<1>0. UNCHANGED <<row, rec, daemon, gen, seen, live, stop, settle, request, boots, crashes,
                  applied, judged>>
  BY DEF Claim, loopVars, ghosts
<1>1. /\ op' \in [Ids -> RowOf] /\ \A x \in Ids \ {i} : op'[x] = op[x]
      /\ op'[i].key = op[i].key /\ op'[i].verb = op[i].verb /\ op'[i].run = op[i].run
      /\ op[i].state = "accepted" => op'[i].state = "running"
      /\ op[i].state # "accepted" => op'[i] = op[i]
  <2>1. CASE op[i].state = "accepted"
    <3>1. op' = [op EXCEPT ![i] = [op[i] EXCEPT !.state = "running", !.gen = gen]]
      BY <2>1 DEF Claim, TypeOK
    <3>2. LET q == [op[i] EXCEPT !.state = "running", !.gen = gen]
          IN q \in RowOf /\ q.key = op[i].key /\ q.verb = op[i].verb /\ q.run = op[i].run
             /\ q.state = "running"
      BY RowTypes DEF TypeOK, RowOf
    <3> QED
      BY <2>1, <3>1, <3>2 DEF TypeOK
  <2>2. CASE op[i].state # "accepted"
    BY <2>2 DEF Claim, TypeOK
  <2> QED
    BY <2>1, <2>2
<1>2. /\ call' \in [Ids -> CallOf] /\ call'[i].at = "claimed" /\ call'[i].prev = call[i].prev
      /\ \A x \in Ids \ {i} : call'[x] = call[x]
  BY CallAt DEF Claim, CallAts
<1>3. call[i].at = "accepted"
  BY DEF Claim
<1>4. op[i].state # "none" /\ op'[i].state \notin {"none", "accepted"}
  BY <1>1, <1>3, NoCallType, RowTypes DEF Rest, ClaimFirst
<1>5. TypeOK'
  BY <1>0, <1>1, <1>2 DEF TypeOK
<1>6. KeysOnce'
  BY <1>1, <1>4 DEF Rest, KeysOnce
<1>7. ClaimFirst'
  <2>1. \A x \in Ids : Asked(x)' <=> Asked(x)
    BY <1>0 DEF Asked
  <2>2. \A x \in Ids : Replaced(x)' => Replaced(x)
    BY <1>2 DEF Replaced
  <2> QED
    BY <1>0, <1>1, <1>2, <1>4, <2>1, <2>2 DEF Rest, ClaimFirst
<1>8. LoopKept'
  BY <1>0 DEF Rest, LoopKept
<1>9. PlacesKept'
  BY <1>0, <1>1, <1>2, <1>3 DEF Rest, PlacesKept, Asked, Replaced, Before, After
<1>10. VerdictsKept'
  BY <1>0, <1>1, <1>2, <1>3 DEF Rest, VerdictsKept, InHand, Asked, Before, After
<1>11. BootQuiet'
  <2>1. ~ChatUp => seen = {} /\ daemon = "up" /\ op[i].state # "expired"
    BY <1>3, NoCallType DEF Rest, BootQuiet
  <2> QED
    BY <1>0, <1>1, <1>2, <1>4, <2>1 DEF Rest, BootQuiet, InHand, Asked, TypeOK, ReadOf
<1> QED
  BY <1>5, <1>6, <1>7, <1>8, <1>9, <1>10, <1>11 DEF Rest

-----------------------------------------------------------------------------
(* The effect of a command, and the verdict of its own thread.             *)

RecStates == {"none", "active", "merged", "failed", "cancelled"}

\* Closing a run's record makes an active one cancelled and leaves the others.
LEMMA EndedRec ==
  ASSUME TypeOK, NEW r \in Runs \cup {None}
  PROVE  /\ Ended(r) \in [Runs -> RecStates]
         /\ \A x \in Runs : Ended(r)[x] = rec[x] \/ (rec[x] = "active" /\ Ended(r)[x] = "cancelled")
         /\ r \in Runs /\ rec[r] \in {"active", "cancelled"} => Ended(r)[r] = "cancelled"
<1>1. CASE r # None /\ rec[r] = "active"
  <2>1. Ended(r) = [rec EXCEPT ![r] = "cancelled"]
    BY <1>1 DEF Ended
  <2> QED
    BY <1>1, <2>1 DEF TypeOK, RecStates
<1>2. CASE ~(r # None /\ rec[r] = "active")
  <2>1. Ended(r) = rec
    BY <1>2 DEF Ended
  <2> QED
    BY <1>2, <2>1, Constants DEF TypeOK, RecStates
<1> QED
  BY <1>1, <1>2

\* A step of the thread of i past its claim: to its next place, its effect written by then
\* or not.
LEMMA PlaceInv ==
  ASSUME IInv, NEW i \in Ids, call[i].at \in {"claimed", "missed", "looked", "written", "marked"},
         NEW c \in CallOf, call' = [call EXCEPT ![i] = c],
         c.at \in {"missed", "looked", "marked", "refused", "written", "applied"},
         applied' = applied \/ applied' = applied \cup {i}, i \in applied' <=> c.at \in After,
         row' \in ItemOf, stop' \in BOOLEAN, rec' \in [Runs -> RecStates],
         \A x \in Runs : rec'[x] = rec[x] \/ rec'[x] = "cancelled",
         UNCHANGED <<op, daemon, gen, seen, live, settle, request, boots, crashes, judged>>
  PROVE  IInv'
<1> USE DEF IInv
<1>1. /\ call' \in [Ids -> CallOf] /\ call'[i] = c
      /\ \A x \in Ids \ {i} : call'[x] = call[x]
  BY CallSet
<1>2. /\ settle.cancel # i /\ ~Asked(i) /\ ~Replaced(i) /\ InHand(i)
      /\ op[i].state \notin {"none", "accepted"}
      /\ (op[i].state \in {"succeeded", "failed", "crashed"} => i \in judged)
  BY DEF Rest, PlacesKept, ClaimFirst, VerdictsKept, InHand, Before, After
<1>3. ~ChatUp => seen = {} /\ daemon = "up" /\ op[i].state # "expired"
  BY NoCallType DEF Rest, BootQuiet
<1>4. TypeOK'
  BY <1>1 DEF TypeOK, RecStates
<1>5. KeysOnce'
  BY DEF Rest, KeysOnce
<1>6. \A x \in Ids : (Asked(x)' <=> Asked(x)) /\ (Replaced(x)' => Replaced(x))
  BY <1>1 DEF Asked, Replaced
<1>7. ClaimFirst'
  BY <1>1, <1>2, <1>6 DEF Rest, ClaimFirst
<1>8. LoopKept'
  BY SettleTypes DEF Rest, LoopKept, TypeOK
<1>9. PlacesKept'
  BY <1>1, <1>2, <1>6 DEF Rest, PlacesKept, Before, After
<1>10. VerdictsKept'
  BY <1>1, <1>2, <1>6 DEF Rest, VerdictsKept, InHand, Before, After
<1>11. BootQuiet'
  BY <1>1, <1>2, <1>3, <1>6 DEF Rest, BootQuiet, InHand
<1> QED
  BY <1>4, <1>5, <1>7, <1>8, <1>9, <1>10, <1>11 DEF Rest

LEMMA LookInv ==
  ASSUME IInv, NEW i \in Ids, Look(i)
  PROVE  IInv'
<1> USE DEF IInv
<1>1. PICK c \in CallOf : /\ call' = [call EXCEPT ![i] = c] /\ c.at \in {"refused", "looked"}
  <2> DEFINE pending == row.state = "queued" /\ row.pin = op[i].run
             c == [at |-> IF op[i].verb = "cancel" /\ ~pending THEN "refused" ELSE "looked",
                   prev |-> None, pin |-> IF op[i].verb = "requeue" THEN row.pin ELSE None]
  <2>1. c \in CallOf /\ c.at \in {"refused", "looked"}
    BY DEF CallOf, TypeOK, ItemOf
  <2> QED
    BY <2>1 DEF Look
<1>2. /\ call[i].at \in {"claimed", "missed"}
      /\ UNCHANGED <<op, row, rec, daemon, gen, seen, live, stop, settle, request, boots, crashes,
                     applied, judged>>
  BY DEF Look, stored, loopVars, ghosts
<1>3. i \notin applied /\ c.at \notin After
  BY <1>1, <1>2 DEF Rest, PlacesKept, Before, After
<1>4. row' \in ItemOf /\ stop' \in BOOLEAN /\ rec' \in [Runs -> RecStates]
  BY <1>2 DEF TypeOK, RecStates
<1> QED
  BY <1>1, <1>2, <1>3, <1>4, PlaceInv

LEMMA ApplyItemInv ==
  ASSUME IInv, NEW i \in Ids, ApplyItem(i)
  PROVE  IInv'
<1> USE DEF IInv
<1>0. /\ call[i].at = "looked" /\ i \notin applied
      /\ UNCHANGED <<op, rec, daemon, gen, seen, live, stop, settle, request, boots, crashes,
                     judged>>
  BY DEF ApplyItem, loopVars, Rest, PlacesKept, Before, After
<1>1. PICK c \in CallOf : /\ call' = [call EXCEPT ![i] = c]
                          /\ \/ c.at \in After /\ applied' = applied \cup {i}
                             \/ c.at = "refused" /\ applied' = applied
  <2>1. CASE row.state \in Eligible(op[i].verb)
    <3> DEFINE c == [at |-> IF op[i].verb = "retry" THEN "applied" ELSE "written", prev |-> None,
                     pin |-> IF op[i].verb = "abandon" THEN row.pin ELSE call[i].pin]
    <3>1. c \in CallOf /\ c.at \in After
      BY CallTypes DEF CallOf, TypeOK, ItemOf, After
    <3>2. call' = [call EXCEPT ![i] = c] /\ applied' = applied \cup {i}
      BY <2>1 DEF ApplyItem
    <3> QED
      BY <3>1, <3>2
  <2>2. CASE row.state \notin Eligible(op[i].verb)
    <3> DEFINE c == [call[i] EXCEPT !.at = "refused"]
    <3>1. c \in CallOf /\ c.at = "refused"
      BY CallTypes DEF CallOf
    <3>2. call' = [call EXCEPT ![i] = c] /\ applied' = applied
      BY <2>2 DEF ApplyItem
    <3> QED
      BY <3>1, <3>2
  <2> QED
    BY <2>1, <2>2
<1>2. c.at \in {"refused", "written", "applied"} /\ (i \in applied' <=> c.at \in After)
  BY <1>0, <1>1 DEF After
<1>3. row' \in ItemOf /\ stop' \in BOOLEAN /\ rec' \in [Runs -> RecStates]
  BY <1>0 DEF ApplyItem, TypeOK, ItemOf, RecStates
<1> QED
  BY <1>0, <1>1, <1>2, <1>3, PlaceInv

LEMMA StopOrCloseInv ==
  ASSUME IInv, NEW i \in Ids, StopOrClose(i)
  PROVE  IInv'
<1> USE DEF IInv
<1>0. /\ call[i].at = "written" /\ i \in applied
      /\ UNCHANGED <<op, row, daemon, gen, seen, live, settle, request, boots, crashes, applied,
                     judged>>
  BY DEF StopOrClose, ghosts, Rest, PlacesKept, After
<1>1. PICK c \in CallOf : call' = [call EXCEPT ![i] = c] /\ c.at = "applied"
  <2> DEFINE c == [at |-> "applied", prev |-> None, pin |-> None]
  <2>1. c \in CallOf /\ c.at = "applied"
    BY DEF CallOf
  <2> QED
    BY <2>1 DEF StopOrClose
<1>2. row' \in ItemOf /\ stop' \in BOOLEAN
  BY <1>0 DEF StopOrClose, TypeOK
<1>3. rec' \in [Runs -> RecStates] /\ \A x \in Runs : rec'[x] = rec[x] \/ rec'[x] = "cancelled"
  <2>1. CASE live # None
    BY <2>1 DEF StopOrClose, TypeOK, RecStates
  <2>2. CASE live = None
    BY <2>2, CallTypes, EndedRec DEF StopOrClose
  <2> QED
    BY <2>1, <2>2
<1> QED
  BY <1>0, <1>1, <1>2, <1>3, PlaceInv DEF After

\* The two writes of a cancel settled on the spot.
LEMMA CancelParkedInv ==
  ASSUME IInv, NEW i \in Ids, MarkCancelled(i) \/ SetRunState(i)
  PROVE  IInv'
<1> USE DEF IInv
<1>1. CASE MarkCancelled(i)
  <2>1. /\ call[i].at = "looked" /\ i \notin applied
        /\ UNCHANGED <<op, rec, daemon, gen, seen, live, stop, settle, request, boots, crashes,
                       applied, judged>>
    BY <1>1 DEF MarkCancelled, loopVars, ghosts, Rest, PlacesKept, Before, After
  <2>2. PICK c \in CallOf : call' = [call EXCEPT ![i] = c] /\ c.at = "marked"
    <3> DEFINE c == [call[i] EXCEPT !.at = "marked"]
    <3>1. c \in CallOf /\ c.at = "marked"
      BY CallTypes DEF CallOf
    <3> QED
      BY <1>1, <3>1 DEF MarkCancelled
  <2>3. row' \in ItemOf /\ stop' \in BOOLEAN /\ rec' \in [Runs -> RecStates]
    BY <1>1, <2>1 DEF MarkCancelled, TypeOK, ItemOf, RecStates
  <2> QED
    BY <2>1, <2>2, <2>3, PlaceInv DEF After
<1>2. CASE SetRunState(i)
  <2>1. /\ call[i].at = "marked" /\ applied' = applied \cup {i}
        /\ UNCHANGED <<op, row, daemon, gen, seen, live, stop, settle, request, boots, crashes,
                       judged>>
    BY <1>2 DEF SetRunState, loopVars
  <2>2. PICK c \in CallOf : call' = [call EXCEPT ![i] = c] /\ c.at = "applied"
    <3> DEFINE c == [call[i] EXCEPT !.at = "applied"]
    <3>1. c \in CallOf /\ c.at = "applied"
      BY CallTypes DEF CallOf
    <3> QED
      BY <1>2, <3>1 DEF SetRunState
  <2>3. row' \in ItemOf /\ stop' \in BOOLEAN
    BY <2>1 DEF TypeOK
  <2>4. rec' \in [Runs -> RecStates] /\ \A x \in Runs : rec'[x] = rec[x] \/ rec'[x] = "cancelled"
    BY <1>2 DEF SetRunState, TypeOK, RecStates
  <2> QED
    BY <2>1, <2>2, <2>3, <2>4, PlaceInv DEF After
<1> QED
  BY <1>1, <1>2

\* A cancel takes the place of the one standing for the run, which nobody else has in hand.
LEMMA ApplyCancelInv ==
  ASSUME IInv, NEW i \in Ids, ApplyCancel(i), live = op[i].run
  PROVE  IInv'
<1> USE DEF IInv
<1>0. /\ call[i].at = "claimed" /\ live = op[i].run
      /\ UNCHANGED <<op, row, rec, daemon, gen, seen, live, stop, settle, boots, crashes,
                     applied, judged>>
  BY DEF ApplyCancel, stored, loopVars, ghosts
<1>1. live \in Runs
  BY <1>0 DEF ApplyCancel, Rest, ClaimFirst
<1>2. daemon = "up" /\ settle = Settled
  BY <1>1, Constants DEF Rest, LoopKept
<1>3. request[live] \in Ids \cup {None}
  BY <1>1 DEF TypeOK
<1>4. /\ request' \in [Runs -> Ids \cup {None}] /\ request'[live] = i
      /\ \A r \in Runs \ {live} : request'[r] = request[r]
  BY <1>1 DEF ApplyCancel, TypeOK
<1>5. [at |-> "signal", prev |-> request[live], pin |-> None] \in CallOf
  BY <1>3 DEF CallOf
<1>6. /\ call' \in [Ids -> CallOf] /\ call'[i].at = "signal" /\ call'[i].prev = request[live]
      /\ \A x \in Ids \ {i} : call'[x] = call[x]
  BY <1>5, CallSet DEF ApplyCancel
<1>7. /\ i \notin applied /\ settle.cancel # i /\ ~Asked(i) /\ ~Replaced(i)
      /\ op[i].state \notin {"none", "accepted"}
      /\ (op[i].state \in {"succeeded", "failed", "crashed"} => i \in judged)
  BY <1>0 DEF Rest, PlacesKept, ClaimFirst, VerdictsKept, InHand, Before, After
<1>8. ~ChatUp => seen = {} /\ op[i].state # "expired"
  BY <1>0, NoCallType DEF Rest, BootQuiet
<1>9. request[live] # i
  BY <1>1, <1>7 DEF Asked
<1>10. TypeOK'
  BY <1>0, <1>4, <1>6 DEF TypeOK
<1>11. KeysOnce' /\ LoopKept'
  BY <1>0, <1>2 DEF Rest, KeysOnce, LoopKept
<1>12. \A x \in Ids : Asked(x)' => x = i \/ (Asked(x) /\ x # request[live])
  <2> TAKE x \in Ids
  <2>1. HAVE Asked(x)'
  <2>2. PICK r \in Runs : request'[r] = x
    BY <2>1 DEF Asked
  <2>3. CASE r = live
    BY <2>2, <2>3, <1>4
  <2>4. CASE r # live
    <3>1. request[r] = x
      BY <2>2, <2>4, <1>4
    <3>2. Asked(x) /\ r = op[x].run
      BY <3>1 DEF Asked, Rest, PlacesKept
    <3>3. request[live] # x
      BY <3>2, <2>4, <1>1 DEF Rest, PlacesKept
    <3> QED
      BY <3>2, <3>3
  <2> QED
    BY <2>3, <2>4
<1>13. \A x \in Ids : Replaced(x)' => Replaced(x) \/ (x = request[live] /\ Asked(x))
  BY <1>1, <1>6 DEF Replaced, Asked
<1>14. ClaimFirst'
  BY <1>0, <1>6, <1>7, <1>12, <1>13, NoCallType DEF Rest, ClaimFirst
<1>15. PlacesKept'
  <2> SUFFICES ASSUME NEW x \in Ids PROVE PlacesKept!(x)'
    BY DEF PlacesKept
  <2>1. /\ (call'[x].at \in Before => x \notin applied')
        /\ (call'[x].at \in After => x \in applied')
        /\ (call'[x].at \in Before \cup After => settle'.cancel # x)
        /\ (settle'.cancel = x => (x \in applied' <=> settle'.at # "record"))
    BY <1>0, <1>6 DEF Rest, PlacesKept, Before, After
  <2>2. Asked(x)' => /\ x \notin applied' /\ settle'.cancel # x
                     /\ call'[x].at \in {"none", "signal"}
                     /\ request'[op'[x].run] = x
                     /\ \A r \in Runs : request'[r] = x => r = op'[x].run
    <3>1. CASE x = i
      <4>1. \A r \in Runs : request'[r] = i => r = live
        BY <1>4, <1>7 DEF Asked
      <4> QED
        BY <3>1, <4>1, <1>0, <1>4, <1>6, <1>7
    <3>2. CASE x # i /\ Asked(x) /\ x # request[live]
      <4>1. /\ request[op[x].run] = x /\ op[x].run \in Runs
            /\ \A r \in Runs : request[r] = x => r = op[x].run
        BY <3>2 DEF Rest, PlacesKept, Asked
      <4>2. \A r \in Runs : request'[r] = x => r = op[x].run
        BY <3>2, <4>1, <1>4
      <4>3. request'[op[x].run] = x
        BY <3>2, <4>1, <1>4
      <4>4. x \notin applied /\ settle.cancel # x /\ call[x].at \in {"none", "signal"}
        BY <3>2 DEF Rest, PlacesKept
      <4> QED
        BY <3>2, <4>2, <4>3, <4>4, <1>0, <1>6
    <3> QED
      BY <3>1, <3>2, <1>12
  <2>3. Replaced(x)' => /\ x \notin applied' /\ settle'.cancel # x /\ ~Asked(x)'
                        /\ call'[x].at \in {"none", "signal"}
    <3>1. CASE Replaced(x)
      BY <3>1, <1>0, <1>6, <1>7, <1>12 DEF Rest, PlacesKept
    <3>2. CASE x = request[live] /\ Asked(x)
      BY <3>2, <1>0, <1>6, <1>7, <1>9, <1>12 DEF Rest, PlacesKept
    <3> QED
      BY <3>1, <3>2, <1>13
  <2> QED
    BY <2>1, <2>2, <2>3
<1>16. VerdictsKept'
  BY <1>0, <1>6, <1>7, <1>12 DEF Rest, VerdictsKept, InHand, Before, After
<1>17. BootQuiet'
  BY <1>0, <1>2, <1>6, <1>7, <1>8, <1>12 DEF Rest, BootQuiet, InHand
<1> QED
  BY <1>10, <1>11, <1>14, <1>15, <1>16, <1>17 DEF Rest

\* A cancel of a run not in flight only changes its place.
LEMMA MissedInv ==
  ASSUME IInv, NEW i \in Ids, ApplyCancel(i), live # op[i].run
  PROVE  IInv'
<1> USE DEF IInv
<1>1. /\ call[i].at = "claimed" /\ i \notin applied
      /\ UNCHANGED <<op, row, rec, daemon, gen, seen, live, stop, settle, request, boots, crashes,
                     applied, judged>>
  BY DEF ApplyCancel, stored, loopVars, ghosts, Rest, PlacesKept, Before, After
<1>2. PICK c \in CallOf : call' = [call EXCEPT ![i] = c] /\ c.at = "missed"
  <2> DEFINE c == [call[i] EXCEPT !.at = "missed"]
  <2>1. c \in CallOf /\ c.at = "missed"
    BY CallTypes DEF CallOf
  <2> QED
    BY <2>1 DEF ApplyCancel
<1>3. row' \in ItemOf /\ stop' \in BOOLEAN /\ rec' \in [Runs -> RecStates]
  BY <1>1 DEF TypeOK, RecStates
<1> QED
  BY <1>1, <1>2, <1>3, PlaceInv DEF After

\* A verdict on a claimed operation keeps what the other parts read of the rows.
LEMMA FinishKeeps ==
  ASSUME IInv, NEW x \in Ids \cup {None}, NEW s \in {"succeeded", "failed", "crashed"},
         op' = Finished(op, x, s),
         x \in Ids => op[x].state \notin {"none", "accepted"}
  PROVE  /\ op' \in [Ids -> RowOf] /\ KeysOnce'
         /\ \A i \in Ids :
              /\ op'[i].verb = op[i].verb /\ op'[i].run = op[i].run
              /\ op'[i].state = "none" <=> op[i].state = "none"
              /\ op'[i].state = "expired" <=> op[i].state = "expired"
              /\ op[i].state \notin {"none", "accepted"} => op'[i].state \notin {"none", "accepted"}
              /\ op'[i].state = op[i].state \/ (i = x /\ op'[i].state = s)
              /\ op[i].state \in Done => op'[i] = op[i]
<1> USE DEF IInv
<1>1. s \in Done
  BY DEF Done
<1>2. /\ op' \in [Ids -> RowOf]
      /\ \A i \in Ids :
           /\ op'[i].key = op[i].key /\ op'[i].verb = op[i].verb /\ op'[i].run = op[i].run
           /\ i # x \/ op[i].state \in Done => op'[i] = op[i]
           /\ i = x /\ op[i].state \notin Done => op'[i].state = s
  BY <1>1, FinishedRow
<1>3. \A i \in Ids :
        /\ op'[i].state = "none" <=> op[i].state = "none"
        /\ op'[i].state = "expired" <=> op[i].state = "expired"
        /\ op[i].state \notin {"none", "accepted"} => op'[i].state \notin {"none", "accepted"}
        /\ op'[i].state = op[i].state \/ (i = x /\ op'[i].state = s)
  BY <1>1, <1>2 DEF Done
<1>4. KeysOnce'
  BY <1>2, <1>3 DEF Rest, KeysOnce
<1> QED
  BY <1>2, <1>3, <1>4

LEMMA SignalInv ==
  ASSUME IInv, NEW i \in Ids, Signal(i)
  PROVE  IInv'
<1> USE DEF IInv
<1> DEFINE y == call[i].prev
<1>0. /\ call[i].at = "signal"
      /\ UNCHANGED <<row, rec, daemon, gen, seen, live, settle, request, boots, crashes,
                     applied, judged>>
  BY DEF Signal, ghosts
<1>1. y \in Ids \cup {None} /\ (y \in Ids => Replaced(y))
  BY <1>0, CallTypes DEF Replaced
<1> HIDE DEF y
<1>2. y \in Ids => /\ op[y].state \notin {"none", "accepted"} /\ y \notin applied
                   /\ ~InHand(y)
  BY <1>1 DEF Rest, ClaimFirst, PlacesKept, InHand, Before, After
<1>3. op' = Finished(op, y, "failed")
  BY DEF Signal, y
<1>4. /\ op' \in [Ids -> RowOf] /\ KeysOnce'
      /\ \A x \in Ids :
           /\ op'[x].verb = op[x].verb /\ op'[x].run = op[x].run
           /\ op'[x].state = "none" <=> op[x].state = "none"
           /\ op'[x].state = "expired" <=> op[x].state = "expired"
           /\ op[x].state \notin {"none", "accepted"} => op'[x].state \notin {"none", "accepted"}
           /\ op'[x].state = op[x].state \/ (x = y /\ op'[x].state = "failed")
           /\ op[x].state \in Done => op'[x] = op[x]
  BY <1>1, <1>2, <1>3, FinishKeeps
<1>5. /\ call' \in [Ids -> CallOf] /\ call'[i] = NoCall
      /\ \A x \in Ids \ {i} : call'[x] = call[x]
  BY CallSet, NoCallType DEF Signal
<1>6. stop' \in BOOLEAN
  BY DEF Signal
<1>7. TypeOK'
  BY <1>0, <1>4, <1>5, <1>6 DEF TypeOK
<1>8. LoopKept'
  BY <1>0 DEF Rest, LoopKept
<1>9. \A x \in Ids : /\ Asked(x)' <=> Asked(x)
                     /\ Replaced(x)' => Replaced(x)
                     /\ InHand(x)' => InHand(x)
  BY <1>0, <1>5, NoCallType DEF Asked, Replaced, InHand, Before, After
<1>10. ClaimFirst'
  BY <1>0, <1>4, <1>5, <1>9, NoCallType DEF Rest, ClaimFirst
<1>11. PlacesKept'
  BY <1>0, <1>4, <1>5, <1>9, NoCallType DEF Rest, PlacesKept, Before, After
<1>12. VerdictsKept'
  BY <1>0, <1>2, <1>4, <1>5, <1>9, NoCallType DEF Rest, VerdictsKept
<1>13. BootQuiet'
  <2>1. ~ChatUp => seen = {} /\ daemon = "up"
    BY <1>0, NoCallType DEF Rest, BootQuiet
  <2> QED
    BY <1>0, <1>4, <1>5, <1>9, <2>1 DEF Rest, BootQuiet, TypeOK, ReadOf
<1> QED
  BY <1>4, <1>7, <1>8, <1>10, <1>11, <1>12, <1>13 DEF Rest

\* A thread leaves with a verdict on its own record: what it did, or that it crashed.
LEMMA LeaveInv ==
  ASSUME IInv, NEW i \in Ids, call[i].at \in Before \cup After, call[i].at # "accepted",
         NEW s \in {"succeeded", "failed", "crashed"},
         s = "succeeded" => i \in applied, s = "failed" => i \notin applied,
         op' = Finished(op, i, s), call' = [call EXCEPT ![i] = NoCall],
         UNCHANGED <<row, rec, daemon, gen, seen, live, stop, settle, request, boots, crashes,
                     applied, judged>>
  PROVE  IInv'
<1> USE DEF IInv
<1>2. op[i].state \notin {"none", "accepted"} /\ ~Asked(i) /\ settle.cancel # i
  BY DEF Rest, ClaimFirst, PlacesKept, Before, After
<1>4. /\ op' \in [Ids -> RowOf] /\ KeysOnce'
      /\ \A x \in Ids :
           /\ op'[x].verb = op[x].verb /\ op'[x].run = op[x].run
           /\ op'[x].state = "none" <=> op[x].state = "none"
           /\ op'[x].state = "expired" <=> op[x].state = "expired"
           /\ op[x].state \notin {"none", "accepted"} => op'[x].state \notin {"none", "accepted"}
           /\ op'[x].state = op[x].state \/ (x = i /\ op'[x].state = s)
           /\ op[x].state \in Done => op'[x] = op[x]
  BY <1>2, FinishKeeps
<1>5. /\ call' \in [Ids -> CallOf] /\ call'[i] = NoCall
      /\ \A x \in Ids \ {i} : call'[x] = call[x]
  BY CallSet, NoCallType
<1>7. TypeOK'
  BY <1>4, <1>5 DEF TypeOK
<1>8. LoopKept'
  BY DEF Rest, LoopKept
<1>9. \A x \in Ids : /\ Asked(x)' <=> Asked(x)
                     /\ Replaced(x)' => Replaced(x)
                     /\ InHand(x)' => InHand(x)
                     /\ ~InHand(i)'
  BY <1>2, <1>5, NoCallType DEF Asked, Replaced, InHand, Before, After
<1>10. ClaimFirst'
  BY <1>4, <1>5, <1>9, NoCallType DEF Rest, ClaimFirst
<1>11. PlacesKept'
  BY <1>4, <1>5, <1>9, NoCallType DEF Rest, PlacesKept, Before, After
<1>12. VerdictsKept'
  BY <1>2, <1>4, <1>5, <1>9, NoCallType DEF Rest, VerdictsKept
<1>13. BootQuiet'
  <2>1. ~ChatUp => seen = {} /\ daemon = "up"
    BY NoCallType DEF Before, After, Rest, BootQuiet
  <2> QED
    BY <1>4, <1>5, <1>9, <2>1 DEF Rest, BootQuiet, TypeOK, ReadOf
<1> QED
  BY <1>4, <1>7, <1>8, <1>10, <1>11, <1>12, <1>13 DEF Rest

LEMMA ReturnInv ==
  ASSUME IInv, NEW i \in Ids, Return(i) \/ Raise(i)
  PROVE  IInv'
<1> USE DEF IInv
<1>1. CASE Return(i)
  <2> DEFINE s == IF call[i].at = "applied" THEN "succeeded" ELSE "failed"
  <2>1. /\ call[i].at \in {"applied", "refused"} /\ op' = Finished(op, i, s)
        /\ call' = [call EXCEPT ![i] = NoCall]
        /\ UNCHANGED <<row, rec, daemon, gen, seen, live, stop, settle, request, boots, crashes,
                       applied, judged>>
    BY <1>1 DEF Return, loopVars, ghosts
  <2>2. /\ s \in {"succeeded", "failed", "crashed"} /\ call[i].at \in Before \cup After
        /\ s = "succeeded" => i \in applied
        /\ s = "failed" => i \notin applied
    BY <2>1 DEF Rest, PlacesKept, Before, After
  <2> HIDE DEF s
  <2> QED
    BY <2>1, <2>2, LeaveInv
<1>2. CASE Raise(i)
  <2>1. /\ call[i].at \in Before \cup After /\ call[i].at # "accepted"
        /\ op' = Finished(op, i, "crashed") /\ call' = [call EXCEPT ![i] = NoCall]
        /\ UNCHANGED <<row, rec, daemon, gen, seen, live, stop, settle, request, boots, crashes,
                       applied, judged>>
    BY <1>2 DEF Raise, loopVars, ghosts, Before, After
  <2> QED
    BY <2>1, LeaveInv
<1> QED
  BY <1>1, <1>2

-----------------------------------------------------------------------------
(* The loop.                                                               *)

\* Steps of the loop that touch no operation and no cancel.
LEMMA LoopQuiet ==
  ASSUME IInv, UNCHANGED <<op, daemon, gen, seen, call, request, boots, crashes, applied,
                           judged>>,
         row' \in ItemOf, rec' \in [Runs -> RecStates], live' \in Runs \cup {None},
         stop' \in BOOLEAN, settle' \in SettleOf,
         settle'.cancel = settle.cancel, settle'.at = "record" <=> settle.at = "record",
         LoopKept'
  PROVE  IInv'
<1> USE DEF IInv
<1>1. TypeOK'
  BY DEF TypeOK, RecStates
<1>2. KeysOnce'
  BY DEF Rest, KeysOnce
<1>3. \A x \in Ids : (Asked(x)' <=> Asked(x)) /\ (Replaced(x)' <=> Replaced(x))
                     /\ (InHand(x)' <=> InHand(x))
  BY DEF Asked, Replaced, InHand
<1>4. ClaimFirst' /\ VerdictsKept' /\ BootQuiet'
  BY <1>3 DEF Rest, ClaimFirst, VerdictsKept, BootQuiet
<1>5. PlacesKept'
  BY <1>3 DEF Rest, PlacesKept
<1> QED
  BY <1>1, <1>2, <1>4, <1>5 DEF Rest

LEMMA DispatchInv ==
  ASSUME IInv, NEW r \in Runs, Dispatch(r)
  PROVE  IInv'
<1> USE DEF IInv
<1>1. row' \in ItemOf /\ rec' \in [Runs -> RecStates] /\ rec'[r] = "active"
  BY DEF Dispatch, TypeOK, ItemOf, RecStates
<1>2. live' = r /\ stop' = FALSE /\ settle = Settled /\ daemon = "up"
      /\ UNCHANGED <<op, daemon, gen, seen, call, request, settle, boots, crashes, applied,
                     judged>>
  BY DEF Dispatch, Idle, ghosts
<1>3. stop' \in BOOLEAN /\ settle' \in SettleOf
  BY <1>2, SettledType
<1>4. LoopKept'
  BY <1>1, <1>2, SettledType, Constants DEF LoopKept
<1> QED
  BY <1>1, <1>2, <1>3, <1>4, LoopQuiet

LEMMA ReapInv ==
  ASSUME IInv, NEW how \in {"merged", "failed", "stopped"}, Reap(how)
  PROVE  IInv'
<1> USE DEF IInv
<1>0. live \in Runs /\ settle = Settled /\ daemon = "up" /\ rec[live] \in {"active", "cancelled"}
  BY DEF Reap, Idle, TypeOK, Rest, LoopKept
<1>1. /\ rec' \in [Runs -> RecStates] /\ row' \in ItemOf
      /\ how = "stopped" => rec'[live] \in {"active", "cancelled"}
  BY <1>0 DEF Reap, TypeOK, RecStates
<1>2. /\ live' = None /\ stop' = FALSE
      /\ UNCHANGED <<op, row, daemon, gen, seen, call, request, boots, crashes, applied,
                     judged>>
  BY DEF Reap, ghosts
<1>3. /\ settle' \in SettleOf /\ settle'.at = "take" /\ settle'.run = live /\ settle'.how = how
      /\ settle'.cancel = None
  BY <1>0 DEF Reap, SettleOf
<1>4. stop' \in BOOLEAN
  BY <1>2
<1>5. LoopKept'
  BY <1>0, <1>1, <1>2, <1>3 DEF LoopKept
<1> QED
  BY <1>0, <1>1, <1>2, <1>3, <1>4, <1>5, SettledType, LoopQuiet

LEMMA SettleFields ==
  ASSUME TypeOK
  PROVE  /\ \A a \in {"own", "row", "finish"} :
              LET q == [settle EXCEPT !.at = a]
              IN q \in SettleOf /\ q.at = a /\ q.run = settle.run /\ q.how = settle.how
                 /\ q.cancel = settle.cancel
         /\ \A i \in Ids :
              LET q == [settle EXCEPT !.at = "record", !.cancel = i]
              IN q \in SettleOf /\ q.at = "record" /\ q.run = settle.run /\ q.how = settle.how
                 /\ q.cancel = i
  BY DEF TypeOK, SettleOf

LEMMA SettleOwnInv ==
  ASSUME IInv, SettleOwn
  PROVE  IInv'
<1> USE DEF IInv
<1>1. row' \in ItemOf
  BY DEF SettleOwn, TypeOK, ItemOf
<1>2. /\ settle.at = "own" /\ daemon = "up" /\ settle' = Settled
      /\ UNCHANGED <<op, rec, daemon, gen, seen, call, live, stop, request, boots, crashes,
                     applied, judged>>
  BY DEF SettleOwn, ghosts
<1>3. settle.cancel = None /\ live = None
  BY <1>2, SettledType DEF Rest, LoopKept
<1>4. LoopKept'
  BY <1>2, <1>3, SettledType DEF LoopKept
<1>5. rec' \in [Runs -> RecStates] /\ live' \in Runs \cup {None} /\ stop' \in BOOLEAN
  BY <1>2 DEF TypeOK, RecStates
<1> QED
  BY <1>1, <1>2, <1>3, <1>4, <1>5, SettledType, LoopQuiet

LEMMA CancelRowInv ==
  ASSUME IInv, CancelRow
  PROVE  IInv'
<1> USE DEF IInv
<1>1. row' \in ItemOf
  BY DEF CancelRow, TypeOK, ItemOf
<1>2. /\ settle.at = "row" /\ daemon = "up"
      /\ UNCHANGED <<op, rec, daemon, gen, seen, call, live, stop, request, boots, crashes,
                     applied, judged>>
  BY DEF CancelRow, ghosts
<1>3. /\ settle' \in SettleOf /\ settle'.at = "finish" /\ settle'.run = settle.run
      /\ settle'.cancel = settle.cancel
  BY SettleFields DEF CancelRow
<1>4. LoopKept'
  BY <1>2, <1>3, SettledType DEF Rest, LoopKept
<1>5. rec' \in [Runs -> RecStates] /\ live' \in Runs \cup {None} /\ stop' \in BOOLEAN
  BY <1>2 DEF TypeOK, RecStates
<1> QED
  BY <1>1, <1>2, <1>3, <1>4, <1>5, LoopQuiet

\* The effect of a cancel is the run's record, written while the cancel is in the loop's hand.
LEMMA CancelRecordInv ==
  ASSUME IInv, CancelRecord
  PROVE  IInv'
<1> USE DEF IInv
<1> DEFINE i == settle.cancel
<1>0. /\ settle.at = "record" /\ daemon = "up"
      /\ UNCHANGED <<op, row, daemon, gen, seen, call, live, stop, request, boots, crashes,
                     judged>>
  BY DEF CancelRecord
<1>1. i \in Ids /\ settle.run \in Runs /\ rec[settle.run] \in {"active", "cancelled"}
      /\ live = None
  BY <1>0, SettleTypes, SettledType DEF Rest, LoopKept
<1>2. rec' \in [Runs -> RecStates] /\ rec'[settle.run] = "cancelled"
  BY <1>1, EndedRec DEF CancelRecord
<1>3. applied' = applied \cup {i}
  BY <1>2 DEF CancelRecord
<1>4. /\ settle' \in SettleOf /\ settle'.at = "row" /\ settle'.run = settle.run /\ settle'.cancel = i
  BY SettleFields DEF CancelRecord
<1> HIDE DEF i
<1>5. TypeOK'
  BY <1>0, <1>1, <1>2, <1>3, <1>4 DEF TypeOK, RecStates
<1>6. KeysOnce'
  BY <1>0 DEF Rest, KeysOnce
<1>7. \A x \in Ids : (Asked(x)' <=> Asked(x)) /\ (Replaced(x)' <=> Replaced(x))
                     /\ (InHand(x)' <=> InHand(x))
  BY <1>0, <1>4 DEF Asked, Replaced, InHand, i
<1>8. /\ InHand(i) /\ ~Asked(i) /\ ~Replaced(i) /\ call[i].at \notin Before \cup After
  BY <1>1 DEF Rest, PlacesKept, InHand, i
<1>9. ClaimFirst'
  BY <1>0, <1>1, <1>3, <1>4, <1>7 DEF Rest, ClaimFirst, i
<1>10. LoopKept'
  BY <1>0, <1>1, <1>2, <1>4, Constants DEF Rest, LoopKept
<1>11. PlacesKept'
  BY <1>0, <1>3, <1>4, <1>7, <1>8 DEF Rest, PlacesKept, i
<1>12. VerdictsKept'
  BY <1>0, <1>3, <1>7, <1>8 DEF Rest, VerdictsKept
<1>13. BootQuiet'
  BY <1>0, <1>3, <1>7, <1>8 DEF Rest, BootQuiet
<1> QED
  BY <1>5, <1>6, <1>9, <1>10, <1>11, <1>12, <1>13 DEF Rest

LEMMA FinishCancelInv ==
  ASSUME IInv, FinishCancel
  PROVE  IInv'
<1> USE DEF IInv
<1> PICK i \in Ids \cup {None} : i = settle.cancel
  BY SettleTypes
<1>0. /\ settle.at = "finish" /\ daemon = "up" /\ settle' = Settled
      /\ op' = Finished(op, i, "succeeded")
      /\ UNCHANGED <<row, rec, daemon, gen, seen, call, live, stop, request, boots, crashes,
                     applied, judged>>
  BY DEF FinishCancel, ghosts
<1>1. /\ i \in Ids /\ i \in applied /\ live = None /\ op[i].state \notin {"none", "accepted"}
      /\ ~Asked(i) /\ call[i].at \notin Before \cup After
  <2>1. i \in Ids /\ live = None
    BY <1>0, SettleTypes, SettledType DEF Rest, LoopKept
  <2> QED
    BY <1>0, <2>1 DEF Rest, PlacesKept, ClaimFirst
<1>2. /\ op' \in [Ids -> RowOf] /\ KeysOnce'
      /\ \A x \in Ids :
           /\ op'[x].verb = op[x].verb /\ op'[x].run = op[x].run
           /\ op'[x].state = "none" <=> op[x].state = "none"
           /\ op'[x].state = "expired" <=> op[x].state = "expired"
           /\ op[x].state \notin {"none", "accepted"} => op'[x].state \notin {"none", "accepted"}
           /\ op'[x].state = op[x].state \/ (x = i /\ op'[x].state = "succeeded")
           /\ op[x].state \in Done => op'[x] = op[x]
  BY <1>0, <1>1, FinishKeeps
<1>3. TypeOK'
  BY <1>0, <1>2, SettledType DEF TypeOK
<1>4. LoopKept'
  BY <1>0, <1>1, SettledType DEF LoopKept
<1>5. \A x \in Ids : /\ Asked(x)' <=> Asked(x)
                     /\ Replaced(x)' <=> Replaced(x)
                     /\ InHand(x)' => InHand(x)
                     /\ ~InHand(i)'
  BY <1>0, <1>1, SettledType, Constants DEF Asked, Replaced, InHand
<1>6. \A x \in Ids : settle'.cancel # x
  BY <1>0, SettledType, Constants
<1>7. ClaimFirst' /\ PlacesKept'
  BY <1>0, <1>2, <1>5, <1>6 DEF Rest, ClaimFirst, PlacesKept
<1>8. VerdictsKept'
  BY <1>0, <1>1, <1>2, <1>5 DEF Rest, VerdictsKept
<1>9. BootQuiet'
  <2>1. seen = {}
    BY <1>0 DEF Rest, BootQuiet
  <2> QED
    BY <1>0, <1>2, <1>5, <2>1 DEF Rest, BootQuiet
<1> QED
  BY <1>2, <1>3, <1>4, <1>7, <1>8, <1>9 DEF Rest

\* The loop takes the cancel standing for the run it settles: into its hand, or to a failure.
LEMMA TakeCancelInv ==
  ASSUME IInv, TakeCancel
  PROVE  IInv'
<1> USE DEF IInv
<1>0. /\ settle.at = "take" /\ daemon = "up"
      /\ UNCHANGED <<row, daemon, gen, seen, call, live, stop, boots, crashes, applied,
                     judged>>
  BY DEF TakeCancel, ghosts
<1>1. /\ settle.run \in Runs /\ settle.cancel = None /\ live = None
      /\ (settle.how = "stopped" => rec[settle.run] \in {"active", "cancelled"})
  BY <1>0, SettledType DEF Rest, LoopKept
<1>a. PICK i \in Ids \cup {None} : i = request[settle.run]
  BY <1>1 DEF TypeOK
<1>2. i \in Ids => Asked(i)
  BY <1>a, <1>1 DEF Asked
<1>3. /\ request' \in [Runs -> Ids \cup {None}] /\ request'[settle.run] = None
      /\ \A r \in Runs \ {settle.run} : request'[r] = request[r]
  BY <1>1 DEF TakeCancel, TypeOK
<1>4. i \in Ids => /\ i \notin applied /\ call[i].at \in {"none", "signal"} /\ ~Replaced(i)
                   /\ op[i].state \notin {"none", "accepted"}
                   /\ (op[i].state \in {"succeeded", "failed", "crashed"} => i \in judged)
                   /\ (~ChatUp => op[i].state # "expired")
  BY <1>2 DEF Rest, PlacesKept, ClaimFirst, VerdictsKept, BootQuiet, InHand
<1>5. \A x \in Ids : Asked(x)' => Asked(x) /\ x # i
  <2> TAKE x \in Ids
  <2>1. HAVE Asked(x)'
  <2>2. PICK r \in Runs : request'[r] = x
    BY <2>1 DEF Asked
  <2>3. r # settle.run /\ request[r] = x
    BY <1>3, <2>2, Constants
  <2>4. Asked(x) /\ r = op[x].run
    BY <2>3 DEF Asked, Rest, PlacesKept
  <2>5. request[settle.run] # x
    BY <1>1, <2>3, <2>4 DEF Rest, PlacesKept
  <2> QED
    BY <1>a, <2>4, <2>5
<1>6. \A x \in Ids : Replaced(x)' <=> Replaced(x)
  BY <1>0 DEF Replaced
<1>7. \A x \in Ids : Asked(x)' =>
        request'[op[x].run] = x /\ \A r \in Runs : request'[r] = x => r = op[x].run
  <2> SUFFICES ASSUME NEW x \in Ids, Asked(x)'
               PROVE  request'[op[x].run] = x /\ \A r \in Runs : request'[r] = x => r = op[x].run
    OBVIOUS
  <2>1. /\ request[op[x].run] = x /\ op[x].run \in Runs /\ x # request[settle.run]
        /\ \A r \in Runs : request[r] = x => r = op[x].run
    BY <1>5, <1>a DEF Rest, PlacesKept, Asked
  <2> QED
    BY <1>3, <2>1, Constants
<1>8. seen = {}
  BY <1>0 DEF Rest, BootQuiet
<1>9. ASSUME op' = Finished(op, i, "failed"), rec' \in [Runs -> RecStates], settle' \in SettleOf,
             settle'.at \in {"idle", "own"}, settle'.cancel = None,
             settle'.at = "own" => settle'.run \in Runs
      PROVE  IInv'
  <2>1. /\ op' \in [Ids -> RowOf] /\ KeysOnce'
        /\ \A x \in Ids :
             /\ op'[x].verb = op[x].verb /\ op'[x].run = op[x].run
             /\ op'[x].state = "none" <=> op[x].state = "none"
             /\ op'[x].state = "expired" <=> op[x].state = "expired"
             /\ op[x].state \notin {"none", "accepted"} => op'[x].state \notin {"none", "accepted"}
             /\ op'[x].state = op[x].state \/ (x = i /\ op'[x].state = "failed")
             /\ op[x].state \in Done => op'[x] = op[x]
    BY <1>2, <1>4, <1>9, FinishKeeps
  <2>2. TypeOK'
    BY <1>0, <1>3, <1>9, <2>1 DEF TypeOK, RecStates
  <2>3. LoopKept'
    BY <1>0, <1>1, <1>9, Constants DEF LoopKept
  <2>4. \A x \in Ids : settle'.cancel # x
    BY <1>9, Constants
  <2>5. ClaimFirst' /\ PlacesKept'
    BY <1>0, <1>5, <1>6, <1>7, <2>1, <2>4 DEF Rest, ClaimFirst, PlacesKept
  <2>6. \A x \in Ids : InHand(x)' => InHand(x)
    BY <1>0, <1>5, <2>4 DEF InHand
  <2>7. i \in Ids => ~InHand(i)'
    BY <1>0, <1>4, <1>5, <2>4 DEF InHand, Before, After
  <2>8. VerdictsKept'
    BY <1>0, <1>2, <1>4, <2>1, <2>6, <2>7 DEF Rest, VerdictsKept
  <2>9. BootQuiet'
    BY <1>0, <1>8, <2>1, <2>6 DEF Rest, BootQuiet
  <2> QED
    BY <2>1, <2>2, <2>3, <2>5, <2>8, <2>9 DEF Rest
<1>10. CASE /\ op' = Finished(op, i, "failed") /\ rec' = Ended(settle.run) /\ settle' = Settled
  BY <1>1, <1>9, <1>10, EndedRec, SettledType
<1>11. CASE /\ op' = Finished(op, i, "failed") /\ settle' = [settle EXCEPT !.at = "own"]
            /\ UNCHANGED rec
  <2>1. /\ settle' \in SettleOf /\ settle'.at = "own" /\ settle'.run = settle.run
        /\ settle'.cancel = settle.cancel
    BY <1>11, SettleFields
  <2>2. rec' \in [Runs -> RecStates]
    BY <1>11 DEF TypeOK, RecStates
  <2> QED
    BY <1>1, <1>9, <1>11, <2>1, <2>2
<1>12. CASE /\ Honoured /\ settle' = [settle EXCEPT !.at = "record", !.cancel = i]
            /\ UNCHANGED <<op, rec>>
  <2>0. i \in Ids /\ settle.how = "stopped"
    BY <1>a, <1>12 DEF Honoured
  <2>1. /\ settle' \in SettleOf /\ settle'.at = "record" /\ settle'.run = settle.run
        /\ settle'.cancel = i
    BY <1>12, <2>0, SettleFields
  <2>2. TypeOK'
    BY <1>0, <1>3, <1>12, <2>1 DEF TypeOK
  <2>3. LoopKept'
    BY <1>0, <1>1, <1>12, <2>0, <2>1, Constants DEF LoopKept
  <2>4. KeysOnce'
    BY <1>12 DEF Rest, KeysOnce
  <2>5. ClaimFirst'
    BY <1>0, <1>4, <1>5, <1>6, <1>12, <2>0, <2>1 DEF Rest, ClaimFirst
  <2>6. PlacesKept'
    BY <1>0, <1>4, <1>5, <1>6, <1>7, <1>12, <2>0, <2>1 DEF Rest, PlacesKept, Before, After
  <2>7. \A x \in Ids : InHand(x)' => InHand(x) \/ x = i
    BY <1>0, <1>5, <2>1 DEF InHand
  <2>8. VerdictsKept'
    BY <1>0, <1>4, <1>12, <2>0, <2>7 DEF Rest, VerdictsKept
  <2>9. BootQuiet'
    BY <1>0, <1>4, <1>8, <1>12, <2>0, <2>7 DEF Rest, BootQuiet
  <2> QED
    BY <2>2, <2>3, <2>4, <2>5, <2>6, <2>8, <2>9 DEF Rest
<1> QED
  BY <1>a, <1>10, <1>11, <1>12 DEF TakeCancel

-----------------------------------------------------------------------------
(* Death and recovery.                                                     *)

LEMMA CrashInv ==
  ASSUME IInv, Crash
  PROVE  IInv'
<1> USE DEF IInv
<1>0. /\ daemon' = "down" /\ gen' = None /\ seen' = {} /\ live' = None /\ stop' = FALSE
      /\ settle' = Settled
      /\ UNCHANGED <<op, row, rec, boots, applied, judged>>
  BY DEF Crash, stored, ghosts
<1>1. crashes' \in 0..MaxCrashes
  BY Constants DEF Crash, TypeOK
<1>2. call' \in [Ids -> CallOf] /\ \A i \in Ids : call'[i] = NoCall
  BY NoCallType DEF Crash
<1>3. request' \in [Runs -> Ids \cup {None}] /\ \A r \in Runs : request'[r] = None
  BY DEF Crash
<1>4. stop' \in BOOLEAN /\ gen' \in Nat
  BY <1>0, Constants
<1>5. TypeOK'
  BY <1>0, <1>1, <1>2, <1>3, <1>4, SettledType DEF TypeOK
<1>6. \A i \in Ids : ~Asked(i)' /\ ~Replaced(i)' /\ ~InHand(i)' /\ settle'.cancel # i
                     /\ call'[i].at = "none"
  BY <1>0, <1>2, <1>3, NoCallType, SettledType, Constants DEF Asked, Replaced, InHand, Before, After
<1>7. KeysOnce'
  BY <1>0 DEF Rest, KeysOnce
<1>8. ClaimFirst'
  BY <1>0, <1>2, <1>6 DEF Rest, ClaimFirst
<1>9. LoopKept'
  BY <1>0, <1>3, SettledType DEF LoopKept
<1>10. PlacesKept' /\ VerdictsKept'
  BY <1>0, <1>6 DEF Rest, PlacesKept, VerdictsKept, Before, After
<1>11. BootQuiet'
  BY <1>0, <1>2, <1>6 DEF Rest, BootQuiet
<1> QED
  BY <1>5, <1>7, <1>8, <1>9, <1>10, <1>11 DEF Rest

\* Steps of recovery that write no operation.
LEMMA RecoverQuiet ==
  ASSUME IInv, UNCHANGED <<op, rec, call, live, stop, settle, request, crashes, applied,
                           judged>>,
         row' \in ItemOf, gen' \in Nat, boots' \in Nat, seen' \subseteq ReadOf,
         daemon # "up", daemon' \in {"boot", "stamped", "reconciling", "up"},
         seen' # {} => daemon' = "reconciling",
         \A p \in seen' : op[p.id].state = p.state /\ op[p.id].gen = p.gen
  PROVE  IInv'
<1> USE DEF IInv
<1>1. TypeOK'
  BY DEF TypeOK
<1>2. KeysOnce' /\ LoopKept'
  BY DEF Rest, KeysOnce, LoopKept
<1>3. \A x \in Ids : (Asked(x)' <=> Asked(x)) /\ (Replaced(x)' <=> Replaced(x))
                     /\ (InHand(x)' <=> InHand(x))
  BY DEF Asked, Replaced, InHand
<1>4. ClaimFirst' /\ PlacesKept' /\ VerdictsKept'
  BY <1>3 DEF Rest, ClaimFirst, PlacesKept, VerdictsKept
<1>5. \A p \in seen' : op[p.id].state # "none"
  BY DEF ReadOf
<1>6. BootQuiet'
  BY <1>3, <1>5 DEF Rest, BootQuiet
<1> QED
  BY <1>1, <1>2, <1>4, <1>6 DEF Rest

LEMMA BootInv ==
  ASSUME IInv, Boot \/ Stamp \/ ReadPending \/ RecoverItems
  PROVE  IInv'
<1> USE DEF IInv, stored, loopVars, ghosts
<1>0. boots \in Nat /\ boots + 1 \in Nat /\ row \in ItemOf /\ gen \in Nat
  BY DEF TypeOK
<1>1. CASE Boot
  <2>1. seen = {}
    BY <1>1 DEF Boot, Rest, BootQuiet
  <2> QED
    BY <1>0, <1>1, <2>1, RecoverQuiet DEF Boot
<1>2. CASE Stamp
  <2>1. seen = {}
    BY <1>2 DEF Stamp, Rest, BootQuiet
  <2>2. boots' \in Nat /\ gen' \in Nat
    BY <1>0, <1>2 DEF Stamp
  <2> QED
    BY <1>0, <1>2, <2>1, <2>2, RecoverQuiet DEF Stamp
<1>3. CASE ReadPending
  <2>1. /\ seen' \subseteq ReadOf
        /\ \A p \in seen' : op[p.id].state = p.state /\ op[p.id].gen = p.gen
    BY <1>3, RowTypes DEF ReadPending, ReadOf
  <2>2. daemon = "stamped" /\ daemon' = "reconciling"
        /\ UNCHANGED <<op, row, rec, gen, call, live, stop, settle, request, boots, crashes,
                       applied, judged>>
    BY <1>3 DEF ReadPending
  <2> QED
    BY <1>0, <2>1, <2>2, RecoverQuiet
<1>4. CASE RecoverItems
  <2>1. row' \in ItemOf
    BY <1>4 DEF RecoverItems, TypeOK, ItemOf
  <2>2. daemon = "reconciling" /\ daemon' = "up" /\ seen' = {}
        /\ UNCHANGED <<op, rec, gen, call, live, stop, settle, request, boots, crashes,
                       applied, judged>>
    BY <1>4 DEF RecoverItems
  <2> QED
    BY <1>0, <2>1, <2>2, RecoverQuiet
<1> QED
  BY <1>1, <1>2, <1>3, <1>4

\* Recovery's verdict on one row: its own judgement, or expired when nobody claimed it.
LEMMA ReconcileInv ==
  ASSUME IInv, NEW p \in seen, Reconcile(p)
  PROVE  IInv'
<1> USE DEF IInv
<1> DEFINE verdict == IF p.state = "accepted" THEN "expired" ELSE Judge(p.id)
<1>0. /\ daemon = "reconciling" /\ seen' = seen \ {p}
      /\ UNCHANGED <<row, rec, daemon, gen, call, live, stop, settle, request, boots, crashes,
                     applied>>
      /\ op' = op \/ op' = Finished(op, p.id, verdict)
      /\ judged' = (IF op' = op THEN judged ELSE judged \cup {p.id})
  BY DEF Reconcile, loopVars
<1>1. p \in ReadOf /\ p.id \in Ids /\ p.state \in {"accepted", "running"}
  BY DEF TypeOK, ReadOf
<1>2. verdict \in Done /\ (verdict = "expired" <=> p.state = "accepted")
  BY DEF Judge, Done
<1> HIDE DEF verdict
<1>3. /\ op' \in [Ids -> RowOf]
      /\ \A i \in Ids :
           /\ op'[i].key = op[i].key /\ op'[i].verb = op[i].verb /\ op'[i].run = op[i].run
           /\ op'[i].gen = op[i].gen
           /\ i # p.id \/ op[i].state \in Done => op'[i] = op[i]
           /\ op'[i] = op[i] \/ (i = p.id /\ op'[i].state = verdict /\ op[i].state \notin Done)
  <2>1. CASE op' = op
    BY <2>1 DEF TypeOK
  <2>2. CASE op' = Finished(op, p.id, verdict)
    BY <1>1, <1>2, <2>2, FinishedRow
  <2> QED
    BY <1>0, <2>1, <2>2
<1>4. op[p.id].state # "none"
  BY DEF Rest, BootQuiet
<1>5. settle = Settled /\ (\A r \in Runs : request[r] = None) /\ live = None
  BY <1>0 DEF Rest, LoopKept
<1>6. TypeOK'
  BY <1>0, <1>1, <1>3 DEF TypeOK
<1>7. KeysOnce'
  BY <1>3, <1>4 DEF Rest, KeysOnce
<1>8. LoopKept'
  BY <1>0, <1>5, SettledType DEF LoopKept
<1>9. \A x \in Ids : (Asked(x)' <=> Asked(x)) /\ (Replaced(x)' <=> Replaced(x))
                     /\ (InHand(x)' <=> InHand(x))
  BY <1>0 DEF Asked, Replaced, InHand
<1>10. ClaimFirst'
  <2>1. \A x \in Ids : /\ op'[x].state = "none" => op[x].state = "none"
                       /\ op'[x].state \in {"none", "accepted"}
                          => op[x].state \in {"none", "accepted"}
    BY <1>2, <1>3 DEF Done
  <2> QED
    BY <1>0, <1>3, <1>9, <2>1 DEF Rest, ClaimFirst
<1>11. PlacesKept'
  BY <1>0, <1>3, <1>9 DEF Rest, PlacesKept
<1>12. VerdictsKept'
  <2>1. \A x \in Ids : x \notin judged' => op'[x] = op[x] /\ x \notin judged
    BY <1>0, <1>3
  <2> QED
    BY <1>0, <1>9, <2>1 DEF Rest, VerdictsKept
<1>13. BootQuiet'
  <2>1. \A q \in seen' : q \in seen /\ q.id \in Ids /\ op[q.id].state # "none"
    BY <1>0 DEF TypeOK, ReadOf, Rest, BootQuiet
  <2>2. \A q \in seen' : op'[q.id].state # "none"
    BY <1>2, <1>3, <2>1 DEF Done
  <2>3. ASSUME ~ChatUp PROVE \A q \in seen' : op'[q.id].state = q.state /\ op'[q.id].gen = q.gen
    <3> TAKE q \in seen'
    <3>1. /\ op[q.id].state = q.state /\ op[q.id].gen = q.gen
          /\ op[p.id].state = p.state /\ op[p.id].gen = p.gen
      BY <2>1, <2>3 DEF Rest, BootQuiet
    <3>2. q \in ReadOf /\ q # p
      BY <1>0, <2>1 DEF TypeOK
    <3>3. q.id # p.id
      BY <1>1, <3>1, <3>2 DEF ReadOf
    <3> QED
      BY <1>3, <2>1, <3>1, <3>3
  <2>4. ASSUME ~ChatUp PROVE \A i \in Ids : call[i] = NoCall /\ ~InHand(i)
    <3>1. \A i \in Ids : call[i] = NoCall
      BY <1>0, <2>4 DEF Rest, BootQuiet
    <3> QED
      BY <1>5, <3>1, NoCallType, SettledType, Constants DEF InHand, Asked, Before, After
  <2>5. ASSUME ~ChatUp, NEW i \in Ids, op'[i].state = "expired" PROVE i \notin applied
    <3>1. CASE op'[i] = op[i]
      BY <2>5, <3>1 DEF Rest, BootQuiet
    <3>2. CASE i = p.id /\ op'[i].state = verdict
      <4>1. op[i].state = "accepted"
        BY <1>2, <2>5, <3>2 DEF Rest, BootQuiet
      <4> QED
        BY <4>1 DEF Rest, ClaimFirst
    <3> QED
      BY <1>3, <3>1, <3>2
  <2> QED
    BY <1>0, <1>9, <2>2, <2>3, <2>4, <2>5 DEF BootQuiet
<1> QED
  BY <1>6, <1>7, <1>8, <1>10, <1>11, <1>12, <1>13 DEF Rest

LEMMA InitInv == Init => IInv
<1> SUFFICES ASSUME Init PROVE IInv
  OBVIOUS
<1> USE DEF Init
<1>0. NoRow \in RowOf /\ NoRow.state = "none" /\ NoRow.verb = "none"
  BY Constants DEF NoRow, RowOf
<1>1. /\ op \in [Ids -> RowOf] /\ \A i \in Ids : op[i] = NoRow
  BY <1>0
<1>2. call \in [Ids -> CallOf] /\ \A i \in Ids : call[i] = NoCall
  BY NoCallType
<1>3. request \in [Runs -> Ids \cup {None}] /\ \A r \in Runs : request[r] = None
  OBVIOUS
<1>4. row \in ItemOf /\ 0 \in 0..MaxCrashes /\ gen \in Nat /\ boots \in Nat
  BY Constants DEF ItemOf
<1>5. stop \in BOOLEAN /\ rec \in [Runs -> RecStates]
  BY DEF RecStates
<1>6. TypeOK
  BY <1>1, <1>2, <1>3, <1>4, <1>5, SettledType DEF TypeOK, RecStates
<1>7. \A i \in Ids : ~Asked(i) /\ ~Replaced(i) /\ settle.cancel # i /\ call[i].at = "none"
  BY <1>2, <1>3, NoCallType, SettledType, Constants DEF Asked, Replaced
<1>8. KeysOnce /\ ClaimFirst /\ VerdictsKept
  BY <1>0, <1>1, <1>2, <1>7 DEF KeysOnce, ClaimFirst, VerdictsKept
<1>9. LoopKept
  BY SettledType DEF LoopKept
<1>10. PlacesKept
  BY <1>7 DEF PlacesKept, Before, After
<1>11. BootQuiet
  BY <1>0, <1>1 DEF BootQuiet
<1> QED
  BY <1>6, <1>8, <1>9, <1>10, <1>11 DEF IInv, Rest

LEMMA StepInv == IInv /\ [Next]_vars => IInv'
<1> SUFFICES ASSUME IInv, [Next]_vars PROVE IInv'
  OBVIOUS
<1>1. CASE UNCHANGED vars
  BY <1>1 DEF vars, IInv, TypeOK, Rest, KeysOnce, ClaimFirst, LoopKept, PlacesKept, VerdictsKept,
     BootQuiet, Asked, Replaced, InHand
<1>2. CASE Ask
  BY <1>2, AcceptInv DEF Ask
<1>3. ASSUME NEW i \in Ids, Step(i) PROVE IInv'
  BY <1>3, ClaimInv, LookInv, ApplyItemInv, StopOrCloseInv, ApplyCancelInv, MissedInv, SignalInv,
     CancelParkedInv, ReturnInv DEF Step, Verb
<1>4. CASE Settle
  BY <1>4, TakeCancelInv, SettleOwnInv, CancelRecordInv, CancelRowInv, FinishCancelInv DEF Settle
<1>5. CASE Recover
  BY <1>5, BootInv, ReconcileInv DEF Recover
<1>6. CASE EngineEnds
  BY <1>6, ReapInv DEF EngineEnds
<1> QED
  BY <1>1, <1>2, <1>3, <1>4, <1>5, <1>6, CrashInv, DispatchInv DEF Next

-----------------------------------------------------------------------------
(* The theorems.                                                           *)

\* The operation rows, the calls and the loop's hands keep their types.
THEOREM TypeCorrect == Spec => []TypeOK
<1>1. IInv => TypeOK
  BY DEF IInv
<1> QED
  BY <1>1, InitInv, StepInv, PTL DEF Spec

\* However often a client sends its request, and whatever dies in between, what an idempotency
\* key asks for is written once: accept gives the key one operation, for good.
THEOREM KeyAppliesOnce == Spec => []AppliedOnce
<1>1. IInv => AppliedOnce
  <2> SUFFICES ASSUME IInv, NEW k \in Keys
               PROVE  Cardinality({i \in applied : op[i].key = k}) <= 1
    BY DEF AppliedOnce
  <2> DEFINE S == {i \in applied : op[i].key = k}
  <2>1. \A i, j \in S : i = j
    <3> SUFFICES ASSUME NEW i \in S, NEW j \in S PROVE i = j
      OBVIOUS
    <3>1. i \in Ids /\ j \in Ids /\ op[i].key = op[j].key /\ op[i].key # Chat
      BY Constants DEF IInv, TypeOK
    <3>2. op[i].state # "none" /\ op[j].state # "none"
      BY <3>1 DEF IInv, Rest, ClaimFirst
    <3> QED
      BY <3>1, <3>2 DEF IInv, Rest, KeysOnce
  <2>2. CASE S = {}
    BY <2>2, FS_EmptySet
  <2>3. CASE S # {}
    <3>1. PICK i : i \in S
      BY <2>3
    <3>2. S = {i}
      BY <2>1, <3>1
    <3> HIDE DEF S
    <3>3. Cardinality(S) = 1
      BY <3>2, FS_Singleton
    <3> QED
      BY <3>3 DEF S
  <2> QED
    BY <2>2, <2>3
<1> QED
  BY <1>1, InitInv, StepInv, PTL DEF Spec

\* The verdict the process gives that did the work is true, however cancels replace one another,
\* decisions about the item and settles interleave with it, by chat or not; and a verb recorded
\* as crashed, wherever in it the exception fell, is over: nobody goes on with it.
THEOREM VerdictsAreTrue == Spec => []VerdictTrue
<1>1. IInv => VerdictTrue
  <2> SUFFICES ASSUME IInv, NEW i \in Ids \ judged PROVE VerdictTrue!(i)
    BY DEF VerdictTrue
  <2>1. op[i].state = "crashed" => call[i].at = "none"
    BY CallTypes DEF IInv, Rest, VerdictsKept, InHand, CallAts, Before, After
  <2> QED
    BY <2>1 DEF IInv, Rest, VerdictsKept, InHand, Asked
<1> QED
  BY <1>1, InitInv, StepInv, PTL DEF Spec

\* Where no command arrives before recovery is over (the API alone), an operation declared
\* expired was never carried out and no thread will: the claim comes before the effect.
THEOREM ExpiredNeverApplied == ASSUME ~ChatUp PROVE Spec => []ExpiredUntouched
<1>1. IInv => ExpiredUntouched
  BY DEF IInv, Rest, BootQuiet, ExpiredUntouched
<1> QED
  BY <1>1, InitInv, StepInv, PTL DEF Spec

=============================================================================
