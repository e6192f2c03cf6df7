---------------------------- MODULE LandingProofs ----------------------------
(***************************************************************************)
(* A landing, for every number of heads, updates, deaths and acts of       *)
(* people: its type invariant, that a head without checks is merged only   *)
(* after the settle window, that branch updates stay within their budget,  *)
(* and that land() implements the promise of JudgedMerge.                  *)
(***************************************************************************)
EXTENDS Landing, TLAPS

PR == [st : Statuses, draft : Drafts, head : Heads, base : Bases]
Snap == [head : 0..MaxHead, base : Bases]
Mem == [own : BOOLEAN, seen : 0..MaxHead, inherits : BOOLEAN, blockedAt : 0..MaxHead,
        attempts : Nat, uphead : 0..MaxHead]
Store == [attempts : Nat, uphead : 0..MaxHead, undrafted : BOOLEAN]
Hist == [asked : Nat, taken : [Heads -> Nat], overruled : BOOLEAN,
         rash : SUBSET Heads, trusting : SUBSET Heads, crashes : 0..MaxCrashes]

\* The calls made with a pull request that was read in this round of the loop.
Looking == {"reviews", "checks", "poll", "update", "bump", "stamp", "threads", "ack", "reread",
            "merge", "queue", "enqueue", "watch"}

\* The calls made once the head's checks were judged good.
Passing == {"threads", "ack", "reread", "merge", "queue", "enqueue"}

\* The head in hand is the last one seen, and the branch only moves on from it.
HeadSeen == /\ mem.seen <= pr.head
            /\ pc \in Looking => snap.head = mem.seen /\ snap.head \in Heads

\* A head is merged or queued only after it was judged.
HeadJudged == /\ pc \in Passing => snap.head \in vouched
              /\ entry # 0 => entry = pr.head /\ entry \in vouched

\* The landing's clock for the head is never ahead of the head's age, but for the one clock
\* it inherits; so what was judged early has been replaced.
ClockKept == /\ mem.seen = pr.head /\ ~mem.inherits => headAge <= prAge
             /\ \A h \in hist.rash : h < pr.head

\* The counter in the record is one behind between a request and on_update, no more.
Parked == cfg.entry = "parked"
AskedKept ==
  /\ mem.attempts <= MaxUpdates
  /\ pc = "update" => mem.attempts < MaxUpdates
  /\ ~Parked => mem.attempts = store.attempts + (IF pc = "bump" THEN 1 ELSE 0)
  /\ Parked => store.attempts = 0
  /\ hist.asked <= mem.attempts + (IF Parked THEN MaxUpdates * hist.crashes ELSE hist.crashes)

\* A process that had an update accepted for the head it sees remembers so.
TakenKept ==
  /\ pc = "update" => mem.uphead # snap.head
  /\ \A h \in Heads : \/ hist.taken[h] <= hist.crashes
                      \/ /\ hist.taken[h] = hist.crashes + 1
                         /\ h <= mem.seen
                         /\ h = mem.seen => mem.uphead = h

Rest == HeadSeen /\ HeadJudged /\ ClockKept /\ AskedKept /\ TakenKept

IInv == TypeOK /\ Rest

-----------------------------------------------------------------------------
(* Types.                                                                  *)

LEMMA Types ==
  TypeOK <=>
    /\ cfg \in Config /\ pr \in PR /\ checks \in [Heads -> Verdicts]
    /\ obj \in {"none", "human", "answered", "bot"}
    /\ thr \in {"none", "human", "loop"}
    /\ inflight \in 0..MaxHead /\ entry \in 0..MaxHead
    /\ by \in {"nobody", "loop", "person"}
    /\ acts \in 0..MaxActs
    /\ age \in 0..CiTimeout /\ pollAge \in 0..CiTimeout
    /\ headAge \in 0..Settle /\ prAge \in 0..Settle
    /\ pc \in Calls /\ out \in Outcomes
    /\ snap \in Snap /\ mem \in Mem /\ store \in Store
    /\ vouched \subseteq Heads
    /\ hist \in Hist
  BY DEF TypeOK, PR, Snap, Mem, Store, Hist

LEMMA Bounds ==
  /\ MaxHead \in Nat /\ MaxUpdates \in Nat /\ CiTimeout \in Nat /\ Settle \in Nat
  /\ MaxCrashes \in Nat /\ MaxActs \in Nat
  /\ Heads = 1..MaxHead /\ 1 \in Heads
  BY BoundsAssumption DEF Heads

LEMMA Fields ==
  ASSUME TypeOK
  PROVE  /\ pr.head \in Nat /\ pr.head \in Heads
         /\ mem.seen \in Nat /\ mem.attempts \in Nat /\ mem.uphead \in Nat
         /\ store.attempts \in Nat /\ store.uphead \in 0..MaxHead
         /\ hist.asked \in Nat /\ hist.crashes \in Nat /\ hist.crashes \in 0..MaxCrashes
         /\ hist.taken \in [Heads -> Nat] /\ hist.rash \subseteq Heads
         /\ hist.trusting \subseteq Heads
         /\ snap.head \in Nat /\ snap.head \in 0..MaxHead
         /\ headAge \in Nat /\ prAge \in Nat
<1>1. pr.head \in Heads
  BY Types DEF PR
<1>2. mem.seen \in 0..MaxHead /\ mem.attempts \in Nat /\ mem.uphead \in 0..MaxHead
  BY Types DEF Mem
<1>3. store.attempts \in Nat /\ store.uphead \in 0..MaxHead
  BY Types DEF Store
<1>4. /\ hist.asked \in Nat /\ hist.crashes \in 0..MaxCrashes /\ hist.taken \in [Heads -> Nat]
      /\ hist.rash \subseteq Heads /\ hist.trusting \subseteq Heads
  BY Types DEF Hist
<1>5. snap.head \in 0..MaxHead
  BY Types DEF Snap
<1>6. headAge \in 0..Settle /\ prAge \in 0..Settle
  BY Types
<1> HIDE DEF Heads
<1>7. /\ \A n \in Heads : n \in Nat
      /\ \A n \in 0..MaxHead : n \in Nat
      /\ \A n \in 0..MaxCrashes : n \in Nat
      /\ \A n \in 0..Settle : n \in Nat
  BY Bounds
<1> QED
  BY <1>1, <1>2, <1>3, <1>4, <1>5, <1>6, <1>7

\* Steps of the landing that only choose the next call.
LEMMA CallOnly ==
  ASSUME IInv, pc' \in Calls, out' \in Outcomes,
         UNCHANGED <<cfg, pr, checks, obj, thr, inflight, entry, by, acts, age, prAge, headAge,
                     pollAge, snap, mem, store, vouched, hist>>,
         pc # "bump", pc' \notin {"update", "bump"},
         pc' \in Looking => pc \in Looking,
         pc' \in Passing => pc \in Passing
  PROVE  IInv'
<1> USE DEF IInv
<1>1. TypeOK'
  BY DEF TypeOK
<1>2. Rest'
  BY DEF Rest, HeadSeen, HeadJudged, ClockKept, AskedKept, TakenKept, Parked
<1> QED
  BY <1>1, <1>2

LEMMA CallsInv ==
  ASSUME IInv, TimedOut \/ ReadReviews \/ ReadThreads \/ RereadThreads \/ ReadQueue
               \/ WatchQueue \/ Resume
  PROVE  IInv'
<1>1. UNCHANGED <<cfg, pr, checks, obj, thr, inflight, entry, by, acts, age, prAge, headAge,
                  pollAge, snap, mem, store, vouched, hist>>
  BY DEF TimedOut, ReadReviews, ReadThreads, RereadThreads, ReadQueue, WatchQueue, Resume,
         remote, clocks
<1>2. out \in Outcomes
  BY DEF IInv, TypeOK
<1>3. /\ pc # "bump" /\ pc' \in Calls /\ out' \in Outcomes /\ pc' \notin {"update", "bump"}
      /\ pc' \in Looking => pc \in Looking
      /\ pc' \in Passing => pc \in Passing
  BY <1>2 DEF TimedOut, ReadReviews, ReadThreads, RereadThreads, ReadQueue, WatchQueue, Resume,
     Finish, Go, Tick, Reconciled, Calls, Outcomes, Looking, Passing
<1> QED
  BY <1>1, <1>3, CallOnly

\* Steps of the forge that leave the head where it is.
LEMMA RemoteRest ==
  ASSUME IInv, UNCHANGED <<cfg, headAge, prAge, pc, snap, mem, store, vouched, hist>>,
         pr'.head = pr.head, entry' = entry \/ entry' = 0
  PROVE  Rest'
  BY DEF IInv, Rest, HeadSeen, HeadJudged, ClockKept, AskedKept, TakenKept, Parked

\* What a change of one field leaves of the pull request.
LEMMA PRFields ==
  ASSUME TypeOK
  PROVE  /\ \A s \in Statuses : LET q == [pr EXCEPT !.st = s]
                                IN q \in PR /\ q.head = pr.head /\ q.st = s
         /\ \A d \in Drafts : LET q == [pr EXCEPT !.draft = d]
                              IN q \in PR /\ q.head = pr.head /\ q.st = pr.st
         /\ \A b \in Bases : LET q == [pr EXCEPT !.base = b]
                             IN q \in PR /\ q.head = pr.head /\ q.st = pr.st
         /\ \A n \in Heads, b \in Bases : LET q == [pr EXCEPT !.head = n, !.base = b]
                             IN q \in PR /\ q.head = n /\ q.st = pr.st
  BY Types DEF PR

LEMMA PeopleInv ==
  ASSUME IInv, UpdateFails \/ ChecksReport \/ BaseMoves \/ PersonReviews \/ PersonDrafts
               \/ PersonEnds \/ QueueActs
  PROVE  IInv'
<1> USE DEF IInv, local, clocks
<1>0. 0 \in 0..MaxHead /\ pr.head \in Heads
  BY Bounds, Fields
<1>1. CASE UpdateFails
  <2>1. Rest'
    BY <1>1, RemoteRest DEF UpdateFails
  <2>2. TypeOK'
    BY <1>1, <1>0 DEF UpdateFails, TypeOK
  <2> QED
    BY <2>1, <2>2
<1>2. CASE ChecksReport
  <2>1. Rest'
    BY <1>2, RemoteRest DEF ChecksReport
  <2>2. \A v \in Verdicts : [checks EXCEPT ![pr.head] = v] \in [Heads -> Verdicts]
    BY Types
  <2>3. checks' \in [Heads -> Verdicts]
    BY <1>2, <2>2 DEF ChecksReport, Verdicts
  <2>4. TypeOK'
    BY <1>2, <2>3 DEF ChecksReport, TypeOK
  <2> QED
    BY <2>1, <2>4
<1>3. CASE BaseMoves
  <2>1. pr' \in PR /\ pr'.head = pr.head
    BY <1>3, PRFields DEF BaseMoves
  <2>2. acts' \in 0..MaxActs
    BY <1>3, Bounds, Types DEF BaseMoves, Surprise
  <2>3. Rest'
    BY <1>3, <2>1, RemoteRest DEF BaseMoves
  <2>4. TypeOK'
    BY <1>3, <2>1, <2>2 DEF BaseMoves, TypeOK, PR
  <2> QED
    BY <2>3, <2>4
<1>4. CASE PersonReviews
  <2>1. acts' \in 0..MaxActs
    BY <1>4, Bounds, Types DEF PersonReviews, Surprise
  <2>2. Rest'
    BY <1>4, RemoteRest DEF PersonReviews
  <2>3. TypeOK'
    BY <1>4, <2>1 DEF PersonReviews, TypeOK
  <2> QED
    BY <2>2, <2>3
<1>5. CASE PersonDrafts
  <2>1. pr' \in PR /\ pr'.head = pr.head
    BY <1>5, PRFields DEF PersonDrafts, Drafts
  <2>2. acts' \in 0..MaxActs
    BY <1>5, Bounds, Types DEF PersonDrafts, Surprise
  <2>3. entry' = entry \/ entry' = 0
    BY <1>5 DEF PersonDrafts
  <2>4. Rest'
    BY <1>5, <2>1, <2>3, RemoteRest DEF PersonDrafts
  <2>5. TypeOK'
    BY <1>5, <1>0, <2>1, <2>2, <2>3 DEF PersonDrafts, TypeOK, PR
  <2> QED
    BY <2>4, <2>5
<1>6. CASE PersonEnds
  <2>1. pr' \in PR /\ pr'.head = pr.head
    BY <1>6, PRFields DEF PersonEnds, Statuses
  <2>2. acts' \in 0..MaxActs
    BY <1>6, Bounds, Types DEF PersonEnds, Surprise
  <2>3. Rest'
    BY <1>6, <2>1, RemoteRest DEF PersonEnds
  <2>4. TypeOK'
    BY <1>6, <1>0, <2>1, <2>2 DEF PersonEnds, TypeOK, PR
  <2> QED
    BY <2>3, <2>4
<1>7. CASE QueueActs
  <2>1. pr' \in PR /\ pr'.head = pr.head
    BY <1>7, PRFields, Types DEF QueueActs, Statuses
  <2>2. Rest'
    BY <1>7, <2>1, RemoteRest DEF QueueActs
  <2>3. TypeOK'
    BY <1>7, <1>0, <2>1 DEF QueueActs, TypeOK, PR
  <2> QED
    BY <2>2, <2>3
<1> QED
  BY <1>1, <1>2, <1>3, <1>4, <1>5, <1>6, <1>7

\* A new head is later than every head the landing has seen or judged.
LEMMA PushInv ==
  ASSUME IInv, PersonPushes \/ UpdateLands
  PROVE  IInv'
<1> USE DEF IInv, local, clocks
<1>1. PICK b \in Bases : NewHead(b)
  BY DEF PersonPushes, UpdateLands, Bases
<1>2. pr.head + 1 \in Heads
  <2>1. pr.head \in Nat /\ pr.head < MaxHead
    BY <1>1, Fields DEF NewHead
  <2> QED
    BY <2>1, Bounds
<1>3. pr' \in PR /\ pr'.head = pr.head + 1
  BY <1>1, <1>2, PRFields DEF NewHead
<1>4. acts' \in 0..MaxActs
  BY Types, Bounds DEF PersonPushes, UpdateLands, Surprise
<1>5. 0 \in 0..MaxHead /\ 0 \in 0..Settle
  BY Bounds
<1>6. TypeOK'
  BY <1>1, <1>3, <1>4, <1>5 DEF NewHead, TypeOK, PR
<1>7. HeadSeen' /\ HeadJudged'
  BY <1>1, <1>3, Fields DEF NewHead, Rest, HeadSeen, HeadJudged
<1>8. ClockKept'
  <2>1. mem'.seen # pr'.head
    BY <1>1, <1>3, Fields DEF NewHead, Rest, HeadSeen
  <2>2. ASSUME NEW h \in hist.rash PROVE h \in Nat /\ h < pr.head + 1
    <3>1. h < pr.head
      BY DEF Rest, ClockKept
    <3>2. h \in 1..MaxHead /\ MaxHead \in Nat /\ pr.head \in Nat
      BY Fields, Bounds
    <3> QED
      BY <3>1, <3>2
  <2> QED
    BY <1>1, <1>3, <2>1, <2>2 DEF NewHead, ClockKept
<1>9. AskedKept' /\ TakenKept'
  BY <1>1 DEF NewHead, Rest, AskedKept, TakenKept, Parked
<1> QED
  BY <1>6, <1>7, <1>8, <1>9 DEF Rest

LEMMA PassInv ==
  ASSUME IInv, Pass
  PROVE  IInv'
<1> USE DEF IInv, local, remote
<1>1. \A a \in 0..CiTimeout : Smaller(a + 1, CiTimeout) \in 0..CiTimeout
  BY Bounds DEF Smaller
<1>2. \A a \in 0..Settle : Smaller(a + 1, Settle) \in 0..Settle
  BY Bounds DEF Smaller
<1>3. 0 \in 0..CiTimeout /\ 0 \in 0..Settle
  BY Bounds
<1>4. /\ age' \in 0..CiTimeout /\ pollAge' \in 0..CiTimeout
      /\ headAge' \in 0..Settle /\ prAge' \in 0..Settle
  BY <1>1, <1>2, <1>3, Types DEF Pass
<1>5. TypeOK'
  BY <1>4 DEF Pass, TypeOK
<1>6. \A a, b \in 0..Settle : a <= b => Smaller(a + 1, Settle) <= Smaller(b + 1, Settle)
  BY Bounds DEF Smaller
<1>7. headAge <= prAge => headAge' <= prAge'
  <2>1. CASE pc = "dead"
    BY <2>1, <1>4, Bounds DEF Pass
  <2>2. CASE pc # "dead"
    BY <2>2, <1>6, Types DEF Pass
  <2> QED
    BY <2>1, <2>2
<1>8. Rest'
  BY <1>7 DEF Pass, Rest, HeadSeen, HeadJudged, ClockKept, AskedKept, TakenKept, Parked
<1> QED
  BY <1>5, <1>8

-----------------------------------------------------------------------------
(* What the landing does with its locals and its record.                   *)

LEMMA SeenFields ==
  ASSUME TypeOK, NEW h \in 0..MaxHead, NEW i \in BOOLEAN,
         mem' = [mem EXCEPT !.seen = h, !.inherits = i]
  PROVE  /\ mem' \in Mem /\ mem'.seen = h /\ mem'.inherits = i
         /\ mem'.attempts = mem.attempts /\ mem'.uphead = mem.uphead
  BY Types DEF Mem

LEMMA OwnFields ==
  ASSUME TypeOK, NEW o \in BOOLEAN, mem' = [mem EXCEPT !.own = o]
  PROVE  /\ mem' \in Mem /\ mem'.seen = mem.seen /\ mem'.inherits = mem.inherits
         /\ mem'.attempts = mem.attempts /\ mem'.uphead = mem.uphead
  BY Types DEF Mem

LEMMA BlockedFields ==
  ASSUME TypeOK, NEW h \in 0..MaxHead, mem' = [mem EXCEPT !.blockedAt = h]
  PROVE  /\ mem' \in Mem /\ mem'.seen = mem.seen /\ mem'.inherits = mem.inherits
         /\ mem'.attempts = mem.attempts /\ mem'.uphead = mem.uphead
  BY Types DEF Mem

LEMMA AskFields ==
  ASSUME TypeOK, NEW n \in Nat, NEW h \in 0..MaxHead,
         mem' = [mem EXCEPT !.attempts = n, !.uphead = h]
  PROVE  /\ mem' \in Mem /\ mem'.seen = mem.seen /\ mem'.inherits = mem.inherits
         /\ mem'.attempts = n /\ mem'.uphead = h
  BY Types DEF Mem

LEMMA StoreFields ==
  ASSUME TypeOK
  PROVE  /\ \A n \in Nat : LET q == [store EXCEPT !.attempts = n]
                           IN q \in Store /\ q.attempts = n
         /\ \A h \in 0..MaxHead : LET q == [store EXCEPT !.uphead = h]
                                  IN q \in Store /\ q.attempts = store.attempts
         /\ \A u \in BOOLEAN : LET q == [store EXCEPT !.undrafted = u]
                               IN q \in Store /\ q.attempts = store.attempts
  BY Types DEF Store

\* Steps that change neither the branch, nor what was asked of it, nor a clock.
LEMMA LocalRest ==
  ASSUME IInv, UNCHANGED <<cfg, headAge, prAge, snap, hist>>,
         pr'.head = pr.head,
         mem'.seen = mem.seen, mem'.inherits = mem.inherits,
         mem'.attempts = mem.attempts, mem'.uphead = mem.uphead,
         store'.attempts = store.attempts + (IF pc = "bump" /\ ~Parked THEN 1 ELSE 0),
         vouched \subseteq vouched',
         entry' # 0 => entry' = pr.head /\ entry' \in vouched',
         pc' \notin {"update", "bump"},
         pc' \in Looking => pc \in Looking,
         pc' \in Passing => snap.head \in vouched'
  PROVE  Rest'
<1> USE DEF IInv
<1>0. store.attempts \in Nat
  BY Fields
<1>1. HeadSeen' /\ HeadJudged'
  BY DEF Rest, HeadSeen, HeadJudged
<1>2. ClockKept' /\ TakenKept'
  BY DEF Rest, ClockKept, TakenKept
<1>3. AskedKept'
  BY <1>0 DEF Rest, AskedKept, Parked
<1> QED
  BY <1>1, <1>2, <1>3 DEF Rest

LEMMA UndraftInv ==
  ASSUME IInv, Undraft
  PROVE  IInv'
<1> USE DEF IInv, clocks, Undraft, Finish, Go
<1>1. CASE UNCHANGED <<pr, hist>> /\ Finish("blocked")
  BY <1>1, CallOnly DEF Calls, Outcomes, Looking, Passing
<1>2. CASE /\ pr' = [pr EXCEPT !.draft = "no"]
           /\ hist' = [hist EXCEPT !.overruled = @ \/ pr.draft = "person"]
           /\ Go("undrafted")
  <2>1. pr' \in PR /\ pr'.head = pr.head
    BY <1>2, PRFields DEF Drafts
  <2>2. \A o \in BOOLEAN : LET q == [hist EXCEPT !.overruled = o]
                           IN /\ q \in Hist /\ q.asked = hist.asked /\ q.taken = hist.taken
                              /\ q.rash = hist.rash /\ q.crashes = hist.crashes
    BY Types DEF Hist
  <2>3. (hist.overruled \/ pr.draft = "person") \in BOOLEAN
    OBVIOUS
  <2>4. /\ hist' \in Hist /\ hist'.asked = hist.asked /\ hist'.taken = hist.taken
        /\ hist'.rash = hist.rash /\ hist'.crashes = hist.crashes
    BY <1>2, <2>2, <2>3
  <2>5. pc' = "undrafted" /\ pc = "undraft"
    BY <1>2
  <2>6. TypeOK'
    BY <1>2, <2>1, <2>4 DEF TypeOK, PR, Hist, Calls
  <2>7. HeadSeen' /\ HeadJudged'
    BY <2>1, <2>5 DEF Rest, HeadSeen, HeadJudged, Looking, Passing
  <2>8. ClockKept' /\ TakenKept'
    BY <2>1, <2>4, <2>5 DEF Rest, ClockKept, TakenKept
  <2>9. AskedKept'
    BY <2>1, <2>4, <2>5 DEF Rest, AskedKept, Parked
  <2> QED
    BY <2>6, <2>7, <2>8, <2>9 DEF Rest
<1> QED
  BY <1>1, <1>2

LEMMA RecordInv ==
  ASSUME IInv, RecordUndraft \/ StampHead \/ BumpCounter
  PROVE  IInv'
<1> USE DEF IInv, clocks, remote, Finish, Go, Tick
<1>0. mem.uphead \in 0..MaxHead /\ store.attempts \in Nat /\ store \in Store /\ mem \in Mem
  BY Types DEF Mem, Store
<1>1. store.attempts + 1 \in Nat
  BY <1>0
<1>2. CASE RecordUndraft
  <2>1. /\ mem' \in Mem /\ mem'.seen = mem.seen /\ mem'.inherits = mem.inherits
        /\ mem'.attempts = mem.attempts /\ mem'.uphead = mem.uphead
    BY <1>2, OwnFields DEF RecordUndraft
  <2>2. store' \in Store /\ store'.attempts = store.attempts
    BY <1>2, StoreFields DEF RecordUndraft
  <2>3. /\ pc = "undrafted" /\ pc' \in {"top", "done"} /\ out' \in Outcomes
    BY <1>2, Types DEF RecordUndraft, Outcomes
  <2>4. store.attempts = store.attempts + 0
    BY <1>0
  <2>5. UNCHANGED <<cfg, pr, entry, headAge, prAge, snap, vouched, hist>>
    BY <1>2 DEF RecordUndraft
  <2>6. Rest'
    BY <2>1, <2>2, <2>3, <2>4, <2>5, LocalRest DEF Looking, Passing, Rest, HeadJudged
  <2>7. TypeOK'
    BY <1>2, <2>1, <2>2, <2>3 DEF RecordUndraft, TypeOK, Mem, Store, Calls
  <2> QED
    BY <2>6, <2>7
<1>3. CASE StampHead
  <2>2. store' \in Store /\ store'.attempts = store.attempts
    BY <1>3, <1>0, StoreFields DEF StampHead
  <2>3. /\ pc = "stamp" /\ pc' \in {"top", "done"} /\ out' \in Outcomes
    BY <1>3, Types DEF StampHead, Outcomes
  <2>4. store.attempts = store.attempts + 0
    BY <1>0
  <2>5. UNCHANGED <<cfg, pr, entry, headAge, prAge, snap, mem, vouched, hist>>
    BY <1>3 DEF StampHead
  <2>6. Rest'
    BY <2>2, <2>3, <2>4, <2>5, LocalRest DEF Looking, Passing, Rest, HeadJudged
  <2>7. TypeOK'
    BY <1>3, <2>2, <2>3 DEF StampHead, TypeOK, Mem, Store, Calls
  <2> QED
    BY <2>6, <2>7
<1>4. CASE BumpCounter
  <2>2. store' \in Store /\ store'.attempts = store.attempts + (IF ~Parked THEN 1 ELSE 0)
    BY <1>4, <1>0, <1>1, StoreFields DEF BumpCounter, Parked
  <2>3. /\ pc = "bump" /\ pc' = "stamp" /\ out' = out
    BY <1>4 DEF BumpCounter
  <2>5. UNCHANGED <<cfg, pr, entry, headAge, prAge, snap, mem, vouched, hist>>
    BY <1>4 DEF BumpCounter
  <2>6. Rest'
    BY <2>2, <2>3, <2>5, LocalRest DEF Looking, Passing, Rest, HeadJudged
  <2>7. TypeOK'
    BY <1>4, <2>2, <2>3 DEF BumpCounter, TypeOK, Mem, Store, Calls
  <2> QED
    BY <2>6, <2>7
<1> QED
  BY <1>2, <1>3, <1>4

LEMMA MergeInv ==
  ASSUME IInv, Acknowledge \/ Merge \/ Enqueue
  PROVE  IInv'
<1> USE DEF IInv, clocks, Finish, Go
<1>0. store.attempts \in Nat /\ store.attempts = store.attempts + 0 /\ snap.head \in 0..MaxHead
      /\ out \in Outcomes
  BY Fields, Types
<1>1. CASE Acknowledge
  <2>1. pc = "ack" /\ pc' = "reread" /\ out' = out
    BY <1>1 DEF Acknowledge
  <2>2. UNCHANGED <<cfg, pr, entry, headAge, prAge, snap, mem, store, vouched, hist>>
    BY <1>1 DEF Acknowledge
  <2>3. Rest'
    BY <1>0, <2>1, <2>2, LocalRest DEF Looking, Passing, Rest, HeadJudged
  <2>4. TypeOK'
    BY <1>1, <2>1 DEF Acknowledge, TypeOK, Calls
  <2> QED
    BY <2>3, <2>4
<1>2. CASE Merge
  <2>1. pr' \in PR /\ pr'.head = pr.head
    BY <1>2, PRFields, Types DEF Merge, Statuses
  <2>2. pc = "merge" /\ pc' \in {"top", "done", "queue"} /\ out' \in Outcomes
    BY <1>2, <1>0 DEF Merge, Tick, RefusedByBase, Outcomes
  <2>3. UNCHANGED <<cfg, entry, headAge, prAge, snap, mem, store, vouched, hist>>
    BY <1>2 DEF Merge
  <2>4. Rest'
    BY <1>0, <2>1, <2>2, <2>3, LocalRest DEF Looking, Passing, Rest, HeadJudged
  <2>5. TypeOK'
    BY <1>2, <2>1, <2>2 DEF Merge, TypeOK, PR, Calls
  <2> QED
    BY <2>4, <2>5
<1>3. CASE Enqueue
  <2>1. pc = "enqueue" /\ pc' \in {"watch", "done"} /\ out' \in Outcomes
    BY <1>3, <1>0 DEF Enqueue, RefusedByBase, Outcomes
  <2>2. entry' = entry \/ (entry' = snap.head /\ snap.head = pr.head)
    BY <1>3 DEF Enqueue, MergeTakes
  <2>3. UNCHANGED <<cfg, pr, headAge, prAge, snap, mem, store, vouched, hist>>
    BY <1>3 DEF Enqueue
  <2>4. entry' # 0 => entry' = pr.head /\ entry' \in vouched'
    BY <2>1, <2>2, <2>3 DEF Rest, HeadJudged, Passing
  <2>5. Rest'
    BY <1>0, <2>1, <2>3, <2>4, LocalRest DEF Looking, Passing, Rest, HeadJudged
  <2>6. entry' \in 0..MaxHead
    BY <1>0, <2>2, Types
  <2>7. TypeOK'
    BY <1>3, <2>1, <2>6 DEF Enqueue, TypeOK, Calls
  <2> QED
    BY <2>5, <2>7
<1> QED
  BY <1>1, <1>2, <1>3

\* Reading the pull request moves the landing's sight to the current head.
LEMMA ReadPRInv ==
  ASSUME IInv, ReadPR
  PROVE  IInv'
<1> USE DEF IInv, remote, Finish, Go
<1>0. out \in Outcomes
  BY Types
<1>1. CASE UNCHANGED <<snap, mem, headAge>> /\ pc' \in {"done", "undraft"}
  <2>1. pc = "top" /\ out' \in Outcomes
    BY <1>0 DEF ReadPR, Outcomes
  <2>2. UNCHANGED <<cfg, pr, checks, obj, thr, inflight, entry, by, acts, age, prAge, headAge,
                    pollAge, snap, mem, store, vouched, hist>>
    BY <1>1 DEF ReadPR
  <2> QED
    BY <1>1, <2>1, <2>2, CallOnly DEF Calls, Looking, Passing
<1>2. CASE snap' = [head |-> pr.head, base |-> pr.base] /\ Sees(pr.head) /\ Go("reviews")
  <2>1. /\ pc = "top" /\ pc' = "reviews" /\ out' = out
        /\ UNCHANGED <<cfg, pr, checks, obj, thr, inflight, entry, by, acts, age, prAge, pollAge,
                       store, vouched, hist>>
    BY <1>2 DEF ReadPR
  <2>2. pr.head \in 0..MaxHead /\ pr.base \in Bases /\ pr.head \in Heads
    BY Fields, Types, Bounds DEF PR
  <2>3. snap' \in Snap /\ snap'.head = pr.head
    BY <1>2, <2>2 DEF Snap
  <2>4. CASE mem.seen = pr.head
    <3>1. UNCHANGED <<headAge, mem>>
      BY <1>2, <2>4 DEF Sees
    <3>2. HeadSeen' /\ HeadJudged' /\ ClockKept' /\ AskedKept' /\ TakenKept'
      BY <2>1, <2>2, <2>3, <2>4, <3>1 DEF Rest, HeadSeen, HeadJudged, ClockKept, AskedKept,
         TakenKept, Parked, Passing
    <3>3. TypeOK'
      BY <2>1, <2>3, <3>1 DEF TypeOK, Snap, Calls
    <3> QED
      BY <3>2, <3>3 DEF Rest
  <2>5. CASE mem.seen # pr.head
    <3> DEFINE inherits == mem.seen = 0 /\ cfg.entry = "ci" /\ hist.crashes = 0
    <3>1. /\ mem' = [mem EXCEPT !.seen = pr.head, !.inherits = inherits]
          /\ headAge' = (IF inherits THEN headAge ELSE 0)
      BY <1>2, <2>5 DEF Sees
    <3>2. inherits \in BOOLEAN
      OBVIOUS
    <3>3. /\ mem' \in Mem /\ mem'.seen = pr.head /\ mem'.inherits = inherits
          /\ mem'.attempts = mem.attempts /\ mem'.uphead = mem.uphead
      BY <2>2, <3>1, <3>2, SeenFields
    <3>4. headAge' \in 0..Settle /\ (~inherits => headAge' = 0)
      BY <3>1, Types, Bounds
    <3> HIDE DEF inherits
    <3>5. HeadSeen' /\ HeadJudged'
      BY <2>1, <2>2, <2>3, <3>3, Fields DEF Rest, HeadSeen, HeadJudged, Passing
    <3>6. ClockKept'
      BY <2>1, <3>3, <3>4, Fields DEF Rest, ClockKept
    <3>7. AskedKept'
      BY <2>1, <3>3 DEF Rest, AskedKept, Parked
    <3>8. TakenKept'
      <4>1. mem.seen \in Nat /\ pr.head \in Nat /\ mem.seen < pr.head
        BY <2>5, Fields DEF Rest, HeadSeen
      <4>2. \A h \in Heads : h \in Nat
        BY Bounds
      <4>3. \A h \in Heads : h <= mem.seen => h <= pr.head /\ h # pr.head
        BY <4>1, <4>2
      <4> QED
        BY <2>1, <3>3, <4>3 DEF Rest, TakenKept
    <3>9. TypeOK'
      BY <2>1, <2>3, <3>3, <3>4 DEF TypeOK, Snap, Mem, Calls
    <3> QED
      BY <3>5, <3>6, <3>7, <3>8, <3>9 DEF Rest
  <2> QED
    BY <2>4, <2>5
<1> QED
  BY <1>1, <1>2 DEF ReadPR

\* What mergeability decides, once the checks are good.
LEMMA ClearedMoves ==
  ASSUME IInv, Cleared
  PROVE  /\ pc' \in {"top", "done", "update", "threads"} /\ out' \in Outcomes
         /\ mem' \in Mem /\ mem'.seen = mem.seen /\ mem'.inherits = mem.inherits
         /\ mem'.attempts = mem.attempts /\ mem'.uphead = mem.uphead
         /\ pc' = "update" => mem.attempts < MaxUpdates /\ mem.uphead # snap.head
<1> USE DEF IInv
<1>0. out \in Outcomes /\ mem \in Mem /\ mem.attempts \in Nat /\ snap.head \in 0..MaxHead
  BY Types, Fields
<1>1. pc' \in {"top", "done", "update", "threads"} /\ out' \in Outcomes
  BY <1>0 DEF Cleared, Tick, Finish, Go, RefusedByBase, Outcomes
<1>2. mem' = mem \/ mem' = [mem EXCEPT !.blockedAt = snap.head]
  BY DEF Cleared
<1>3. /\ mem' \in Mem /\ mem'.seen = mem.seen /\ mem'.inherits = mem.inherits
      /\ mem'.attempts = mem.attempts /\ mem'.uphead = mem.uphead
  <2>1. CASE mem' = mem
    BY <1>0, <2>1
  <2>2. CASE mem' = [mem EXCEPT !.blockedAt = snap.head]
    BY <1>0, <2>2, BlockedFields
  <2> QED
    BY <1>2, <2>1, <2>2
<1>4. pc' = "update" => ~(mem.attempts >= MaxUpdates) /\ mem.uphead # snap.head
  BY DEF Cleared, Tick, Finish, Go, RefusedByBase, InFlight
<1> QED
  BY <1>0, <1>1, <1>3, <1>4, Bounds

LEMMA JudgedInv ==
  ASSUME IInv, NEW v \in Verdicts, Judged(v),
         pc \in {"checks", "poll"},
         v = "none" => headAge >= Settle,
         UNCHANGED <<cfg, remote, age, prAge, headAge, pollAge, snap, store>>
  PROVE  IInv'
<1> USE DEF IInv, remote
<1>0. out \in Outcomes /\ snap.head \in Heads /\ snap.head = mem.seen
  BY Types DEF Rest, HeadSeen, Looking
<1>1. CASE UNCHANGED <<mem, vouched, hist>> /\ pc' \in {"top", "done"} /\ out' \in Outcomes
  BY <1>1, CallOnly DEF Calls, Looking, Passing
<1>2. CASE /\ v \in {"green", "none"}
           /\ vouched' = vouched \cup {snap.head}
           /\ LET early == v = "none" /\ prAge < Settle
                  Noted(S, is) == IF is THEN S \cup {snap.head} ELSE S \ {snap.head}
              IN hist' = [hist EXCEPT !.rash = Noted(@, early /\ ~mem.inherits),
                                      !.trusting = Noted(@, early /\ mem.inherits)]
           /\ Cleared
  <2> DEFINE early == v = "none" /\ prAge < Settle
             Noted(S, is) == IF is THEN S \cup {snap.head} ELSE S \ {snap.head}
             rash == Noted(hist.rash, early /\ ~mem.inherits)
             trusting == Noted(hist.trusting, early /\ mem.inherits)
  <2>1. /\ pc' \in {"top", "done", "update", "threads"} /\ out' \in Outcomes
        /\ mem' \in Mem /\ mem'.seen = mem.seen /\ mem'.inherits = mem.inherits
        /\ mem'.attempts = mem.attempts /\ mem'.uphead = mem.uphead
        /\ pc' = "update" => mem.attempts < MaxUpdates /\ mem.uphead # snap.head
    BY <1>2, ClearedMoves
  <2>2. rash \in SUBSET Heads /\ trusting \in SUBSET Heads
    BY <1>0, Fields
  <2>3. \A r \in SUBSET Heads, t \in SUBSET Heads :
          LET q == [hist EXCEPT !.rash = r, !.trusting = t]
          IN /\ q \in Hist /\ q.asked = hist.asked /\ q.taken = hist.taken
             /\ q.rash = r /\ q.crashes = hist.crashes
    BY Types DEF Hist
  <2>4. hist' = [hist EXCEPT !.rash = rash, !.trusting = trusting]
    BY <1>2
  <2>5. /\ hist' \in Hist /\ hist'.asked = hist.asked /\ hist'.taken = hist.taken
        /\ hist'.rash = rash /\ hist'.crashes = hist.crashes
    <3> HIDE DEF rash, trusting
    <3> QED
      BY <2>2, <2>3, <2>4
  <2>6. vouched' \subseteq Heads /\ vouched \subseteq vouched' /\ snap.head \in vouched'
    BY <1>0, <1>2, Types
  <2>7. TypeOK'
    BY <2>1, <2>5, <2>6 DEF TypeOK, Mem, Hist, Calls
  <2>8. HeadSeen' /\ HeadJudged'
    BY <2>1, <2>6, <1>0 DEF Rest, HeadSeen, HeadJudged, Looking
  <2>9. \A h \in rash : h < pr.head
    <3>1. early /\ ~mem.inherits => snap.head < pr.head
      <4>1. early => prAge < headAge
        <5>1. headAge \in Nat /\ prAge \in Nat /\ Settle \in Nat
          BY Fields, Bounds
        <5> QED
          BY <5>1
      <4>2. mem.seen = pr.head /\ ~mem.inherits => headAge <= prAge
        BY DEF Rest, ClockKept
      <4>3. mem.seen <= pr.head
        BY DEF Rest, HeadSeen
      <4> QED
        BY <1>0, <4>1, <4>2, <4>3, Fields
    <3>2. \A h \in hist.rash : h < pr.head
      BY DEF Rest, ClockKept
    <3> QED
      BY <3>1, <3>2
  <2>10. ClockKept'
    BY <2>1, <2>5, <2>9 DEF Rest, ClockKept
  <2>11. AskedKept'
    BY <2>1, <2>5 DEF Rest, AskedKept, Parked
  <2>12. TakenKept'
    BY <2>1, <2>5 DEF Rest, TakenKept
  <2> QED
    BY <2>7, <2>8, <2>10, <2>11, <2>12 DEF Rest
<1> QED
  BY <1>0, <1>1, <1>2 DEF Judged, Tick, Go, Finish, Outcomes

LEMMA ChecksInv ==
  ASSUME IInv, ReadChecks \/ PollChecks
  PROVE  IInv'
<1> USE DEF IInv
<1>0. pc \in {"checks", "poll"} /\ out \in Outcomes
  BY Types DEF ReadChecks, PollChecks
<1>1. checks[snap.head] \in Verdicts
  <2>1. snap.head \in Heads
    BY <1>0 DEF Rest, HeadSeen, Looking
  <2> QED
    BY <2>1, Types
<1>2. CASE /\ Judged(checks[snap.head])
           /\ checks[snap.head] = "none" => headAge >= Settle
           /\ UNCHANGED <<cfg, remote, age, prAge, headAge, pollAge, snap, store>>
  BY <1>0, <1>1, <1>2, JudgedInv
<1>3. CASE /\ pc' \in {"poll", "done"} /\ out' \in Outcomes /\ pollAge' \in 0..CiTimeout
           /\ UNCHANGED <<cfg, remote, age, prAge, headAge, snap, store, mem, vouched, hist>>
  <2>1. TypeOK'
    BY <1>3 DEF TypeOK, remote, Calls
  <2>2. Rest'
    BY <1>0, <1>3 DEF remote, Rest, HeadSeen, HeadJudged, ClockKept, AskedKept, TakenKept, Parked,
       Looking, Passing
  <2> QED
    BY <2>1, <2>2
<1>4. CASE ReadChecks
  <2>1. headAge \in Nat /\ 0 \in 0..CiTimeout
    BY Fields, Bounds
  <2>2. ~(headAge < Settle) => headAge >= Settle
    BY <2>1, Bounds
  <2> QED
    BY <1>0, <1>2, <1>3, <1>4, <2>1, <2>2 DEF ReadChecks, Go
<1>5. CASE PollChecks
  <2>1. pollAge \in 0..CiTimeout
    BY Types
  <2>2. \/ Judged(checks[snap.head]) /\ (checks[snap.head] = "none" => headAge >= Settle)
        \/ /\ pc' \in {"poll", "done"} /\ out' \in Outcomes
           /\ UNCHANGED <<mem, vouched, hist>>
    BY <1>0, <1>5 DEF PollChecks, Go, Finish, Tick, Outcomes
  <2>3. UNCHANGED <<cfg, remote, age, prAge, headAge, pollAge, snap, store>>
    BY <1>5 DEF PollChecks, clocks
  <2> QED
    BY <1>2, <1>3, <2>1, <2>2, <2>3
<1> QED
  BY <1>4, <1>5

\* A request for an update is counted, and only made for a head not asked for by this process.
LEMMA UpdateInv ==
  ASSUME IInv, UpdateBranch
  PROVE  IInv'
<1> USE DEF IInv, clocks, Go
<1>0. /\ pc = "update" /\ pc' = "bump" /\ out' = out
      /\ UNCHANGED <<cfg, pr, checks, obj, thr, entry, by, acts, age, prAge, headAge, pollAge,
                     snap, store, vouched>>
  BY DEF UpdateBranch
<1>1. /\ snap.head \in Heads /\ snap.head = mem.seen /\ mem.uphead # snap.head
      /\ mem.attempts < MaxUpdates
  BY <1>0 DEF Rest, HeadSeen, Looking, AskedKept, TakenKept
<1>2. /\ mem.attempts + 1 \in Nat /\ hist.asked + 1 \in Nat /\ hist.crashes \in Nat
      /\ snap.head \in 0..MaxHead /\ 0 \in 0..MaxHead /\ \A h \in Heads : h # 0
  <2>1. /\ mem.attempts \in Nat /\ hist.asked \in Nat /\ hist.crashes \in Nat
        /\ snap.head \in 0..MaxHead
    BY Fields
  <2> QED
    BY <2>1, Bounds
<1>3. hist.taken[snap.head] \in Nat /\ hist.taken[snap.head] <= hist.crashes
  BY <1>1, <1>2, Fields DEF Rest, TakenKept
<1>4. AskedKept' /\ TypeOK' /\ TakenKept' => IInv'
  <2>1. mem'.seen = mem.seen /\ mem'.inherits = mem.inherits /\ hist'.rash = hist.rash
    <3>1. CASE mem' = [mem EXCEPT !.attempts = mem.attempts + 1, !.uphead = snap.head]
               /\ hist' = [hist EXCEPT !.asked = @ + 1, !.taken[snap.head] = @ + 1]
      BY <1>2, <3>1, AskFields, Types DEF Hist
    <3>2. CASE mem' = [mem EXCEPT !.attempts = mem.attempts + 1, !.uphead = 0]
               /\ hist' = [hist EXCEPT !.asked = @ + 1]
      BY <1>2, <3>2, AskFields, Types DEF Hist
    <3> QED
      BY <3>1, <3>2 DEF UpdateBranch
  <2>2. HeadSeen' /\ HeadJudged' /\ ClockKept'
    BY <1>0, <2>1 DEF Rest, HeadSeen, HeadJudged, ClockKept, Looking, Passing
  <2> QED
    BY <2>2 DEF Rest
<1>5. ASSUME mem' \in Mem, mem'.attempts = mem.attempts + 1, hist'.asked = hist.asked + 1,
             hist'.crashes = hist.crashes
      PROVE  AskedKept'
  <2>1. mem.attempts \in Nat /\ hist.asked \in Nat /\ store.attempts \in Nat /\ MaxUpdates \in Nat
    BY Fields, Bounds
  <2>2. mem'.attempts <= MaxUpdates
    BY <1>1, <1>5, <2>1
  <2>3. /\ ~Parked => mem.attempts = store.attempts
        /\ Parked => store.attempts = 0
        /\ hist.asked <= mem.attempts + (IF Parked THEN MaxUpdates * hist.crashes ELSE hist.crashes)
    BY <1>0, <2>1 DEF Rest, AskedKept
  <2>4. MaxUpdates * hist.crashes \in Nat
    BY <1>2, <2>1
  <2>5. hist.asked + 1
        <= mem.attempts + 1 + (IF Parked THEN MaxUpdates * hist.crashes ELSE hist.crashes)
    BY <1>2, <2>1, <2>3, <2>4
  <2> QED
    BY <1>0, <1>5, <2>2, <2>3, <2>5 DEF AskedKept, Parked
<1>6. CASE /\ inflight' = snap.head
           /\ mem' = [mem EXCEPT !.attempts = @ + 1, !.uphead = snap.head]
           /\ hist' = [hist EXCEPT !.asked = @ + 1, !.taken[snap.head] = @ + 1]
  <2>1. /\ mem' \in Mem /\ mem'.seen = mem.seen /\ mem'.attempts = mem.attempts + 1
        /\ mem'.uphead = snap.head
    BY <1>2, <1>6, AskFields
  <2>2. \A a, n \in Nat : LET q == [hist EXCEPT !.asked = a, !.taken[snap.head] = n]
                          IN /\ q \in Hist /\ q.asked = a /\ q.crashes = hist.crashes
                             /\ q.taken = [hist.taken EXCEPT ![snap.head] = n]
    BY <1>1, Types DEF Hist
  <2>3. hist.taken[snap.head] + 1 \in Nat
    BY <1>3
  <2>4. /\ hist' \in Hist /\ hist'.asked = hist.asked + 1 /\ hist'.crashes = hist.crashes
        /\ hist'.taken = [hist.taken EXCEPT ![snap.head] = hist.taken[snap.head] + 1]
    BY <1>2, <1>6, <2>2, <2>3
  <2>5. TypeOK'
    BY <1>0, <1>2, <1>6, <2>1, <2>4 DEF TypeOK, Mem, Hist, Calls
  <2>6. /\ hist'.taken[snap.head] = hist.taken[snap.head] + 1
        /\ \A h \in Heads \ {snap.head} : hist'.taken[h] = hist.taken[h]
    BY <1>1, <2>4, Fields
  <2>7. TakenKept'
    <3> SUFFICES ASSUME NEW h \in Heads
                 PROVE  \/ hist'.taken[h] <= hist'.crashes
                        \/ /\ hist'.taken[h] = hist'.crashes + 1
                           /\ h <= mem'.seen
                           /\ h = mem'.seen => mem'.uphead = h
      BY <1>0 DEF TakenKept
    <3>1. CASE h = snap.head
      <4>1. hist'.taken[h] <= hist'.crashes \/ hist'.taken[h] = hist'.crashes + 1
        BY <3>1, <1>2, <1>3, <2>4, <2>6
      <4>2. h <= mem'.seen /\ mem'.uphead = h
        BY <3>1, <1>1, <2>1, Fields
      <4> QED
        BY <4>1, <4>2
    <3>2. CASE h # snap.head
      BY <3>2, <1>1, <2>1, <2>4, <2>6 DEF Rest, TakenKept
    <3> QED
      BY <3>1, <3>2
  <2> QED
    BY <1>4, <1>5, <2>1, <2>4, <2>5, <2>7
<1>7. CASE /\ mem' = [mem EXCEPT !.attempts = @ + 1, !.uphead = 0]
           /\ hist' = [hist EXCEPT !.asked = @ + 1]
           /\ UNCHANGED inflight
  <2>1. /\ mem' \in Mem /\ mem'.seen = mem.seen /\ mem'.attempts = mem.attempts + 1
        /\ mem'.uphead = 0
    BY <1>2, <1>7, AskFields
  <2>2. \A a \in Nat : LET q == [hist EXCEPT !.asked = a]
                       IN /\ q \in Hist /\ q.asked = a /\ q.crashes = hist.crashes
                          /\ q.taken = hist.taken
    BY Types DEF Hist
  <2>4. /\ hist' \in Hist /\ hist'.asked = hist.asked + 1 /\ hist'.crashes = hist.crashes
        /\ hist'.taken = hist.taken
    BY <1>2, <1>7, <2>2
  <2>5. TypeOK'
    BY <1>0, <1>7, <2>1, <2>4 DEF TypeOK, Mem, Hist, Calls
  <2>6. TakenKept'
    BY <1>0, <1>1, <2>1, <2>4 DEF Rest, TakenKept
  <2> QED
    BY <1>4, <1>5, <2>1, <2>4, <2>5, <2>6
<1> QED
  BY <1>6, <1>7 DEF UpdateBranch

\* A death forgets the locals; the record may miss the request under way, and no other.
LEMMA CrashInv ==
  ASSUME IInv, Crash
  PROVE  IInv'
<1> USE DEF IInv, remote
<1>0. /\ pc' = "dead" /\ headAge' = 0 /\ snap' = NoSnap /\ mem' = Locals(store)
      /\ UNCHANGED <<cfg, pr, checks, obj, thr, inflight, entry, by, acts, prAge, store, out,
                     vouched>>
      /\ age' = 0 /\ pollAge' = 0
  BY DEF Crash
<1>1. /\ hist.crashes \in Nat /\ hist.crashes + 1 \in 0..MaxCrashes /\ hist.crashes + 1 \in Nat
      /\ 0 \in 0..MaxHead /\ 0 \in 0..CiTimeout /\ 0 \in 0..Settle
      /\ store.attempts \in Nat /\ store.uphead \in 0..MaxHead
      /\ mem.attempts \in Nat /\ hist.asked \in Nat /\ MaxUpdates \in Nat
  <2>1. /\ hist.crashes \in Nat /\ hist.crashes < MaxCrashes
        /\ store.attempts \in Nat /\ store.uphead \in 0..MaxHead
        /\ mem.attempts \in Nat /\ hist.asked \in Nat
    BY Fields DEF Crash
  <2> QED
    BY <2>1, Bounds
<1>2. /\ mem' \in Mem /\ mem'.seen = 0 /\ mem'.attempts = store.attempts
  <2>1. (cfg.entry # "parked" /\ cfg.draft /\ ~store.undrafted) \in BOOLEAN
    OBVIOUS
  <2> QED
    BY <1>0, <1>1, <2>1 DEF Locals, Mem
<1>3. \A c \in 0..MaxCrashes : LET q == [hist EXCEPT !.crashes = c]
                               IN /\ q \in Hist /\ q.asked = hist.asked /\ q.taken = hist.taken
                                  /\ q.rash = hist.rash /\ q.crashes = c
  BY Types DEF Hist
<1>4. /\ hist' \in Hist /\ hist'.asked = hist.asked /\ hist'.taken = hist.taken
      /\ hist'.rash = hist.rash /\ hist'.crashes = hist.crashes + 1
  BY <1>1, <1>3 DEF Crash
<1>5. TypeOK'
  <2>1. snap' \in Snap
    BY <1>0, <1>1 DEF NoSnap, Snap, Bases
  <2> QED
    BY <1>0, <1>1, <1>2, <1>4, <2>1 DEF TypeOK, Snap, Mem, Hist, Calls
<1>6. HeadSeen' /\ HeadJudged' /\ ClockKept'
  <2>1. pr.head \in Nat /\ pr.head # 0
    BY Fields, Bounds
  <2> QED
    BY <1>0, <1>2, <1>4, <2>1 DEF Rest, HeadSeen, HeadJudged, ClockKept, Looking, Passing
<1>7. AskedKept'
  <2>1. /\ mem.attempts <= MaxUpdates
        /\ ~Parked => store.attempts <= mem.attempts /\ mem.attempts <= store.attempts + 1
        /\ Parked => store.attempts = 0
        /\ hist.asked <= mem.attempts + (IF Parked THEN MaxUpdates * hist.crashes ELSE hist.crashes)
    BY <1>1 DEF Rest, AskedKept
  <2>2. MaxUpdates * hist.crashes \in Nat
        /\ MaxUpdates * (hist.crashes + 1) = MaxUpdates * hist.crashes + MaxUpdates
    BY <1>1
  <2>3. store.attempts <= MaxUpdates
    BY <1>1, <2>1
  <2>4. CASE Parked
    <3>1. hist.asked <= 0 + MaxUpdates * (hist.crashes + 1)
      BY <1>1, <2>1, <2>2, <2>4
    <3> QED
      BY <1>0, <1>2, <1>4, <2>1, <2>3, <2>4, <3>1 DEF AskedKept, Parked
  <2>5. CASE ~Parked
    <3>1. hist.asked <= store.attempts + (hist.crashes + 1)
      BY <1>1, <2>1, <2>5
    <3>2. store.attempts = store.attempts + 0
      BY <1>1
    <3> QED
      BY <1>0, <1>2, <1>4, <2>3, <2>5, <3>1, <3>2 DEF AskedKept, Parked
  <2> QED
    BY <2>4, <2>5
<1>8. TakenKept'
  <2>1. \A h \in Heads : hist.taken[h] <= hist.crashes + 1
    <3> TAKE h \in Heads
    <3>1. hist.taken[h] \in Nat
      BY Fields
    <3> QED
      BY <1>1, <3>1 DEF Rest, TakenKept
  <2> QED
    BY <1>0, <1>4, <2>1 DEF TakenKept
<1> QED
  BY <1>5, <1>6, <1>7, <1>8 DEF Rest

LEMMA InitInv == Init => IInv
<1> SUFFICES ASSUME Init PROVE IInv
  OBVIOUS
<1> USE DEF Init
<1>0. /\ 1 \in Heads /\ 0 \in 0..MaxHead /\ 0 \in 0..CiTimeout /\ 0 \in 0..Settle
      /\ Settle \in 0..Settle /\ 0 \in 0..MaxActs /\ 0 \in 0..MaxCrashes /\ MaxUpdates \in Nat
      /\ MaxHead \in Nat
  BY Bounds
<1>1. cfg \in Config
  BY ConfigsAssumption
<1>2. pr \in PR /\ pr.head = 1
  BY <1>0 DEF PR, Statuses, Bases
<1>3. checks \in [Heads -> Verdicts]
  BY DEF Verdicts
<1>4. /\ mem \in Mem /\ mem.seen = 0 /\ mem.attempts = 0
  <2>1. (cfg.entry # "parked" /\ cfg.draft /\ ~EmptyStore.undrafted) \in BOOLEAN
    OBVIOUS
  <2>2. EmptyStore.attempts = 0 /\ EmptyStore.uphead = 0
    BY DEF EmptyStore
  <2> QED
    BY <1>0, <2>1, <2>2 DEF Locals, Mem
<1>5. store \in Store /\ store.attempts = 0
  BY <1>0 DEF EmptyStore, Store
<1>6. hist \in Hist /\ hist.asked = 0 /\ hist.rash = {} /\ hist.crashes = 0
      /\ \A h \in Heads : hist.taken[h] = 0
  BY <1>0 DEF Hist
<1>7. headAge \in 0..Settle /\ prAge \in 0..Settle /\ snap \in Snap
  BY <1>0 DEF NoSnap, Snap, Bases
<1>8. TypeOK
  BY <1>0, <1>1, <1>2, <1>3, <1>4, <1>5, <1>6, <1>7
     DEF TypeOK, PR, Mem, Store, Hist, Snap, Calls, Outcomes
<1>9. HeadSeen /\ HeadJudged /\ ClockKept /\ TakenKept
  BY <1>2, <1>4, <1>6 DEF HeadSeen, HeadJudged, ClockKept, TakenKept, Looking, Passing
<1>10. AskedKept
  BY <1>0, <1>4, <1>5, <1>6 DEF AskedKept
<1> QED
  BY <1>8, <1>9, <1>10 DEF IInv, Rest

LEMMA StepInv == IInv /\ [Next]_vars => IInv'
<1> SUFFICES ASSUME IInv, [Next]_vars PROVE IInv'
  OBVIOUS
<1>1. CASE UNCHANGED vars
  BY <1>1 DEF vars, remote, clocks, local, IInv, TypeOK, Rest, HeadSeen, HeadJudged, ClockKept,
     AskedKept, TakenKept, Parked
<1>2. CASE Step
  BY <1>2, CallsInv, ReadPRInv, UndraftInv, RecordInv, ChecksInv, UpdateInv, MergeInv DEF Step
<1>3. CASE Forge
  BY <1>3, PeopleInv, PushInv DEF Forge
<1> QED
  BY <1>1, <1>2, <1>3, CrashInv, CallsInv, PassInv DEF Next

-----------------------------------------------------------------------------
(* The theorems.                                                           *)

\* The variables of a landing and of the forge keep their types.
THEOREM TypeCorrect == Spec => []TypeOK
<1>1. IInv => TypeOK
  BY DEF IInv
<1> QED
  BY <1>1, InitInv, StepInv, PTL DEF Spec

\* land() merges a head without checks only when that head had stood for the settle window,
\* whatever is pushed while it waits: its clock for a head never runs ahead of the head's age.
THEOREM NoRashMerge == Spec => []SettledMerge
<1>1. IInv => SettledMerge
  <2> SUFFICES ASSUME IInv PROVE pr.head \notin hist.rash
    BY DEF SettledMerge
  <2>1. pr.head \in Nat /\ ~(pr.head < pr.head)
    BY Fields DEF IInv
  <2> QED
    BY <2>1 DEF IInv, Rest, ClockKept
<1> QED
  BY <1>1, InitInv, StepInv, PTL DEF Spec

\* land() asks for at most merge_update_attempts updates of the branch, one more for each death
\* between a request and on_update, and each process asks once for a head.
THEOREM UpdatesBounded == Spec => []UpdateBudget
<1>1. IInv => UpdateBudget
  <2> SUFFICES ASSUME IInv PROVE UpdateBudget
    OBVIOUS
  <2>1. /\ mem.attempts \in Nat /\ hist.crashes \in Nat /\ hist.asked \in Nat /\ MaxUpdates \in Nat
        /\ hist.taken \in [Heads -> Nat]
    BY Fields, Bounds DEF IInv
  <2>2. /\ mem.attempts <= MaxUpdates
        /\ hist.asked <= mem.attempts + (IF Parked THEN MaxUpdates * hist.crashes ELSE hist.crashes)
    BY DEF IInv, Rest, AskedKept
  <2>3. MaxUpdates * hist.crashes \in Nat
        /\ MaxUpdates * (hist.crashes + 1) = MaxUpdates * hist.crashes + MaxUpdates
    BY <2>1
  <2>4. hist.asked <= IF Parked THEN MaxUpdates * (hist.crashes + 1) ELSE MaxUpdates + hist.crashes
    <3>1. CASE Parked
      BY <2>1, <2>2, <2>3, <3>1
    <3>2. CASE ~Parked
      BY <2>1, <2>2, <3>2
    <3> QED
      BY <3>1, <3>2
  <2>5. \A h \in Heads : hist.taken[h] <= 1 + hist.crashes
    <3> TAKE h \in Heads
    <3>1. hist.taken[h] \in Nat
      BY <2>1
    <3> QED
      BY <2>1, <3>1 DEF IInv, Rest, TakenKept
  <2> QED
    BY <2>4, <2>5 DEF UpdateBudget, Parked
<1> QED
  BY <1>1, InitInv, StepInv, PTL DEF Spec

-----------------------------------------------------------------------------
(* The promise: the program merges only a judged head, while it is the     *)
(* head.                                                                   *)

Shown == <<pr.head, pr.st, by, vouched>>

LEMMA InitPromise == Init => Promise!Init
<1> SUFFICES ASSUME Init PROVE pr.head = 1 /\ pr.st = "open" /\ by = "nobody" /\ vouched = {}
  BY DEF Promise!Init
<1> QED
  BY DEF Init

LEMMA QuietPromise ==
  ASSUME pr'.head = pr.head, pr'.st = pr.st, by' = by, vouched' = vouched
  PROVE  UNCHANGED Shown
  BY DEF Shown

LEMMA LoopMergePromise ==
  ASSUME IInv, pr.st = "open", pr.head \in vouched, pr' = [pr EXCEPT !.st = "merged"],
         by' = "loop", vouched' = vouched
  PROVE  Promise!Next
<1>1. pr'.head = pr.head /\ pr'.st = "merged"
  BY PRFields DEF IInv, Statuses
<1> QED
  BY <1>1 DEF Promise!Next, Promise!LoopMerge

\* A judgement is of a head the branch has had.
LEMMA JudgePromise ==
  ASSUME IInv, NEW v, Judged(v), pc \in {"checks", "poll"}, UNCHANGED <<pr, by>>
  PROVE  Promise!Next \/ UNCHANGED Shown
<1>1. CASE vouched' = vouched
  BY <1>1 DEF Shown
<1>2. CASE vouched' = vouched \cup {snap.head}
  <2>1. /\ snap.head \in Heads /\ snap.head <= pr.head
    BY DEF IInv, Rest, HeadSeen, Looking
  <2>2. snap.head \in Nat /\ pr.head \in Nat
    BY Fields DEF IInv
  <2>3. snap.head \in 1..pr.head
    BY <2>1, <2>2, Bounds
  <2>4. Promise!Judge(snap.head)
    BY <1>2 DEF Promise!Judge
  <2> QED
    BY <2>3, <2>4 DEF Promise!Next
<1> QED
  BY <1>1, <1>2 DEF Judged

LEMMA StepPromise == IInv /\ [Next]_vars => [Promise!Next]_Shown
<1> SUFFICES ASSUME IInv, [Next]_vars PROVE Promise!Next \/ UNCHANGED Shown
  OBVIOUS
<1> USE DEF remote, clocks, local
<1>1. CASE UNCHANGED vars
  BY <1>1 DEF vars, Shown
<1>2. CASE TimedOut \/ ReadPR \/ RecordUndraft \/ ReadReviews \/ UpdateBranch \/ BumpCounter
           \/ StampHead \/ ReadThreads \/ Acknowledge \/ RereadThreads \/ ReadQueue \/ Enqueue
           \/ WatchQueue \/ Crash \/ Resume \/ Pass \/ UpdateFails \/ ChecksReport \/ PersonReviews
  <2>1. UNCHANGED <<pr, by, vouched>>
    BY <1>2 DEF TimedOut, ReadPR, RecordUndraft, ReadReviews, UpdateBranch, BumpCounter, StampHead,
       ReadThreads, Acknowledge, RereadThreads, ReadQueue, Enqueue, WatchQueue, Crash, Resume,
       Pass, UpdateFails, ChecksReport, PersonReviews
  <2> QED
    BY <2>1 DEF Shown
<1>3. CASE Undraft
  <2>1. pr'.head = pr.head /\ pr'.st = pr.st
    BY <1>3, PRFields DEF Undraft, Drafts, IInv
  <2> QED
    BY <1>3, <2>1, QuietPromise DEF Undraft
<1>4. CASE BaseMoves \/ PersonDrafts
  <2>1. pr'.head = pr.head /\ pr'.st = pr.st
    BY <1>4, PRFields DEF BaseMoves, PersonDrafts, Drafts, IInv
  <2> QED
    BY <1>4, <2>1, QuietPromise DEF BaseMoves, PersonDrafts
<1>5. CASE ReadChecks
  <2>1. CASE UNCHANGED vouched
    BY <1>5, <2>1 DEF ReadChecks, Shown
  <2>2. CASE Judged(checks[snap.head])
    BY <1>5, <2>2, JudgePromise DEF ReadChecks
  <2> QED
    BY <1>5, <2>1, <2>2 DEF ReadChecks
<1>6. CASE PollChecks
  <2>1. CASE UNCHANGED vouched
    BY <1>6, <2>1 DEF PollChecks, Shown
  <2>2. CASE Judged(checks[snap.head])
    BY <1>6, <2>2, JudgePromise DEF PollChecks
  <2> QED
    BY <1>6, <2>1, <2>2 DEF PollChecks
<1>7. CASE Merge
  <2>1. CASE UNCHANGED <<pr, by>>
    BY <1>7, <2>1 DEF Merge, Shown
  <2>2. CASE MergeTakes /\ pr' = [pr EXCEPT !.st = "merged"] /\ by' = "loop"
    <3>1. pr.head \in vouched /\ vouched' = vouched /\ pr.st = "open"
      BY <1>7, <2>2 DEF Merge, MergeTakes, IInv, Rest, HeadJudged, Passing
    <3> QED
      BY <2>2, <3>1, LoopMergePromise
  <2> QED
    BY <1>7, <2>1, <2>2 DEF Merge
<1>8. CASE QueueActs
  <2>1. CASE UNCHANGED <<pr, by>>
    BY <1>8, <2>1 DEF QueueActs, Shown
  <2>2. CASE pr' = [pr EXCEPT !.st = "merged"] /\ by' = "loop"
    <3>1. pr.head \in vouched /\ vouched' = vouched /\ pr.st = "open"
      BY <1>8 DEF QueueActs, IInv, Rest, HeadJudged
    <3> QED
      BY <2>2, <3>1, LoopMergePromise
  <2> QED
    BY <1>8, <2>1, <2>2 DEF QueueActs
<1>9. CASE PersonPushes \/ UpdateLands
  <2>1. PICK b \in Bases : NewHead(b)
    BY <1>9 DEF PersonPushes, UpdateLands, Bases
  <2>2. pr.head \in Nat /\ pr.head < MaxHead
    BY <2>1, Fields DEF NewHead, IInv
  <2>3. pr.head + 1 \in Heads
    BY <2>2, Bounds
  <2>4. pr'.head = pr.head + 1 /\ pr'.st = pr.st
    BY <2>1, <2>3, PRFields DEF NewHead, IInv
  <2>5. Promise!Push
    BY <2>1, <2>4 DEF NewHead, Promise!Push
  <2> QED
    BY <2>5 DEF Promise!Next
<1>10. CASE PersonEnds
  <2>1. pr.st = "open" /\ vouched' = vouched /\ pr'.head = pr.head
    BY <1>10, PRFields DEF PersonEnds, Surprise, Statuses, IInv
  <2>2. \/ pr'.st = "closed" /\ by' = by
        \/ pr'.st = "merged" /\ by' = "person"
    BY <1>10, PRFields DEF PersonEnds, Statuses, IInv
  <2> QED
    BY <2>1, <2>2 DEF Promise!Next, Promise!Close, Promise!PersonMerge
<1> QED
  BY <1>1, <1>2, <1>3, <1>4, <1>5, <1>6, <1>7, <1>8, <1>9, <1>10 DEF Next, Step, Forge

\* land() keeps the promise of JudgedMerge: whatever happens to the pull request between its
\* calls, it merges, itself or through the queue, only a head it judged, while it is the head.
THEOREM ImplementsJudgedMerge == Spec => KeepsPromise
  BY InitInv, StepInv, InitPromise, StepPromise, PTL
  DEF Spec, KeepsPromise, Promise!Spec, Promise!vars, Shown

=============================================================================
