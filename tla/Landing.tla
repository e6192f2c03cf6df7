------------------------------- MODULE Landing -------------------------------
(***************************************************************************)
(* land(): the engine (or the daemon, for a parked run) drives one pull    *)
(* request to a landing decision against a forge and people that move      *)
(* under it.  Every call to the forge is a step of its own; what the code  *)
(* does between two calls happens with the earlier one.                    *)
(***************************************************************************)
EXTENDS Naturals, FiniteSets

CONSTANTS MaxHead,          \* heads the branch goes through are 1..MaxHead
          MaxUpdates,       \* [landing] merge_update_attempts
          CiTimeout,        \* [landing] ci_timeout_s, in ticks
          Settle,           \* [landing] ci_settle_s, in ticks
          MaxCrashes,       \* bound on process deaths
          MaxActs,          \* bound on what people and the base do meanwhile
          Configs           \* the configurations a landing may start under

Heads == 1..MaxHead
Entries == {"ci", "resume", "parked"}
Config == [entry : Entries,          \* from the CI stage, resumed, by the daemon
           draft : BOOLEAN,          \* deliver_draft
           gate : BOOLEAN,           \* merge_gate is chat
           queue : {"no", "rule", "unread"},
           wants : {"nothing", "review", "more"},   \* unmet rules of the base
           posted : BOOLEAN,         \* the review record is on the forge
           method : BOOLEAN,         \* a merge method can be resolved
           botspent : BOOLEAN]       \* the automated reviewer had its round

ASSUME BoundsAssumption == /\ MaxHead \in Nat \ {0}
                           /\ MaxUpdates \in Nat
                           /\ CiTimeout \in Nat \ {0}
                           /\ Settle \in Nat
                           /\ MaxCrashes \in Nat
                           /\ MaxActs \in Nat
ASSUME ConfigsAssumption == Configs \subseteq Config

VARIABLES
  cfg,        \* the configuration of this landing
  pr,         \* the pull request: st, draft, head, base (mergeability)
  checks,     \* the checks of each head
  obj,        \* standing objections: none, human, answered, bot
  thr,        \* unreconciled review threads: none, human, loop
  inflight,   \* the head an accepted branch update is still to be applied at
  entry,      \* the head in the merge queue, 0 for none
  by,         \* who merged
  age,        \* time since land() was entered
  prAge,      \* time since the head became the head
  headAge,    \* time since the landing's settle clock for its head started
  pollAge,    \* time since poll_checks was entered
  pc,         \* the next call of the landing
  snap,       \* what pr_get returned: head and base
  mem,        \* the locals of land()
  store,      \* what the run's record holds
  out,        \* the outcome
  vouched,    \* heads the landing found fit to merge
  acts,       \* what people and the base did so far
  hist        \* what happened: updates, overruling, rash, crashes

remote == <<pr, checks, obj, thr, inflight, entry, by, acts>>
clocks == <<age, prAge, headAge, pollAge>>
local == <<pc, snap, mem, out>>
vars == <<cfg, remote, clocks, local, store, vouched, hist>>

Statuses == {"open", "merged", "closed"}
Drafts == {"no", "loop", "person"}
Bases == {"clean", "unknown", "behind", "conflict", "blocked"}
Verdicts == {"none", "pending", "green", "red", "approval"}
Outcomes == {"undecided", "landed", "closed", "awaiting", "blocked",
             "needs_fix", "gated", "cancelled"}
Calls == {"top", "undraft", "undrafted", "reviews", "checks", "poll", "update",
          "bump", "stamp", "threads", "ack", "reread", "merge", "queue",
          "enqueue", "watch", "done", "dead"}

Smaller(a, b) == IF a < b THEN a ELSE b

----------------------------------------------------------------------------
(* Entering a landing.                                                     *)

\* _stage_land and _land_parked: the locals, from the run's record.
Locals(s) ==
  [own |-> cfg.entry # "parked" /\ cfg.draft /\ ~s.undrafted,
   seen |-> 0,
   inherits |-> FALSE,
   blockedAt |-> 0,
   attempts |-> s.attempts,
   uphead |-> s.uphead]

NoSnap == [head |-> 0, base |-> "unknown"]
EmptyStore == [attempts |-> 0, uphead |-> 0, undrafted |-> FALSE]

\* A landing entered from the CI stage inherits the delivery's clock, which
\* has run for as long as CI took; a parked one starts with the draft cleared.
Init ==
  /\ cfg \in Configs
  /\ pr \in [st : {"open"}, draft : Drafts, head : {1}, base : {"clean"}]
  /\ pr.draft = (IF cfg.draft /\ cfg.entry # "parked" THEN "loop" ELSE "no")
  /\ checks \in [Heads -> {"none", "green"}]
  /\ \A h \in Heads \ {1} : checks[h] = "none"
  /\ obj = "none" /\ thr = "none"
  /\ inflight = 0 /\ entry = 0 /\ by = "nobody" /\ acts = 0
  /\ age = 0 /\ pollAge = 0
  /\ prAge \in {0, Settle}
  /\ (cfg.entry = "ci" /\ checks[1] = "none") => prAge = Settle
  /\ headAge = (IF cfg.entry = "ci" THEN prAge ELSE 0)
  /\ pc = "top" /\ out = "undecided"
  /\ snap = NoSnap
  /\ store = EmptyStore
  /\ mem = Locals(EmptyStore)
  /\ vouched = {}
  /\ hist = [asked |-> 0, taken |-> [h \in Heads |-> 0],
             overruled |-> FALSE, rash |-> {}, trusting |-> {}, crashes |-> 0]

----------------------------------------------------------------------------
(* The landing.                                                            *)

Finish(o) == pc' = "done" /\ out' = o
Go(c) == pc' = c /\ out' = out

\* tick(): the wait between two polls, where a cancel is honoured.
Tick(c) == Go(c) \/ Finish("cancelled")

\* Slip: the wait is not bounded.
Expired_Never == FALSE

Expired == age >= CiTimeout

\* The top of the loop: the clock, then pr_get.
TimedOut == /\ pc = "top"
            /\ Expired
            /\ Finish("blocked")
            /\ UNCHANGED <<cfg, remote, clocks, snap, mem, store, vouched, hist>>

\* Slip: one settle clock for all heads.
Sees_OneClock(h) == mem' = [mem EXCEPT !.seen = h] /\ UNCHANGED headAge

\* A head seen for the first time starts its settle clock; the head seen on
\* entry from the CI stage goes on with the delivery's.
Sees(h) ==
  LET inherits == mem.seen = 0 /\ cfg.entry = "ci" /\ hist.crashes = 0
  IN IF mem.seen = h
     THEN UNCHANGED <<headAge, mem>>
     ELSE /\ mem' = [mem EXCEPT !.seen = h, !.inherits = inherits]
          /\ headAge' = (IF inherits THEN headAge ELSE 0)

ReadPR ==
  /\ pc = "top"
  /\ ~Expired
  /\ \/ pr.st = "merged" /\ Finish("landed") /\ UNCHANGED <<snap, mem, headAge>>
     \/ pr.st = "closed" /\ Finish("closed") /\ UNCHANGED <<snap, mem, headAge>>
     \/ /\ pr.st = "open" /\ pr.draft # "no" /\ ~mem.own
        /\ Finish("awaiting")
        /\ UNCHANGED <<snap, mem, headAge>>
     \/ /\ pr.st = "open" /\ pr.draft # "no" /\ mem.own
        /\ Go("undraft")
        /\ UNCHANGED <<snap, mem, headAge>>
     \/ /\ pr.st = "open" /\ pr.draft = "no"
        /\ snap' = [head |-> pr.head, base |-> pr.base]
        /\ Sees(pr.head)
        /\ Go("reviews")
  /\ UNCHANGED <<cfg, remote, age, prAge, pollAge, store, vouched, hist>>

Undraft ==
  /\ pc = "undraft"
  /\ \/ Finish("blocked") /\ UNCHANGED <<pr, hist>>
     \/ /\ pr.st = "open"
        /\ pr' = [pr EXCEPT !.draft = "no"]
        /\ hist' = [hist EXCEPT !.overruled = @ \/ pr.draft = "person"]
        /\ Go("undrafted")
  /\ UNCHANGED <<cfg, checks, obj, thr, inflight, entry, by, acts, clocks, snap, mem, store, vouched>>

\* The land.undraft event is the record a later landing reads.
RecordUndraft ==
  /\ pc = "undrafted"
  /\ store' = [store EXCEPT !.undrafted = TRUE]
  /\ mem' = [mem EXCEPT !.own = FALSE]
  /\ Tick("top")
  /\ UNCHANGED <<cfg, remote, clocks, snap, vouched, hist>>

\* human_objections: a person's first, then an automated reviewer's one round.
ReadReviews ==
  /\ pc = "reviews"
  /\ \/ obj = "human" /\ Finish("needs_fix")
     \/ obj = "answered" /\ Finish("blocked")
     \/ obj = "bot" /\ ~cfg.botspent /\ Finish("needs_fix")
     \/ (obj = "none" \/ (obj = "bot" /\ cfg.botspent)) /\ Go("checks")
  /\ UNCHANGED <<cfg, remote, clocks, snap, mem, store, vouched, hist>>

\* refused_by_base: a review the program cannot give is a wait, the rest a block.
RefusedByBase == Finish(IF cfg.wants = "review" THEN "awaiting" ELSE "blocked")

QueueOnly == cfg.queue = "rule" /\ cfg.wants = "nothing"

\* Slip: a head still being updated is asked for again.
InFlight_Never == FALSE

\* An update was requested at this head and the branch has not moved yet.
InFlight == mem.uphead = snap.head

\* The checks of the head are good: what the mergeability read with it allows.
Cleared ==
  \/ snap.base = "unknown" /\ Tick("top") /\ UNCHANGED mem
  \/ /\ snap.base = "behind"
     /\ \/ InFlight /\ Tick("top")
        \/ /\ ~InFlight
           /\ IF mem.attempts >= MaxUpdates THEN Finish("blocked") ELSE Go("update")
     /\ UNCHANGED mem
  \/ snap.base = "conflict" /\ Finish("needs_fix") /\ UNCHANGED mem
  \/ /\ snap.base = "blocked"
     /\ mem.blockedAt # snap.head
     /\ mem' = [mem EXCEPT !.blockedAt = snap.head]
     /\ Tick("top")
  \/ /\ snap.base = "blocked"
     /\ mem.blockedAt = snap.head
     /\ ~QueueOnly
     /\ RefusedByBase
     /\ UNCHANGED mem
  \/ /\ snap.base = "clean" \/ (snap.base = "blocked" /\ mem.blockedAt = snap.head /\ QueueOnly)
     /\ IF cfg.posted \/ cfg.entry = "parked" THEN Go("threads") ELSE Finish("blocked")
     /\ UNCHANGED mem

\* Only a final good judgement vouches for the head.
Judged(v) ==
  \/ v = "approval" /\ Finish("blocked") /\ UNCHANGED <<mem, vouched, hist>>
  \/ v = "pending" /\ Tick("top") /\ UNCHANGED <<mem, vouched, hist>>
  \/ v = "red" /\ Finish("needs_fix") /\ UNCHANGED <<mem, vouched, hist>>
  \/ /\ v \in {"green", "none"}
     /\ vouched' = vouched \cup {snap.head}
     /\ LET early == v = "none" /\ prAge < Settle
            Noted(S, is) == IF is THEN S \cup {snap.head} ELSE S \ {snap.head}
        IN hist' = [hist EXCEPT !.rash = Noted(@, early /\ ~mem.inherits),
                                !.trusting = Noted(@, early /\ mem.inherits)]
     /\ Cleared

ReadChecks ==
  /\ pc = "checks"
  /\ IF checks[snap.head] = "none" /\ headAge < Settle
     THEN Go("poll") /\ pollAge' = 0 /\ UNCHANGED <<mem, vouched, hist>>
     ELSE Judged(checks[snap.head]) /\ UNCHANGED pollAge
  /\ UNCHANGED <<cfg, remote, age, prAge, headAge, snap, store>>

\* poll_checks, on its own clock, until the checks are final or settled.
PollChecks ==
  /\ pc = "poll"
  /\ LET v == checks[snap.head]
         final == v \in {"red", "approval", "green"} \/ (v = "none" /\ headAge >= Settle)
     IN \/ final /\ Judged(v)
        \/ ~final /\ pollAge >= CiTimeout /\ Finish("blocked") /\ UNCHANGED <<mem, vouched, hist>>
        \/ ~final /\ pollAge < CiTimeout /\ Tick("poll") /\ UNCHANGED <<mem, vouched, hist>>
  /\ UNCHANGED <<cfg, remote, clocks, snap, store>>

\* pr_update_branch(expected_head_sha=head): accepted, to be applied later, or
\* refused because the head moved or the forge would not.
UpdateBranch ==
  /\ pc = "update"
  /\ \/ /\ pr.st = "open" /\ pr.head = snap.head
        /\ inflight' = snap.head
        /\ mem' = [mem EXCEPT !.attempts = @ + 1, !.uphead = snap.head]
        /\ hist' = [hist EXCEPT !.asked = @ + 1, !.taken[snap.head] = @ + 1]
     \/ /\ mem' = [mem EXCEPT !.attempts = @ + 1, !.uphead = 0]
        /\ hist' = [hist EXCEPT !.asked = @ + 1]
        /\ UNCHANGED inflight
  /\ Go("bump")
  /\ UNCHANGED <<cfg, pr, checks, obj, thr, entry, by, acts, clocks, snap, store, vouched>>

\* on_update writes the counter, then the head; a parked landing writes neither.
BumpCounter ==
  /\ pc = "bump"
  /\ store' = (IF cfg.entry = "parked" THEN store ELSE [store EXCEPT !.attempts = @ + 1])
  /\ Go("stamp")
  /\ UNCHANGED <<cfg, remote, clocks, snap, mem, vouched, hist>>

StampHead ==
  /\ pc = "stamp"
  /\ store' = (IF cfg.entry = "parked" THEN store ELSE [store EXCEPT !.uphead = mem.uphead])
  /\ Tick("top")
  /\ UNCHANGED <<cfg, remote, clocks, snap, mem, vouched, hist>>

\* Past the review record: the gate, the queue, or the merge.
Reconciled ==
  IF cfg.gate /\ cfg.entry # "parked" THEN Finish("gated")
  ELSE IF cfg.queue = "rule" THEN Go("queue")
  ELSE IF cfg.method THEN Go("merge") ELSE Finish("blocked")

ReadThreads ==
  /\ pc = "threads"
  /\ \/ Finish("blocked")                                \* unreadable three times
     \/ thr = "none" /\ Reconciled
     \/ thr = "loop" /\ Finish("blocked")
     \/ thr = "human" /\ Go("ack")
  /\ UNCHANGED <<cfg, remote, clocks, snap, mem, store, vouched, hist>>

\* The program answers a person's thread itself; the reply may fail.
Acknowledge ==
  /\ pc = "ack"
  /\ \/ thr' = (IF thr = "human" THEN "none" ELSE thr)
     \/ UNCHANGED thr
  /\ Go("reread")
  /\ UNCHANGED <<cfg, pr, checks, obj, inflight, entry, by, acts, clocks, snap, mem, store, vouched, hist>>

RereadThreads ==
  /\ pc = "reread"
  /\ \/ thr = "none" /\ Reconciled
     \/ Finish("blocked")
  /\ UNCHANGED <<cfg, remote, clocks, snap, mem, store, vouched, hist>>

\* Slip: the merge does not name the head it was decided for.
MergeTakes_AnyHead == pr.st = "open" /\ pr.draft = "no"

\* pr_merge(sha=head): 409 when the head moved, 405 when the forge refuses.
MergeTakes == pr.st = "open" /\ pr.head = snap.head /\ pr.draft = "no"

Merge ==
  /\ pc = "merge"
  /\ \/ /\ MergeTakes /\ cfg.queue = "no" /\ cfg.wants = "nothing"
        /\ pr' = [pr EXCEPT !.st = "merged"]
        /\ by' = "loop"
        /\ Finish("landed")
     \/ pr.st = "open" /\ pr.head # snap.head /\ Tick("top") /\ UNCHANGED <<pr, by>>
     \/ cfg.queue = "unread" /\ Go("queue") /\ UNCHANGED <<pr, by>>
     \/ RefusedByBase /\ UNCHANGED <<pr, by>>
  /\ UNCHANGED <<cfg, checks, obj, thr, inflight, entry, acts, clocks, snap, mem, store, vouched, hist>>

\* _through_queue: an entry already there is watched, never made twice.
ReadQueue ==
  /\ pc = "queue"
  /\ \/ pr.st = "merged" /\ Finish("landed")
     \/ pr.st = "closed" /\ Finish("closed")
     \/ pr.st = "open" /\ entry = 0 /\ Go("enqueue")
     \/ pr.st = "open" /\ entry # 0 /\ Go("watch")
  /\ UNCHANGED <<cfg, remote, clocks, snap, mem, store, vouched, hist>>

Enqueue ==
  /\ pc = "enqueue"
  /\ \/ MergeTakes /\ entry = 0 /\ entry' = snap.head /\ Go("watch")
     \/ UNCHANGED entry /\ (IF QueueOnly THEN Finish("blocked") ELSE RefusedByBase)
  /\ UNCHANGED <<cfg, pr, checks, obj, thr, inflight, by, acts, clocks, snap, mem, store, vouched, hist>>

WatchQueue ==
  /\ pc = "watch"
  /\ \/ Expired /\ Finish("blocked")
     \/ ~Expired /\ pr.st = "merged" /\ Finish("landed")
     \/ ~Expired /\ pr.st = "closed" /\ Finish("closed")
     \/ ~Expired /\ pr.st = "open" /\ entry # 0 /\ Tick("watch")
     \/ /\ ~Expired /\ pr.st = "open" /\ entry = 0
        /\ \E o \in {"needs_fix", "blocked", "cancelled"} : Finish(o)
  /\ UNCHANGED <<cfg, remote, clocks, snap, mem, store, vouched, hist>>

Step == \/ TimedOut \/ ReadPR \/ Undraft \/ RecordUndraft \/ ReadReviews
        \/ ReadChecks \/ PollChecks \/ UpdateBranch \/ BumpCounter \/ StampHead
        \/ ReadThreads \/ Acknowledge \/ RereadThreads \/ Merge
        \/ ReadQueue \/ Enqueue \/ WatchQueue

----------------------------------------------------------------------------
(* The process dies, and the run is resumed at its landing.                *)

Crash == /\ pc \notin {"done", "dead"}
         /\ hist.crashes < MaxCrashes
         /\ hist' = [hist EXCEPT !.crashes = @ + 1]
         /\ pc' = "dead"
         /\ mem' = Locals(store)
         /\ snap' = NoSnap
         /\ age' = 0 /\ headAge' = 0 /\ pollAge' = 0
         /\ UNCHANGED <<cfg, remote, prAge, store, out, vouched>>

Resume == /\ pc = "dead"
          /\ Go("top")
          /\ UNCHANGED <<cfg, remote, clocks, snap, mem, store, vouched, hist>>

----------------------------------------------------------------------------
(* The forge, and people on it.                                            *)

\* Every clock of the program and of the pull request moves together; those of
\* a dead process do not.
Pass ==
  /\ pc # "done"
  /\ age' = (IF pc = "dead" THEN 0 ELSE Smaller(age + 1, CiTimeout))
  /\ headAge' = (IF pc = "dead" THEN 0 ELSE Smaller(headAge + 1, Settle))
  /\ pollAge' = (IF pc = "poll" THEN Smaller(pollAge + 1, CiTimeout) ELSE 0)
  /\ prAge' = Smaller(prAge + 1, Settle)
  /\ UNCHANGED <<cfg, remote, local, store, vouched, hist>>

Surprise == pr.st = "open" /\ pc # "done" /\ acts < MaxActs /\ acts' = acts + 1

\* A new head: no checks yet, out of the queue.
NewHead(base) ==
  /\ pr.st = "open" /\ pr.head < MaxHead
  /\ pr' = [pr EXCEPT !.head = @ + 1, !.base = base]
  /\ inflight' = 0 /\ entry' = 0
  /\ prAge' = 0
  /\ UNCHANGED <<cfg, checks, obj, thr, by, age, headAge, pollAge, local, store, vouched, hist>>

PersonPushes == Surprise /\ NewHead("unknown")

\* An accepted update is applied while the branch is where it was asked for, or
\* it comes to nothing.
UpdateLands == pc # "done" /\ inflight = pr.head /\ NewHead("clean") /\ UNCHANGED acts

UpdateFails ==
  /\ pc # "done" /\ inflight # 0
  /\ inflight' = 0
  /\ UNCHANGED <<cfg, pr, checks, obj, thr, entry, by, acts, clocks, local, store, vouched, hist>>

ChecksReport ==
  /\ pc # "done" /\ pr.st = "open"
  /\ \/ /\ checks[pr.head] = "none"
        /\ checks' = [checks EXCEPT ![pr.head] = "pending"]
     \/ /\ checks[pr.head] = "pending"
        /\ \E v \in {"green", "red", "approval"} : checks' = [checks EXCEPT ![pr.head] = v]
  /\ UNCHANGED <<cfg, pr, obj, thr, inflight, entry, by, acts, clocks, local, store, vouched, hist>>

\* Mergeability is computed late, and the base moves or wants more.
BaseMoves ==
  /\ Surprise
  /\ \E b \in Bases : pr' = [pr EXCEPT !.base = b]
  /\ UNCHANGED <<cfg, checks, obj, thr, inflight, entry, by, clocks, local, store, vouched, hist>>

\* People: review, comment, hold as a draft, mark ready, close, merge.
PersonReviews ==
  /\ Surprise
  /\ \/ obj = "none" /\ obj' \in {"human", "answered", "bot"} /\ UNCHANGED thr
     \/ thr = "none" /\ thr' \in {"human", "loop"} /\ UNCHANGED obj
  /\ UNCHANGED <<cfg, pr, checks, inflight, entry, by, clocks, local, store, vouched, hist>>

PersonDrafts ==
  /\ Surprise
  /\ \/ pr.draft = "no" /\ pr' = [pr EXCEPT !.draft = "person"] /\ entry' = 0
     \/ pr.draft # "no" /\ pr' = [pr EXCEPT !.draft = "no"] /\ UNCHANGED entry
  /\ UNCHANGED <<cfg, checks, obj, thr, inflight, by, clocks, local, store, vouched, hist>>

PersonEnds ==
  /\ Surprise
  /\ \/ pr' = [pr EXCEPT !.st = "closed"] /\ UNCHANGED by
     \/ pr.draft = "no" /\ pr' = [pr EXCEPT !.st = "merged"] /\ by' = "person"
  /\ entry' = 0
  /\ UNCHANGED <<cfg, checks, obj, thr, inflight, clocks, local, store, vouched, hist>>

\* The queue merges its entry or removes it, also after the landing gave up.
QueueActs ==
  /\ pr.st = "open" /\ entry # 0
  /\ entry' = 0
  /\ \/ pr' = [pr EXCEPT !.st = "merged"] /\ by' = "loop"
     \/ UNCHANGED <<pr, by>>
  /\ UNCHANGED <<cfg, checks, obj, thr, inflight, acts, clocks, local, store, vouched, hist>>

Forge == \/ PersonPushes \/ UpdateLands \/ UpdateFails \/ ChecksReport \/ BaseMoves
         \/ PersonReviews \/ PersonDrafts \/ PersonEnds \/ QueueActs

Next == Step \/ Crash \/ Resume \/ Pass \/ Forge

Spec == Init /\ [][Next]_vars

\* The process takes its next call, and time passes.
Fairness == WF_vars(Step) /\ WF_vars(Resume) /\ WF_vars(Pass)

FairSpec == Spec /\ Fairness

----------------------------------------------------------------------------
(* Properties.                                                             *)

TypeOK ==
  /\ cfg \in Config
  /\ pr \in [st : Statuses, draft : Drafts, head : Heads, base : Bases]
  /\ checks \in [Heads -> Verdicts]
  /\ obj \in {"none", "human", "answered", "bot"}
  /\ thr \in {"none", "human", "loop"}
  /\ inflight \in 0..MaxHead /\ entry \in 0..MaxHead
  /\ by \in {"nobody", "loop", "person"}
  /\ acts \in 0..MaxActs
  /\ age \in 0..CiTimeout /\ pollAge \in 0..CiTimeout
  /\ headAge \in 0..Settle /\ prAge \in 0..Settle
  /\ pc \in Calls /\ out \in Outcomes
  /\ snap \in [head : 0..MaxHead, base : Bases]
  /\ mem \in [own : BOOLEAN, seen : 0..MaxHead, inherits : BOOLEAN, blockedAt : 0..MaxHead,
              attempts : Nat, uphead : 0..MaxHead]
  /\ store \in [attempts : Nat, uphead : 0..MaxHead, undrafted : BOOLEAN]
  /\ vouched \subseteq Heads
  /\ hist \in [asked : Nat, taken : [Heads -> Nat], overruled : BOOLEAN,
               rash : SUBSET Heads, trusting : SUBSET Heads, crashes : 0..MaxCrashes]

\* A head with no checks is merged by the program only when it had been the
\* head for the settle window, whatever was pushed or updated meanwhile; the
\* head found on entry from the CI stage is the one exception (SettledAlways).
SettledMerge == by = "loop" => pr.head \notin hist.rash

\* The same with no exception: "A head with no checks at all is not trusted on
\* sight".
SettledAlways == by = "loop" => pr.head \notin (hist.rash \cup hist.trusting)

\* The forge is asked for no more branch updates than merge_update_attempts,
\* but for the one request a death of the process may leave uncounted; a parked
\* landing keeps no count and starts a budget with each entry. And no process
\* asks twice for one head: the forge answers an accepted request with no sha,
\* and the landing waits for the head to move.
UpdateBudget ==
  /\ hist.asked <= IF cfg.entry = "parked" THEN MaxUpdates * (hist.crashes + 1)
                                           ELSE MaxUpdates + hist.crashes
  /\ \A h \in Heads : hist.taken[h] <= 1 + hist.crashes

\* No draft a person set is cleared by the program.
HoldKept == ~hist.overruled

\* What a landing promises the repository (JudgedMerge).
Promise == INSTANCE JudgedMerge
             WITH head <- pr.head, status <- pr.st, by <- by, judged <- vouched
KeepsPromise == Promise!Spec

\* Every landing is decided: ci_timeout_s bounds each wait, and a process that
\* dies is resumed.
Decides == <>(pc = "done")

============================================================================
