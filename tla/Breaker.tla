------------------------------ MODULE Breaker -------------------------------
(***************************************************************************)
(* The daemon's circuit breaker (daemon/loop.py): consecutive failures     *)
(* open it, a cooldown half-opens it, and a half-open breaker lets one     *)
(* probe run through.  opened and failures are persisted by every          *)
(* transition; half and probe live only in the process.  The loop thread   *)
(* gates, launches and settles; status queries and the operator's reset    *)
(* reach the same fields from another thread, with no lock.  Which item a  *)
(* run is for does not matter here (see DaemonLoop).                       *)
(***************************************************************************)
EXTENDS Naturals, FiniteSets

CONSTANTS
  Runs, NoRun,
  MaxConcurrent,  \* [daemon] max_concurrent_runs
  MaxFailures,    \* [daemon] max_consecutive_failures
  MaxResets,      \* bound on operator resets
  MaxQueries,     \* bound on status queries that find the cooldown over
  MaxRestarts     \* bound on restarts

ASSUME BreakerAssumption ==
  /\ NoRun \notin Runs /\ IsFiniteSet(Runs)
  /\ MaxConcurrent \in Nat \ {0} /\ MaxFailures \in Nat \ {0}
  /\ MaxResets \in Nat /\ MaxQueries \in Nat /\ MaxRestarts \in Nat

VARIABLES
  opened,    \* _breaker_opened_at is set (persisted)
  failures,  \* _consecutive_failures (persisted)
  half,      \* _breaker_half_open
  probe,     \* _breaker_probe
  cooled,    \* breaker_cooldown_s has passed since it opened
  last,      \* the run just launched, for _bind_probes
  run,       \* run[r]: new, live, ended (its slot not yet freed) or over
  at,        \* where the loop thread is
  query,     \* where a status query is
  tripped,   \* history: opened, and neither reset nor a verdict since
  through,   \* history: the runs launched since then
  used       \* resets, queries and restarts so far (bounds)

breakerVars == <<opened, failures, half, probe, cooled, last, run, at, query, tripped, through, used>>

BreakerInit ==
  /\ opened = FALSE /\ failures = 0 /\ half = FALSE /\ probe = NoRun /\ last = NoRun
  /\ cooled = FALSE
  /\ run = [r \in Runs |-> "new"]
  /\ at = "tick" /\ query = "idle"
  /\ tripped = FALSE /\ through = {}
  /\ used = [resets |-> 0, queries |-> 0, restarts |-> 0]

InFlight == {r \in Runs : run[r] \in {"live", "ended"}}

\* _set_breaker: every transition clears the half-open window and persists both fields.
SetBreaker(open, n) ==
  /\ opened' = open /\ failures' = n
  /\ half' = FALSE /\ probe' = NoRun
  /\ cooled' = FALSE

Decremented == IF failures > 0 THEN failures - 1 ELSE 0

\* Time passes breaker_cooldown_s after the breaker opened.
CoolDown ==
  /\ opened /\ ~cooled
  /\ cooled' = TRUE
  /\ UNCHANGED <<last, opened, failures, half, probe, run, at, query, tripped, through, used>>

(***************************************************************************)
(* The loop thread: _dispatch_gate, one launch, _bind_probes, again.       *)
(***************************************************************************)
\* _breaker_open past the cooldown, called by the gate: the transition, then the mark.
GateHalfOpens ==
  /\ at = "tick" /\ opened /\ cooled
  /\ SetBreaker(FALSE, Decremented)
  /\ at' = "mark"
  /\ UNCHANGED <<last, run, query, tripped, through, used>>

GateMarks ==
  /\ at = "mark"
  /\ half' = TRUE
  /\ at' = "probe"
  /\ UNCHANGED <<last, opened, failures, probe, cooled, run, query, tripped, through, used>>

GateClosed ==
  /\ at = "tick" /\ ~opened
  /\ at' = "probe"
  /\ UNCHANGED <<last, opened, failures, half, probe, cooled, run, query, tripped, through, used>>

\* Slip: a probe that is over still counts as in flight.
LiveProbe_Sticky == probe

\* _live_probe
LiveProbe == IF probe \in InFlight THEN probe ELSE NoRun

\* Slip: the gate forgets to ask whether a probe is in flight.
GateProbe_Always ==
  /\ at = "probe"
  /\ probe' = LiveProbe
  /\ at' = "launch"
  /\ UNCHANGED <<last, opened, failures, half, cooled, run, query, tripped, through, used>>

\* The rest of the gate: a half-open breaker whose probe is in flight admits nothing.
GateProbe ==
  /\ at = "probe"
  /\ probe' = LiveProbe
  /\ at' = IF half /\ LiveProbe # NoRun THEN "tick" ELSE "launch"
  /\ UNCHANGED <<last, opened, failures, half, cooled, run, query, tripped, through, used>>

\* _dispatch_pass starts one queued item ...
Launch(r) ==
  /\ at = "launch"
  /\ Cardinality(InFlight) < MaxConcurrent
  /\ run[r] = "new"
  /\ run' = [run EXCEPT ![r] = "live"]
  /\ through' = IF tripped THEN through \cup {r} ELSE through
  /\ last' = r
  /\ at' = "bind"
  /\ UNCHANGED <<opened, failures, half, probe, cooled, query, tripped, used>>

\* ... or finds no slot, or nothing to start.
NothingToLaunch ==
  /\ at = "launch"
  /\ at' = "tick"
  /\ UNCHANGED <<last, opened, failures, half, probe, cooled, run, query, tripped, through, used>>

\* _bind_probes for the run just launched.
BindProbes ==
  /\ at = "bind"
  /\ probe' = IF half /\ probe = NoRun THEN last ELSE probe
  /\ at' = "tick"
  /\ UNCHANGED <<last, opened, failures, half, cooled, run, query, tripped, through, used>>

\* A run's thread ends.
RunEnds(r) ==
  /\ run[r] = "live"
  /\ run' = [run EXCEPT ![r] = "ended"]
  /\ UNCHANGED <<last, opened, failures, half, probe, cooled, at, query, tripped, through, used>>

Free(r) == at = "tick" /\ run[r] = "ended" /\ run' = [run EXCEPT ![r] = "over"]

\* _settle, landed (or parked for a person): the breaker is reset.
SettleLanded(r) ==
  /\ Free(r)
  /\ SetBreaker(FALSE, 0)
  /\ tripped' = FALSE /\ through' = {}
  /\ UNCHANGED <<last, at, query, used>>

\* _settle, failed: the failure is counted now, the threshold is asked at the end,
\* after the writes and the reports in between.
SettleFailed(r) ==
  /\ Free(r)
  /\ SetBreaker(opened, failures + 1)
  /\ at' = "judge"
  /\ tripped' = FALSE /\ through' = {}
  /\ UNCHANGED <<last, query, used>>

\* Blocked, cancelled, interrupted, overridden: the breaker is left alone.
SettleNeutral(r) ==
  /\ Free(r)
  /\ UNCHANGED <<last, opened, failures, half, probe, cooled, at, query, tripped, through, used>>

\* Slip: one failure too many tolerated.
Threshold_OneMore == failures > MaxFailures

Threshold == failures >= MaxFailures

JudgeCount ==
  /\ at = "judge"
  /\ at' = "tick"
  /\ IF Threshold
     THEN SetBreaker(TRUE, failures) /\ tripped' = TRUE /\ through' = {}
     ELSE UNCHANGED <<opened, failures, half, probe, cooled, tripped, through>>
  /\ UNCHANGED <<last, run, query, used>>

(***************************************************************************)
(* The other thread.                                                       *)
(***************************************************************************)
\* status() evaluates _breaker_open too: the test, the transition and the mark.
StatusAsks ==
  /\ query = "idle" /\ opened /\ cooled /\ used.queries < MaxQueries
  /\ query' = "transition"
  /\ used' = [used EXCEPT !.queries = @ + 1]
  /\ UNCHANGED <<last, opened, failures, half, probe, cooled, run, at, tripped, through>>

StatusHalfOpens ==
  /\ query = "transition"
  /\ SetBreaker(FALSE, Decremented)
  /\ query' = "mark"
  /\ UNCHANGED <<last, run, at, tripped, through, used>>

StatusMarks ==
  /\ query = "mark"
  /\ half' = TRUE
  /\ query' = "idle"
  /\ UNCHANGED <<last, opened, failures, probe, cooled, run, at, tripped, through, used>>

\* reset_breaker
Reset ==
  /\ used.resets < MaxResets
  /\ SetBreaker(FALSE, 0)
  /\ tripped' = FALSE /\ through' = {}
  /\ used' = [used EXCEPT !.resets = @ + 1]
  /\ UNCHANGED <<last, run, at, query>>

\* A new process reads opened and failures back; the runs it finds are resumed
\* through the same gate, as new launches.
NewProcess ==
  /\ used.restarts < MaxRestarts
  /\ half' = FALSE /\ probe' = NoRun
  /\ run' = [r \in Runs |-> IF run[r] = "over" THEN "over" ELSE "new"]
  /\ at' = "tick" /\ query' = "idle"
  /\ used' = [used EXCEPT !.restarts = @ + 1]
  /\ UNCHANGED <<last, opened, failures, cooled, tripped, through>>

-----------------------------------------------------------------------------
Loop ==
  \/ GateHalfOpens \/ GateMarks \/ GateClosed \/ GateProbe \/ NothingToLaunch \/ BindProbes \/ JudgeCount
  \/ \E r \in Runs : Launch(r)

Settle == \E r \in Runs : SettleLanded(r) \/ SettleFailed(r) \/ SettleNeutral(r)

BreakerNext ==
  \/ CoolDown \/ Loop \/ Settle \/ \E r \in Runs : RunEnds(r)
  \/ StatusAsks \/ StatusHalfOpens \/ StatusMarks \/ Reset \/ NewProcess

BreakerSpec == BreakerInit /\ [][BreakerNext]_breakerVars

\* The loop thread goes on; the cooldown passes; with work waiting a launch that the
\* gate keeps allowing happens.
Fairness ==
  /\ WF_breakerVars(Loop) /\ WF_breakerVars(CoolDown)
  /\ SF_breakerVars(\E r \in Runs : Launch(r))

FairBreakerSpec == BreakerSpec /\ Fairness

(***************************************************************************)
(* Properties.                                                             *)
(***************************************************************************)
\* Every variable holds a value of its kind.
BreakerTypeOK ==
  /\ opened \in BOOLEAN /\ failures \in Nat /\ half \in BOOLEAN /\ cooled \in BOOLEAN
  /\ probe \in Runs \cup {NoRun} /\ last \in Runs \cup {NoRun}
  /\ run \in [Runs -> {"new", "live", "ended", "over"}]
  /\ at \in {"tick", "mark", "probe", "launch", "bind", "judge"}
  /\ query \in {"idle", "transition", "mark"}
  /\ tripped \in BOOLEAN /\ through \subseteq Runs
  /\ used \in [resets : Nat, queries : Nat, restarts : Nat]

\* No status query has half-opened the breaker and no restart has dropped its half-open
\* mark: either can put a second item through (status() runs _breaker_open on its caller's
\* thread, and _breaker_half_open is not persisted).
Undisturbed == used.queries = 0 /\ used.restarts = 0

\* "Half-open: allow one item through" (_breaker_open): of the runs launched since the
\* breaker opened, with no verdict and no reset since, at most one is in flight, also
\* while runs launched before it opened are still going.
OneItemThrough ==
  Undisturbed =>
    \A r, s \in through : run[r] \in {"live", "ended"} /\ run[s] \in {"live", "ended"} => r = s

\* Between two steps of the loop, a failure count over the threshold is guarded: the
\* breaker is open or half-open.
OverThresholdIsGuarded ==
  Undisturbed => (at = "tick" /\ failures >= MaxFailures => opened \/ half)

\* The breaker never wedges dispatch: with nothing in flight and work waiting, a run is
\* launched in the end, whatever became of the last probe.
DispatchNeverWedges ==
  (InFlight = {} /\ \E r \in Runs : run[r] = "new") ~> InFlight # {}
=============================================================================
