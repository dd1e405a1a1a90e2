---------------------------- MODULE HealthMonitor ----------------------------
(***************************************************************************)
(* HealthMonitor of lib/health_monitor.py: threads record requests and     *)
(* errors, run the checks, ask for the status and for reports.  All of it  *)
(* is under one threading.Lock, which is not reentrant: a report asks for  *)
(* the overall status, which takes the lock again.                         *)
(***************************************************************************)
EXTENDS Integers, FiniteSets

CONSTANTS
    Watchers,   \* the threads
    Durations,  \* duration_ms of a request
    MaxEvents,  \* bound on what is recorded between two resets
    Never       \* no thread has the lock

ASSUME WatchersAssumption == Never \notin Watchers /\ Durations \subseteq Nat

VARIABLES
    monitors,   \* the HealthMonitors made by get_health_monitor
    monLock,    \* the thread in _lock, or Never
    spot,       \* thread -> "out", "make", "idle", "metrics", "store" or "status"
    metrics,    \* the counters of Metrics
    spent,      \* its times: [sum, least, most]
    checks,     \* of health_checks, the one on the metrics; NoChecks if there are none
    found       \* thread -> the one it has made in run_all_checks

healthVars == <<monitors, monLock, spot, metrics, spent, checks, found>>

-----------------------------------------------------------------------------
(* What is counted. *)

\* The counters that each record_* method raises.
Raises == [success         |-> {"total", "successful"},
           failure         |-> {"total", "failed"},
           cacheHit        |-> {"hits"},
           cacheMiss       |-> {"misses"},
           connected       |-> {"connections", "active"},
           refused         |-> {"connections", "failures"},
           timeout         |-> {"timeouts"},
           connectionError |-> {"connectionErrors"},
           otherError      |-> {"otherErrors"}]
Events == DOMAIN Raises
Counters == UNION {Raises[e] : e \in Events}

NoCounts == [c \in Counters |-> 0]
NoTime == [sum |-> 0, least |-> -1, most |-> 0]   \* -1: float("inf")
\* A check, and whether there was a reset before it was stored.
NoChecks == [metrics |-> "none", requests |-> 0, overtaken |-> FALSE]

\* What was recorded: everything raises one of these.
Recorded(m) ==
    m["total"] + m["connections"] + m["hits"] + m["misses"]
    + m["timeouts"] + m["connectionErrors"] + m["otherErrors"]

Count(m, e) == [c \in Counters |-> IF c \in Raises[e] THEN m[c] + 1 ELSE m[c]]
Spend(s, ms) ==
    [sum |-> s.sum + ms,
     least |-> IF s.least = -1 \/ ms < s.least THEN ms ELSE s.least,
     most |-> IF ms > s.most THEN ms ELSE s.most]

\* The status by error rate and average latency.
MetricsStatus(m, s) ==
    CASE 100 * m["failed"] > 20 * m["total"] -> "unhealthy"
      [] 100 * m["failed"] > 5 * m["total"] /\ 100 * m["failed"] <= 20 * m["total"] -> "degraded"
      [] 100 * m["failed"] <= 5 * m["total"] ->
            IF s.sum > 1000 * m["total"] THEN "degraded" ELSE "healthy"

-----------------------------------------------------------------------------
HealthInit ==
    /\ monitors = 0 /\ monLock = Never
    /\ spot = [w \in Watchers |-> "out"]
    /\ metrics = NoCounts /\ spent = NoTime /\ checks = NoChecks
    /\ found = [w \in Watchers |-> NoChecks]

MoveTo(w, place) == spot' = [spot EXCEPT ![w] = place]

\* get_health_monitor: the test outside _monitor_lock, and the locked part.
TestMonitor(w) ==
    /\ spot[w] = "out"
    /\ MoveTo(w, IF monitors = 0 THEN "make" ELSE "idle")
    /\ UNCHANGED <<monitors, monLock, metrics, spent, checks, found>>

MakeMonitor(w) ==
    /\ spot[w] = "make"
    /\ monitors' = IF monitors = 0 THEN 1 ELSE monitors
    /\ MoveTo(w, "idle")
    /\ UNCHANGED <<monLock, metrics, spent, checks, found>>

\* A method that does all it does under the lock.
Free(w, place) == spot[w] = place /\ monLock = Never

Record(w, e) ==
    /\ Free(w, "idle") /\ Recorded(metrics) < MaxEvents
    /\ metrics' = Count(metrics, e)
    /\ IF "total" \in Raises[e]
       THEN \E ms \in Durations : spent' = Spend(spent, ms)
       ELSE UNCHANGED spent
    /\ UNCHANGED <<monitors, monLock, spot, checks, found>>

-----------------------------------------------------------------------------
(* run_all_checks: two checks that ask the client, without the lock; one    *)
(* that takes it; and then it is taken again to store them.                 *)

\* check_imhex_connection and check_cache_health come to a result, whatever happens.
CheckClient(w) ==
    /\ spot[w] = "idle"
    /\ MoveTo(w, "metrics")
    /\ UNCHANGED <<monitors, monLock, metrics, spent, checks, found>>

CheckMetrics(w) ==
    /\ Free(w, "metrics")
    /\ found' = [found EXCEPT ![w] = [metrics |-> MetricsStatus(metrics, spent),
                                      requests |-> metrics["total"], overtaken |-> FALSE]]
    /\ MoveTo(w, "store")
    /\ UNCHANGED <<monitors, monLock, metrics, spent, checks>>

StoreChecks(w) ==
    /\ Free(w, "store")
    /\ checks' = found[w]
    /\ found' = [found EXCEPT ![w] = NoChecks]
    /\ MoveTo(w, "idle")
    /\ UNCHANGED <<monitors, monLock, metrics, spent>>

-----------------------------------------------------------------------------
(* Status and reports. *)

AskStatus(w) ==
    /\ spot[w] = "idle"
    /\ MoveTo(w, "status")
    /\ UNCHANGED <<monitors, monLock, metrics, spent, checks, found>>

\* get_health_report and print_summary hold the lock when they ask for the status.
HoldAndAsk(w) ==
    /\ Free(w, "idle")
    /\ monLock' = w
    /\ MoveTo(w, "status")
    /\ UNCHANGED <<monitors, metrics, spent, checks, found>>

Report(w) == HoldAndAsk(w)

\* The same again, with the averages and the cache hit rate.
PrintSummary(w) == HoldAndAsk(w)

\* get_overall_status; then the report that called it would give the lock back.
GetOverallStatus(w) ==
    /\ Free(w, "status")
    /\ monLock' = Never
    /\ MoveTo(w, "idle")
    /\ UNCHANGED <<monitors, metrics, spent, checks, found>>

\* What a thread still has to store was made before the reset.
Overtaken ==
    [v \in Watchers |-> IF spot[v] = "store" THEN [found[v] EXCEPT !.overtaken = TRUE] ELSE found[v]]

\* [mutant: the checks are left as they were]
ResetMetricsOnly(w) ==
    /\ Free(w, "idle")
    /\ metrics' = NoCounts /\ spent' = NoTime /\ found' = Overtaken
    /\ UNCHANGED <<monitors, monLock, spot, checks>>

\* get_metrics and get_prometheus_metrics copy the counters under the lock.
ResetMetrics(w) ==
    /\ Free(w, "idle")
    /\ metrics' = NoCounts /\ spent' = NoTime /\ checks' = NoChecks
    /\ found' = Overtaken
    /\ UNCHANGED <<monitors, monLock, spot>>

WatcherStep(w) ==
    \/ TestMonitor(w) \/ MakeMonitor(w) \/ \E e \in Events : Record(w, e)
    \/ CheckClient(w) \/ CheckMetrics(w) \/ StoreChecks(w)
    \/ AskStatus(w) \/ Report(w) \/ PrintSummary(w) \/ GetOverallStatus(w) \/ ResetMetrics(w)

HealthNext == \E w \in Watchers : WatcherStep(w)

HealthSpec == HealthInit /\ [][HealthNext]_healthVars

\* Who waits for the lock in get_overall_status gets it if it is free again and again.
FairHealthSpec == HealthSpec /\ \A w \in Watchers : SF_healthVars(GetOverallStatus(w))

-----------------------------------------------------------------------------
(* Properties. *)

\* There is one monitor.  Its counters agree with each other and with the times, and
\* the checks it shows were made of requests that are counted still, but for checks
\* that were made before a reset and stored after it.
HealthStands ==
    /\ monitors <= 1
    /\ metrics["total"] = metrics["successful"] + metrics["failed"]
    /\ metrics["connections"] = metrics["active"] + metrics["failures"]
    /\ metrics["total"] > 0 =>
          /\ spent.least * metrics["total"] <= spent.sum
          /\ spent.sum <= spent.most * metrics["total"]
    /\ ~checks.overtaken => /\ checks.requests <= metrics["total"]
                            /\ checks.metrics = "unhealthy" => metrics["failed"] > 0

-----------------------------------------------------------------------------
(* What the documentation says and the code does not keep                  *)

\* get_health_report(): "Get complete health report."  Who takes the lock for it
\* comes to the end of it.
ReportReturns == \A w \in Watchers : monLock = w ~> monLock # w

==============================================================================
