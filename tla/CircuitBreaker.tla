--------------------------- MODULE CircuitBreaker ---------------------------
(***************************************************************************)
(* lib/advanced_features.py: CircuitBreaker.call.  The lock covers the       *)
(* decision to admit a call and the report of its result, never the call,    *)
(* so results arrive when the breaker is in quite another state.             *)
(***************************************************************************)
EXTENDS Integers

CONSTANTS
    Callers,            \* tasks that call through the breaker
    FailureThreshold,   \* config.failure_threshold
    SuccessThreshold    \* config.success_threshold

ASSUME BreakerAssumption ==
    FailureThreshold \in Nat \ {0} /\ SuccessThreshold \in Nat \ {0}

VARIABLES
    state,       \* _state
    failures,    \* _failure_count
    successes,   \* _success_count, up to SuccessThreshold
    cooled,      \* config.timeout has passed since _last_failure_time
    pc,          \* "idle", or "running" its coroutine outside the lock
    up,          \* the service answers whatever is called from now on
    sound        \* callers whose running call began when the service was up

counters == <<state, failures, successes, cooled>>
circuitVars == <<counters, pc, up, sound>>

CircuitInit ==
    /\ state = "closed" /\ failures = 0 /\ successes = 0 /\ cooled = FALSE
    /\ pc = [p \in Callers |-> "idle"]
    /\ up = FALSE /\ sound = {}

-----------------------------------------------------------------------------
(* _check_state_transition, on counters just updated to f, s and c.         *)

Enter(new, f, s, c) ==
    /\ state' = new /\ failures' = f /\ successes' = s /\ cooled' = c

\* [mutant: half-open starts with the counts of the closed period]
CheckKeepsCounts(f, s, c) ==
    IF state = "open" /\ c THEN Enter("half_open", f, s, c)
    ELSE IF state = "closed" /\ f >= FailureThreshold THEN Enter("open", f, s, FALSE)
    ELSE IF state = "half_open" /\ s >= SuccessThreshold THEN Enter("closed", 0, 0, c)
    ELSE IF state = "half_open" /\ f > 0 THEN Enter("open", f, s, FALSE)
    ELSE Enter(state, f, s, c)

\* [mutant: an open circuit waits for a success]
CheckStaysOpen(f, s, c) ==
    IF state = "open" /\ c /\ s >= SuccessThreshold THEN Enter("half_open", 0, 0, c)
    ELSE IF state = "closed" /\ f >= FailureThreshold THEN Enter("open", f, 0, FALSE)
    ELSE IF state = "half_open" /\ s >= SuccessThreshold THEN Enter("closed", 0, 0, c)
    ELSE IF state = "half_open" /\ f > 0 THEN Enter("open", f, s, FALSE)
    ELSE Enter(state, f, s, c)

Check(f, s, c) ==
    IF state = "open" /\ c THEN Enter("half_open", 0, 0, c)
    ELSE IF state = "closed" /\ f >= FailureThreshold THEN Enter("open", f, s, FALSE)
    ELSE IF state = "half_open" /\ s >= SuccessThreshold THEN Enter("closed", 0, 0, c)
    ELSE IF state = "half_open" /\ f > 0 THEN Enter("open", f, s, FALSE)
    ELSE Enter(state, f, s, c)

-----------------------------------------------------------------------------
\* The first half of call(): the call is admitted, or CircuitBreakerError.
Admit(p) ==
    /\ pc[p] = "idle"
    /\ Check(failures, successes, cooled)
    /\ IF state' = "open"
       THEN UNCHANGED <<pc, sound>>
       ELSE /\ pc' = [pc EXCEPT ![p] = "running"]
            /\ sound' = IF up THEN sound \cup {p} ELSE sound
    /\ UNCHANGED up

Ends(p) ==
    /\ pc[p] = "running"
    /\ pc' = [pc EXCEPT ![p] = "idle"]
    /\ sound' = sound \ {p}
    /\ UNCHANGED up

\* _on_success; no decision looks at successes beyond SuccessThreshold.
Succeed(p) ==
    /\ Ends(p)
    /\ LET s == IF successes < SuccessThreshold THEN successes + 1 ELSE successes
           f == IF state = "closed" THEN 0 ELSE failures IN
       Check(f, s, cooled)

\* [mutant: the failure does not restart the timeout]
FailKeepsClock(p) ==
    /\ Ends(p) /\ p \notin sound
    /\ Check(failures + 1, successes, cooled)

\* _on_failure
Fail(p) ==
    /\ Ends(p) /\ p \notin sound
    /\ Check(failures + 1, successes, FALSE)

\* CancelledError is no Exception: the call leaves no trace in the counters.
Cancel(p) ==
    /\ Ends(p)
    /\ UNCHANGED counters

\* config.timeout passes without a failure being reported.
Cool ==
    /\ ~cooled
    /\ cooled' = TRUE
    /\ UNCHANGED <<state, failures, successes, pc, up, sound>>

\* The service recovers: calls that begin from now on succeed.
Recover ==
    /\ ~up /\ up' = TRUE
    /\ UNCHANGED <<counters, pc, sound>>

CircuitNext ==
    \/ Cool \/ Recover
    \/ \E p \in Callers : Admit(p) \/ Succeed(p) \/ Fail(p) \/ Cancel(p)

CircuitSpec == CircuitInit /\ [][CircuitNext]_circuitVars

\* Callers keep calling, calls end by themselves, and time passes.
FairCircuitSpec ==
    /\ CircuitSpec /\ WF_circuitVars(Cool)
    /\ \A p \in Callers : WF_circuitVars(Admit(p)) /\ SF_circuitVars(Succeed(p))

-----------------------------------------------------------------------------
CircuitTypeOK ==
    /\ state \in {"closed", "open", "half_open"}
    /\ failures \in Nat /\ successes \in 0..SuccessThreshold /\ cooled \in BOOLEAN
    /\ pc \in [Callers -> {"idle", "running"}]
    /\ up \in BOOLEAN /\ sound \in SUBSET Callers

\* No transition is ever overdue between two calls, late results included: the
\* counters a closed or half-open breaker shows are below its thresholds.
NothingOverdue ==
    /\ state = "closed" => failures < FailureThreshold
    /\ state = "half_open" => failures = 0 /\ successes < SuccessThreshold

\* The circuit closes only by way of half-open, and is half-open only after a
\* timeout without failures: late failures of calls admitted before count.
LegalMoves ==
    [][/\ state = "open" => state' # "closed"
       /\ state = "closed" => state' # "half_open"
       /\ state = "open" /\ state' = "half_open" =>
             cooled /\ ~\E p \in Callers : Fail(p)]_circuitVars

\* Once the service is up the circuit closes for good, even though calls that
\* began before may still fail and reopen it.
Recovers == <>up => <>[](state = "closed")

=============================================================================
