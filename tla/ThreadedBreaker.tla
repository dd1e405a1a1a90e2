--------------------------- MODULE ThreadedBreaker ---------------------------
(***************************************************************************)
(* lib/error_handling.py: the CircuitBreaker of the synchronous clients.   *)
(* It has no lock: threads read and write its attributes one at a time,    *)
(* and reset() may come between any two of these steps.                    *)
(***************************************************************************)
EXTENDS Integers, FiniteSets

CONSTANTS
    Users,               \* threads that call through the breaker
    Operator,            \* the thread that calls reset()
    FailureLimit,        \* failure_threshold
    SuccessLimit,        \* success_threshold
    MaxFailures          \* bound on the failures

ASSUME UsersAssumption == IsFiniteSet(Users) /\ Operator \notin Users /\ FailureLimit \in Nat

VARIABLES
    circuit,     \* state
    failCount,   \* failure_count
    succCount,   \* success_count
    lastFail,    \* last_failure_time: "none", "recent" or "past" the recovery timeout
    doing,       \* doing[u]: the statement u executes next
    read,        \* read[u]: what u read for the statement under way
    failed,      \* failures reported so far
    raced        \* whether a reset and the report of a failure have overlapped

breakerVars == <<circuit, failCount, succCount, lastFail, doing, read, failed, raced>>

BreakerInit ==
    /\ circuit = "closed" /\ failCount = 0 /\ succCount = 0 /\ lastFail = "none"
    /\ doing = [u \in Users \cup {Operator} |-> "idle"]
    /\ read = [u \in Users |-> 0]
    /\ failed = 0 /\ raced = FALSE

Do(u, statement) == doing' = [doing EXCEPT ![u] = statement]

\* call: the state decides at once, except that an open one looks at the clock.
Enter(u) ==
    /\ doing[u] = "idle"
    /\ Do(u, IF circuit = "open" THEN "clock" ELSE "func")
    /\ UNCHANGED <<circuit, failCount, succCount, lastFail, read, failed, raced>>

\* CircuitBreakerOpenError, or a probe.
Clock(u) ==
    /\ doing[u] = "clock"
    /\ Do(u, IF lastFail = "past" THEN "half" ELSE "idle")
    /\ UNCHANGED <<circuit, failCount, succCount, lastFail, read, failed, raced>>

HalfOpen(u) ==
    /\ doing[u] = "half"
    /\ circuit' = "half_open" /\ Do(u, "zero")
    /\ UNCHANGED <<failCount, succCount, lastFail, read, failed, raced>>

ZeroSuccesses(u) ==
    /\ doing[u] = "zero"
    /\ succCount' = 0 /\ Do(u, "func")
    /\ UNCHANGED <<circuit, failCount, lastFail, read, failed, raced>>

\* func returns or raises; _on_failure first notes the time.
Return(u) ==
    /\ doing[u] = "func"
    /\ Do(u, "success")
    /\ UNCHANGED <<circuit, failCount, succCount, lastFail, read, failed, raced>>

Resetting == doing[Operator] \in {"counts", "time"}

\* [mutant: a failure does not set the time]
RaiseUntimed(u) ==
    /\ doing[u] = "func" /\ failed < MaxFailures
    /\ failed' = failed + 1 /\ Do(u, "failure") /\ raced' = (raced \/ Resetting)
    /\ UNCHANGED <<circuit, failCount, succCount, lastFail, read>>

Raise(u) ==
    /\ doing[u] = "func" /\ failed < MaxFailures
    /\ lastFail' = "recent" /\ failed' = failed + 1 /\ Do(u, "failure") /\ raced' = (raced \/ Resetting)
    /\ UNCHANGED <<circuit, failCount, succCount, read>>

\* The tests of _on_success and _on_failure.
OnSuccess(u) ==
    /\ doing[u] = "success"
    /\ Do(u, CASE circuit = "half_open" -> "succ1"
               [] circuit = "closed" -> "clear"
               [] circuit = "open" -> "idle")
    /\ UNCHANGED <<circuit, failCount, succCount, lastFail, read, failed, raced>>

OnFailure(u) ==
    /\ doing[u] = "failure"
    /\ Do(u, CASE circuit = "half_open" -> "reopen"
               [] circuit = "closed" -> "fail1"
               [] circuit = "open" -> "idle")
    /\ UNCHANGED <<circuit, failCount, succCount, lastFail, read, failed, raced>>

\* success_count += 1 and failure_count += 1 read, then write.
ReadCount(u) ==
    /\ \/ doing[u] = "succ1" /\ read' = [read EXCEPT ![u] = succCount] /\ Do(u, "succ2")
       \/ doing[u] = "fail1" /\ read' = [read EXCEPT ![u] = failCount] /\ Do(u, "fail2")
    /\ UNCHANGED <<circuit, failCount, succCount, lastFail, failed, raced>>

WriteCount(u) ==
    /\ \/ doing[u] = "succ2" /\ succCount' = read[u] + 1 /\ Do(u, "succ3") /\ UNCHANGED failCount
       \/ doing[u] = "fail2" /\ failCount' = read[u] + 1 /\ Do(u, "fail3") /\ UNCHANGED succCount
    /\ UNCHANGED <<circuit, lastFail, read, failed, raced>>

TestCount(u) ==
    /\ \/ doing[u] = "succ3" /\ Do(u, IF succCount >= SuccessLimit THEN "close" ELSE "idle")
       \/ doing[u] = "fail3" /\ Do(u, IF failCount >= FailureLimit THEN "open" ELSE "idle")
    /\ UNCHANGED <<circuit, failCount, succCount, lastFail, read, failed, raced>>

\* What follows, one assignment at a time.
Assign(u) ==
    /\ \/ doing[u] = "close" /\ circuit' = "closed" /\ Do(u, "close2") /\ UNCHANGED <<failCount, succCount>>
       \/ doing[u] = "close2" /\ failCount' = 0 /\ Do(u, "reclear") /\ UNCHANGED <<circuit, succCount>>
       \/ doing[u] = "clear" /\ failCount' = 0 /\ Do(u, "idle") /\ UNCHANGED <<circuit, succCount>>
       \/ doing[u] = "open" /\ circuit' = "open" /\ Do(u, "idle") /\ UNCHANGED <<failCount, succCount>>
       \/ doing[u] = "reopen" /\ circuit' = "open" /\ Do(u, "reclear") /\ UNCHANGED <<failCount, succCount>>
       \/ doing[u] = "reclear" /\ succCount' = 0 /\ Do(u, "idle") /\ UNCHANGED <<circuit, failCount>>
    /\ UNCHANGED <<lastFail, read, failed, raced>>

Reporting == {"failure", "fail1", "fail2", "fail3", "open", "reopen"}

\* reset(), which leaves the time to the end.
Reset ==
    /\ \/ doing[Operator] = "idle" /\ circuit' = "closed" /\ Do(Operator, "counts")
          /\ raced' = (raced \/ \E u \in Users : doing[u] \in Reporting)
          /\ UNCHANGED <<failCount, succCount, lastFail>>
       \/ doing[Operator] = "counts" /\ failCount' = 0 /\ succCount' = 0 /\ Do(Operator, "time")
          /\ UNCHANGED <<circuit, lastFail, raced>>
       \/ doing[Operator] = "time" /\ lastFail' = "none" /\ Do(Operator, "idle")
          /\ UNCHANGED <<circuit, failCount, succCount, raced>>
    /\ UNCHANGED <<read, failed>>

Elapse ==
    /\ lastFail = "recent" /\ lastFail' = "past"
    /\ UNCHANGED <<circuit, failCount, succCount, doing, read, failed, raced>>

BreakerNext ==
    \/ \E u \in Users : \/ Enter(u) \/ Clock(u) \/ HalfOpen(u) \/ ZeroSuccesses(u) \/ Return(u)
                        \/ Raise(u) \/ OnSuccess(u) \/ OnFailure(u) \/ ReadCount(u)
                        \/ WriteCount(u) \/ TestCount(u) \/ Assign(u)
    \/ Reset \/ Elapse

BreakerSpec == BreakerInit /\ [][BreakerNext]_breakerVars

-----------------------------------------------------------------------------
(* Properties. *)

\* An open circuit knows when it opened, and so lets a probe through after the
\* recovery timeout; only a reset that overlaps the report of a failure can leave it
\* open without a time, which rejects every call until the next reset.  Lost
\* increments never open it early: as many failures as the threshold were reported.
OpenCanRecover ==
    circuit = "open" => /\ lastFail = "none" => raced
                        /\ failed >= FailureLimit
==============================================================================
