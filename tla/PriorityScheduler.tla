-------------------------- MODULE PriorityScheduler --------------------------
(***************************************************************************)
(* lib/advanced_features.py: PriorityQueue and PriorityScheduler.  Callers   *)
(* submit coroutines and await a future; worker tasks take the requests in   *)
(* the order of their priority, run them and settle the futures.             *)
(***************************************************************************)
EXTENDS Integers, FiniteSets

CONSTANTS
    Requests,     \* requests, each with the caller that awaits its future
    Low,          \* the requests of Priority.LOW, the others being HIGH
    Workers,      \* identities of worker tasks
    NumWorkers,   \* num_workers
    NoRequest,    \* a worker that runs nothing
    MaxSize,      \* max_queue_size
    Resubmit,     \* callers come back with the same request
    MaxStarts,    \* bound: calls of start()
    MaxCancels,   \* bound: callers cancelled
    MaxRaises     \* bound: coroutines that raise CancelledError

ASSUME SchedulerAssumption ==
    /\ Low \subseteq Requests /\ NoRequest \notin Requests /\ IsFiniteSet(Requests)
    /\ NumWorkers \in Nat \ {0} /\ MaxSize \in Nat \ {0} /\ Resubmit \in BOOLEAN
    /\ MaxStarts \in Nat /\ MaxCancels \in Nat /\ MaxRaises \in Nat

VARIABLES
    queue,        \* the requests in _queue
    active,       \* _active_requests
    caller,       \* caller[r]: where submit(r) and the wait for its future are
    future,       \* future[r]
    running,      \* _running
    listed,       \* _workers
    stops,        \* for each stop() under way, the workers it gathers
    worker,       \* where each worker task is
    current,      \* the request each worker runs
    cancelling,   \* workers that stop() has cancelled
    starts, cancels, raises

queueVars  == <<queue, active>>
callVars   == <<caller, future>>
schedVars  == <<running, listed, stops, starts>>
workerVars == <<worker, current, cancelling>>
vars == <<queueVars, callVars, schedVars, workerVars, cancels, raises>>

Alive == {w \in Workers : worker[w] \in {"idle", "run", "pause"}}
Prio(r) == IF r \in Low THEN 3 ELSE 1

Init ==
    /\ queue = {} /\ active = {}
    /\ caller = [r \in Requests |-> "new"] /\ future = [r \in Requests |-> "none"]
    /\ running = FALSE /\ listed = {} /\ stops = {} /\ starts = 0
    /\ worker = [w \in Workers |-> "unborn"]
    /\ current = [w \in Workers |-> NoRequest] /\ cancelling = {}
    /\ cancels = 0 /\ raises = 0

-----------------------------------------------------------------------------
(* submit() and the await of its future                                     *)

Submit(r) ==
    /\ caller[r] = "new" \/ (caller[r] = "back" /\ Resubmit)
    /\ r \notin queue /\ \A w \in Workers : current[w] # r
    /\ caller' = [caller EXCEPT ![r] = "putting"]
    /\ future' = [future EXCEPT ![r] = "pending"]
    /\ UNCHANGED <<queueVars, schedVars, workerVars, cancels, raises>>

\* put() waits for room; nothing is suspended between put and registration.
Put(r) ==
    /\ caller[r] = "putting" /\ Cardinality(queue) < MaxSize
    /\ queue' = queue \cup {r} /\ active' = active \cup {r}
    /\ caller' = [caller EXCEPT ![r] = "waiting"]
    /\ UNCHANGED <<future, schedVars, workerVars, cancels, raises>>

Receive(r) ==
    /\ caller[r] = "waiting" /\ future[r] \in {"result", "exception"}
    /\ caller' = [caller EXCEPT ![r] = "back"]
    /\ UNCHANGED <<queueVars, future, schedVars, workerVars, cancels, raises>>

\* The caller is cancelled: awaiting a future, it cancels that too.
CancelCaller(r) ==
    /\ caller[r] \in {"putting", "waiting"} /\ cancels < MaxCancels
    /\ cancels' = cancels + 1
    /\ caller' = [caller EXCEPT ![r] = "back"]
    /\ future' = [future EXCEPT ![r] = IF @ = "pending" THEN "cancelled" ELSE @]
    /\ UNCHANGED <<queueVars, schedVars, workerVars, raises>>

-----------------------------------------------------------------------------
(* _worker_loop, get_next and process_request                               *)

Remaining(r) == queue \ {r}

\* The heap yields a least priority; ageing changes it after removal only.
Take(w) ==
    /\ worker[w] = "idle" /\ w \notin cancelling
    /\ \E r \in queue :
        /\ \A s \in queue : Prio(r) <= Prio(s)
        /\ queue' = Remaining(r)
        /\ current' = [current EXCEPT ![w] = r]
    /\ worker' = [worker EXCEPT ![w] = "run"]
    /\ UNCHANGED <<active, callVars, schedVars, cancelling, cancels, raises>>

\* The worker has left process_request: its finally clause forgets r.
Leaves(w, next) ==
    /\ active' = active \ {current[w]}
    /\ current' = [current EXCEPT ![w] = NoRequest]
    /\ worker' = [worker EXCEPT ![w] = next]

\* [mutant: a worker whose future refuses the result is lost]
NextTurnFragile(w) ==
    IF ~running \/ future[current[w]] # "pending" THEN "dead" ELSE "idle"

\* After a future that is already cancelled refused the result, the worker
\* pauses; otherwise the loop looks at _running again.
NextTurn(w) ==
    IF future[current[w]] # "pending" THEN "pause"
    ELSE IF running THEN "idle" ELSE "dead"

\* [mutant: what process_request forgets only after a result]
FinishKeepsActive(w) ==
    /\ worker[w] = "run" /\ w \notin cancelling
    /\ \E o \in {"result", "exception"} :
        future' = [future EXCEPT ![current[w]] = IF @ = "pending" THEN o ELSE @]
    /\ current' = [current EXCEPT ![w] = NoRequest]
    /\ worker' = [worker EXCEPT ![w] = NextTurn(w)]
    /\ active' = IF future[current[w]] = "pending" THEN active \ {current[w]} ELSE active
    /\ UNCHANGED <<queue, caller, schedVars, cancelling, cancels, raises>>

\* [mutant: errors are logged, the future is forgotten]
FinishDropsErrors(w) ==
    /\ worker[w] = "run" /\ w \notin cancelling
    /\ \E o \in {"result", "pending"} :
        future' = [future EXCEPT ![current[w]] = IF @ = "pending" THEN o ELSE @]
    /\ Leaves(w, NextTurn(w))
    /\ UNCHANGED <<queue, caller, schedVars, cancelling, cancels, raises>>

Finish(w) ==
    /\ worker[w] = "run" /\ w \notin cancelling
    /\ \E o \in {"result", "exception"} :
        future' = [future EXCEPT ![current[w]] = IF @ = "pending" THEN o ELSE @]
    /\ Leaves(w, NextTurn(w))
    /\ UNCHANGED <<queue, caller, schedVars, cancelling, cancels, raises>>

\* The coroutine raises CancelledError, which ends the worker's loop.
RaiseCancelled(w) ==
    /\ worker[w] = "run" /\ w \notin cancelling /\ raises < MaxRaises
    /\ raises' = raises + 1
    /\ Leaves(w, "dead")
    /\ UNCHANGED <<queue, callVars, schedVars, cancelling, cancels>>

Resume(w) ==
    /\ worker[w] = "pause" /\ w \notin cancelling
    /\ worker' = [worker EXCEPT ![w] = IF running THEN "idle" ELSE "dead"]
    /\ UNCHANGED <<queueVars, callVars, schedVars, current, cancelling, cancels, raises>>

\* The cancellation by stop() reaches the worker, whatever it runs.
Die(w) ==
    /\ w \in cancelling
    /\ Leaves(w, "dead")
    /\ cancelling' = cancelling \ {w}
    /\ UNCHANGED <<queue, callVars, schedVars, cancels, raises>>

-----------------------------------------------------------------------------
(* start() and stop()                                                       *)

Start ==
    /\ ~running /\ starts < MaxStarts
    /\ starts' = starts + 1
    /\ running' = TRUE
    /\ \E born \in SUBSET {w \in Workers : worker[w] = "unborn"} :
        /\ Cardinality(born) = NumWorkers
        /\ listed' = listed \cup born
        /\ worker' = [w \in Workers |-> IF w \in born THEN "idle" ELSE worker[w]]
    /\ UNCHANGED <<queueVars, callVars, stops, current, cancelling, cancels, raises>>

\* Another start() may come while stop() gathers the workers it cancelled.
Stop ==
    /\ running
    /\ running' = FALSE
    /\ cancelling' = cancelling \cup (listed \cap Alive)
    /\ stops' = stops \cup {listed}
    /\ UNCHANGED <<queueVars, callVars, listed, starts, worker, current, cancels, raises>>

Stopped ==
    /\ \E gathered \in stops :
        /\ gathered \cap Alive = {}
        /\ stops' = stops \ {gathered}
    /\ listed' = {}
    /\ UNCHANGED <<queueVars, callVars, running, starts, workerVars, cancels, raises>>

-----------------------------------------------------------------------------
CallStep(r) == Submit(r) \/ Put(r) \/ Receive(r) \/ CancelCaller(r)
WorkStep(w) == Take(w) \/ Finish(w) \/ RaiseCancelled(w) \/ Resume(w) \/ Die(w)
\* What a scheduler does that is never stopped.
ServeNext == Start \/ (\E r \in Requests : CallStep(r)) \/ (\E w \in Workers : WorkStep(w))
Next == ServeNext \/ Stop \/ Stopped

Spec == Init /\ [][Next]_vars

\* The event loop runs what is ready, and coroutines come to an end.
Fairness ==
    /\ \A r \in Requests : SF_vars(Put(r)) /\ WF_vars(Receive(r))
    /\ \A w \in Workers : WF_vars(Take(w)) /\ WF_vars(Finish(w)) /\ WF_vars(Resume(w))

FairServeSpec == Init /\ [][ServeNext]_vars /\ Fairness /\ WF_vars(Start)

-----------------------------------------------------------------------------
TypeOK ==
    /\ queue \in SUBSET Requests /\ active \in SUBSET Requests
    /\ caller \in [Requests -> {"new", "putting", "waiting", "back"}]
    /\ future \in [Requests -> {"none", "pending", "result", "exception", "cancelled"}]
    /\ running \in BOOLEAN /\ listed \in SUBSET Workers /\ stops \in SUBSET SUBSET Workers
    /\ worker \in [Workers -> {"unborn", "idle", "run", "pause", "dead"}]
    /\ current \in [Workers -> Requests \cup {NoRequest}] /\ cancelling \in SUBSET Alive
    /\ starts \in Nat /\ cancels \in Nat /\ raises \in Nat

BeingRun(r) == \E w \in Workers : current[w] = r

\* active_count() counts exactly the requests queued or being run, each once,
\* through cancelled callers, failing coroutines and stopped workers.
ActiveExact ==
    /\ active = queue \cup {r \in Requests : BeingRun(r)}
    /\ \A w \in Workers : current[w] \notin queue
    /\ \A w, x \in Workers : w # x /\ current[w] = current[x] => current[w] = NoRequest

\* The scheduler was not stopped, and no coroutine raised CancelledError.
Undisturbed == raises = 0 /\ starts <= 1 /\ (starts = 1 => running)

\* An undisturbed scheduler keeps all its workers, whatever the requests and
\* their callers do: results for cancelled futures, exceptions, cancellations.
WorkersKept == Undisturbed /\ running => Cardinality(Alive) = NumWorkers

\* With an undisturbed scheduler a caller that waits is going to be served: its
\* future is settled, or its request is still queued or being run.
NothingLost ==
    Undisturbed => \A r \in Requests : caller[r] = "waiting" =>
        future[r] \in {"result", "exception"} \/ r \in queue \/ BeingRun(r)

\* An undisturbed scheduler stays able to serve and goes on serving.
ServiceKept == WorkersKept /\ NothingLost

\* Callers that submit once are all served, with priorities and a full queue.
AllServed == \A r \in Requests : caller[r] = "putting" ~> caller[r] = "back"
=============================================================================
