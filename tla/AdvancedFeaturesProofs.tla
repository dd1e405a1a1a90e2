----------------------- MODULE AdvancedFeaturesProofs -----------------------
(***************************************************************************)
(* The two classes of lib/advanced_features.py.  The scheduler: for any     *)
(* number of requests and workers, _active_requests is exactly what is      *)
(* queued or being run.  ActiveExact is inductive once it is known which    *)
(* workers run something.  The breaker: for any number of callers and any   *)
(* thresholds it leaves no transition overdue and moves only as documented. *)
(***************************************************************************)
EXTENDS PriorityScheduler, CircuitBreaker, TLAPS

-----------------------------------------------------------------------------
(* PriorityScheduler *)

RunTypes ==
    /\ queue \in SUBSET Requests
    /\ current \in [Workers -> Requests \cup {NoRequest}]
    /\ worker \in [Workers -> {"unborn", "idle", "run", "pause", "dead"}]
    /\ \A w \in Workers : worker[w] = "run" <=> current[w] # NoRequest

\* While put() waits for room the request is nowhere else.
PutsFresh ==
    \A r \in Requests : caller[r] = "putting" =>
        r \notin queue /\ \A w \in Workers : current[w] # r

SchedInv == RunTypes /\ PutsFresh /\ ActiveExact

LEMMA SchedInit == ASSUME SchedulerAssumption, Init PROVE SchedInv
BY DEF SchedulerAssumption, Init, SchedInv, RunTypes, PutsFresh, ActiveExact, BeingRun

\* What does not touch the queue or the workers changes nothing.
LEMMA SchedFrame ==
    ASSUME SchedInv, UNCHANGED <<queue, active, current, worker>>,
           \A r \in Requests : caller'[r] = "putting" => caller[r] = "putting"
    PROVE  SchedInv'
BY DEF SchedInv, RunTypes, PutsFresh, ActiveExact, BeingRun

\* submit(): a request is put only when it is neither queued nor run.
LEMMA SchedCall ==
    ASSUME SchedulerAssumption, SchedInv, NEW r \in Requests, CallStep(r),
           caller \in [Requests -> {"new", "putting", "waiting", "back"}]
    PROVE  SchedInv'
<1> USE DEF SchedInv, workerVars, queueVars
<1>1. CASE Submit(r)
  <2>1. UNCHANGED <<queue, active, current, worker>>
    BY <1>1 DEF Submit
  <2>2. PutsFresh'
    BY <1>1, <2>1 DEF Submit, PutsFresh
  <2>3. QED BY <2>1, <2>2 DEF RunTypes, ActiveExact, BeingRun
<1>2. CASE Put(r)
  <2>1. /\ queue' = queue \cup {r} /\ active' = active \cup {r}
        /\ UNCHANGED <<current, worker>> /\ caller'[r] = "waiting"
        /\ \A q \in Requests \ {r} : caller'[q] = caller[q]
        /\ r \notin queue /\ \A w \in Workers : current[w] # r
    BY <1>2 DEF Put, PutsFresh
  <2>2. RunTypes' /\ PutsFresh'
    BY <2>1 DEF RunTypes, PutsFresh
  <2>3. ActiveExact'
    BY <2>1 DEF ActiveExact, BeingRun
  <2>4. QED BY <2>2, <2>3
<1>3. CASE Receive(r) \/ CancelCaller(r)
  <2>1. /\ UNCHANGED <<queue, active, current, worker>>
        /\ \A q \in Requests : caller'[q] = "putting" => caller[q] = "putting"
    BY <1>3 DEF Receive, CancelCaller
  <2>2. QED BY <2>1, SchedFrame
<1>4. QED BY <1>1, <1>2, <1>3 DEF CallStep

LEMMA SchedTake ==
    ASSUME SchedulerAssumption, SchedInv, NEW w \in Workers, Take(w) PROVE SchedInv'
<1>1. PICK r \in queue : /\ queue' = queue \ {r}
                         /\ current' = [current EXCEPT ![w] = r]
  BY DEF Take, Remaining
<1>2. /\ worker[w] = "idle" /\ worker' = [worker EXCEPT ![w] = "run"] /\ active' = active
      /\ current[w] = NoRequest /\ r \in Requests /\ r # NoRequest /\ caller' = caller
  BY DEF Take, SchedInv, RunTypes, SchedulerAssumption, callVars
<1>3. /\ current'[w] = r /\ worker'[w] = "run"
      /\ \A x \in Workers \ {w} : current'[x] = current[x] /\ worker'[x] = worker[x]
                                  /\ current[x] # r
  BY <1>1, <1>2 DEF SchedInv, RunTypes, ActiveExact
<1>4. RunTypes'
  BY <1>1, <1>2, <1>3 DEF SchedInv, RunTypes
<1>5. ActiveExact'
  <2>1. active' = queue' \cup {q \in Requests : BeingRun(q)'}
    BY <1>1, <1>2, <1>3 DEF SchedInv, ActiveExact, BeingRun
  <2>2. QED BY <1>1, <1>2, <1>3, <2>1 DEF SchedInv, ActiveExact
<1>6. PutsFresh'
  BY <1>1, <1>2, <1>3 DEF SchedInv, PutsFresh
<1>7. QED BY <1>4, <1>5, <1>6 DEF SchedInv

\* However a worker leaves process_request, the request is forgotten with it.
LEMMA SchedLeaves ==
    ASSUME SchedulerAssumption, SchedInv, NEW w \in Workers,
           NEW next \in {"idle", "pause", "dead"}, Leaves(w, next), queue' = queue, caller' = caller
    PROVE  SchedInv'
<1>1. /\ current'[w] = NoRequest /\ worker'[w] = next /\ active' = active \ {current[w]}
      /\ \A x \in Workers \ {w} : current'[x] = current[x] /\ worker'[x] = worker[x]
  BY DEF Leaves, SchedInv, RunTypes
<1>2. RunTypes'
  BY <1>1 DEF Leaves, SchedInv, RunTypes
<1>3. ActiveExact'
  <2>1. \A r \in Requests : BeingRun(r)' <=> BeingRun(r) /\ r # current[w]
    BY <1>1 DEF BeingRun, SchedInv, ActiveExact, SchedulerAssumption
  <2>2. active' = queue' \cup {r \in Requests : BeingRun(r)'}
    BY <1>1, <2>1 DEF SchedInv, ActiveExact
  <2>3. \A x \in Workers : current'[x] \notin queue'
    BY <1>1 DEF SchedInv, ActiveExact, RunTypes, SchedulerAssumption
  <2>4. \A x, y \in Workers : x # y /\ current'[x] = current'[y] => current'[x] = NoRequest
    BY <1>1 DEF SchedInv, ActiveExact
  <2>5. QED BY <2>2, <2>3, <2>4 DEF ActiveExact
<1>4. PutsFresh'
  BY <1>1 DEF SchedInv, PutsFresh, SchedulerAssumption
<1>5. QED BY <1>2, <1>3, <1>4 DEF SchedInv

-----------------------------------------------------------------------------
LEMMA CallersTyped ==
    ASSUME caller \in [Requests -> {"new", "putting", "waiting", "back"}], [Next]_vars
    PROVE  caller' \in [Requests -> {"new", "putting", "waiting", "back"}]
<1>1. ASSUME NEW r \in Requests, CallStep(r)
      PROVE  caller' \in [Requests -> {"new", "putting", "waiting", "back"}]
  BY <1>1 DEF CallStep, Submit, Put, Receive, CancelCaller
<1>2. ASSUME NEW w \in Workers, WorkStep(w) PROVE caller' = caller
  BY <1>2 DEF WorkStep, Take, Finish, RaiseCancelled, Resume, Die, callVars
<1>3. CASE Start \/ Stop \/ Stopped \/ UNCHANGED vars
  BY <1>3 DEF Start, Stop, Stopped, vars, callVars
<1>4. QED BY <1>1, <1>2, <1>3 DEF Next, ServeNext

LEMMA SchedWork ==
    ASSUME SchedulerAssumption, SchedInv, NEW w \in Workers, WorkStep(w) PROVE SchedInv'
<1>1. CASE Take(w)
  BY <1>1, SchedTake
<1>2. CASE Finish(w)
  <2>1. NextTurn(w) \in {"idle", "pause", "dead"}
    BY DEF NextTurn
  <2>2. QED BY <1>2, <2>1, SchedLeaves DEF Finish
<1>3. CASE RaiseCancelled(w) \/ Die(w)
  BY <1>3, SchedLeaves DEF RaiseCancelled, Die, callVars
<1>4. CASE Resume(w)
  <2>1. /\ worker[w] = "pause" /\ UNCHANGED <<queue, active, caller, current>>
        /\ worker' = [worker EXCEPT ![w] = IF running THEN "idle" ELSE "dead"]
    BY <1>4 DEF Resume, queueVars, callVars
  <2>2. RunTypes'
    BY <2>1 DEF SchedInv, RunTypes
  <2>3. QED BY <2>1, <2>2 DEF SchedInv, PutsFresh, ActiveExact, BeingRun
<1>5. QED BY <1>1, <1>2, <1>3, <1>4 DEF WorkStep

LEMMA SchedControl ==
    ASSUME SchedInv, Start \/ Stop \/ Stopped \/ UNCHANGED vars PROVE SchedInv'
<1>1. CASE Start
  <2>1. PICK born \in SUBSET {w \in Workers : worker[w] = "unborn"} :
          worker' = [w \in Workers |-> IF w \in born THEN "idle" ELSE worker[w]]
    BY <1>1 DEF Start
  <2>2. UNCHANGED <<queue, active, caller, current>>
    BY <1>1 DEF Start, queueVars, callVars
  <2>3. RunTypes'
    BY <2>1, <2>2 DEF SchedInv, RunTypes
  <2>4. QED BY <2>2, <2>3 DEF SchedInv, PutsFresh, ActiveExact, BeingRun
<1>2. CASE Stop \/ Stopped \/ UNCHANGED vars
  <2>1. UNCHANGED <<queue, active, caller, current, worker>>
    BY <1>2 DEF Stop, Stopped, vars, queueVars, callVars, workerVars
  <2>2. QED BY <2>1, SchedFrame
<1>3. QED BY <1>1, <1>2

\* active_count() counts exactly what is queued or run, and nothing runs twice,
\* for any number of requests, workers, cancellations, starts and stops.
THEOREM SchedulerActiveExact == Spec => []ActiveExact
<1> DEFINE Typed == caller \in [Requests -> {"new", "putting", "waiting", "back"}]
<1>1. Init => SchedInv /\ Typed
  BY SchedInit, SchedulerAssumption DEF Init
<1>2. SchedInv /\ Typed /\ [Next]_vars => (SchedInv /\ Typed)'
  <2> SUFFICES ASSUME SchedInv, Typed, [Next]_vars PROVE SchedInv' /\ Typed'
    OBVIOUS
  <2>1. Typed'
    BY CallersTyped
  <2>2. ASSUME NEW r \in Requests, CallStep(r) PROVE SchedInv'
    BY <2>2, SchedCall, SchedulerAssumption
  <2>3. ASSUME NEW w \in Workers, WorkStep(w) PROVE SchedInv'
    BY <2>3, SchedWork, SchedulerAssumption
  <2>4. ASSUME Start \/ Stop \/ Stopped \/ UNCHANGED vars PROVE SchedInv'
    BY <2>4, SchedControl
  <2>5. SchedInv'
    BY <2>2, <2>3, <2>4 DEF Next, ServeNext
  <2>6. QED BY <2>1, <2>5
<1>3. SchedInv => ActiveExact
  BY DEF SchedInv
<1>4. QED BY <1>1, <1>2, <1>3, PTL DEF Spec

-----------------------------------------------------------------------------
(* A scheduler that nothing disturbed has had one start and no stop, so no   *)
(* worker is cancelled and none finds _running false.                        *)

WorkerTypes ==
    /\ worker \in [Workers -> {"unborn", "idle", "run", "pause", "dead"}]
    /\ cancelling \subseteq Workers /\ running \in BOOLEAN
    /\ starts \in Nat /\ raises \in Nat
    /\ future \in [Requests -> {"none", "pending", "result", "exception", "cancelled"}]
    /\ caller \in [Requests -> {"new", "putting", "waiting", "back"}]

\* Before the first start there are no workers.
Unstarted == starts = 0 => ~running /\ cancelling = {} /\ \A w \in Workers : worker[w] = "unborn"

Steady == Undisturbed /\ running => cancelling = {} /\ Cardinality(Alive) = NumWorkers

\* Nobody waits for a future that is cancelled.
Awaited == \A r \in Requests : caller[r] \in {"putting", "waiting"} =>
               future[r] \in {"pending", "result", "exception"}

ServeInv == SchedInv /\ WorkerTypes /\ Unstarted /\ Steady /\ Awaited /\ NothingLost

LEMMA ServeStarts == ASSUME SchedulerAssumption, Init PROVE ServeInv
<1>1. SchedInv
  BY SchedInit
<1>2. WorkerTypes /\ Unstarted /\ Steady /\ Awaited /\ NothingLost
  BY DEF Init, WorkerTypes, Unstarted, Steady, Awaited, NothingLost
<1>3. QED BY <1>1, <1>2 DEF ServeInv

LEMMA ServeCall ==
    ASSUME SchedulerAssumption, ServeInv, NEW r \in Requests, CallStep(r)
    PROVE  ServeInv'
<1>1. SchedInv'
  BY SchedCall DEF ServeInv, WorkerTypes
<1>2. /\ UNCHANGED <<running, starts, raises, worker, cancelling, current>>
      /\ \A q \in Requests \ {r} : caller'[q] = caller[q] /\ future'[q] = future[q]
      /\ \A q \in Requests : q \in queue => q \in queue'
  BY DEF CallStep, Submit, Put, Receive, CancelCaller, queueVars, schedVars, workerVars, ServeInv,
         WorkerTypes
<1>3. WorkerTypes'
  BY <1>2 DEF CallStep, Submit, Put, Receive, CancelCaller, ServeInv, WorkerTypes
<1>4. Unstarted' /\ Steady'
  BY <1>2 DEF ServeInv, Unstarted, Steady, Undisturbed, Alive
<1>5. caller'[r] \in {"putting", "waiting"} => future'[r] \in {"pending", "result", "exception"}
  BY <1>3 DEF CallStep, Submit, Put, Receive, CancelCaller, ServeInv, WorkerTypes, Awaited
<1>6. Awaited'
  BY <1>2, <1>5 DEF ServeInv, Awaited
<1>7. caller'[r] = "waiting" => r \in queue'
  BY DEF CallStep, Submit, Put, Receive, CancelCaller, ServeInv, WorkerTypes
<1>8. NothingLost'
  BY <1>2, <1>7 DEF ServeInv, NothingLost, Undisturbed, BeingRun
<1>9. QED BY <1>1, <1>3, <1>4, <1>6, <1>8 DEF ServeInv

LEMMA ServeTake ==
    ASSUME SchedulerAssumption, ServeInv, NEW w \in Workers, Take(w)
    PROVE  ServeInv'
<1>1. SchedInv'
  BY SchedTake DEF ServeInv
<1>2. PICK r \in queue : /\ queue' = queue \ {r}
                         /\ current' = [current EXCEPT ![w] = r]
  BY DEF Take, Remaining
<1>3. /\ UNCHANGED <<running, starts, raises, cancelling, caller, future>>
      /\ worker[w] = "idle" /\ worker' = [worker EXCEPT ![w] = "run"] /\ current[w] = NoRequest
  BY DEF Take, schedVars, callVars, ServeInv, SchedInv, RunTypes
<1>4. WorkerTypes' /\ Unstarted' /\ Awaited'
  BY <1>3 DEF ServeInv, WorkerTypes, Unstarted, Awaited
<1>5. Alive' = Alive
  BY <1>3 DEF Alive, ServeInv, WorkerTypes
<1>6. Steady'
  BY <1>3, <1>5 DEF ServeInv, Steady, Undisturbed
<1>7. ASSUME NEW q \in Requests, q \in queue \/ BeingRun(q)
      PROVE  q \in queue' \/ BeingRun(q)'
  <2>1. \A x \in Workers : current'[x] = IF x = w THEN r ELSE current[x]
    BY <1>2 DEF ServeInv, SchedInv, RunTypes
  <2>2. QED BY <1>2, <1>3, <1>7, <2>1 DEF BeingRun, SchedulerAssumption
<1>8. NothingLost'
  BY <1>3, <1>7 DEF ServeInv, NothingLost, Undisturbed
<1>9. QED BY <1>1, <1>4, <1>6, <1>8 DEF ServeInv

LEMMA ServeFinish ==
    ASSUME SchedulerAssumption, ServeInv, NEW w \in Workers, Finish(w)
    PROVE  ServeInv'
<1>1. SchedInv'
  BY SchedWork DEF ServeInv, WorkStep
<1> DEFINE r == current[w]
<1>2. /\ worker[w] = "run" /\ r \in Requests /\ r # NoRequest
      /\ UNCHANGED <<running, starts, raises, cancelling, caller, queue>>
      /\ current' = [current EXCEPT ![w] = NoRequest]
      /\ worker' = [worker EXCEPT ![w] = NextTurn(w)]
  BY DEF Finish, Leaves, schedVars, ServeInv, SchedInv, RunTypes
<1>3. PICK o \in {"result", "exception"} :
         future' = [future EXCEPT ![r] = IF @ = "pending" THEN o ELSE @]
  BY DEF Finish
<1>4. /\ future'[r] = IF future[r] = "pending" THEN o ELSE future[r]
      /\ \A q \in Requests \ {r} : future'[q] = future[q]
  BY <1>2, <1>3 DEF ServeInv, WorkerTypes
<1>5. NextTurn(w) \in {"idle", "pause", "dead"} /\ (running => NextTurn(w) # "dead")
  BY DEF NextTurn
<1>6. WorkerTypes'
  BY <1>2, <1>3, <1>5 DEF ServeInv, WorkerTypes
<1>7. Unstarted'
  BY <1>2 DEF ServeInv, Unstarted
<1>8. Awaited'
  BY <1>2, <1>4 DEF ServeInv, Awaited
<1>9. Steady'
  <2>1. running => Alive' = Alive
    BY <1>2, <1>5 DEF Alive, ServeInv, WorkerTypes
  <2>2. QED BY <1>2, <2>1 DEF ServeInv, Steady, Undisturbed
<1>10. NothingLost'
  <2>1. ASSUME NEW q \in Requests, q # r, BeingRun(q) PROVE BeingRun(q)'
    BY <1>2, <2>1 DEF BeingRun, ServeInv, SchedInv, RunTypes
  <2>2. caller[r] = "waiting" => future'[r] \in {"result", "exception"}
    BY <1>2, <1>4 DEF ServeInv, Awaited
  <2>3. QED BY <1>2, <1>4, <2>1, <2>2 DEF ServeInv, NothingLost, Undisturbed
<1>11. QED BY <1>1, <1>6, <1>7, <1>8, <1>9, <1>10 DEF ServeInv

\* What a cancellation takes away, it takes from a scheduler that was disturbed.
LEMMA ServeRest ==
    ASSUME SchedulerAssumption, ServeInv, NEW w \in Workers, RaiseCancelled(w) \/ Resume(w) \/ Die(w)
    PROVE  ServeInv'
<1>1. SchedInv'
  BY SchedWork DEF ServeInv, WorkStep
<1>2. /\ UNCHANGED <<running, starts, caller, future, queue>>
      /\ cancelling' \subseteq cancelling
      /\ \E next \in {"idle", "dead"} : worker' = [worker EXCEPT ![w] = next]
      /\ raises' \in {raises, raises + 1}
  BY DEF RaiseCancelled, Resume, Die, Leaves, schedVars, callVars, queueVars
<1>3. worker[w] # "unborn" \/ w \in cancelling
  BY DEF RaiseCancelled, Resume, Die
<1>4. WorkerTypes' /\ Awaited'
  BY <1>2 DEF ServeInv, WorkerTypes, Awaited
<1>5. starts # 0
  BY <1>3 DEF ServeInv, Unstarted
<1>6. Unstarted'
  BY <1>2, <1>5 DEF Unstarted
<1>7. ASSUME Undisturbed'
      PROVE  Resume(w) /\ Undisturbed /\ running /\ UNCHANGED <<cancelling, current>>
  <2>1. Undisturbed /\ running /\ raises' = raises
    BY <1>2, <1>5, <1>7 DEF Undisturbed, ServeInv, WorkerTypes
  <2>2. cancelling = {}
    BY <2>1 DEF ServeInv, Steady
  <2>3. Resume(w)
    BY <2>1, <2>2 DEF RaiseCancelled, Die, ServeInv, WorkerTypes
  <2>4. QED BY <2>1, <2>3 DEF Resume
<1>8. Steady'
  <2>1. ASSUME Undisturbed' PROVE Alive' = Alive
    BY <1>7, <2>1 DEF Resume, Alive, ServeInv, WorkerTypes
  <2>2. QED BY <1>2, <1>7, <2>1 DEF Steady, ServeInv
<1>9. NothingLost'
  BY <1>2, <1>7 DEF ServeInv, NothingLost, BeingRun
<1>10. QED BY <1>1, <1>4, <1>6, <1>8, <1>9 DEF ServeInv

LEMMA ServeControl ==
    ASSUME SchedulerAssumption, ServeInv, Start \/ Stop \/ Stopped \/ UNCHANGED vars
    PROVE  ServeInv'
<1>1. SchedInv'
  BY SchedControl DEF ServeInv
<1>2. UNCHANGED <<queue, caller, future, current, raises>>
  BY DEF Start, Stop, Stopped, vars, queueVars, callVars, workerVars
<1>3. CASE Start
  <2>1. PICK born \in SUBSET {w \in Workers : worker[w] = "unborn"} :
          /\ Cardinality(born) = NumWorkers
          /\ worker' = [w \in Workers |-> IF w \in born THEN "idle" ELSE worker[w]]
    BY <1>3 DEF Start
  <2>2. starts' = starts + 1 /\ running' = TRUE /\ cancelling' = cancelling
    BY <1>3 DEF Start
  <2>3. WorkerTypes' /\ Unstarted' /\ Awaited'
    BY <1>2, <2>1, <2>2 DEF ServeInv, WorkerTypes, Unstarted, Awaited
  <2>4. Undisturbed' => starts = 0 /\ Undisturbed
    BY <1>2, <2>2 DEF Undisturbed, ServeInv, WorkerTypes
  <2>5. starts = 0 => Alive' = born /\ cancelling' = {}
    BY <2>1, <2>2 DEF ServeInv, Unstarted, Alive
  <2>6. Steady'
    BY <2>1, <2>4, <2>5 DEF Steady
  <2>7. NothingLost'
    BY <1>2, <2>4 DEF ServeInv, NothingLost, BeingRun
  <2>8. QED BY <1>1, <2>3, <2>6, <2>7 DEF ServeInv
<1>4. CASE Stop
  <2>1. running /\ running' = FALSE /\ starts' = starts /\ worker' = worker
        /\ cancelling' = cancelling \cup (listed \cap Alive)
    BY <1>4 DEF Stop
  <2>2. WorkerTypes' /\ Awaited'
    BY <1>2, <2>1 DEF ServeInv, WorkerTypes, Awaited, Alive
  <2>3. starts # 0
    BY <2>1 DEF ServeInv, Unstarted
  <2>4. ~Undisturbed'
    BY <2>1, <2>3 DEF Undisturbed, ServeInv, WorkerTypes
  <2>5. QED BY <1>1, <2>1, <2>2, <2>3, <2>4 DEF ServeInv, Unstarted, Steady, NothingLost
<1>5. CASE Stopped \/ UNCHANGED vars
  <2>1. UNCHANGED <<running, starts, worker, cancelling>>
    BY <1>5 DEF Stopped, vars, schedVars, workerVars
  <2>2. QED
    BY <1>1, <1>2, <2>1
    DEF ServeInv, WorkerTypes, Unstarted, Steady, Awaited, NothingLost, Undisturbed, Alive, BeingRun
<1>6. QED BY <1>3, <1>4, <1>5

LEMMA ServeSteps == ASSUME SchedulerAssumption PROVE ServeInv /\ [Next]_vars => ServeInv'
<1> SUFFICES ASSUME ServeInv, [Next]_vars PROVE ServeInv'
  OBVIOUS
<1>1. ASSUME NEW r \in Requests, CallStep(r) PROVE ServeInv'
  BY <1>1, ServeCall
<1>2. ASSUME NEW w \in Workers, WorkStep(w) PROVE ServeInv'
  BY <1>2, ServeTake, ServeFinish, ServeRest DEF WorkStep
<1>3. ASSUME Start \/ Stop \/ Stopped \/ UNCHANGED vars PROVE ServeInv'
  BY <1>3, ServeControl
<1>4. QED BY <1>1, <1>2, <1>3 DEF Next, ServeNext

\* A scheduler that was started once and not stopped, and whose coroutines raise no
\* CancelledError, keeps its workers whatever the results and the callers do, and
\* no caller waits for a future that nobody is going to settle, for any number of
\* requests and workers.
THEOREM SchedulerServiceKept == Spec => []ServiceKept
<1>1. Init => ServeInv
  BY ServeStarts, SchedulerAssumption
<1>2. ServeInv /\ [Next]_vars => ServeInv'
  BY ServeSteps, SchedulerAssumption
<1>3. ServeInv => ServiceKept
  BY DEF ServeInv, Steady, WorkersKept, ServiceKept
<1>4. QED BY <1>1, <1>2, <1>3, PTL DEF Spec

-----------------------------------------------------------------------------
(* CircuitBreaker *)

\* What the decisions read, typed.
CountersOK ==
    /\ state \in {"closed", "open", "half_open"}
    /\ failures \in Nat /\ successes \in 0..SuccessThreshold /\ cooled \in BOOLEAN

BreakerInv == CircuitTypeOK /\ NothingOverdue

\* _check_state_transition leaves nothing overdue, if at most one count moved
\* since it ran last; it never skips a state.
LEMMA CheckSettles ==
    ASSUME BreakerAssumption, NEW f \in Nat, NEW s \in 0..SuccessThreshold,
           NEW c \in BOOLEAN, state \in {"closed", "open", "half_open"}, Check(f, s, c)
    PROVE  /\ CountersOK' /\ NothingOverdue'
           /\ state = "open" => state' \in {"open", "half_open"}
           /\ state = "closed" => state' \in {"closed", "open"}
           /\ state = "open" /\ state' = "half_open" => c
<1> USE DEF BreakerAssumption, CountersOK, NothingOverdue, Check, Enter
<1>1. CASE state = "open"
  BY <1>1
<1>2. CASE state = "closed"
  <2>1. CASE f >= FailureThreshold
    BY <1>2, <2>1
  <2>2. CASE ~(f >= FailureThreshold)
    <3>1. UNCHANGED state /\ failures' = f /\ successes' = s /\ cooled' = c
      BY <1>2, <2>2
    <3>2. QED BY <1>2, <2>2, <3>1
  <2>3. QED BY <2>1, <2>2
<1>3. CASE state = "half_open"
  <2>1. CASE s >= SuccessThreshold
    BY <1>3, <2>1
  <2>2. CASE ~(s >= SuccessThreshold) /\ f > 0
    BY <1>3, <2>2
  <2>3. CASE ~(s >= SuccessThreshold) /\ ~(f > 0)
    <3>1. UNCHANGED state /\ failures' = f /\ successes' = s /\ cooled' = c
      BY <1>3, <2>3
    <3>2. QED BY <1>3, <2>3, <3>1
  <2>4. QED BY <2>1, <2>2, <2>3
<1>4. QED BY <1>1, <1>2, <1>3

LEMMA StepKeepsInv ==
    ASSUME BreakerAssumption, BreakerInv, [CircuitNext]_circuitVars
    PROVE  /\ BreakerInv'
           /\ state = "open" => state' \in {"open", "half_open"}
           /\ state = "closed" => state' \in {"closed", "open"}
           /\ state = "open" /\ state' = "half_open" => cooled /\ ~\E p \in Callers : Fail(p)
<1> DEFINE Moves ==
        /\ state = "open" => state' \in {"open", "half_open"}
        /\ state = "closed" => state' \in {"closed", "open"}
        /\ state = "open" /\ state' = "half_open" => cooled
<1>1. CircuitTypeOK /\ NothingOverdue /\ state \in {"closed", "open", "half_open"}
      /\ failures \in Nat /\ successes \in 0..SuccessThreshold /\ cooled \in BOOLEAN
  BY DEF BreakerInv, CircuitTypeOK
<1>2. ASSUME NEW p \in Callers, Ends(p)
      PROVE  /\ pc' \in [Callers -> {"idle", "running"}] /\ up' \in BOOLEAN
             /\ sound' \in SUBSET Callers
  BY <1>1, <1>2 DEF Ends, CircuitTypeOK
<1>3. ASSUME NEW p \in Callers, Fail(p)
      PROVE  BreakerInv' /\ Moves /\ ~(state = "open" /\ state' = "half_open")
  <2>1. Ends(p) /\ Check(failures + 1, successes, FALSE)
    BY <1>3 DEF Fail
  <2> failures + 1 \in Nat /\ FALSE \in BOOLEAN
    BY <1>1
  <2> HIDE DEF Moves
  <2>2. /\ CountersOK' /\ NothingOverdue' /\ Moves
        /\ ~(state = "open" /\ state' = "half_open")
    BY <1>1, <2>1, CheckSettles DEF Moves
  <2>3. QED BY <1>2, <2>1, <2>2 DEF BreakerInv, CircuitTypeOK, CountersOK
<1>4. ASSUME NEW p \in Callers, Succeed(p) PROVE BreakerInv' /\ Moves
  <2>1. PICK f \in Nat, s \in 0..SuccessThreshold : Check(f, s, cooled)
    <3>1. (IF state = "closed" THEN 0 ELSE failures) \in Nat
      BY <1>1
    <3>2. (IF successes < SuccessThreshold THEN successes + 1 ELSE successes)
             \in 0..SuccessThreshold
      BY <1>1 DEF BreakerAssumption
    <3>3. QED BY <1>4, <3>1, <3>2 DEF Succeed
  <2>2. CountersOK' /\ NothingOverdue' /\ Moves
    BY <1>1, <2>1, CheckSettles
  <2>3. Ends(p)
    BY <1>4 DEF Succeed
  <2>4. QED BY <1>2, <2>2, <2>3 DEF BreakerInv, CircuitTypeOK, CountersOK
<1>5. ASSUME NEW p \in Callers, Admit(p) PROVE BreakerInv' /\ Moves
  <2>1. CountersOK' /\ NothingOverdue' /\ Moves
    BY <1>1, <1>5, CheckSettles DEF Admit
  <2>2. /\ pc' \in [Callers -> {"idle", "running"}] /\ up' \in BOOLEAN
        /\ sound' \in SUBSET Callers
    BY <1>1, <1>5 DEF Admit, CircuitTypeOK
  <2>3. QED BY <2>1, <2>2 DEF BreakerInv, CircuitTypeOK, CountersOK
<1>6. ASSUME NEW p \in Callers, Cancel(p) PROVE BreakerInv' /\ Moves
  <2>1. Ends(p) /\ UNCHANGED counters
    BY <1>6 DEF Cancel
  <2>2. QED BY <1>1, <1>2, <2>1 DEF BreakerInv, CircuitTypeOK, NothingOverdue, counters
<1>7. CASE Cool
  BY <1>1, <1>7 DEF Cool, BreakerInv, CircuitTypeOK, NothingOverdue
<1>8. CASE Recover \/ UNCHANGED circuitVars
  BY <1>1, <1>8 DEF Recover, circuitVars, counters, BreakerInv, CircuitTypeOK, NothingOverdue
<1>9. BreakerInv' /\ Moves
  BY <1>3, <1>4, <1>5, <1>6, <1>7, <1>8 DEF CircuitNext
<1>10. QED BY <1>3, <1>9

LEMMA BreakerInvInit == ASSUME BreakerAssumption PROVE CircuitInit => BreakerInv
<1> SUFFICES ASSUME CircuitInit PROVE BreakerInv
  OBVIOUS
<1>1. CircuitTypeOK
  <2>1. pc \in [Callers -> {"idle", "running"}]
    BY DEF CircuitInit
  <2>2. successes \in 0..SuccessThreshold
    BY DEF CircuitInit, BreakerAssumption
  <2>3. QED BY <2>1, <2>2 DEF CircuitInit, CircuitTypeOK
<1>2. NothingOverdue
  BY DEF CircuitInit, NothingOverdue, BreakerAssumption
<1>3. QED BY <1>1, <1>2 DEF BreakerInv

\* However calls overlap, the counters never pass a threshold unnoticed.
THEOREM BreakerNothingOverdue == CircuitSpec => []NothingOverdue
<1>1. CircuitInit => BreakerInv
  BY BreakerInvInit, BreakerAssumption
<1>2. BreakerInv /\ [CircuitNext]_circuitVars => BreakerInv'
  BY StepKeepsInv, BreakerAssumption
<1>3. BreakerInv => NothingOverdue
  BY DEF BreakerInv
<1>4. QED BY <1>1, <1>2, <1>3, PTL DEF CircuitSpec

\* However calls overlap, the circuit moves only as documented.
THEOREM BreakerLegalMoves == CircuitSpec => LegalMoves
<1> DEFINE Moves ==
        /\ state = "open" => state' # "closed"
        /\ state = "closed" => state' # "half_open"
        /\ state = "open" /\ state' = "half_open" =>
             cooled /\ ~\E p \in Callers : Fail(p)
<1>1. CircuitInit => BreakerInv
  BY BreakerInvInit, BreakerAssumption
<1>2. BreakerInv /\ [CircuitNext]_circuitVars => BreakerInv'
  BY StepKeepsInv, BreakerAssumption
<1>3. BreakerInv /\ [CircuitNext]_circuitVars => [Moves]_circuitVars
  BY StepKeepsInv, BreakerAssumption
<1>4. QED BY <1>1, <1>2, <1>3, PTL DEF CircuitSpec, LegalMoves
=============================================================================
