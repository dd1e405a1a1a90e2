--------------------------- MODULE ConnectionPool ---------------------------
(***************************************************************************)
(* lib/connection_pool.py: the asyncio pool of TCP connections to ImHex.    *)
(*                                                                         *)
(* Tasks run on one event loop: an action is what a task does between two   *)
(* suspension points (await).  The pool's semaphore bounds the callers that *)
(* hold a connection, its lock serialises acquire, release, the periodic    *)
(* health check and the last phase of close.  initialize() takes neither.   *)
(***************************************************************************)
EXTENDS Integers, FiniteSets, SequencesExt

CONSTANTS
    Callers,      \* the tasks that acquire and release connections
    Owner,        \* the task of `async with pool`: initialize ... close
    Conns,        \* identities of PooledConnection objects
    NoConn,       \* "no connection": conn = None
    NoTask,       \* "no task": _health_check_task = None
    MinSize,      \* min_size
    MaxSize,      \* max_size
    StandIns,     \* connections that are the stand-ins lib/test_connection_pool.py
                  \* uses; the others are PooledConnections over asyncio sockets
    MaxRemoved,   \* bound: health checks stop once they removed so many
    MaxCancels    \* bound: cancellations of callers

Tasks == Callers \cup {Owner}

ASSUME PoolAssumption ==
    /\ Owner \notin Callers /\ NoTask \notin Tasks /\ NoConn \notin Conns
    /\ IsFiniteSet(Callers)
    /\ MinSize \in Nat \ {0} /\ MaxSize \in Nat \ {0}
    /\ StandIns \subseteq Conns
    /\ MaxRemoved \in Nat /\ MaxCancels \in Nat

VARIABLES
    available,    \* _available, the deque of idle connections
    inUse,        \* _in_use
    permits,      \* value of _semaphore
    locked,       \* _lock is held
    initialized,  \* _initialized
    closed,       \* _closed
    idle,         \* stats.idle_connections
    active,       \* stats.active_connections
    healthTask,   \* the initializer whose health check _health_check_task names
    pc,           \* where each task is suspended
    tries,        \* connections each initializer has tried to create
    conn,         \* each task's local variable conn
    mon,          \* state of the health-check task each initializer started
    victims,      \* to_remove of the health check that holds the lock
    needed,       \* connections the health check has still to create
    open,         \* connections whose socket is open on our side
    unfit,        \* connections closed by the peer or past max_connection_age
    removed,      \* connections the health checks removed so far
    cancels       \* cancellations so far

poolVars == <<available, inUse, permits, locked, initialized, closed>>
statVars == <<idle, active>>
taskVars == <<healthTask, pc, tries, conn>>
monVars  == <<mon, victims, needed>>
envVars  == <<open, unfit, removed, cancels>>
vars == <<poolVars, statVars, taskVars, monVars, envVars>>

PCs == {"ready", "init", "body", "wantPermit", "wantLock", "search", "discard",
        "create", "using", "wantRelease", "retire", "wantDrain", "drain",
        "done", "failed"}
MonStates == {"none", "sleep", "wantLock", "evict", "closing", "topup", "done"}

Init ==
    /\ available = <<>> /\ inUse = {} /\ permits = MaxSize
    /\ locked = FALSE /\ initialized = FALSE /\ closed = FALSE
    /\ idle = 0 /\ active = 0
    /\ healthTask = NoTask
    /\ \E ownerPC \in {"ready", "body"} :   \* it enters the pool, or just uses it
        pc = [t \in Tasks |-> IF t = Owner THEN ownerPC ELSE "ready"]
    /\ tries = [t \in Tasks |-> 0] /\ conn = [t \in Tasks |-> NoConn]
    /\ mon = [t \in Tasks |-> "none"] /\ victims = {} /\ needed = 0
    /\ open = {} /\ unfit = {} /\ removed = 0 /\ cancels = 0

-----------------------------------------------------------------------------
(* Helpers *)

Idle == Range(available)

\* A connection object that does not exist yet.
Fresh(c) == c \notin open \cup Idle \cup inUse /\ \A t \in Tasks : conn[t] # c

\* _is_healthy: on an asyncio transport the probe always reports failure,
\* because its socket refuses setblocking(True).
Healthy(c) == c \in StandIns \ unfit

\* The socket of c is closed, and c is forgotten by the environment.
CloseSocket(c) == open' = open \ {c} /\ unfit' = unfit \ {c}

\* popleft of the idle queue.  [mutant: the connection is left in the queue]
PeekedIdle == available
PoppedIdle == Tail(available)

\* release() keeps the connection.  [mutant: also once the pool is closed]
KeepableWhenClosed(c) == c \in inUse
Keepable(c) == c \in inUse /\ ~closed

\* How many connections the pool is short of.
PoolSize == Len(available) + Cardinality(inUse)
Shortfall == IF PoolSize < MinSize THEN MinSize - PoolSize ELSE 0

-----------------------------------------------------------------------------
(* initialize(): by the owner on entry, or by the first acquires.           *)

OwnerEnter ==
    /\ pc[Owner] = "ready"
    /\ pc' = [pc EXCEPT ![Owner] = "init"]
    /\ UNCHANGED <<poolVars, statVars, healthTask, tries, conn, monVars, envVars>>

\* The pool gains one idle connection, or the attempt fails and is logged.
AddIdle ==
    \/ \E c \in Conns :
        /\ Fresh(c)
        /\ available' = Append(available, c)
        /\ open' = open \cup {c}
        /\ idle' = idle + 1 /\ active' = active + 1
    \/ UNCHANGED <<available, open, idle, active>>

\* One turn of the loop; after the last one the health check is started.
InitCreate(t) ==
    /\ pc[t] = "init"
    /\ AddIdle
    /\ IF tries[t] + 1 < MinSize
       THEN /\ tries' = [tries EXCEPT ![t] = @ + 1]
            /\ UNCHANGED <<initialized, healthTask, pc, mon>>
       ELSE /\ tries' = [tries EXCEPT ![t] = 0]
            /\ initialized' = TRUE
            /\ healthTask' = t
            /\ mon' = [mon EXCEPT ![t] = IF closed THEN "done" ELSE "sleep"]
            /\ pc' = [pc EXCEPT ![t] = IF t = Owner THEN "body" ELSE "wantPermit"]
    /\ UNCHANGED <<inUse, permits, locked, closed, conn, victims, needed,
                   unfit, removed, cancels>>

-----------------------------------------------------------------------------
(* acquire()                                                                *)

\* An owner that enters the pool shares it once initialize() returned.
Shared == pc[Owner] \notin {"ready", "init"}

\* [mutant: acquire() does not look at _closed]
AcquireStartUnchecked(p) ==
    /\ pc[p] \in {"ready", "failed"}
    /\ Shared
    /\ pc' = [pc EXCEPT ![p] = IF initialized THEN "wantPermit" ELSE "init"]
    /\ UNCHANGED <<poolVars, statVars, healthTask, tries, conn, monVars, envVars>>

AcquireStart(p) ==
    /\ pc[p] \in {"ready", "failed"}
    /\ Shared
    /\ pc' = [pc EXCEPT ![p] = IF closed THEN "ready"
                               ELSE IF initialized THEN "wantPermit" ELSE "init"]
    /\ UNCHANGED <<poolVars, statVars, healthTask, tries, conn, monVars, envVars>>

TakePermit(p) ==
    /\ pc[p] = "wantPermit" /\ permits > 0
    /\ permits' = permits - 1
    /\ pc' = [pc EXCEPT ![p] = "wantLock"]
    /\ UNCHANGED <<available, inUse, locked, initialized, closed, statVars,
                   healthTask, tries, conn, monVars, envVars>>

EnterLock(p) ==
    /\ pc[p] = "wantLock" /\ ~locked
    /\ locked' = TRUE
    /\ pc' = [pc EXCEPT ![p] = "search"]
    /\ UNCHANGED <<available, inUse, permits, initialized, closed, statVars,
                   healthTask, tries, conn, monVars, envVars>>

\* The oldest idle connection is reused if it passes the probe, else closed.
TryIdle(p) ==
    /\ pc[p] = "search" /\ available # <<>>
    /\ LET c == Head(available) IN
        /\ available' = PoppedIdle
        /\ idle' = idle - 1
        /\ conn' = [conn EXCEPT ![p] = c]
        /\ \/ /\ Healthy(c)
              /\ inUse' = inUse \cup {c}
              /\ locked' = FALSE
              /\ pc' = [pc EXCEPT ![p] = "using"]
              /\ UNCHANGED <<open, unfit>>
           \/ /\ ~Healthy(c)
              /\ CloseSocket(c)
              /\ pc' = [pc EXCEPT ![p] = "discard"]
              /\ UNCHANGED <<inUse, locked>>
    /\ UNCHANGED <<permits, initialized, closed, active, healthTask, tries,
                   monVars, removed, cancels>>

\* [mutant: active_connections keeps the dead connection]
DiscardedUncounted(p) ==
    /\ pc[p] = "discard"
    /\ conn' = [conn EXCEPT ![p] = NoConn]
    /\ pc' = [pc EXCEPT ![p] = "search"]
    /\ UNCHANGED <<poolVars, statVars, healthTask, tries, monVars, envVars>>

\* The dead connection is closed: the loop goes on.
Discarded(p) ==
    /\ pc[p] = "discard"
    /\ active' = active - 1
    /\ conn' = [conn EXCEPT ![p] = NoConn]
    /\ pc' = [pc EXCEPT ![p] = "search"]
    /\ UNCHANGED <<poolVars, idle, healthTask, tries, monVars, envVars>>

StartCreate(p) ==
    /\ pc[p] = "search" /\ available = <<>>
    /\ pc' = [pc EXCEPT ![p] = "create"]
    /\ UNCHANGED <<poolVars, statVars, healthTask, tries, conn, monVars, envVars>>

\* A new connection is handed out.  A PooledConnection is not hashable, so
\* _in_use.add raises and the new connection is dropped with its permit.
CreateOk(p) ==
    /\ pc[p] = "create"
    /\ locked' = FALSE
    /\ \E c \in Conns :
        /\ Fresh(c)
        /\ \/ /\ c \in StandIns
              /\ conn' = [conn EXCEPT ![p] = c]
              /\ inUse' = inUse \cup {c}
              /\ open' = open \cup {c}
              /\ active' = active + 1
              /\ pc' = [pc EXCEPT ![p] = "using"]
              /\ UNCHANGED permits
           \/ /\ c \notin StandIns
              /\ permits' = permits + 1
              /\ pc' = [pc EXCEPT ![p] = "failed"]
              /\ UNCHANGED <<conn, inUse, open, active>>
    /\ UNCHANGED <<available, initialized, closed, idle, healthTask, tries,
                   monVars, unfit, removed, cancels>>

\* [mutant: the permit of a failed acquire() is kept]
CreateRefusedKeepsPermit(p) ==
    /\ pc[p] = "create"
    /\ locked' = FALSE
    /\ pc' = [pc EXCEPT ![p] = "ready"]
    /\ UNCHANGED <<available, inUse, permits, initialized, closed, statVars,
                   healthTask, tries, conn, monVars, envVars>>

\* The peer refuses, or the connection attempt times out.
CreateRefused(p) ==
    /\ pc[p] = "create"
    /\ locked' = FALSE
    /\ permits' = permits + 1
    /\ pc' = [pc EXCEPT ![p] = "ready"]
    /\ UNCHANGED <<available, inUse, initialized, closed, statVars, healthTask,
                   tries, conn, monVars, envVars>>

-----------------------------------------------------------------------------
(* release(conn, healthy)                                                   *)

ReleaseStart(p) ==
    /\ pc[p] = "using"
    /\ pc' = [pc EXCEPT ![p] = "wantRelease"]
    /\ UNCHANGED <<poolVars, statVars, healthTask, tries, conn, monVars, envVars>>

\* The connection is unknown (close() emptied _in_use), returned to the idle
\* queue, or retired: unhealthy, pool closed, or past max_connection_age.
Release(p) ==
    /\ pc[p] = "wantRelease" /\ ~locked
    /\ LET c == conn[p] IN
        \/ /\ c \notin inUse
           /\ permits' = permits + 1
           /\ conn' = [conn EXCEPT ![p] = NoConn]
           /\ pc' = [pc EXCEPT ![p] = "ready"]
           /\ UNCHANGED <<available, inUse, locked, idle, open, unfit>>
        \/ /\ Keepable(c)                       \* healthy and young enough
           /\ inUse' = inUse \ {c}
           /\ available' = Append(available, c)
           /\ idle' = idle + 1
           /\ permits' = permits + 1
           /\ conn' = [conn EXCEPT ![p] = NoConn]
           /\ pc' = [pc EXCEPT ![p] = "ready"]
           /\ UNCHANGED <<locked, open, unfit>>
        \/ /\ c \in inUse                       \* unhealthy, closed or too old
           /\ inUse' = inUse \ {c}
           /\ CloseSocket(c)
           /\ locked' = TRUE
           /\ pc' = [pc EXCEPT ![p] = "retire"]
           /\ UNCHANGED <<available, permits, idle, conn>>
    /\ UNCHANGED <<initialized, closed, active, healthTask, tries, monVars,
                   removed, cancels>>

Retired(p) ==
    /\ pc[p] = "retire"
    /\ active' = active - 1
    /\ permits' = permits + 1
    /\ locked' = FALSE
    /\ conn' = [conn EXCEPT ![p] = NoConn]
    /\ pc' = [pc EXCEPT ![p] = "ready"]
    /\ UNCHANGED <<available, inUse, initialized, closed, idle, healthTask,
                   tries, monVars, envVars>>

\* CancelledError at a suspension point.  No handler of the pool catches it:
\* `async with` frees the lock, and a permit already taken is not given back.
CancelCaller(p) ==
    /\ cancels < MaxCancels
    /\ pc[p] \in {"init", "wantPermit", "wantLock", "discard", "create",
                  "wantRelease", "retire"}
    /\ cancels' = cancels + 1
    /\ locked' = (locked /\ pc[p] \notin {"discard", "create", "retire"})
    /\ tries' = [tries EXCEPT ![p] = 0]
    /\ conn' = [conn EXCEPT ![p] = NoConn]
    /\ pc' = [pc EXCEPT ![p] = "ready"]
    /\ UNCHANGED <<available, inUse, permits, initialized, closed, statVars,
                   healthTask, monVars, open, unfit, removed>>

-----------------------------------------------------------------------------
(* _health_check_loop and _cleanup_idle_connections, of the task that the   *)
(* initializer m started.                                                   *)

MonWake(m) ==
    /\ mon[m] = "sleep" /\ removed < MaxRemoved
    /\ mon' = [mon EXCEPT ![m] = "wantLock"]
    /\ UNCHANGED <<poolVars, statVars, taskVars, victims, needed, envVars>>

\* Every idle connection that fails the probe is a victim, and so is any that
\* has been idle longer than max_idle_time.
MonScan(m) ==
    /\ mon[m] = "wantLock" /\ ~locked
    /\ locked' = TRUE
    /\ \E expired \in SUBSET {c \in Idle : Healthy(c)} :
        victims' = {c \in Idle : ~Healthy(c)} \cup expired
    /\ mon' = [mon EXCEPT ![m] = "evict"]
    /\ UNCHANGED <<available, inUse, permits, initialized, closed, statVars,
                   taskVars, needed, envVars>>

MonEvict(m) ==
    /\ mon[m] = "evict"
    /\ \E i \in 1..Len(available) :
        /\ available[i] \in victims
        /\ victims' = victims \ {available[i]}
        /\ available' = RemoveAt(available, i)
        /\ CloseSocket(available[i])
    /\ idle' = idle - 1
    /\ mon' = [mon EXCEPT ![m] = "closing"]
    /\ UNCHANGED <<inUse, permits, locked, initialized, closed, active,
                   taskVars, needed, removed, cancels>>

\* The code also releases the semaphore here, for a connection nobody holds.
MonClosed(m) ==
    /\ mon[m] = "closing"
    /\ active' = active - 1
    /\ permits' = permits + 1
    /\ removed' = removed + 1
    /\ mon' = [mon EXCEPT ![m] = "evict"]
    /\ UNCHANGED <<available, inUse, locked, initialized, closed, idle,
                   taskVars, victims, needed, open, unfit, cancels>>

MonMeasure(m) ==
    /\ mon[m] = "evict" /\ victims = {}
    /\ needed' = Shortfall
    /\ mon' = [mon EXCEPT ![m] = "topup"]
    /\ UNCHANGED <<poolVars, statVars, taskVars, victims, envVars>>

MonTopUp(m) ==
    /\ mon[m] = "topup" /\ needed > 0
    /\ AddIdle
    /\ needed' = needed - 1
    /\ UNCHANGED <<inUse, permits, locked, initialized, closed, taskVars, mon,
                   victims, unfit, removed, cancels>>

MonDone(m) ==
    /\ mon[m] = "topup" /\ needed = 0
    /\ locked' = FALSE
    /\ mon' = [mon EXCEPT ![m] = IF closed THEN "done" ELSE "sleep"]
    /\ UNCHANGED <<available, inUse, permits, initialized, closed, statVars,
                   taskVars, victims, needed, envVars>>

-----------------------------------------------------------------------------
(* close(): called by the owner once the body of `async with` ends.         *)

\* close() flags the pool, cancels the health check it knows of (which is then
\* suspended: asleep, or waiting for the lock or for a socket) and waits for it
\* to end; the cancelled task leaves the lock if it was holding it.
CloseStart ==
    /\ pc[Owner] = "body"
    /\ healthTask # NoTask =>
          /\ mon[healthTask] # "evict"
          /\ mon[healthTask] = "topup" => needed > 0
    /\ closed' = TRUE
    /\ pc' = [pc EXCEPT ![Owner] = "wantDrain"]
    /\ IF healthTask # NoTask
       THEN /\ mon' = [mon EXCEPT ![healthTask] = "done"]
            /\ locked' = (locked /\ mon[healthTask] \notin {"closing", "topup"})
       ELSE UNCHANGED <<mon, locked>>
    /\ UNCHANGED <<available, inUse, permits, initialized, statVars, healthTask,
                   tries, conn, victims, needed, envVars>>

DrainStart ==
    /\ pc[Owner] = "wantDrain" /\ ~locked
    /\ locked' = TRUE
    /\ pc' = [pc EXCEPT ![Owner] = "drain"]
    /\ UNCHANGED <<available, inUse, permits, initialized, closed, statVars,
                   healthTask, tries, conn, monVars, envVars>>

DrainIdle ==
    /\ pc[Owner] = "drain" /\ available # <<>>
    /\ available' = Tail(available)
    /\ CloseSocket(Head(available))
    /\ UNCHANGED <<inUse, permits, locked, initialized, closed, statVars,
                   taskVars, monVars, removed, cancels>>

\* Connections still in use are closed under their users; the gauges are not
\* updated and no waiter of the semaphore is woken.
DrainInUse ==
    /\ pc[Owner] = "drain" /\ available = <<>>
    /\ open' = open \ inUse /\ unfit' = unfit \ inUse
    /\ inUse' = {}
    /\ locked' = FALSE
    /\ pc' = [pc EXCEPT ![Owner] = "done"]
    /\ UNCHANGED <<available, permits, initialized, closed, statVars,
                   healthTask, tries, conn, monVars, removed, cancels>>

\* The peer closes a connection, or it grows older than max_connection_age.
Decay(c) ==
    /\ c \in open \ unfit
    /\ unfit' = unfit \cup {c}
    /\ UNCHANGED <<poolVars, statVars, taskVars, monVars, open, removed, cancels>>

-----------------------------------------------------------------------------
Acquire(p) == \/ AcquireStart(p) \/ TakePermit(p) \/ EnterLock(p) \/ TryIdle(p)
              \/ Discarded(p) \/ StartCreate(p) \/ CreateOk(p) \/ CreateRefused(p)
Giveback(p) == ReleaseStart(p) \/ Release(p) \/ Retired(p)
HealthCheck(m) == \/ MonWake(m) \/ MonScan(m) \/ MonEvict(m) \/ MonClosed(m)
                  \/ MonMeasure(m) \/ MonTopUp(m) \/ MonDone(m)
Close == CloseStart \/ DrainStart \/ DrainIdle \/ DrainInUse

Next ==
    \/ OwnerEnter \/ Close
    \/ \E t \in Tasks : InitCreate(t) \/ HealthCheck(t)
    \/ \E p \in Callers : Acquire(p) \/ Giveback(p) \/ CancelCaller(p)
    \/ \E c \in Conns : Decay(c)

Spec == Init /\ [][Next]_vars

\* asyncio.Lock and asyncio.Semaphore wake their waiters in FIFO order (strong
\* fairness); a started step is finished; a request is answered or fails, so
\* its connection is released.  Nobody is obliged to acquire or to close.
Fairness ==
    /\ WF_vars(OwnerEnter)
    /\ WF_vars(DrainStart \/ DrainIdle \/ DrainInUse) /\ SF_vars(DrainStart)
    /\ \A t \in Tasks :
        /\ WF_vars(InitCreate(t))
        /\ WF_vars(MonEvict(t) \/ MonClosed(t) \/ MonMeasure(t) \/ MonTopUp(t)
                   \/ MonDone(t))
        /\ SF_vars(MonScan(t))
    /\ \A p \in Callers :
        /\ SF_vars(TakePermit(p)) /\ SF_vars(EnterLock(p)) /\ SF_vars(Release(p))
        /\ WF_vars(TryIdle(p) \/ Discarded(p) \/ StartCreate(p) \/ CreateOk(p)
                   \/ CreateRefused(p))
        /\ WF_vars(ReleaseStart(p)) /\ WF_vars(Retired(p))

\* The pool as `async with` uses it: its owner enters it before it is shared.
Entered == Init /\ pc[Owner] = "ready"
EnteredSpec == Entered /\ [][Next]_vars /\ Fairness
-----------------------------------------------------------------------------
(* What holds of the pool                                                   *)

TypeOK ==
    /\ available \in Seq(Conns) /\ inUse \in SUBSET Conns /\ IsFiniteSet(inUse)
    /\ permits \in Int
    /\ locked \in BOOLEAN /\ initialized \in BOOLEAN /\ closed \in BOOLEAN
    /\ idle \in Int /\ active \in Int
    /\ healthTask \in Tasks \cup {NoTask}
    /\ pc \in [Tasks -> PCs] /\ tries \in [Tasks -> Nat]
    /\ conn \in [Tasks -> Conns \cup {NoConn}]
    /\ mon \in [Tasks -> MonStates] /\ victims \in SUBSET Conns /\ needed \in Nat
    /\ open \in SUBSET Conns /\ unfit \in SUBSET Conns
    /\ removed \in Nat /\ cancels \in Nat

Holds(p) == pc[p] \in {"using", "wantRelease"}

\* A connection has one user at a time: what a caller holds is neither idle
\* nor held by another caller, and no connection is idle twice, whatever
\* release, the health check, late initializers and close() do meanwhile.
ExclusiveUse ==
    /\ \A p \in Callers : Holds(p) => conn[p] \in Conns \ Idle
    /\ \A p, q \in Callers : Holds(p) /\ Holds(q) /\ p # q => conn[p] # conn[q]
    /\ IsInjective(available)

PermitHolders == {p \in Callers : pc[p] \in {"wantLock", "search", "discard",
                                "create", "using", "wantRelease", "retire"}}

\* Semaphore accounting: permits are lost only to cancelled callers, and
\* appear only from connections the health check removed.
PermitsBounded ==
    LET total == permits + Cardinality(PermitHolders) IN
    MaxSize - cancels <= total /\ total <= MaxSize + removed

\* A connection the lock's holder is closing is still counted as active.
Closing == {p \in Callers : pc[p] \in {"discard", "retire"}}
           \cup {m \in Tasks : mon[m] = "closing"}

\* What active_connections should count.
Counted == Len(available) + Cardinality(inUse) + Cardinality(Closing)

\* Until close(), get_stats() reports exactly the idle connections, and the
\* active ones up to those whose closing was cancelled.
GaugesExact ==
    ~closed =>
        /\ idle = Len(available)
        /\ active \in Counted .. Counted + cancels

\* Once close() of a pool that its owner entered returned, the idle queue stays empty and
\* an open socket belongs to a caller that acquire() let in before close().
DrainedStaysEmpty ==
    healthTask = Owner /\ pc[Owner] = "done" => available = <<>> /\ open \subseteq inUse

\* With uncancelled callers, whoever waits for a connection gets one or is
\* told that it cannot be had: no permit and no lock is kept for ever.
WaiterServed ==
    \A p \in Callers : pc[p] = "wantPermit" ~> pc[p] \in {"using", "ready", "failed"}

\* After close() every connection a late waiter still opened is closed, if the
\* pool was entered: no other health check than the cancelled one can live on.
ClosedPoolDrains == healthTask = Owner /\ pc[Owner] = "done" ~> open = {}

-----------------------------------------------------------------------------
(* What the documentation says and the code does not keep                   *)

\* acquire() "Returns: A healthy connection ready to use".
AcquireDelivers == \A p \in Callers : pc[p] # "failed"
=============================================================================
