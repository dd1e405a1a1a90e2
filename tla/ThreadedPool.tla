----------------------------- MODULE ThreadedPool -----------------------------
(***************************************************************************)
(* lib/error_handling.py: the ConnectionPool of the synchronous clients.   *)
(* Threads take a socket from a queue or, under a lock, make one or wait   *)
(* for one; what they give back is peeked at without blocking.             *)
(***************************************************************************)
EXTENDS Integers, Sequences, FiniteSets, SequencesExt

CONSTANTS
    Threads,          \* threads that use get_connection
    Closer,           \* the thread that calls close_all
    Sockets,          \* sockets that may be made
    MaxConnections    \* max_connections

ASSUME ThreadedPoolAssumption ==
    /\ MaxConnections \in Nat \ {0}
    /\ IsFiniteSet(Threads) /\ Closer \notin Threads /\ "free" \notin Threads /\ "none" \notin Sockets

VARIABLES
    pooled,     \* _pool, the queue
    created,    \* _created_connections
    poolLock,   \* the thread in _lock, or "free"
    where,      \* where[t]: what t does next
    sock,       \* sock[t]: t's socket, or "none"
    peer,       \* peer[s]: "none" before s is made; "quiet", or ImHex's answer is "unread", or
                \* its end "closed" or "reset"; "gone" once closed here, "shut" if it was quiet then
    drained     \* whether close_all has been called

poolVars == <<pooled, created, poolLock, where, sock, peer, drained>>

PoolInit ==
    /\ pooled = <<>> /\ created = 0 /\ poolLock = "free"
    /\ where = [t \in Threads \cup {Closer} |-> "idle"]
    /\ sock = [t \in Threads |-> "none"]
    /\ peer = [s \in Sockets |-> "none"]
    /\ drained = FALSE

At(t, step) == where' = [where EXCEPT ![t] = step]
Hold(t, s) == sock' = [sock EXCEPT ![t] = s]

\* get_nowait
GetNowait(t) ==
    /\ where[t] = "idle"
    /\ IF pooled = <<>> THEN At(t, "limit") /\ UNCHANGED <<pooled, sock>>
       ELSE At(t, "using") /\ Hold(t, Head(pooled)) /\ pooled' = Tail(pooled)
    /\ UNCHANGED <<created, poolLock, peer, drained>>

\* [mutant: the limit is tested without the lock]
TakeLockNot(t) ==
    /\ where[t] = "limit"
    /\ At(t, IF created < MaxConnections THEN "create" ELSE "wait")
    /\ UNCHANGED <<pooled, created, poolLock, sock, peer, drained>>

TakeLock(t) ==
    /\ where[t] = "limit" /\ poolLock = "free"
    /\ poolLock' = t
    /\ At(t, IF created < MaxConnections THEN "create" ELSE "wait")
    /\ UNCHANGED <<pooled, created, sock, peer, drained>>

\* connect succeeds, and is counted, or raises.
Create(t) ==
    /\ where[t] = "create"
    /\ \/ \E s \in Sockets :
            /\ peer[s] = "none" /\ peer' = [peer EXCEPT ![s] = "quiet"]
            /\ Hold(t, s) /\ At(t, "using") /\ created' = created + 1
       \/ At(t, "idle") /\ UNCHANGED <<sock, peer, created>>
    /\ poolLock' = "free"
    /\ UNCHANGED <<pooled, drained>>

\* The wait for a pooled socket keeps the lock; after the timeout it raises Empty.
Wait(t) ==
    /\ where[t] = "wait"
    /\ poolLock' = "free"
    /\ \/ pooled # <<>> /\ Hold(t, Head(pooled)) /\ pooled' = Tail(pooled) /\ At(t, "using")
       \/ pooled = <<>> /\ At(t, "idle") /\ UNCHANGED <<sock, pooled>>
    /\ UNCHANGED <<created, peer, drained>>

\* The body is over: a peek at what is left of an answer returns it, at a connection
\* that ImHex has closed b"", and the socket is put back; at one that was reset, as at
\* a live one with nothing to read (BlockingIOError), it raises a socket.error.
Peek(t) ==
    /\ where[t] = "using"
    /\ LET s == sock[t] IN
       IF peer[s] \in {"unread", "closed"} /\ Len(pooled) < MaxConnections
       THEN pooled' = Append(pooled, s) /\ At(t, "idle") /\ Hold(t, "none") /\ UNCHANGED peer
       ELSE /\ peer' = [peer EXCEPT ![s] = IF @ = "quiet" THEN "shut" ELSE "gone"]
            /\ At(t, "count") /\ UNCHANGED <<sock, pooled>>
    /\ UNCHANGED <<created, poolLock, drained>>

\* A closed socket is counted off under the lock.
CountOff(t) ==
    /\ where[t] = "count" /\ poolLock = "free"
    /\ created' = created - 1
    /\ At(t, "idle") /\ Hold(t, "none")
    /\ UNCHANGED <<pooled, poolLock, peer, drained>>

\* close_all closes what is pooled, one after the other, then forgets the count.
Drain ==
    /\ where[Closer] \in {"idle", "drain"} /\ drained' = TRUE
    /\ IF pooled = <<>> THEN At(Closer, "zero") /\ UNCHANGED <<pooled, peer>>
       ELSE /\ peer' = [peer EXCEPT ![Head(pooled)] = "gone"] /\ pooled' = Tail(pooled)
            /\ At(Closer, "drain")
    /\ UNCHANGED <<created, poolLock, sock>>

Zero ==
    /\ where[Closer] = "zero" /\ poolLock = "free"
    /\ created' = 0 /\ At(Closer, "done")
    /\ UNCHANGED <<pooled, poolLock, sock, peer, drained>>

\* ImHex answers, the caller reads it or has given up, or ImHex closes or resets.
Peer(s) ==
    /\ \/ peer[s] = "quiet" /\ \E u \in {"unread", "closed", "reset"} : peer' = [peer EXCEPT ![s] = u]
       \/ peer[s] = "unread" /\ \E t \in Threads : sock[t] = s /\ where[t] = "using"
          /\ peer' = [peer EXCEPT ![s] = "quiet"]
       \/ peer[s] = "unread" /\ \E u \in {"closed", "reset"} : peer' = [peer EXCEPT ![s] = u]
       \/ peer[s] = "closed" /\ peer' = [peer EXCEPT ![s] = "reset"]
    /\ UNCHANGED <<pooled, created, poolLock, where, sock, drained>>

PoolStep(t) == GetNowait(t) \/ TakeLock(t) \/ Create(t) \/ Wait(t) \/ Peek(t) \/ CountOff(t)
PoolNext == (\E t \in Threads : PoolStep(t)) \/ Drain \/ Zero \/ \E s \in Sockets : Peer(s)

PoolSpec == PoolInit /\ [][PoolNext]_poolVars

-----------------------------------------------------------------------------
(* Properties. *)

Owned == {t \in Threads : sock[t] # "none"}

\* A socket has one owner, a thread or the queue.  Until close_all, which zeroes
\* the count with sockets in use, the count is that of the sockets made and not yet
\* counted off and keeps to the limit, however threads interleave at the limit.
PoolCounted ==
    /\ IsInjective(pooled) /\ \A t \in Owned : ~Contains(pooled, sock[t])
    /\ \A t, u \in Owned : t # u => sock[t] # sock[u]
    /\ ~drained => created = Len(pooled) + Cardinality(Owned) /\ created <= MaxConnections

\* A connection that is still good is returned to the pool: none is shut while there
\* is room for it.  The code does the opposite: see Peek.
GoodReturned == \A s \in Sockets : peer[s] = "shut" => Len(pooled) = MaxConnections
=============================================================================
