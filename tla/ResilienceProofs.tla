-------------------------- MODULE ResilienceProofs --------------------------
(***************************************************************************)
(* What holds requests back, under any number of threads and clients.       *)
(* The breaker of lib/error_handling.py: lost increments can only make its  *)
(* count too small, which never exceeds the failures reported, less those   *)
(* whose increment is still to come.  Its pool: the counter is the sockets  *)
(* that are in use or in the list, but for the closes under way.            *)
(* SecurityManager.check_request: for any rate, burst and filters, what a   *)
(* token bucket holds is what the worst window of the checks so far leaves  *)
(* of burst and rate, although buckets are refilled when they are asked     *)
(* only, and forgotten when old.                                            *)
(* Requests on connections of their own: what a client has retried, and     *)
(* what ImHex has executed of it, follows from the state of its             *)
(* connections.  The health monitor: its reports wait for the lock they     *)
(* hold, and what it shows was counted.                                     *)
(***************************************************************************)
EXTENDS ThreadedBreaker, ThreadedPool, RateLimiter, DirectRequests, HealthMonitor, FiniteSetTheorems, SequenceTheorems, TLAPS

-----------------------------------------------------------------------------
(* ThreadedBreaker *)

Statements == Reporting \cup {"idle", "clock", "half", "zero", "func", "success", "succ1", "succ2", "succ3", "clear",
                              "close", "close2", "reclear", "counts", "time"}

Types ==
    /\ circuit \in {"closed", "open", "half_open"} /\ lastFail \in {"none", "recent", "past"}
    /\ failCount \in Nat /\ succCount \in Nat /\ failed \in Nat /\ raced \in BOOLEAN
    /\ doing \in [Users \cup {Operator} -> Statements]
    /\ read \in [Users -> Nat]

\* Failures reported but not yet counted.
Pending == {u \in Users : doing[u] \in {"failure", "fail1", "fail2"}}

Counts ==
    /\ failCount + Cardinality(Pending) <= failed
    /\ \A u \in Users : doing[u] = "fail2" => read[u] + Cardinality(Pending) <= failed

\* Nobody is about to open the circuit, or finds it open, before the limit.
Limit ==
    /\ circuit # "closed" => failed >= FailureLimit
    /\ \A u \in Users : doing[u] \in {"clock", "half", "open", "reopen"} => failed >= FailureLimit

\* Without a race nobody reports and the circuit is not open while a reset runs, nor
\* as long as it has left no time.
Timed ==
    ~raced /\ (Resetting \/ lastFail = "none") =>
        circuit # "open" /\ \A u \in Users : doing[u] \notin Reporting

BreakerInv == Types /\ Counts /\ Limit /\ Timed

-----------------------------------------------------------------------------

LEMMA PendingFinite ==
    ASSUME UsersAssumption
    PROVE  IsFiniteSet(Pending) /\ Cardinality(Pending) \in Nat
<1>1. Pending \subseteq Users
  BY DEF Pending
<1> QED
  BY <1>1, FS_Subset, FS_CardinalityType DEF UsersAssumption

LEMMA BreakerStarts == ASSUME UsersAssumption PROVE BreakerInit => BreakerInv
<1> SUFFICES ASSUME BreakerInit PROVE BreakerInv
  OBVIOUS
<1>1. Types
  BY DEF BreakerInit, Types, Statements, Reporting
<1>2. Pending = {}
  BY DEF BreakerInit, Pending
<1>3. Counts
  BY <1>2, FS_EmptySet DEF BreakerInit, Counts
<1>4. Limit /\ Timed
  BY DEF BreakerInit, Limit, Timed, Resetting, Reporting
<1> QED
  BY <1>1, <1>3, <1>4 DEF BreakerInv

\* The counts stay good in a step that reports, reads and adds nothing.
LEMMA CountsKept ==
    ASSUME UsersAssumption, Types, Types', Counts, Pending' \subseteq Pending, failed' = failed,
           failCount' \in {0, failCount},
           \A u \in Users : doing'[u] = "fail2" => doing[u] = "fail2" /\ read'[u] = read[u]
    PROVE  Counts'
<1>1. Cardinality(Pending') <= Cardinality(Pending) /\ Cardinality(Pending') \in Nat
  BY PendingFinite, FS_Subset, FS_CardinalityType
<1>2. Cardinality(Pending) \in Nat
  BY PendingFinite
<1>3. failCount' + Cardinality(Pending') <= failed'
  BY <1>1, <1>2 DEF Counts, Types
<1>4. \A u \in Users : doing'[u] = "fail2" => read'[u] + Cardinality(Pending') <= failed'
  BY <1>1, <1>2 DEF Counts, Types
<1> QED
  BY <1>3, <1>4 DEF Counts

LEMMA EnterKeeps ==
    ASSUME UsersAssumption, BreakerInv, NEW u \in Users, Enter(u)
    PROVE  BreakerInv'
<1> USE DEF BreakerInv, Do
<1> u # Operator /\ u \in Users \cup {Operator}
  BY DEF UsersAssumption
<1>1. Types'
  BY DEF Enter, Types, Statements, Reporting
<1>2. Counts'
  <2>1. Pending' \subseteq Pending
    BY DEF Enter, Types, Pending
  <2>2. failed' = failed /\ failCount' \in {0, failCount}
    BY DEF Enter
  <2>3. \A v \in Users : doing'[v] = "fail2" => doing[v] = "fail2" /\ read'[v] = read[v]
    BY DEF Enter, Types
  <2> QED
    BY <1>1, <2>1, <2>2, <2>3, CountsKept
<1>3. Limit'
  BY DEF Enter, Types, Limit
<1>4. Timed'
  BY DEF Enter, Types, Timed, Resetting, Reporting
<1> QED
  BY <1>1, <1>2, <1>3, <1>4

LEMMA ClockKeeps ==
    ASSUME UsersAssumption, BreakerInv, NEW u \in Users, Clock(u)
    PROVE  BreakerInv'
<1> USE DEF BreakerInv, Do
<1> u # Operator /\ u \in Users \cup {Operator}
  BY DEF UsersAssumption
<1>1. Types'
  BY DEF Clock, Types, Statements, Reporting
<1>2. Counts'
  <2>1. Pending' \subseteq Pending
    BY DEF Clock, Types, Pending
  <2>2. failed' = failed /\ failCount' \in {0, failCount}
    BY DEF Clock
  <2>3. \A v \in Users : doing'[v] = "fail2" => doing[v] = "fail2" /\ read'[v] = read[v]
    BY DEF Clock, Types
  <2> QED
    BY <1>1, <2>1, <2>2, <2>3, CountsKept
<1>3. Limit'
  BY DEF Clock, Types, Limit
<1>4. Timed'
  BY DEF Clock, Types, Timed, Resetting, Reporting
<1> QED
  BY <1>1, <1>2, <1>3, <1>4

LEMMA HalfOpenKeeps ==
    ASSUME UsersAssumption, BreakerInv, NEW u \in Users, HalfOpen(u)
    PROVE  BreakerInv'
<1> USE DEF BreakerInv, Do
<1> u # Operator /\ u \in Users \cup {Operator}
  BY DEF UsersAssumption
<1>1. Types'
  BY DEF HalfOpen, Types, Statements, Reporting
<1>2. Counts'
  <2>1. Pending' \subseteq Pending
    BY DEF HalfOpen, Types, Pending
  <2>2. failed' = failed /\ failCount' \in {0, failCount}
    BY DEF HalfOpen
  <2>3. \A v \in Users : doing'[v] = "fail2" => doing[v] = "fail2" /\ read'[v] = read[v]
    BY DEF HalfOpen, Types
  <2> QED
    BY <1>1, <2>1, <2>2, <2>3, CountsKept
<1>3. Limit'
  BY DEF HalfOpen, Types, Limit
<1>4. Timed'
  BY DEF HalfOpen, Types, Timed, Resetting, Reporting
<1> QED
  BY <1>1, <1>2, <1>3, <1>4

LEMMA ZeroSuccessesKeeps ==
    ASSUME UsersAssumption, BreakerInv, NEW u \in Users, ZeroSuccesses(u)
    PROVE  BreakerInv'
<1> USE DEF BreakerInv, Do
<1> u # Operator /\ u \in Users \cup {Operator}
  BY DEF UsersAssumption
<1>1. Types'
  BY DEF ZeroSuccesses, Types, Statements, Reporting
<1>2. Counts'
  <2>1. Pending' \subseteq Pending
    BY DEF ZeroSuccesses, Types, Pending
  <2>2. failed' = failed /\ failCount' \in {0, failCount}
    BY DEF ZeroSuccesses
  <2>3. \A v \in Users : doing'[v] = "fail2" => doing[v] = "fail2" /\ read'[v] = read[v]
    BY DEF ZeroSuccesses, Types
  <2> QED
    BY <1>1, <2>1, <2>2, <2>3, CountsKept
<1>3. Limit'
  BY DEF ZeroSuccesses, Types, Limit
<1>4. Timed'
  BY DEF ZeroSuccesses, Types, Timed, Resetting, Reporting
<1> QED
  BY <1>1, <1>2, <1>3, <1>4

LEMMA ReturnKeeps ==
    ASSUME UsersAssumption, BreakerInv, NEW u \in Users, Return(u)
    PROVE  BreakerInv'
<1> USE DEF BreakerInv, Do
<1> u # Operator /\ u \in Users \cup {Operator}
  BY DEF UsersAssumption
<1>1. Types'
  BY DEF Return, Types, Statements, Reporting
<1>2. Counts'
  <2>1. Pending' \subseteq Pending
    BY DEF Return, Types, Pending
  <2>2. failed' = failed /\ failCount' \in {0, failCount}
    BY DEF Return
  <2>3. \A v \in Users : doing'[v] = "fail2" => doing[v] = "fail2" /\ read'[v] = read[v]
    BY DEF Return, Types
  <2> QED
    BY <1>1, <2>1, <2>2, <2>3, CountsKept
<1>3. Limit'
  BY DEF Return, Types, Limit
<1>4. Timed'
  BY DEF Return, Types, Timed, Resetting, Reporting
<1> QED
  BY <1>1, <1>2, <1>3, <1>4

LEMMA RaiseKeeps ==
    ASSUME UsersAssumption, BreakerInv, NEW u \in Users, Raise(u)
    PROVE  BreakerInv'
<1> USE DEF BreakerInv, Do
<1> u # Operator /\ u \in Users \cup {Operator}
  BY DEF UsersAssumption
<1>1. Types'
  BY DEF Raise, Types, Statements, Reporting
<1>2. Counts'
  <2>1. Pending' = Pending \cup {u} /\ u \notin Pending
    BY DEF Raise, Types, Pending
  <2>2. Cardinality(Pending') = Cardinality(Pending) + 1 /\ Cardinality(Pending) \in Nat
    BY <2>1, PendingFinite, FS_AddElement
  <2>3. failed' = failed + 1 /\ failCount' = failCount /\ read' = read
    BY DEF Raise
  <2>4. \A v \in Users : doing'[v] = "fail2" => doing[v] = "fail2"
    BY DEF Raise, Types
  <2> QED
    BY <2>2, <2>3, <2>4 DEF Counts, Types
<1>3. Limit'
  <2>1. failed' = failed + 1 /\ circuit' = circuit
    BY DEF Raise
  <2>2. \A v \in Users : doing'[v] \in {"clock", "half", "open", "reopen"} => doing'[v] = doing[v]
    BY DEF Raise, Types
  <2> QED
    BY <2>1, <2>2 DEF Limit, Types, UsersAssumption
<1>4. Timed'
  BY DEF Raise, Types, Timed, Resetting, Reporting
<1> QED
  BY <1>1, <1>2, <1>3, <1>4

LEMMA OnSuccessKeeps ==
    ASSUME UsersAssumption, BreakerInv, NEW u \in Users, OnSuccess(u)
    PROVE  BreakerInv'
<1> USE DEF BreakerInv, Do
<1> u # Operator /\ u \in Users \cup {Operator}
  BY DEF UsersAssumption
<1>1. Types'
  BY DEF OnSuccess, Types, Statements, Reporting
<1>2. Counts'
  <2>1. Pending' \subseteq Pending
    BY DEF OnSuccess, Types, Pending
  <2>2. failed' = failed /\ failCount' \in {0, failCount}
    BY DEF OnSuccess
  <2>3. \A v \in Users : doing'[v] = "fail2" => doing[v] = "fail2" /\ read'[v] = read[v]
    BY DEF OnSuccess, Types
  <2> QED
    BY <1>1, <2>1, <2>2, <2>3, CountsKept
<1>3. Limit'
  BY DEF OnSuccess, Types, Limit
<1>4. Timed'
  BY DEF OnSuccess, Types, Timed, Resetting, Reporting
<1> QED
  BY <1>1, <1>2, <1>3, <1>4

LEMMA OnFailureKeeps ==
    ASSUME UsersAssumption, BreakerInv, NEW u \in Users, OnFailure(u)
    PROVE  BreakerInv'
<1> USE DEF BreakerInv, Do
<1> u # Operator /\ u \in Users \cup {Operator}
  BY DEF UsersAssumption
<1>1. Types'
  BY DEF OnFailure, Types, Statements, Reporting
<1>2. Counts'
  <2>1. Pending' \subseteq Pending
    BY DEF OnFailure, Types, Pending
  <2>2. failed' = failed /\ failCount' \in {0, failCount}
    BY DEF OnFailure
  <2>3. \A v \in Users : doing'[v] = "fail2" => doing[v] = "fail2" /\ read'[v] = read[v]
    BY DEF OnFailure, Types
  <2> QED
    BY <1>1, <2>1, <2>2, <2>3, CountsKept
<1>3. Limit'
  BY DEF OnFailure, Types, Limit
<1>4. Timed'
  BY DEF OnFailure, Types, Timed, Resetting, Reporting
<1> QED
  BY <1>1, <1>2, <1>3, <1>4

LEMMA ReadCountKeeps ==
    ASSUME UsersAssumption, BreakerInv, NEW u \in Users, ReadCount(u)
    PROVE  BreakerInv'
<1> USE DEF BreakerInv, Do
<1> u # Operator /\ u \in Users \cup {Operator}
  BY DEF UsersAssumption
<1>1. Types'
  BY DEF ReadCount, Types, Statements, Reporting
<1>2. Counts'
  <2>1. Pending' = Pending /\ failed' = failed /\ failCount' = failCount
    BY DEF ReadCount, Types, Pending
  <2>2. \A v \in Users : doing'[v] = "fail2" => \/ doing[v] = "fail2" /\ read'[v] = read[v]
                                                \/ read'[v] = failCount
    BY DEF ReadCount, Types
  <2> QED
    BY <2>1, <2>2 DEF Counts
<1>3. Limit'
  BY DEF ReadCount, Types, Limit
<1>4. Timed'
  BY DEF ReadCount, Types, Timed, Resetting, Reporting
<1> QED
  BY <1>1, <1>2, <1>3, <1>4

LEMMA WriteCountKeeps ==
    ASSUME UsersAssumption, BreakerInv, NEW u \in Users, WriteCount(u)
    PROVE  BreakerInv'
<1> USE DEF BreakerInv, Do
<1> u # Operator /\ u \in Users \cup {Operator}
  BY DEF UsersAssumption
<1>1. Types'
  BY DEF WriteCount, Types, Statements, Reporting
<1>2. Counts'
  <2>1. CASE doing[u] = "succ2"
    <3>1. Pending' \subseteq Pending
      BY <2>1 DEF WriteCount, Types, Pending
    <3>2. failed' = failed /\ failCount' \in {0, failCount}
      BY <2>1 DEF WriteCount
    <3>3. \A v \in Users : doing'[v] = "fail2" => doing[v] = "fail2" /\ read'[v] = read[v]
      BY <2>1 DEF WriteCount, Types
    <3> QED
      BY <1>1, <3>1, <3>2, <3>3, CountsKept
  <2>2. CASE doing[u] = "fail2"
    <3>1. Pending' = Pending \ {u} /\ u \in Pending
      BY <2>2 DEF WriteCount, Types, Pending
    <3>2. Cardinality(Pending') = Cardinality(Pending) - 1 /\ Cardinality(Pending) \in Nat
      BY <3>1, PendingFinite, FS_RemoveElement
    <3>3. failed' = failed /\ failCount' = read[u] + 1 /\ read' = read
      BY <2>2 DEF WriteCount
    <3>4. \A v \in Users : doing'[v] = "fail2" => doing[v] = "fail2"
      BY <2>2 DEF WriteCount, Types
    <3> QED
      BY <2>2, <3>2, <3>3, <3>4 DEF Counts, Types
  <2> QED
    BY <2>1, <2>2 DEF WriteCount
<1>3. Limit'
  BY DEF WriteCount, Types, Limit
<1>4. Timed'
  BY DEF WriteCount, Types, Timed, Resetting, Reporting
<1> QED
  BY <1>1, <1>2, <1>3, <1>4

LEMMA TestCountKeeps ==
    ASSUME UsersAssumption, BreakerInv, NEW u \in Users, TestCount(u)
    PROVE  BreakerInv'
<1> USE DEF BreakerInv, Do
<1> u # Operator /\ u \in Users \cup {Operator}
  BY DEF UsersAssumption
<1>1. Types'
  BY DEF TestCount, Types, Statements, Reporting
<1>2. Counts'
  <2>1. Pending' \subseteq Pending
    BY DEF TestCount, Types, Pending
  <2>2. failed' = failed /\ failCount' \in {0, failCount}
    BY DEF TestCount
  <2>3. \A v \in Users : doing'[v] = "fail2" => doing[v] = "fail2" /\ read'[v] = read[v]
    BY DEF TestCount, Types
  <2> QED
    BY <1>1, <2>1, <2>2, <2>3, CountsKept
<1>3. Limit'
  <2>1. failCount <= failed
    BY PendingFinite DEF Counts, Types
  <2>2. failed' = failed /\ circuit' = circuit
    BY DEF TestCount
  <2>3. \A v \in Users : doing'[v] \in {"clock", "half", "open", "reopen"} =>
           doing[v] = doing'[v] \/ failCount >= FailureLimit
    BY DEF TestCount, Types
  <2> QED
    BY <2>1, <2>2, <2>3 DEF Limit, Types, UsersAssumption
<1>4. Timed'
  BY DEF TestCount, Types, Timed, Resetting, Reporting
<1> QED
  BY <1>1, <1>2, <1>3, <1>4

LEMMA AssignKeeps ==
    ASSUME UsersAssumption, BreakerInv, NEW u \in Users, Assign(u)
    PROVE  BreakerInv'
<1> USE DEF BreakerInv, Do
<1> u # Operator /\ u \in Users \cup {Operator}
  BY DEF UsersAssumption
<1>1. Types'
  BY DEF Assign, Types, Statements, Reporting
<1>2. Counts'
  <2>1. Pending' \subseteq Pending
    BY DEF Assign, Types, Pending
  <2>2. failed' = failed /\ failCount' \in {0, failCount}
    BY DEF Assign
  <2>3. \A v \in Users : doing'[v] = "fail2" => doing[v] = "fail2" /\ read'[v] = read[v]
    BY DEF Assign, Types
  <2> QED
    BY <1>1, <2>1, <2>2, <2>3, CountsKept
<1>3. Limit'
  BY DEF Assign, Types, Limit
<1>4. Timed'
  BY DEF Assign, Types, Timed, Resetting, Reporting
<1> QED
  BY <1>1, <1>2, <1>3, <1>4

LEMMA ResetKeeps ==
    ASSUME UsersAssumption, BreakerInv, Reset
    PROVE  BreakerInv'
<1> USE DEF BreakerInv, Do
<1>1. Types'
  <2>1. doing' \in [Users \cup {Operator} -> Statements]
    BY DEF Reset, Types, Statements
  <2>2. circuit' \in {"closed", "open", "half_open"} /\ lastFail' \in {"none", "recent", "past"}
    BY DEF Reset, Types
  <2>3. failCount' \in Nat /\ succCount' \in Nat
    BY DEF Reset, Types
  <2>4. raced' \in BOOLEAN
    BY DEF Reset, Types
  <2> QED
    BY <2>1, <2>2, <2>3, <2>4 DEF Reset, Types
<1>2. Counts'
  <2>1. Pending' \subseteq Pending
    BY DEF Reset, Types, Pending
  <2>2. failed' = failed /\ failCount' \in {0, failCount}
    BY DEF Reset
  <2>3. \A v \in Users : doing'[v] = "fail2" => doing[v] = "fail2" /\ read'[v] = read[v]
    BY DEF Reset, Types
  <2> QED
    BY <1>1, <2>1, <2>2, <2>3, CountsKept
<1>3. Limit'
  BY DEF Reset, Types, Limit
<1>4. Timed'
  BY DEF Reset, Types, Timed, Resetting, Reporting
<1> QED
  BY <1>1, <1>2, <1>3, <1>4

LEMMA ElapseKeeps ==
    ASSUME UsersAssumption, BreakerInv, Elapse
    PROVE  BreakerInv'
<1> USE DEF BreakerInv, Do
<1>1. Types'
  BY DEF Elapse, Types, Statements, Reporting
<1>2. Counts'
  <2>1. Pending' \subseteq Pending
    BY DEF Elapse, Types, Pending
  <2>2. failed' = failed /\ failCount' \in {0, failCount}
    BY DEF Elapse
  <2>3. \A v \in Users : doing'[v] = "fail2" => doing[v] = "fail2" /\ read'[v] = read[v]
    BY DEF Elapse, Types
  <2> QED
    BY <1>1, <2>1, <2>2, <2>3, CountsKept
<1>3. Limit'
  BY DEF Elapse, Types, Limit
<1>4. Timed'
  BY DEF Elapse, Types, Timed, Resetting, Reporting
<1> QED
  BY <1>1, <1>2, <1>3, <1>4

LEMMA BreakerSteps == ASSUME UsersAssumption PROVE BreakerInv /\ [BreakerNext]_breakerVars => BreakerInv'
<1> SUFFICES ASSUME BreakerInv, [BreakerNext]_breakerVars PROVE BreakerInv'
  OBVIOUS
<1>1. CASE UNCHANGED breakerVars
  BY <1>1 DEF breakerVars, BreakerInv, Types, Counts, Limit, Timed, Pending, Resetting
<1>2. CASE BreakerNext
  BY <1>2, EnterKeeps, ClockKeeps, HalfOpenKeeps, ZeroSuccessesKeeps, ReturnKeeps, RaiseKeeps,
     OnSuccessKeeps, OnFailureKeeps, ReadCountKeeps, WriteCountKeeps, TestCountKeeps, AssignKeeps,
     ResetKeeps, ElapseKeeps DEF BreakerNext
<1> QED
  BY <1>1, <1>2

-----------------------------------------------------------------------------
(* The theorem. *)

\* The breaker of the synchronous clients, for any number of threads and any limits:
\* it opens only when as many failures were reported as its threshold says, and, unless
\* a reset ran into a report, with the time at which it may be tried again.
THEOREM BreakerCanRecover == BreakerSpec => []OpenCanRecover
<1>1. BreakerInit => BreakerInv
  BY BreakerStarts, UsersAssumption
<1>2. BreakerInv /\ [BreakerNext]_breakerVars => BreakerInv'
  BY BreakerSteps, UsersAssumption
<1>3. BreakerInv => OpenCanRecover
  BY DEF BreakerInv, Limit, Timed, OpenCanRecover
<1> QED
  BY <1>1, <1>2, <1>3, PTL DEF BreakerSpec

-----------------------------------------------------------------------------
(* ThreadedPool *)

Waits == {"idle", "limit", "create", "wait", "using", "count"}
Conditions == {"none", "quiet", "unread", "closed", "reset", "gone", "shut"}

PoolTypes ==
    /\ pooled \in Seq(Sockets) /\ created \in Int
    /\ where \in [Threads \cup {Closer} -> Waits \cup {"drain", "zero", "done"}]
    /\ sock \in [Threads -> Sockets \cup {"none"}]
    /\ peer \in [Sockets -> Conditions] /\ drained \in BOOLEAN

\* The lock is with the thread inside one of the two steps that need it, a thread
\* has a socket just while it uses it and until it is counted off, and close_all
\* is what forgets the count.
Held ==
    /\ \A t \in Threads : where[t] \in Waits
    /\ \A t \in Threads : where[t] \in {"create", "wait"} => poolLock = t
    /\ \A t \in Threads : sock[t] # "none" <=> where[t] \in {"using", "count"}
    /\ where[Closer] \in {"drain", "zero"} => drained

\* A socket that waits has been made and is in one place.
Placed ==
    /\ IsInjective(pooled) /\ \A t \in Owned : ~Contains(pooled, sock[t])
    /\ \A t, u \in Owned : t # u => sock[t] # sock[u]
    /\ \A t \in Owned : peer[sock[t]] # "none" /\ (where[t] = "using" => peer[sock[t]] \notin {"gone", "shut"})
    /\ \A s \in ToSet(pooled) : peer[s] \in {"unread", "closed", "reset"}

\* Until close_all the count is right, and there is room when the lock was taken
\* for making a socket.
Counted ==
    ~drained =>
        /\ created = Len(pooled) + Cardinality(Owned) /\ created <= MaxConnections
        /\ \A t \in Threads : where[t] = "create" => created < MaxConnections

ThreadedPoolInv == PoolTypes /\ Held /\ Placed /\ Counted

-----------------------------------------------------------------------------
(* The queue. *)

\* get takes the oldest socket out of a queue without duplicates.
LEMMA TakeOldest ==
    ASSUME NEW S, NEW q \in Seq(S), q # <<>>, IsInjective(q)
    PROVE  /\ Tail(q) \in Seq(S) /\ Head(q) \in S /\ Len(Tail(q)) = Len(q) - 1 /\ Len(q) \in Nat
           /\ IsInjective(Tail(q))
           /\ Head(q) \in ToSet(q) /\ ToSet(Tail(q)) = ToSet(q) \ {Head(q)}
<1>1. /\ Tail(q) \in Seq(S) /\ Head(q) \in S /\ Len(Tail(q)) = Len(q) - 1
      /\ \A i \in 1..Len(Tail(q)) : Tail(q)[i] = q[i + 1]
  BY HeadTailProperties
<1>2. /\ DOMAIN q = 1..Len(q) /\ DOMAIN Tail(q) = 1..(Len(q) - 1)
      /\ Len(q) \in Nat \ {0} /\ Head(q) = q[1]
  BY <1>1, LenProperties, EmptySeq
<1>3. IsInjective(Tail(q))
  BY <1>1, <1>2 DEF IsInjective
<1>4. Head(q) \in ToSet(q)
  BY <1>2 DEF ToSet
<1>5. ASSUME NEW x \in ToSet(Tail(q)) PROVE x \in ToSet(q) \ {Head(q)}
  <2>1. PICK i \in 1..(Len(q) - 1) : x = q[i + 1]
    BY <1>1, <1>2, <1>5 DEF ToSet
  <2>2. i + 1 \in DOMAIN q /\ 1 \in DOMAIN q /\ i + 1 # 1
    BY <1>2
  <2> QED
    BY <1>2, <2>1, <2>2 DEF ToSet, IsInjective
<1>6. ASSUME NEW x \in ToSet(q) \ {Head(q)} PROVE x \in ToSet(Tail(q))
  <2>1. PICK i \in 1..Len(q) : x = q[i]
    BY <1>2 DEF ToSet
  <2>2. i # 1 /\ i - 1 \in 1..(Len(q) - 1) /\ (i - 1) + 1 = i
    BY <1>2, <2>1
  <2>3. Tail(q)[i - 1] = x
    BY <1>1, <2>1, <2>2
  <2> QED
    BY <1>2, <2>2, <2>3 DEF ToSet
<1> QED
  BY <1>1, <1>2, <1>3, <1>4, <1>5, <1>6

\* put appends one that is not there.
LEMMA PutNew ==
    ASSUME NEW S, NEW q \in Seq(S), NEW c \in S, IsInjective(q), c \notin ToSet(q)
    PROVE  /\ Append(q, c) \in Seq(S) /\ Len(Append(q, c)) = Len(q) + 1 /\ Len(q) \in Nat
           /\ IsInjective(Append(q, c)) /\ ToSet(Append(q, c)) = ToSet(q) \cup {c}
<1> DEFINE a == Append(q, c)
<1>1. /\ a \in Seq(S) /\ Len(a) = Len(q) + 1 /\ a[Len(q) + 1] = c
      /\ \A i \in 1..Len(q) : a[i] = q[i]
  BY AppendProperties
<1>2. DOMAIN a = 1..(Len(q) + 1) /\ DOMAIN q = 1..Len(q) /\ Len(q) \in Nat
  BY <1>1, LenProperties
<1>3. IsInjective(a)
  BY <1>1, <1>2 DEF IsInjective, ToSet
<1>4. ToSet(a) = ToSet(q) \cup {c}
  <2>1. ASSUME NEW x \in ToSet(a) PROVE x \in ToSet(q) \cup {c}
    BY <1>1, <1>2 DEF ToSet
  <2>2. c \in ToSet(a)
    BY <1>1, <1>2 DEF ToSet
  <2>3. ASSUME NEW x \in ToSet(q) PROVE x \in ToSet(a)
    BY <1>1, <1>2 DEF ToSet
  <2> QED
    BY <2>1, <2>2, <2>3
<1> QED
  BY <1>1, <1>2, <1>3, <1>4

LEMMA ContainsIsMembership ==
    ASSUME NEW S, NEW q \in Seq(S), NEW e
    PROVE  Contains(q, e) <=> e \in ToSet(q)
  BY LenProperties DEF Contains, ToSet

LEMMA OwnedFinite ==
    ASSUME ThreadedPoolAssumption
    PROVE  IsFiniteSet(Owned) /\ Cardinality(Owned) \in Nat
<1>1. Owned \subseteq Threads
  BY DEF Owned
<1> QED
  BY <1>1, FS_Subset, FS_CardinalityType DEF ThreadedPoolAssumption

\* Where a step leaves the queue alone and no other thread gets a socket, whatever
\* moved, what was placed stays placed.
LEMMA OwnedOnes ==
    ASSUME PoolTypes, Placed
    PROVE  \A t \in Owned : t \in Threads /\ sock[t] \in Sockets /\ sock[t] \notin ToSet(pooled)
  BY ContainsIsMembership DEF PoolTypes, Placed, Owned

LEMMA PoolStarts == ASSUME ThreadedPoolAssumption PROVE PoolInit => ThreadedPoolInv
<1> SUFFICES ASSUME PoolInit PROVE ThreadedPoolInv
  OBVIOUS
<1>1. PoolTypes /\ Held
  <2>1. pooled \in Seq(Sockets)
    BY DEF PoolInit
  <2>2. PoolTypes
    <3>1. where \in [Threads \cup {Closer} -> Waits \cup {"drain", "zero", "done"}]
      BY DEF PoolInit, Waits
    <3>2. sock \in [Threads -> Sockets \cup {"none"}] /\ peer \in [Sockets -> Conditions]
      BY DEF PoolInit, Conditions
    <3>3. created \in Int
      BY DEF PoolInit
    <3>4. drained \in BOOLEAN
      BY Zenon DEF PoolInit
    <3> QED
      BY <2>1, <3>1, <3>2, <3>3, <3>4 DEF PoolTypes
  <2>3. where[Closer] = "idle" /\ \A t \in Threads : where[t] = "idle" /\ sock[t] = "none"
    BY DEF PoolInit
  <2> QED
    BY <2>2, <2>3 DEF Held, Waits
<1>2. Owned = {} /\ ToSet(pooled) = {} /\ IsInjective(pooled) /\ Len(pooled) = 0
  BY DEF PoolInit, Owned, ToSet, IsInjective
<1>3. Placed /\ Counted
  BY <1>2, FS_EmptySet DEF PoolInit, Placed, Counted, ThreadedPoolAssumption
<1> QED
  BY <1>1, <1>3 DEF ThreadedPoolInv

LEMMA GetNowaitKeeps ==
    ASSUME ThreadedPoolAssumption, ThreadedPoolInv, NEW t \in Threads, GetNowait(t)
    PROVE  ThreadedPoolInv'
<1> USE DEF ThreadedPoolInv, At, Hold
<1> t # Closer /\ t \in Threads \cup {Closer}
  BY DEF ThreadedPoolAssumption
<1>1. CASE pooled = <<>>
  <2>1. PoolTypes' /\ Held' /\ Owned' = Owned
    BY <1>1 DEF GetNowait, PoolTypes, Held, Waits, Conditions, Owned
  <2>2. Placed'
    BY <1>1, <2>1 DEF GetNowait, Placed, PoolTypes, Held, Owned
  <2>3. Counted'
    BY <1>1, <2>1 DEF GetNowait, Counted, PoolTypes
  <2> QED
    BY <2>1, <2>2, <2>3
<1>2. CASE pooled # <<>>
  <2> DEFINE s == Head(pooled)
  <2>1. /\ pooled' \in Seq(Sockets) /\ s \in Sockets /\ Len(pooled') = Len(pooled) - 1
        /\ Len(pooled) \in Nat /\ IsInjective(pooled') /\ s \in ToSet(pooled)
        /\ ToSet(pooled') = ToSet(pooled) \ {s}
    <3>1. pooled' = Tail(pooled) /\ pooled \in Seq(Sockets) /\ IsInjective(pooled)
      BY <1>2 DEF GetNowait, PoolTypes, Placed
    <3> QED
      BY <1>2, <3>1, TakeOldest
  <2>2. /\ sock' = [sock EXCEPT ![t] = s] /\ where' = [where EXCEPT ![t] = "using"]
        /\ where[t] = "idle" /\ UNCHANGED <<created, poolLock, peer, drained>>
    BY <1>2 DEF GetNowait
  <2> HIDE DEF s
  <2>3. PoolTypes' /\ Held'
    BY <2>1, <2>2 DEF PoolTypes, Held, Waits, Conditions, ThreadedPoolAssumption
  <2>4. Owned' = Owned \cup {t} /\ t \notin Owned
    BY <2>1, <2>2 DEF PoolTypes, Held, Owned, ThreadedPoolAssumption
  <2>5. Cardinality(Owned') = Cardinality(Owned) + 1 /\ Cardinality(Owned) \in Nat
    BY <2>4, OwnedFinite, FS_AddElement
  <2>6. Counted'
    <3>1. Len(pooled') + Cardinality(Owned') = Len(pooled) + Cardinality(Owned)
      BY <2>1, <2>5
    <3>2. \A u \in Threads : where'[u] = "create" => where[u] = "create"
      BY <2>2 DEF PoolTypes
    <3> QED
      BY <2>2, <3>1, <3>2 DEF Counted
  <2>7. \A u \in Owned' : sock'[u] = IF u = t THEN s ELSE sock[u]
    BY <2>2, <2>4 DEF PoolTypes, Owned
  <2>8. \A u \in Owned' : ~Contains(pooled', sock'[u])
    BY <2>1, <2>4, <2>7, OwnedOnes, ContainsIsMembership
  <2>9. \A u, v \in Owned' : u # v => sock'[u] # sock'[v]
    BY <2>1, <2>4, <2>7, OwnedOnes DEF Placed, Owned
  <2>10. \A u \in Owned' : peer'[sock'[u]] # "none" /\ (where'[u] = "using" => peer'[sock'[u]] \notin {"gone", "shut"})
    BY <2>1, <2>2, <2>4, <2>7 DEF Placed, PoolTypes, Owned
  <2> QED
    BY <2>1, <2>2, <2>3, <2>6, <2>8, <2>9, <2>10 DEF Placed, Owned
<1> QED
  BY <1>1, <1>2

LEMMA TakeLockKeeps ==
    ASSUME ThreadedPoolAssumption, ThreadedPoolInv, NEW t \in Threads, TakeLock(t)
    PROVE  ThreadedPoolInv'
<1> USE DEF ThreadedPoolInv, At
<1> t # Closer /\ t \in Threads \cup {Closer}
  BY DEF ThreadedPoolAssumption
<1>1. PoolTypes' /\ Held' /\ Owned' = Owned
  BY DEF TakeLock, PoolTypes, Held, Waits, Conditions, Owned, ThreadedPoolAssumption
<1>2. Placed'
  BY <1>1 DEF TakeLock, Placed
<1>3. Counted'
  BY <1>1 DEF TakeLock, Counted, PoolTypes
<1> QED
  BY <1>1, <1>2, <1>3

LEMMA CreateKeeps ==
    ASSUME ThreadedPoolAssumption, ThreadedPoolInv, NEW t \in Threads, Create(t)
    PROVE  ThreadedPoolInv'
<1> USE DEF ThreadedPoolInv, At, Hold
<1> t # Closer /\ t \in Threads \cup {Closer}
  BY DEF ThreadedPoolAssumption
<1>1. /\ where[t] = "create" /\ poolLock' = "free" /\ UNCHANGED <<pooled, drained>>
      /\ \A u \in Threads : u # t => where[u] \notin {"create", "wait"}
  BY DEF Create, Held
<1>2. CASE where' = [where EXCEPT ![t] = "idle"] /\ UNCHANGED <<sock, peer, created>>
  <2>1. PoolTypes' /\ Held' /\ Owned' = Owned
    BY <1>1, <1>2 DEF PoolTypes, Held, Waits, Conditions, Owned, ThreadedPoolAssumption
  <2>2. Placed'
    BY <1>1, <1>2, <2>1 DEF Placed
  <2>3. Counted'
    BY <1>1, <1>2, <2>1 DEF Counted, PoolTypes
  <2> QED
    BY <2>1, <2>2, <2>3
<1>3. ASSUME NEW s \in Sockets, peer[s] = "none", peer' = [peer EXCEPT ![s] = "quiet"],
             sock' = [sock EXCEPT ![t] = s], where' = [where EXCEPT ![t] = "using"],
             created' = created + 1
      PROVE  ThreadedPoolInv'
  <2>1. PoolTypes' /\ Held'
    BY <1>1, <1>3 DEF PoolTypes, Held, Waits, Conditions, ThreadedPoolAssumption
  <2>2. Owned' = Owned \cup {t} /\ t \notin Owned
    BY <1>1, <1>3 DEF PoolTypes, Held, Owned, ThreadedPoolAssumption
  <2>3. Cardinality(Owned') = Cardinality(Owned) + 1 /\ Cardinality(Owned) \in Nat
    BY <2>2, OwnedFinite, FS_AddElement
  <2>4. Counted'
    BY <1>1, <1>3, <2>3, LenProperties DEF Counted, PoolTypes, ThreadedPoolAssumption
  <2>5. \A u \in Owned' : sock'[u] = IF u = t THEN s ELSE sock[u]
    BY <1>3, <2>2 DEF PoolTypes, Owned
  <2>6. s \notin ToSet(pooled) /\ \A u \in Owned : sock[u] # s
    BY <1>3 DEF Placed
  <2>7. \A u \in Owned' : ~Contains(pooled', sock'[u])
    BY <1>1, <2>2, <2>5, <2>6, OwnedOnes, ContainsIsMembership DEF PoolTypes
  <2>8. \A u, v \in Owned' : u # v => sock'[u] # sock'[v]
    BY <2>2, <2>5, <2>6 DEF Placed
  <2>9. \A u \in Owned' : peer'[sock'[u]] # "none" /\ (where'[u] = "using" => peer'[sock'[u]] \notin {"gone", "shut"})
    BY <1>3, <2>2, <2>5, OwnedOnes DEF Placed, PoolTypes, Owned
  <2>10. \A x \in ToSet(pooled') : peer'[x] \in {"unread", "closed", "reset"}
    <3>1. ToSet(pooled) \subseteq Sockets
      BY LenProperties, ElementOfSeq DEF PoolTypes, ToSet
    <3> QED
      BY <1>1, <1>3, <2>6, <3>1 DEF Placed, PoolTypes
  <2> QED
    BY <1>1, <2>1, <2>4, <2>7, <2>8, <2>9, <2>10 DEF Placed
<1> QED
  BY <1>2, <1>3 DEF Create

LEMMA WaitKeeps ==
    ASSUME ThreadedPoolAssumption, ThreadedPoolInv, NEW t \in Threads, Wait(t)
    PROVE  ThreadedPoolInv'
<1> USE DEF ThreadedPoolInv, At, Hold
<1> t # Closer /\ t \in Threads \cup {Closer}
  BY DEF ThreadedPoolAssumption
<1>0. \A u \in Threads : u # t => where[u] \notin {"create", "wait"}
  BY DEF Wait, Held
<1>1. CASE pooled = <<>>
  <2>1. PoolTypes' /\ Held' /\ Owned' = Owned
    BY <1>0, <1>1 DEF Wait, PoolTypes, Held, Waits, Conditions, Owned
  <2>2. Placed'
    BY <1>1, <2>1 DEF Wait, Placed, PoolTypes, Held, Owned
  <2>3. Counted'
    BY <1>1, <2>1 DEF Wait, Counted, PoolTypes
  <2> QED
    BY <2>1, <2>2, <2>3
<1>2. CASE pooled # <<>>
  <2> DEFINE s == Head(pooled)
  <2>1. /\ pooled' \in Seq(Sockets) /\ s \in Sockets /\ Len(pooled') = Len(pooled) - 1
        /\ Len(pooled) \in Nat /\ IsInjective(pooled') /\ s \in ToSet(pooled)
        /\ ToSet(pooled') = ToSet(pooled) \ {s}
    <3>1. pooled' = Tail(pooled) /\ pooled \in Seq(Sockets) /\ IsInjective(pooled)
      BY <1>2 DEF Wait, PoolTypes, Placed
    <3> QED
      BY <1>2, <3>1, TakeOldest
  <2>2. /\ sock' = [sock EXCEPT ![t] = s] /\ where' = [where EXCEPT ![t] = "using"]
        /\ where[t] = "wait" /\ poolLock' = "free" /\ UNCHANGED <<created, peer, drained>>
    BY <1>2 DEF Wait
  <2> HIDE DEF s
  <2>3. PoolTypes' /\ Held'
    BY <1>0, <2>1, <2>2 DEF PoolTypes, Held, Waits, Conditions, ThreadedPoolAssumption
  <2>4. Owned' = Owned \cup {t} /\ t \notin Owned
    BY <2>1, <2>2 DEF PoolTypes, Held, Owned, ThreadedPoolAssumption
  <2>5. Cardinality(Owned') = Cardinality(Owned) + 1 /\ Cardinality(Owned) \in Nat
    BY <2>4, OwnedFinite, FS_AddElement
  <2>6. Counted'
    <3>1. Len(pooled') + Cardinality(Owned') = Len(pooled) + Cardinality(Owned)
      BY <2>1, <2>5
    <3>2. \A u \in Threads : where'[u] = "create" => where[u] = "create"
      BY <2>2 DEF PoolTypes
    <3> QED
      BY <2>2, <3>1, <3>2 DEF Counted
  <2>7. \A u \in Owned' : sock'[u] = IF u = t THEN s ELSE sock[u]
    BY <2>2, <2>4 DEF PoolTypes, Owned
  <2>8. \A u \in Owned' : ~Contains(pooled', sock'[u])
    BY <2>1, <2>4, <2>7, OwnedOnes, ContainsIsMembership
  <2>9. \A u, v \in Owned' : u # v => sock'[u] # sock'[v]
    BY <2>1, <2>4, <2>7, OwnedOnes DEF Placed, Owned
  <2>10. \A u \in Owned' : peer'[sock'[u]] # "none" /\ (where'[u] = "using" => peer'[sock'[u]] \notin {"gone", "shut"})
    BY <2>1, <2>2, <2>4, <2>7 DEF Placed, PoolTypes, Owned
  <2> QED
    BY <2>1, <2>2, <2>3, <2>6, <2>8, <2>9, <2>10 DEF Placed, Owned
<1> QED
  BY <1>1, <1>2

LEMMA PeekKeeps ==
    ASSUME ThreadedPoolAssumption, ThreadedPoolInv, NEW t \in Threads, Peek(t)
    PROVE  ThreadedPoolInv'
<1> USE DEF ThreadedPoolInv, At, Hold
<1> t # Closer /\ t \in Threads \cup {Closer}
  BY DEF ThreadedPoolAssumption
<1> DEFINE s == sock[t]
<1>1. /\ where[t] = "using" /\ t \in Owned /\ s \in Sockets /\ s \notin ToSet(pooled)
      /\ peer[s] \in {"quiet", "unread", "closed", "reset"}
      /\ UNCHANGED <<created, poolLock, drained>>
  <2>1. where[t] = "using" /\ t \in Owned /\ UNCHANGED <<created, poolLock, drained>>
    BY DEF Peek, Held, Owned
  <2> QED
    BY <2>1, OwnedOnes DEF Placed, PoolTypes, Conditions
<1>2. CASE /\ peer[s] \in {"unread", "closed"} /\ pooled' = Append(pooled, s) /\ UNCHANGED peer
           /\ where' = [where EXCEPT ![t] = "idle"] /\ sock' = [sock EXCEPT ![t] = "none"]
  <2>1. /\ pooled' \in Seq(Sockets) /\ Len(pooled') = Len(pooled) + 1 /\ Len(pooled) \in Nat
        /\ IsInjective(pooled') /\ ToSet(pooled') = ToSet(pooled) \cup {s}
    <3>1. pooled \in Seq(Sockets) /\ IsInjective(pooled)
      BY DEF PoolTypes, Placed
    <3> QED
      BY <1>1, <1>2, <3>1, PutNew
  <2>2. PoolTypes' /\ Held'
    BY <1>1, <1>2, <2>1 DEF PoolTypes, Held, Waits, Conditions, ThreadedPoolAssumption
  <2>3. Owned' = Owned \ {t}
    BY <1>2 DEF PoolTypes, Owned
  <2>4. Cardinality(Owned') = Cardinality(Owned) - 1 /\ Cardinality(Owned) \in Nat
    BY <1>1, <2>3, OwnedFinite, FS_RemoveElement
  <2>5. Counted'
    <3>1. Len(pooled') + Cardinality(Owned') = Len(pooled) + Cardinality(Owned)
      BY <2>1, <2>4
    <3>2. \A u \in Threads : where'[u] = "create" => where[u] = "create"
      BY <1>2 DEF PoolTypes
    <3> QED
      BY <1>1, <3>1, <3>2 DEF Counted
  <2>6. \A u \in Owned' : u \in Owned /\ u # t /\ sock'[u] = sock[u] /\ where'[u] = where[u]
    BY <1>2, <2>3 DEF PoolTypes, Owned
  <2>7. \A u \in Owned' : ~Contains(pooled', sock'[u])
    <3>1. \A u \in Owned' : sock'[u] \notin ToSet(pooled')
      BY <1>1, <2>1, <2>6, OwnedOnes DEF Placed
    <3> QED
      BY <2>1, <3>1, ContainsIsMembership
  <2>8. \A x \in ToSet(pooled') : peer'[x] \in {"unread", "closed", "reset"}
    BY <1>1, <1>2, <2>1 DEF Placed
  <2> QED
    BY <1>2, <2>1, <2>2, <2>5, <2>6, <2>7, <2>8 DEF Placed
<1>3. CASE /\ peer' = [peer EXCEPT ![s] = IF @ = "quiet" THEN "shut" ELSE "gone"] /\ UNCHANGED <<sock, pooled>>
           /\ where' = [where EXCEPT ![t] = "count"]
  <2>1. PoolTypes' /\ Held' /\ Owned' = Owned
    BY <1>1, <1>3 DEF PoolTypes, Held, Waits, Conditions, Owned, ThreadedPoolAssumption
  <2>2. Counted'
    BY <1>1, <1>3, <2>1 DEF Counted, PoolTypes
  <2>3. \A u \in Owned' : peer'[sock'[u]] # "none" /\ (where'[u] = "using" => peer'[sock'[u]] \notin {"gone", "shut"})
    BY <1>1, <1>3, <2>1, OwnedOnes DEF Placed, PoolTypes, Owned
  <2>4. \A x \in ToSet(pooled') : peer'[x] \in {"unread", "closed", "reset"}
    <3>1. ToSet(pooled) \subseteq Sockets
      BY LenProperties, ElementOfSeq DEF PoolTypes, ToSet
    <3> QED
      BY <1>1, <1>3, <3>1 DEF Placed, PoolTypes
  <2> QED
    BY <1>3, <2>1, <2>2, <2>3, <2>4 DEF Placed
<1> QED
  BY <1>2, <1>3 DEF Peek

LEMMA CountOffKeeps ==
    ASSUME ThreadedPoolAssumption, ThreadedPoolInv, NEW t \in Threads, CountOff(t)
    PROVE  ThreadedPoolInv'
<1> USE DEF ThreadedPoolInv, At, Hold
<1> t # Closer /\ t \in Threads \cup {Closer}
  BY DEF ThreadedPoolAssumption
<1>1. /\ where[t] = "count" /\ t \in Owned /\ created' = created - 1
      /\ UNCHANGED <<pooled, poolLock, peer, drained>>
  BY DEF CountOff, Held, Owned
<1>2. PoolTypes' /\ Held'
  BY <1>1 DEF CountOff, PoolTypes, Held, Waits, Conditions, ThreadedPoolAssumption
<1>3. Owned' = Owned \ {t}
  BY DEF CountOff, PoolTypes, Owned
<1>4. Cardinality(Owned') = Cardinality(Owned) - 1 /\ Cardinality(Owned) \in Nat
  BY <1>1, <1>3, OwnedFinite, FS_RemoveElement
<1>5. Counted'
  <2>1. \A u \in Threads : where'[u] = "create" => where[u] = "create"
    BY DEF CountOff, PoolTypes
  <2>2. Len(pooled) \in Nat /\ created \in Int
    BY LenProperties DEF PoolTypes
  <2> QED
    BY <1>1, <1>4, <2>1, <2>2 DEF Counted, ThreadedPoolAssumption
<1>6. \A u \in Owned' : u \in Owned /\ sock'[u] = sock[u] /\ where'[u] = where[u]
  BY <1>3 DEF CountOff, PoolTypes, Owned
<1> QED
  BY <1>1, <1>2, <1>5, <1>6 DEF Placed

LEMMA DrainKeeps ==
    ASSUME ThreadedPoolAssumption, ThreadedPoolInv, Drain
    PROVE  ThreadedPoolInv'
<1> USE DEF ThreadedPoolInv, At
<1> Closer \notin Threads
  BY DEF ThreadedPoolAssumption
<1>1. /\ drained' = TRUE /\ UNCHANGED <<created, poolLock, sock>> /\ Owned' = Owned
      /\ \A t \in Threads : where'[t] = where[t]
  BY DEF Drain, Owned, PoolTypes
<1>2. Counted'
  BY <1>1 DEF Counted
<1>3. CASE pooled = <<>>
  <2>1. PoolTypes' /\ Held'
    BY <1>1, <1>3 DEF Drain, PoolTypes, Held, Waits, Conditions
  <2> QED
    BY <1>1, <1>2, <1>3, <2>1 DEF Drain, Placed, Owned
<1>4. CASE pooled # <<>>
  <2> DEFINE s == Head(pooled)
  <2>1. /\ pooled' \in Seq(Sockets) /\ s \in Sockets /\ IsInjective(pooled')
        /\ s \in ToSet(pooled) /\ ToSet(pooled') = ToSet(pooled) \ {s}
    <3>1. pooled' = Tail(pooled) /\ pooled \in Seq(Sockets) /\ IsInjective(pooled)
      BY <1>4 DEF Drain, PoolTypes, Placed
    <3> QED
      BY <1>4, <3>1, TakeOldest
  <2>2. peer' = [peer EXCEPT ![s] = "gone"] /\ where' = [where EXCEPT ![Closer] = "drain"]
    BY <1>4 DEF Drain
  <2> HIDE DEF s
  <2>3. PoolTypes' /\ Held'
    BY <1>1, <2>1, <2>2 DEF PoolTypes, Held, Waits, Conditions
  <2>4. \A u \in Owned' : sock'[u] # s /\ sock'[u] \in Sockets /\ ~Contains(pooled', sock'[u])
    BY <1>1, <2>1, OwnedOnes, ContainsIsMembership
  <2>5. \A u \in Owned' : peer'[sock'[u]] = peer[sock[u]]
    BY <1>1, <2>2, <2>4 DEF PoolTypes
  <2>6. \A x \in ToSet(pooled') : peer'[x] \in {"unread", "closed", "reset"}
    <3>1. ToSet(pooled) \subseteq Sockets
      BY LenProperties, ElementOfSeq DEF PoolTypes, ToSet
    <3> QED
      BY <2>1, <2>2, <3>1 DEF Placed, PoolTypes
  <2>7. \A u \in Owned' : u \in Owned /\ where'[u] = where[u] /\ sock'[u] = sock[u]
    BY <1>1 DEF Owned
  <2> QED
    BY <1>2, <2>1, <2>3, <2>4, <2>5, <2>6, <2>7 DEF Placed
<1> QED
  BY <1>3, <1>4

LEMMA ZeroKeeps ==
    ASSUME ThreadedPoolAssumption, ThreadedPoolInv, Zero
    PROVE  ThreadedPoolInv'
<1> USE DEF ThreadedPoolInv, At
<1> Closer \notin Threads
  BY DEF ThreadedPoolAssumption
<1>1. /\ drained /\ Owned' = Owned /\ \A t \in Threads : where'[t] = where[t]
      /\ UNCHANGED <<pooled, poolLock, sock, peer, drained>>
  BY DEF Zero, Owned, PoolTypes, Held
<1>2. PoolTypes' /\ Held'
  BY <1>1 DEF Zero, PoolTypes, Held, Waits, Conditions
<1> QED
  BY <1>1, <1>2 DEF Counted, Placed, Owned

LEMMA PeerKeeps ==
    ASSUME ThreadedPoolAssumption, ThreadedPoolInv, NEW s \in Sockets, Peer(s)
    PROVE  ThreadedPoolInv'
<1> USE DEF ThreadedPoolInv
<1>1. UNCHANGED <<pooled, created, poolLock, where, sock, drained>> /\ Owned' = Owned
  BY DEF Peer, Owned
<1>2. PICK c \in {"quiet", "unread", "closed", "reset"} : peer' = [peer EXCEPT ![s] = c]
  BY DEF Peer
<1>3. /\ peer[s] \in {"quiet", "unread", "closed"}
      /\ s \in ToSet(pooled) => c \in {"closed", "reset"}
  <2>1. peer[s] \in {"quiet", "unread", "closed"}
    BY DEF Peer
  <2>2. ASSUME s \in ToSet(pooled) PROVE c \in {"closed", "reset"}
    <3>1. peer[s] # "quiet" /\ \A t \in Threads : sock[t] # s
      BY <2>1, <2>2, OwnedOnes DEF Placed, Owned, ThreadedPoolAssumption
    <3>2. \E u \in {"closed", "reset"} : peer' = [peer EXCEPT ![s] = u]
      BY <3>1 DEF Peer
    <3> QED
      BY <1>2, <3>2 DEF PoolTypes
  <2> QED
    BY <2>1, <2>2
<1>4. PoolTypes' /\ Held'
  BY <1>1, <1>2 DEF PoolTypes, Held, Conditions
<1>5. Counted'
  BY <1>1 DEF Counted
<1>6. \A x \in Sockets : peer'[x] = IF x = s THEN c ELSE peer[x]
  BY <1>2 DEF PoolTypes
<1>7. ToSet(pooled) \subseteq Sockets
  BY LenProperties, ElementOfSeq DEF PoolTypes, ToSet
<1>8. Placed'
  BY <1>1, <1>3, <1>6, <1>7, OwnedOnes DEF Placed
<1> QED
  BY <1>4, <1>5, <1>8

LEMMA ThreadedPoolSteps ==
    ASSUME ThreadedPoolAssumption PROVE ThreadedPoolInv /\ [PoolNext]_poolVars => ThreadedPoolInv'
<1> SUFFICES ASSUME ThreadedPoolInv, [PoolNext]_poolVars PROVE ThreadedPoolInv'
  OBVIOUS
<1>1. CASE UNCHANGED poolVars
  BY <1>1 DEF poolVars, ThreadedPoolInv, PoolTypes, Held, Placed, Counted, Owned
<1>2. CASE PoolNext
  BY <1>2, GetNowaitKeeps, TakeLockKeeps, CreateKeeps, WaitKeeps, PeekKeeps, CountOffKeeps,
     DrainKeeps, ZeroKeeps, PeerKeeps DEF PoolNext, PoolStep
<1> QED
  BY <1>1, <1>2

\* The pool of the synchronous clients, for any number of threads and any limit: no
\* socket is with two threads, or with one and in the queue, and until close_all the count
\* is that of the sockets there are and keeps to max_connections; and what waits in
\* the queue is never a socket in good order.
THEOREM PoolCountsSockets == PoolSpec => []PoolCounted
<1>1. PoolInit => ThreadedPoolInv
  BY PoolStarts, ThreadedPoolAssumption
<1>2. ThreadedPoolInv /\ [PoolNext]_poolVars => ThreadedPoolInv'
  BY ThreadedPoolSteps, ThreadedPoolAssumption
<1>3. ThreadedPoolInv => PoolCounted
  BY DEF ThreadedPoolInv, Placed, Counted, PoolCounted
<1> QED
  BY <1>1, <1>2, <1>3, PTL DEF PoolSpec

-----------------------------------------------------------------------------
(* RateLimiter *)

Checks == [at : Nat, who : Clients, came : {"denied", "global", "client", "passed", "invalid"}]

\* Tokens taken from a bucket, which is that of the clients C, by the checks from..to.
TookIn(lg, from, to, C, O) ==
    Cardinality({k \in from..to : lg[k].who \in C /\ lg[k].came \in O})

\* Whether the check e takes a token of the bucket.
Takes(e, C, O) == e.who \in C /\ e.came \in O

\* What a bucket that was full at check m has left at time t.
Window(lg, m, t, C, O, r, cap) ==
    cap + r * (t - lg[m].at) - Share * TookIn(lg, m, Len(lg), C, O)

\* v tokens at time t are, up to the capacity, what the worst window has left.
Level(v, lg, t, C, O, r, cap) ==
    /\ \A m \in 1..Len(lg) : \/ v <= Window(lg, m, t, C, O, r, cap)
                             \/ cap <= Window(lg, m, t, C, O, r, cap)
    /\ \/ cap <= v
       \/ \E m \in 1..Len(lg) : Window(lg, m, t, C, O, r, cap) <= v

\* Tokens(n, ...) of the log lg.
WorstAt(lg, n, C, O, r, cap) ==
    Min({cap + r * (lg[n].at - lg[m].at) - Share * TookIn(lg, m, n - 1, C, O) : m \in 1..n})

Capped(cap, v) == IF cap <= v THEN cap ELSE v

-----------------------------------------------------------------------------
(* Counting.                                                                *)

LEMMA LogTyped ==
    ASSUME NEW lg \in Seq(Checks), NEW k \in 1..Len(lg)
    PROVE  lg[k] \in Checks /\ lg[k].at \in Nat
<1>1. lg[k] \in Checks
  BY ElementOfSeq
<1>2. QED BY <1>1 DEF Checks

LEMMA TookFinite ==
    ASSUME NEW lg, NEW from \in Int, NEW to \in Int, NEW C, NEW O
    PROVE  TookIn(lg, from, to, C, O) \in Nat
<1>1. IsFiniteSet(from..to)
  BY FS_Interval
<1>2. IsFiniteSet({k \in from..to : lg[k].who \in C /\ lg[k].came \in O})
  BY <1>1, FS_Subset
<1>3. QED BY <1>2, FS_CardinalityType DEF TookIn

\* The checks before are what they were, and the new one counts if it takes a token.
LEMMA TookAppend ==
    ASSUME NEW lg \in Seq(Checks), NEW e \in Checks, NEW C, NEW O, NEW m \in 1..(Len(lg) + 1)
    PROVE  /\ TookIn(Append(lg, e), m, Len(lg), C, O) = TookIn(lg, m, Len(lg), C, O)
           /\ Takes(e, C, O) => TookIn(Append(lg, e), m, Len(lg) + 1, C, O)
                                  = TookIn(lg, m, Len(lg), C, O) + 1
           /\ ~Takes(e, C, O) => TookIn(Append(lg, e), m, Len(lg) + 1, C, O)
                                   = TookIn(lg, m, Len(lg), C, O)
<1> DEFINE n == Len(lg) + 1
           a == Append(lg, e)
           S == {k \in m..Len(lg) : lg[k].who \in C /\ lg[k].came \in O}
           T == {k \in m..Len(lg) : a[k].who \in C /\ a[k].came \in O}
           U == {k \in m..n : a[k].who \in C /\ a[k].came \in O}
<1>1. Len(lg) \in Nat /\ a[n] = e /\ \A k \in 1..Len(lg) : a[k] = lg[k]
  BY AppendProperties, LenProperties
<1>2. \A k \in m..Len(lg) : k \in 1..Len(lg)
  BY <1>1
<1> HIDE DEF a
<1>3. S = T
  BY <1>1, <1>2
<1>4. IsFiniteSet(S) /\ n \notin S
  <2>1. IsFiniteSet(m..Len(lg))
    BY <1>1, FS_Interval
  <2>2. n \notin m..Len(lg)
    BY <1>1
  <2>3. QED BY <2>1, <2>2, FS_Subset
<1>5. m..n = (m..Len(lg)) \cup {n}
  BY <1>1
<1>6. U = IF Takes(e, C, O) THEN S \cup {n} ELSE S
  BY <1>1, <1>3, <1>5 DEF Takes
<1>7. Cardinality(S \cup {n}) = Cardinality(S) + 1
  BY <1>4, FS_AddElement
<1>8. QED
  BY <1>3, <1>6, <1>7 DEF TookIn, a

\* At a new check, the window of each check before has left what it had, but for the
\* token that the new check takes, and its own window is the whole capacity but for it.
LEMMA WindowAppend ==
    ASSUME NEW lg \in Seq(Checks), NEW e \in Checks, NEW C, NEW O, NEW r \in Nat, NEW cap \in Nat,
           NEW s \in Nat, s = IF Takes(e, C, O) THEN Share ELSE 0
    PROVE  /\ \A m \in 1..Len(lg) : Window(Append(lg, e), m, e.at, C, O, r, cap)
                                      = Window(lg, m, e.at, C, O, r, cap) - s
           /\ Window(Append(lg, e), Len(lg) + 1, e.at, C, O, r, cap) = cap - s
<1> DEFINE n == Len(lg) + 1
           a == Append(lg, e)
<1>0. Len(lg) \in Nat /\ Len(a) = n /\ a[n] = e /\ \A k \in 1..Len(lg) : a[k] = lg[k]
  BY AppendProperties, LenProperties
<1>1. /\ Len(lg) \in Nat /\ Len(a) = n /\ a[n] = e /\ \A k \in 1..Len(lg) : a[k] = lg[k]
      /\ e.at \in Nat /\ \A k \in 1..Len(lg) : lg[k].at \in Nat
  BY <1>0, LogTyped DEF Checks
<1>2. Share \in Nat
  BY RateAssumption
<1>3. ASSUME NEW m \in 1..Len(lg)
      PROVE  Window(a, m, e.at, C, O, r, cap) = Window(lg, m, e.at, C, O, r, cap) - s
  <2> DEFINE x == TookIn(lg, m, Len(lg), C, O)
             y == TookIn(a, m, n, C, O)
             z == r * (e.at - lg[m].at)
  <2>1. x \in Nat /\ y = IF Takes(e, C, O) THEN x + 1 ELSE x
    BY <1>1, TookFinite, TookAppend
  <2>2. z \in Int
    BY <1>1
  <2> HIDE DEF x, y, z
  <2>3. cap + z - Share * y = (cap + z - Share * x) - s
    <3>1. CASE Takes(e, C, O)
      BY <1>2, <2>1, <2>2, <3>1
    <3>2. CASE ~Takes(e, C, O)
      BY <1>2, <2>1, <2>2, <3>2
    <3>3. QED BY <3>1, <3>2
  <2>4. QED BY <1>1, <2>3 DEF Window, x, y, z
<1>4. Window(a, n, e.at, C, O, r, cap) = cap - s
  <2> DEFINE y == TookIn(a, n, n, C, O)
  <2>1. TookIn(lg, n, Len(lg), C, O) = 0
    <3>1. n..Len(lg) = {}
      BY <1>1
    <3>2. QED BY <3>1, FS_EmptySet DEF TookIn
  <2>2. y = IF Takes(e, C, O) THEN 1 ELSE 0
    BY <1>1, <2>1, TookAppend
  <2>3. r * (e.at - e.at) = 0
    BY <1>1
  <2> HIDE DEF y
  <2>4. cap + 0 - Share * y = cap - s
    BY <1>2, <2>2
  <2>5. QED BY <1>1, <2>3, <2>4 DEF Window, y
<1>5. QED BY <1>3, <1>4
-----------------------------------------------------------------------------
(* How the level of a bucket moves.                                         *)

LEMMA WindowInt ==
    ASSUME NEW lg \in Seq(Checks), NEW t \in Nat, NEW C, NEW O, NEW r \in Nat, NEW cap \in Nat,
           NEW m \in 1..Len(lg)
    PROVE  /\ Window(lg, m, t, C, O, r, cap) \in Int
           /\ Window(lg, m, t + 1, C, O, r, cap) = Window(lg, m, t, C, O, r, cap) + r
<1> DEFINE x == TookIn(lg, m, Len(lg), C, O)
           y == lg[m].at
<1>0. m \in Int /\ Len(lg) \in Int
  BY LenProperties
<1>1. x \in Nat /\ y \in Nat /\ Share \in Nat
  BY <1>0, TookFinite, LogTyped, RateAssumption
<1> HIDE DEF x, y
<1>2. cap + r * (t - y) - Share * x \in Int
  BY <1>1
<1>3. cap + r * ((t + 1) - y) - Share * x = (cap + r * (t - y) - Share * x) + r
  BY <1>1
<1>4. QED BY <1>2, <1>3 DEF Window, x, y

\* The bucket is asked: it is refilled up to its capacity, and may lose a token.
LEMMA LevelAsked ==
    ASSUME NEW lg \in Seq(Checks), NEW e \in Checks, NEW C, NEW O, NEW r \in Nat, NEW cap \in Nat,
           NEW v \in Int, NEW s \in Nat, s = IF Takes(e, C, O) THEN Share ELSE 0,
           Level(v, lg, e.at, C, O, r, cap)
    PROVE  Level(Capped(cap, v) - s, Append(lg, e), e.at, C, O, r, cap)
<1> DEFINE n == Len(lg) + 1
           a == Append(lg, e)
           W(m) == Window(lg, m, e.at, C, O, r, cap)
           X(m) == Window(a, m, e.at, C, O, r, cap)
           w == Capped(cap, v)
<1>1. Len(lg) \in Nat /\ Len(a) = n /\ e.at \in Nat /\ w \in Int
  BY AppendProperties, LenProperties DEF Checks, Capped
<1>2. /\ \A m \in 1..Len(lg) : X(m) = W(m) - s /\ W(m) \in Int
      /\ X(n) = cap - s
  <2>1. /\ \A m \in 1..Len(lg) : X(m) = W(m) - s
        /\ X(n) = cap - s
    BY WindowAppend
  <2>2. \A m \in 1..Len(lg) : W(m) \in Int
    BY <1>1, WindowInt
  <2>3. QED BY <2>1, <2>2
<1>3. /\ \A m \in 1..Len(lg) : v <= W(m) \/ cap <= W(m)
      /\ cap <= v \/ \E m \in 1..Len(lg) : W(m) <= v
  BY DEF Level
<1> HIDE DEF W, X
<1>4. w <= cap /\ w <= v /\ (w = cap \/ w = v) /\ (cap <= v => w = cap)
  BY DEF Capped
<1> HIDE DEF w
<1>5. \A m \in 1..n : w - s <= X(m)
  <2>1. ASSUME NEW m \in 1..Len(lg) PROVE w - s <= X(m)
    <3>1. w <= W(m)
      BY <1>1, <1>2, <1>3, <1>4
    <3>2. QED BY <1>1, <1>2, <3>1
  <2>2. w - s <= X(n)
    BY <1>1, <1>2, <1>4
  <2>3. QED BY <1>1, <2>1, <2>2
<1>6. \E m \in 1..n : X(m) <= w - s
  <2>1. CASE w = cap
    BY <1>1, <1>2, <2>1
  <2>2. CASE w # cap
    <3>1. w = v /\ \E m \in 1..Len(lg) : W(m) <= v
      BY <1>3, <1>4, <2>2
    <3>2. PICK m \in 1..Len(lg) : W(m) <= v
      BY <3>1
    <3>3. X(m) <= w - s /\ m \in 1..n
      BY <1>1, <1>2, <3>1, <3>2
    <3>4. QED BY <3>3
  <2>3. QED BY <2>1, <2>2
<1>7. QED BY <1>1, <1>5, <1>6 DEF Level, X, w

\* Another bucket is asked, or none.
LEMMA LevelNotAsked ==
    ASSUME NEW lg \in Seq(Checks), NEW e \in Checks, NEW C, NEW O, NEW r \in Nat, NEW cap \in Nat,
           NEW v \in Int, ~Takes(e, C, O), Level(v, lg, e.at, C, O, r, cap)
    PROVE  Level(v, Append(lg, e), e.at, C, O, r, cap)
<1> DEFINE n == Len(lg) + 1
           a == Append(lg, e)
           W(m) == Window(lg, m, e.at, C, O, r, cap)
           X(m) == Window(a, m, e.at, C, O, r, cap)
<1>1. Len(lg) \in Nat /\ Len(a) = n /\ e.at \in Nat
  BY AppendProperties, LenProperties DEF Checks
<1>2. /\ \A m \in 1..Len(lg) : X(m) = W(m) - 0 /\ W(m) \in Int
      /\ X(n) = cap - 0
  BY <1>1, WindowAppend, WindowInt
<1>3. /\ \A m \in 1..Len(lg) : v <= W(m) \/ cap <= W(m)
      /\ cap <= v \/ \E m \in 1..Len(lg) : W(m) <= v
  BY DEF Level
<1> HIDE DEF W, X
<1>4. \A m \in 1..n : v <= X(m) \/ cap <= X(m)
  <2>1. ASSUME NEW m \in 1..Len(lg) PROVE v <= X(m) \/ cap <= X(m)
    BY <1>2, <1>3
  <2>2. cap <= X(n)
    BY <1>2
  <2>3. QED BY <1>1, <2>1, <2>2
<1>5. cap <= v \/ \E m \in 1..n : X(m) <= v
  BY <1>1, <1>2, <1>3
<1>6. QED BY <1>1, <1>4, <1>5 DEF Level, X

\* Time passes.
LEMMA LevelLater ==
    ASSUME NEW lg \in Seq(Checks), NEW t \in Nat, NEW C, NEW O, NEW r \in Nat, NEW cap \in Nat,
           NEW v \in Int, Level(v, lg, t, C, O, r, cap)
    PROVE  Level(v + r, lg, t + 1, C, O, r, cap) /\ (v = cap => Level(cap, lg, t + 1, C, O, r, cap))
<1> DEFINE W(m) == Window(lg, m, t, C, O, r, cap)
           X(m) == Window(lg, m, t + 1, C, O, r, cap)
<1>1. \A m \in 1..Len(lg) : W(m) \in Int /\ X(m) = W(m) + r
  BY WindowInt
<1>2. /\ \A m \in 1..Len(lg) : v <= W(m) \/ cap <= W(m)
      /\ cap <= v \/ \E m \in 1..Len(lg) : W(m) <= v
  BY DEF Level
<1> HIDE DEF W, X
<1>3. \A m \in 1..Len(lg) : (v + r <= X(m) \/ cap <= X(m)) /\ (v = cap => cap <= X(m))
  BY <1>1, <1>2
<1>4. cap <= v + r \/ \E m \in 1..Len(lg) : X(m) <= v + r
  BY <1>1, <1>2
<1>5. QED BY <1>3, <1>4 DEF Level, X

\* A bucket that is full again can be forgotten: a new one is as full.
LEMMA LevelForgotten ==
    ASSUME NEW lg \in Seq(Checks), NEW t \in Nat, NEW C, NEW O, NEW r \in Nat, NEW cap \in Nat,
           NEW v \in Int, Level(v, lg, t, C, O, r, cap), cap <= v
    PROVE  Level(cap, lg, t, C, O, r, cap)
<1> DEFINE W(m) == Window(lg, m, t, C, O, r, cap)
<1>1. \A m \in 1..Len(lg) : W(m) \in Int
  BY WindowInt
<1>2. \A m \in 1..Len(lg) : v <= W(m) \/ cap <= W(m)
  BY DEF Level
<1> HIDE DEF W
<1>3. \A m \in 1..Len(lg) : cap <= W(m)
  BY <1>1, <1>2
<1>4. QED BY <1>3 DEF Level, W

\* The level is what the worst window that ends at the new check has left.
LEMMA LevelIsTokens ==
    ASSUME NEW lg \in Seq(Checks), NEW e \in Checks, NEW C, NEW O, NEW r \in Nat, NEW cap \in Nat,
           NEW v \in Int, Level(v, lg, e.at, C, O, r, cap)
    PROVE  WorstAt(Append(lg, e), Len(lg) + 1, C, O, r, cap) = Capped(cap, v)
<1> DEFINE n == Len(lg) + 1
           a == Append(lg, e)
           W(m) == Window(lg, m, e.at, C, O, r, cap)
           X(m) == cap + r * (a[n].at - a[m].at) - Share * TookIn(a, m, n - 1, C, O)
           w == Capped(cap, v)
<1>1. /\ Len(lg) \in Nat /\ a[n] = e /\ \A k \in 1..Len(lg) : a[k] = lg[k]
      /\ e.at \in Nat /\ Share \in Nat /\ n - 1 = Len(lg)
  BY AppendProperties, LenProperties, RateAssumption DEF Checks
<1>2. ASSUME NEW m \in 1..Len(lg) PROVE X(m) = W(m) /\ W(m) \in Int
  <2>1. m \in 1..(Len(lg) + 1)
    BY <1>1
  <2>2. TookIn(a, m, Len(lg), C, O) = TookIn(lg, m, Len(lg), C, O)
    BY <2>1, TookAppend
  <2>3. X(m) = W(m)
    BY <1>1, <2>2 DEF Window
  <2>4. W(m) \in Int
    BY <1>1, WindowInt
  <2>5. QED BY <2>3, <2>4
<1>3. X(n) = cap
  <2>1. n..Len(lg) = {}
    BY <1>1
  <2>2. TookIn(a, n, n - 1, C, O) = 0
    BY <1>1, <2>1, FS_EmptySet DEF TookIn
  <2>3. r * (e.at - e.at) = 0 /\ Share * 0 = 0
    BY <1>1
  <2>4. QED BY <1>1, <2>2, <2>3
<1>4. /\ \A m \in 1..Len(lg) : v <= W(m) \/ cap <= W(m)
      /\ cap <= v \/ \E m \in 1..Len(lg) : W(m) <= v
  BY DEF Level
<1> HIDE DEF W, X
<1>5. w <= cap /\ w <= v /\ (w = cap \/ w = v) /\ (cap <= v => w = cap) /\ w \in Int
  BY DEF Capped
<1> HIDE DEF w
<1>6. \A m \in 1..n : X(m) \in Int /\ w <= X(m)
  BY <1>1, <1>2, <1>3, <1>4, <1>5
<1>7. \E m \in 1..n : X(m) = w
  <2>1. CASE w = cap
    BY <1>1, <1>3, <2>1
  <2>2. CASE w # cap
    <3>1. PICK m \in 1..Len(lg) : W(m) <= v
      BY <1>4, <1>5, <2>2
    <3>2. m \in 1..n /\ X(m) = w
      BY <1>1, <1>2, <1>5, <1>6, <2>2, <3>1
    <3>3. QED BY <3>2
  <2>3. QED BY <2>1, <2>2
<1> DEFINE S == {X(m) : m \in 1..n}
<1>8. w \in S /\ \A y \in S : y \in Int /\ w <= y
  BY <1>6, <1>7
<1> HIDE DEF S
<1>9. Min(S) = w
  <2>1. \A x \in S : (\A y \in S : x <= y) => x = w
    BY <1>5, <1>8
  <2>2. QED BY <1>8, <2>1 DEF Min
<1>10. QED BY <1>9 DEF S, X, w, WorstAt
-----------------------------------------------------------------------------
(* The exactness of a check, over any log.                                  *)

OfAll == {"passed", "invalid", "client"}
OfOwn == {"passed", "invalid"}

Verdict(came, all, own) ==
    came = (IF all < Share THEN "global"
            ELSE IF own < Share THEN "client"
            ELSE IF came = "invalid" THEN "invalid" ELSE "passed")

ExactIn(lg, n) ==
    lg[n].came # "denied" =>
        Verdict(lg[n].came, WorstAt(lg, n, Clients, OfAll, Rate * Share, Burst * Share),
                WorstAt(lg, n, {lg[n].who}, OfOwn, Rate, ClientCapacity))

LEMMA WorstPrefix ==
    ASSUME NEW lg \in Seq(Checks), NEW e \in Checks, NEW n \in 1..Len(lg), NEW C, NEW O, NEW r, NEW cap
    PROVE  WorstAt(Append(lg, e), n, C, O, r, cap) = WorstAt(lg, n, C, O, r, cap)
<1> DEFINE a == Append(lg, e)
<1>1. Len(lg) \in Nat /\ \A k \in 1..Len(lg) : a[k] = lg[k]
  BY AppendProperties, LenProperties
<1> HIDE DEF a
<1>2. ASSUME NEW m \in 1..n
      PROVE  a[m] = lg[m] /\ TookIn(a, m, n - 1, C, O) = TookIn(lg, m, n - 1, C, O)
  <2>1. \A k \in m..(n - 1) : k \in 1..Len(lg)
    BY <1>1
  <2>2. {k \in m..(n - 1) : a[k].who \in C /\ a[k].came \in O}
          = {k \in m..(n - 1) : lg[k].who \in C /\ lg[k].came \in O}
    BY <1>1, <2>1
  <2>3. m \in 1..Len(lg)
    BY <1>1
  <2>4. QED BY <1>1, <2>2, <2>3 DEF TookIn
<1>3. a[n] = lg[n]
  BY <1>1
<1>4. {cap + r * (a[n].at - a[m].at) - Share * TookIn(a, m, n - 1, C, O) : m \in 1..n}
        = {cap + r * (lg[n].at - lg[m].at) - Share * TookIn(lg, m, n - 1, C, O) : m \in 1..n}
  BY <1>2, <1>3
<1>5. QED BY <1>4 DEF WorstAt, a

\* What a check was told depends on the checks before it only.
LEMMA ExactPrefix ==
    ASSUME NEW lg \in Seq(Checks), NEW e \in Checks, NEW n \in 1..Len(lg), ExactIn(lg, n)
    PROVE  ExactIn(Append(lg, e), n)
<1>1. Append(lg, e)[n] = lg[n]
  BY AppendProperties
<1>2. QED BY <1>1, WorstPrefix DEF ExactIn

-----------------------------------------------------------------------------
(* The invariant.                                                           *)

Bucket == [tokens : Nat, last : Nat]

\* What a bucket would hold now, were it not capped.
Have(b, t, r) == b.tokens + (t - b.last) * r

BucketOf(bs, c, t) == IF c \in DOMAIN bs THEN bs[c] ELSE [tokens |-> ClientCapacity, last |-> t]

Typed(t, ev, bs, lg) ==
    /\ t \in Nat /\ lg \in Seq(Checks)
    /\ ev \in Bucket /\ ev.last <= t
    /\ DOMAIN bs \subseteq Clients
    /\ \A c \in DOMAIN bs : bs[c] \in Bucket /\ bs[c].last <= t

LevelOfAll(t, ev, lg) ==
    Level(Have(ev, t, Rate * Share), lg, t, Clients, OfAll, Rate * Share, Burst * Share)

LevelOf(c, t, bs, lg) ==
    Level(Have(BucketOf(bs, c, t), t, Rate), lg, t, {c}, OfOwn, Rate, ClientCapacity)

Levels(t, ev, bs, lg) ==
    /\ LevelOfAll(t, ev, lg)
    /\ \A c \in Clients : LevelOf(c, t, bs, lg)

Exact(lg) == \A n \in 1..Len(lg) : ExactIn(lg, n)

Kept(t, ev, bs, lg) == Typed(t, ev, bs, lg) /\ Levels(t, ev, bs, lg) /\ Exact(lg)

RateInv == Kept(time, everyone, buckets, log)

LEMMA CapacityNat ==
    ClientCapacity \in Nat /\ ClientCapacity <= Burst /\ Rate * Share \in Nat /\ Burst * Share \in Nat
<1>1. Burst \in Nat /\ Share \in Nat \ {0} /\ Rate \in Nat
  BY RateAssumption
<1> DEFINE q == Burst \div Share
<1>2. q \in Nat /\ Burst = Share * q + (Burst % Share) /\ Burst % Share \in Nat
  BY <1>1
<1>3. Rate * Share \in Nat /\ Burst * Share \in Nat
  BY <1>1
<1> HIDE DEF q
<1>4. q * Share = Share * q /\ q * Share \in Nat
  BY <1>1, <1>2
<1>5. q * Share <= Burst
  BY <1>1, <1>2, <1>4
<1>6. QED BY <1>3, <1>4, <1>5 DEF ClientCapacity, q

\* acquire: the bucket is refilled up to its capacity, and gives a token if it has one.
LEMMA AcquireTakes ==
    ASSUME time \in Nat, NEW b \in Bucket, b.last <= time, NEW rate \in Nat, NEW cap \in Nat
    PROVE  LET f == Refill(b, rate, cap)
               g == TakeFrom(f)
               h == Have(b, time, rate)
           IN  /\ h \in Nat
               /\ f.tokens = Capped(cap, h) /\ f.tokens \in Nat
               /\ g \in Bucket /\ g.last = time
               /\ Acquired(f) => Have(g, time, rate) = Capped(cap, h) - Share
               /\ ~Acquired(f) => Have(g, time, rate) = Capped(cap, h) - 0
<1> DEFINE f == Refill(b, rate, cap)
           g == TakeFrom(f)
           h == Have(b, time, rate)
<1>1. b.tokens \in Nat /\ b.last \in Nat /\ Share \in Nat
  BY RateAssumption DEF Bucket
<1>2. h = b.tokens + (time - b.last) * rate
  BY DEF Have
<1>3. h \in Nat
  <2>1. time - b.last \in Nat
    BY <1>1
  <2>2. (time - b.last) * rate \in Nat
    BY <2>1
  <2>3. QED BY <1>1, <1>2, <2>2
<1> HIDE DEF h
<1>4. Min({cap, h}) = Capped(cap, h)
  <2>1. CASE cap <= h
    <3>1. \A x \in {cap, h} : (\A y \in {cap, h} : x <= y) => x = cap
      BY <1>3, <2>1
    <3>2. cap \in {cap, h} /\ \A y \in {cap, h} : cap <= y
      BY <1>3, <2>1
    <3>3. QED BY <2>1, <3>1, <3>2 DEF Min, Capped
  <2>2. CASE ~(cap <= h)
    <3>1. \A x \in {cap, h} : (\A y \in {cap, h} : x <= y) => x = h
      BY <1>3, <2>2
    <3>2. h \in {cap, h} /\ \A y \in {cap, h} : h <= y
      BY <1>3, <2>2
    <3>3. QED BY <2>2, <3>1, <3>2 DEF Min, Capped
  <2>3. QED BY <2>1, <2>2
<1>5. f = [tokens |-> Capped(cap, h), last |-> time]
  BY <1>2, <1>4 DEF Refill
<1>6. Capped(cap, h) \in Nat
  BY <1>3 DEF Capped
<1> DEFINE w == Capped(cap, h)
<1> HIDE DEF w
<1>7. f.tokens = w /\ f.last = time /\ w \in Nat
  BY <1>5, <1>6 DEF w
<1>8. CASE Acquired(f)
  <2>1. w >= Share
    BY <1>7, <1>8 DEF Acquired
  <2>2. g = [tokens |-> w - Share, last |-> time]
    BY <1>5, <1>8 DEF TakeFrom, w
  <2>3. w - Share \in Nat /\ (w - Share) + (time - time) * rate = w - Share
    BY <1>1, <1>7, <2>1
  <2>4. g \in Bucket /\ g.last = time /\ Have(g, time, rate) = w - Share
    BY <2>2, <2>3 DEF Bucket, Have
  <2>5. QED BY <1>3, <1>7, <1>8, <2>4 DEF w, h
<1>9. CASE ~Acquired(f)
  <2>1. g = [tokens |-> w, last |-> time]
    BY <1>5, <1>9 DEF TakeFrom, w
  <2>2. w + (time - time) * rate = w - 0
    BY <1>1, <1>7
  <2>3. g \in Bucket /\ g.last = time /\ Have(g, time, rate) = w - 0
    BY <1>7, <2>1, <2>2 DEF Bucket, Have
  <2>4. QED BY <1>3, <1>7, <1>9, <2>3 DEF w, h
<1>10. QED BY <1>8, <1>9
-----------------------------------------------------------------------------
(* A check.                                                                 *)

Came == {"denied", "global", "client", "passed", "invalid"}
Entry(c, came) == [at |-> time, who |-> c, came |-> came]

LEMMA EntryTyped ==
    ASSUME RateInv, NEW c \in Clients, NEW came \in Came
    PROVE  /\ Entry(c, came) \in Checks /\ Entry(c, came).at = time
           /\ Entry(c, came).who = c /\ Entry(c, came).came = came
           /\ Append(log, Entry(c, came)) \in Seq(Checks)
           /\ Len(Append(log, Entry(c, came))) = Len(log) + 1
           /\ Append(log, Entry(c, came))[Len(log) + 1] = Entry(c, came)
           /\ log \in Seq(Checks) /\ time \in Nat /\ Len(log) \in Nat
<1>1. time \in Nat /\ log \in Seq(Checks)
  BY DEF RateInv, Kept, Typed
<1>2. Entry(c, came) \in Checks /\ Entry(c, came).at = time
         /\ Entry(c, came).who = c /\ Entry(c, came).came = came
  BY <1>1 DEF Entry, Checks, Came
<1> HIDE DEF Entry
<1>3. QED BY <1>1, <1>2, AppendProperties, LenProperties

\* The client's bucket, whether it is there or is made now.
LEMMA BucketThere ==
    ASSUME RateInv, NEW c \in Clients
    PROVE  /\ BucketOf(buckets, c, time) \in Bucket /\ BucketOf(buckets, c, time).last <= time
           /\ ClientNow(c) = Refill(BucketOf(buckets, c, time), Rate, ClientCapacity)
<1>1. time \in Nat /\ \A d \in DOMAIN buckets : buckets[d] \in Bucket /\ buckets[d].last <= time
  BY DEF RateInv, Kept, Typed
<1>2. ClientCapacity \in Nat
  BY CapacityNat
<1>3. BucketOf(buckets, c, time) \in Bucket /\ BucketOf(buckets, c, time).last <= time
  BY <1>1, <1>2 DEF BucketOf, Bucket
<1>4. QED BY <1>3 DEF ClientNow, BucketOf, Full

\* Refused or not, everybody's bucket keeps its level,
LEMMA AllAsked ==
    ASSUME RateInv, NEW c \in Clients, NEW came \in Came \ {"denied"},
           Acquired(GlobalNow) <=> came # "global"
    PROVE  /\ TakeFrom(GlobalNow) \in Bucket /\ TakeFrom(GlobalNow).last = time
           /\ LevelOfAll(time, TakeFrom(GlobalNow), Append(log, Entry(c, came)))
           /\ WorstAt(Append(log, Entry(c, came)), Len(log) + 1, Clients, OfAll, Rate * Share, Burst * Share)
                = GlobalNow.tokens
           /\ GlobalNow.tokens \in Nat
<1> DEFINE e == Entry(c, came)
           h == Have(everyone, time, Rate * Share)
           g == TakeFrom(GlobalNow)
<1>1. /\ e \in Checks /\ e.at = time /\ e.who = c /\ e.came = came
      /\ log \in Seq(Checks) /\ time \in Nat
  BY EntryTyped
<1>2. everyone \in Bucket /\ everyone.last <= time /\ LevelOfAll(time, everyone, log)
  BY DEF RateInv, Kept, Typed, Levels
<1>3. Rate * Share \in Nat /\ Burst * Share \in Nat /\ Share \in Nat
  BY CapacityNat, RateAssumption
<1>4. /\ h \in Nat
      /\ GlobalNow.tokens = Capped(Burst * Share, h) /\ GlobalNow.tokens \in Nat
      /\ g \in Bucket /\ g.last = time
      /\ Acquired(GlobalNow) => Have(g, time, Rate * Share) = Capped(Burst * Share, h) - Share
      /\ ~Acquired(GlobalNow) => Have(g, time, Rate * Share) = Capped(Burst * Share, h) - 0
  BY <1>1, <1>2, <1>3, AcquireTakes DEF GlobalNow
<1>5. Takes(e, Clients, OfAll) <=> Acquired(GlobalNow)
  BY <1>1 DEF Takes, OfAll, Came
<1>6. Level(h, log, e.at, Clients, OfAll, Rate * Share, Burst * Share)
  BY <1>1, <1>2 DEF LevelOfAll
<1> HIDE DEF e, h, g
<1>7. LevelOfAll(time, g, Append(log, e))
  <2>1. CASE Acquired(GlobalNow)
    <3>1. Level(Capped(Burst * Share, h) - Share, Append(log, e), e.at, Clients, OfAll,
                Rate * Share, Burst * Share)
      BY <1>1, <1>3, <1>4, <1>5, <1>6, <2>1, LevelAsked
    <3>2. QED BY <1>1, <1>4, <2>1, <3>1 DEF LevelOfAll
  <2>2. CASE ~Acquired(GlobalNow)
    <3>1. Level(Capped(Burst * Share, h) - 0, Append(log, e), e.at, Clients, OfAll,
                Rate * Share, Burst * Share)
      BY <1>1, <1>3, <1>4, <1>5, <1>6, <2>2, LevelAsked
    <3>2. QED BY <1>1, <1>4, <2>2, <3>1 DEF LevelOfAll
  <2>3. QED BY <2>1, <2>2
<1>8. WorstAt(Append(log, e), Len(log) + 1, Clients, OfAll, Rate * Share, Burst * Share)
        = Capped(Burst * Share, h)
  BY <1>1, <1>3, <1>4, <1>6, LevelIsTokens
<1>9. QED BY <1>4, <1>7, <1>8 DEF e, g

\* and so does the bucket of the client that is asked.
LEMMA OwnAsked ==
    ASSUME RateInv, NEW c \in Clients, NEW came \in {"client", "passed", "invalid"},
           Acquired(ClientNow(c)) <=> came # "client"
    PROVE  /\ TakeFrom(ClientNow(c)) \in Bucket /\ TakeFrom(ClientNow(c)).last = time
           /\ Level(Have(TakeFrom(ClientNow(c)), time, Rate), Append(log, Entry(c, came)), time,
                    {c}, OfOwn, Rate, ClientCapacity)
<1> DEFINE e == Entry(c, came)
           b == BucketOf(buckets, c, time)
           h == Have(b, time, Rate)
           f == ClientNow(c)
           g == TakeFrom(f)
<1>0. came \in Came
  BY DEF Came
<1>1. /\ e \in Checks /\ e.at = time /\ e.who = c /\ e.came = came
      /\ log \in Seq(Checks) /\ time \in Nat
  BY <1>0, EntryTyped
<1>2. b \in Bucket /\ b.last <= time /\ f = Refill(b, Rate, ClientCapacity)
  BY BucketThere
<1>3. Rate \in Nat /\ ClientCapacity \in Nat /\ Share \in Nat
  BY CapacityNat, RateAssumption
<1>6. Level(h, log, e.at, {c}, OfOwn, Rate, ClientCapacity)
  BY <1>1 DEF RateInv, Kept, Levels, LevelOf
<1> HIDE DEF e, b, f
<1>4. /\ h \in Nat
      /\ g \in Bucket /\ g.last = time
      /\ Acquired(f) => Have(g, time, Rate) = Capped(ClientCapacity, h) - Share
      /\ ~Acquired(f) => Have(g, time, Rate) = Capped(ClientCapacity, h) - 0
  BY <1>1, <1>2, <1>3, AcquireTakes
<1>5. Takes(e, {c}, OfOwn) <=> Acquired(f)
  BY <1>1 DEF Takes, OfOwn, f
<1> HIDE DEF h, g
<1>7. Level(Have(g, time, Rate), Append(log, e), time, {c}, OfOwn, Rate, ClientCapacity)
  <2>1. CASE Acquired(f)
    <3>1. Level(Capped(ClientCapacity, h) - Share, Append(log, e), e.at, {c}, OfOwn, Rate, ClientCapacity)
      BY <1>1, <1>3, <1>4, <1>5, <1>6, <2>1, LevelAsked
    <3>2. QED BY <1>1, <1>4, <2>1, <3>1
  <2>2. CASE ~Acquired(f)
    <3>1. Level(Capped(ClientCapacity, h) - 0, Append(log, e), e.at, {c}, OfOwn, Rate, ClientCapacity)
      BY <1>1, <1>3, <1>4, <1>5, <1>6, <2>2, LevelAsked
    <3>2. QED BY <1>1, <1>4, <2>2, <3>1
  <2>3. QED BY <2>1, <2>2
<1>8. QED BY <1>4, <1>7 DEF e, g, f

\* What the client's window has left is what the bucket holds.
LEMMA OwnWorst ==
    ASSUME RateInv, NEW c \in Clients, NEW came \in Came
    PROVE  /\ WorstAt(Append(log, Entry(c, came)), Len(log) + 1, {c}, OfOwn, Rate, ClientCapacity)
                = ClientNow(c).tokens
           /\ ClientNow(c).tokens \in Nat
<1> DEFINE e == Entry(c, came)
           b == BucketOf(buckets, c, time)
           h == Have(b, time, Rate)
           f == ClientNow(c)
<1>1. /\ e \in Checks /\ e.at = time /\ log \in Seq(Checks) /\ time \in Nat
  BY EntryTyped
<1>2. b \in Bucket /\ b.last <= time /\ f = Refill(b, Rate, ClientCapacity)
  BY BucketThere
<1>3. Rate \in Nat /\ ClientCapacity \in Nat
  BY CapacityNat, RateAssumption
<1>4. Level(h, log, e.at, {c}, OfOwn, Rate, ClientCapacity)
  BY <1>1 DEF RateInv, Kept, Levels, LevelOf
<1> HIDE DEF e, b, f
<1>5. h \in Nat /\ f.tokens = Capped(ClientCapacity, h) /\ f.tokens \in Nat
  BY <1>1, <1>2, <1>3, AcquireTakes
<1> HIDE DEF h
<1>6. WorstAt(Append(log, e), Len(log) + 1, {c}, OfOwn, Rate, ClientCapacity) = Capped(ClientCapacity, h)
  BY <1>1, <1>3, <1>4, <1>5, LevelIsTokens
<1>7. QED BY <1>5, <1>6 DEF e, f

\* A bucket that is not asked keeps its level.
LEMMA OtherKept ==
    ASSUME RateInv, NEW c \in Clients, NEW came \in Came, NEW d \in Clients,
           d # c \/ came \notin OfOwn
    PROVE  LevelOf(d, time, buckets, Append(log, Entry(c, came)))
<1> DEFINE e == Entry(c, came)
           b == BucketOf(buckets, d, time)
           h == Have(b, time, Rate)
<1>1. /\ e \in Checks /\ e.at = time /\ e.who = c /\ e.came = came
      /\ log \in Seq(Checks) /\ time \in Nat
  BY EntryTyped
<1>2. b \in Bucket /\ b.last <= time
  BY BucketThere
<1>3. Rate \in Nat /\ ClientCapacity \in Nat
  BY CapacityNat, RateAssumption
<1>4. Level(h, log, e.at, {d}, OfOwn, Rate, ClientCapacity)
  BY <1>1 DEF RateInv, Kept, Levels, LevelOf
<1>5. ~Takes(e, {d}, OfOwn)
  BY <1>1 DEF Takes
<1> HIDE DEF e, b
<1>6. h \in Int
  BY <1>1, <1>2, <1>3, AcquireTakes
<1> HIDE DEF h
<1>7. Level(h, Append(log, e), e.at, {d}, OfOwn, Rate, ClientCapacity)
  BY <1>1, <1>3, <1>4, <1>5, <1>6, LevelNotAsked
<1>8. QED BY <1>1, <1>7 DEF LevelOf, e, b, h
\* A new check that was told what its buckets held leaves every check exact.
LEMMA ExactAppend ==
    ASSUME RateInv, NEW c \in Clients, NEW came \in Came,
           ExactIn(Append(log, Entry(c, came)), Len(log) + 1)
    PROVE  Exact(Append(log, Entry(c, came)))
<1> DEFINE e == Entry(c, came)
<1>1. /\ e \in Checks /\ log \in Seq(Checks)
      /\ Len(Append(log, e)) = Len(log) + 1 /\ Len(log) \in Nat
  BY EntryTyped
<1>2. Exact(log)
  BY DEF RateInv, Kept
<1> HIDE DEF e
<1>3. \A n \in 1..Len(log) : ExactIn(Append(log, e), n)
  BY <1>1, <1>2, ExactPrefix DEF Exact
<1>4. \A n \in 1..(Len(log) + 1) : n \in 1..Len(log) \/ n = Len(log) + 1
  BY <1>1
<1>5. QED BY <1>1, <1>3, <1>4 DEF Exact, e

LEMMA DeniedKeeps ==
    ASSUME RateInv, NEW c \in Clients
    PROVE  Kept(time, everyone, buckets, Append(log, Entry(c, "denied")))
<1> DEFINE e == Entry(c, "denied")
           h == Have(everyone, time, Rate * Share)
<1>0. "denied" \in Came /\ "denied" \notin OfAll /\ "denied" \notin OfOwn
  BY DEF Came, OfAll, OfOwn
<1>1. /\ e \in Checks /\ e.at = time /\ e.who = c /\ e.came = "denied"
      /\ log \in Seq(Checks) /\ time \in Nat
      /\ Append(log, e) \in Seq(Checks) /\ Append(log, e)[Len(log) + 1] = e
  BY <1>0, EntryTyped
<1>2. Typed(time, everyone, buckets, log) /\ LevelOfAll(time, everyone, log)
  BY DEF RateInv, Kept, Levels
<1>3. LevelOfAll(time, everyone, Append(log, e))
  <2>1. Rate * Share \in Nat /\ Burst * Share \in Nat
    BY CapacityNat
  <2>2. everyone \in Bucket /\ everyone.last <= time
    BY <1>2 DEF Typed
  <2>3. h \in Nat
    BY <1>1, <2>1, <2>2, AcquireTakes
  <2>4. ~Takes(e, Clients, OfAll)
    BY <1>0, <1>1 DEF Takes
  <2>5. Level(h, log, e.at, Clients, OfAll, Rate * Share, Burst * Share)
    BY <1>1, <1>2 DEF LevelOfAll
  <2> HIDE DEF e, h
  <2>6. Level(h, Append(log, e), e.at, Clients, OfAll, Rate * Share, Burst * Share)
    BY <1>1, <2>1, <2>3, <2>4, <2>5, LevelNotAsked
  <2>7. QED BY <1>1, <2>6 DEF LevelOfAll, h
<1>4. \A d \in Clients : LevelOf(d, time, buckets, Append(log, e))
  BY <1>0, OtherKept
<1>5. ExactIn(Append(log, e), Len(log) + 1)
  BY <1>1 DEF ExactIn
<1>6. Exact(Append(log, e))
  BY <1>0, <1>5, ExactAppend
<1> HIDE DEF e
<1>7. Typed(time, everyone, buckets, Append(log, e))
  BY <1>1, <1>2 DEF Typed
<1>8. QED BY <1>3, <1>4, <1>6, <1>7 DEF Kept, Levels, e

LEMMA GlobalKeeps ==
    ASSUME RateInv, NEW c \in Clients, ~Acquired(GlobalNow)
    PROVE  Kept(time, TakeFrom(GlobalNow), buckets, Append(log, Entry(c, "global")))
<1> DEFINE e == Entry(c, "global")
           g == TakeFrom(GlobalNow)
<1>0. "global" \in Came /\ "global" \in Came \ {"denied"} /\ "global" \notin OfOwn
  BY DEF Came, OfOwn
<1>1. /\ e.who = c /\ e.came = "global"
      /\ log \in Seq(Checks) /\ time \in Nat
      /\ Append(log, e) \in Seq(Checks) /\ Append(log, e)[Len(log) + 1] = e
  BY <1>0, EntryTyped
<1>2. /\ g \in Bucket /\ g.last = time
      /\ LevelOfAll(time, g, Append(log, e))
      /\ WorstAt(Append(log, e), Len(log) + 1, Clients, OfAll, Rate * Share, Burst * Share)
           = GlobalNow.tokens
      /\ GlobalNow.tokens \in Nat
  BY <1>0, AllAsked
<1>3. \A d \in Clients : LevelOf(d, time, buckets, Append(log, e))
  BY <1>0, OtherKept
<1>4. GlobalNow.tokens < Share
  BY <1>2, RateAssumption DEF Acquired
<1> HIDE DEF e, g
<1>5. ExactIn(Append(log, e), Len(log) + 1)
  BY <1>1, <1>2, <1>4 DEF ExactIn, Verdict
<1>6. Exact(Append(log, e))
  BY <1>0, <1>5, ExactAppend DEF e
<1>7. Typed(time, g, buckets, Append(log, e))
  <2>1. Typed(time, everyone, buckets, log)
    BY DEF RateInv, Kept
  <2>2. QED BY <1>1, <1>2, <2>1 DEF Typed
<1>8. QED BY <1>2, <1>3, <1>6, <1>7 DEF Kept, Levels, e, g

TakenFrom(c) == [d \in DOMAIN buckets \cup {c} |-> IF d = c THEN TakeFrom(ClientNow(c)) ELSE buckets[d]]

LEMMA ClientKeeps ==
    ASSUME RateInv, NEW c \in Clients, NEW came \in {"client", "passed", "invalid"},
           Acquired(GlobalNow), Acquired(ClientNow(c)) <=> came # "client"
    PROVE  Kept(time, TakeFrom(GlobalNow), TakenFrom(c), Append(log, Entry(c, came)))
<1> DEFINE e == Entry(c, came)
           g == TakeFrom(GlobalNow)
           f == TakeFrom(ClientNow(c))
<1>0. came \in Came /\ came \in Came \ {"denied"} /\ came # "global"
  BY DEF Came
<1>1. /\ e.who = c /\ e.came = came
      /\ log \in Seq(Checks) /\ time \in Nat
      /\ Append(log, e) \in Seq(Checks) /\ Append(log, e)[Len(log) + 1] = e
  BY <1>0, EntryTyped
<1>2. /\ g \in Bucket /\ g.last = time
      /\ LevelOfAll(time, g, Append(log, e))
      /\ WorstAt(Append(log, e), Len(log) + 1, Clients, OfAll, Rate * Share, Burst * Share)
           = GlobalNow.tokens
      /\ GlobalNow.tokens \in Nat
  BY <1>0, AllAsked
<1>3. /\ f \in Bucket /\ f.last = time
      /\ Level(Have(f, time, Rate), Append(log, e), time, {c}, OfOwn, Rate, ClientCapacity)
  BY OwnAsked
<1>4. /\ WorstAt(Append(log, e), Len(log) + 1, {c}, OfOwn, Rate, ClientCapacity) = ClientNow(c).tokens
      /\ ClientNow(c).tokens \in Nat
  BY <1>0, OwnWorst
<1>5. ~(GlobalNow.tokens < Share) /\ (ClientNow(c).tokens < Share <=> came = "client")
  BY <1>2, <1>4, RateAssumption DEF Acquired
<1>6. \A d \in Clients \ {c} : LevelOf(d, time, buckets, Append(log, e))
  BY <1>0, OtherKept
<1>7. DOMAIN TakenFrom(c) = DOMAIN buckets \cup {c} /\ TakenFrom(c)[c] = f
        /\ \A d \in DOMAIN buckets : d # c => TakenFrom(c)[d] = buckets[d]
  BY DEF TakenFrom
<1> HIDE DEF e, g, f
<1>8. \A d \in Clients : LevelOf(d, time, TakenFrom(c), Append(log, e))
  <2>1. LevelOf(c, time, TakenFrom(c), Append(log, e))
    <3>1. BucketOf(TakenFrom(c), c, time) = f
      BY <1>7 DEF BucketOf
    <3>2. QED BY <1>3, <3>1 DEF LevelOf
  <2>2. ASSUME NEW d \in Clients \ {c} PROVE LevelOf(d, time, TakenFrom(c), Append(log, e))
    <3>1. BucketOf(TakenFrom(c), d, time) = BucketOf(buckets, d, time)
      BY <1>7 DEF BucketOf
    <3>2. QED BY <1>6, <3>1 DEF LevelOf
  <2>3. QED BY <2>1, <2>2
<1>9. ExactIn(Append(log, e), Len(log) + 1)
  BY <1>0, <1>1, <1>2, <1>4, <1>5 DEF ExactIn, Verdict
<1>10. Exact(Append(log, e))
  BY <1>0, <1>9, ExactAppend DEF e
<1>11. Typed(time, g, TakenFrom(c), Append(log, e))
  <2>1. Typed(time, everyone, buckets, log)
    BY DEF RateInv, Kept
  <2>2. DOMAIN TakenFrom(c) \subseteq Clients
    BY <1>7, <2>1 DEF Typed
  <2>3. \A d \in DOMAIN TakenFrom(c) : TakenFrom(c)[d] \in Bucket /\ TakenFrom(c)[d].last <= time
    BY <1>1, <1>3, <1>7, <2>1 DEF Typed
  <2>4. QED BY <1>1, <1>2, <2>2, <2>3 DEF Typed
<1>12. QED BY <1>2, <1>8, <1>10, <1>11 DEF Kept, Levels, e, g

-----------------------------------------------------------------------------
(* The cleanup and the clock.                                               *)

YoungOf(bs) == [c \in {d \in DOMAIN bs : time - bs[d].last <= MaxAge} |-> bs[c]]

\* A bucket that is forgotten had been filled up again.
LEMMA CleanupKeeps ==
    ASSUME RateInv
    PROVE  Kept(time, everyone, YoungOf(buckets), log)
<1>1. /\ Typed(time, everyone, buckets, log) /\ LevelOfAll(time, everyone, log) /\ Exact(log)
      /\ \A c \in Clients : LevelOf(c, time, buckets, log)
  BY DEF RateInv, Kept, Levels
<1>2. time \in Nat /\ log \in Seq(Checks) /\ MaxAge \in Nat /\ Rate \in Nat /\ Burst \in Nat
        /\ MaxAge * Rate >= Burst /\ ClientCapacity \in Nat /\ ClientCapacity <= Burst
  BY <1>1, CapacityNat, RateAssumption DEF Typed
<1>3. DOMAIN YoungOf(buckets) = {d \in DOMAIN buckets : time - buckets[d].last <= MaxAge}
        /\ \A c \in DOMAIN YoungOf(buckets) : YoungOf(buckets)[c] = buckets[c]
  BY DEF YoungOf
<1>4. ASSUME NEW c \in Clients PROVE LevelOf(c, time, YoungOf(buckets), log)
  <2>1. LevelOf(c, time, buckets, log)
    BY <1>1
  <2>2. CASE c \in DOMAIN buckets /\ time - buckets[c].last > MaxAge
    <3> DEFINE b == buckets[c]
               h == Have(b, time, Rate)
    <3>1. b.tokens \in Nat /\ b.last \in Nat /\ b.last <= time
      BY <1>1, <2>2 DEF Typed, Bucket
    <3>2. BucketOf(buckets, c, time) = b
      BY <2>2 DEF BucketOf
    <3>3. c \notin DOMAIN YoungOf(buckets)
      <4>1. b.last \in Nat /\ time - b.last > MaxAge
        BY <2>2, <3>1
      <4>2. ~(time - b.last <= MaxAge)
        BY <1>2, <4>1
      <4>3. QED BY <1>3, <4>2
    <3>4. BucketOf(YoungOf(buckets), c, time) = [tokens |-> ClientCapacity, last |-> time]
      BY <3>3 DEF BucketOf
    <3>5. Have(BucketOf(YoungOf(buckets), c, time), time, Rate) = ClientCapacity
      <4>1. ClientCapacity + (time - time) * Rate = ClientCapacity
        BY <1>2
      <4>2. QED BY <3>4, <4>1 DEF Have
    <3>6. h \in Int /\ ClientCapacity <= h
      <4> DEFINE y == time - b.last
                 x == b.tokens
      <4>1. y > MaxAge /\ y \in Nat /\ x \in Nat
        BY <1>2, <2>2, <3>1
      <4>2. h = x + y * Rate
        BY DEF Have
      <4> HIDE DEF b, h, x, y
      <4>3. y * Rate >= MaxAge * Rate
        <5>1. (y - MaxAge) \in Nat
          BY <1>2, <4>1
        <5>2. (y - MaxAge) * Rate \in Nat
          BY <1>2, <5>1
        <5>3. y * Rate = MaxAge * Rate + (y - MaxAge) * Rate
          BY <1>2, <4>1
        <5>4. MaxAge * Rate \in Nat /\ y * Rate \in Nat
          BY <1>2, <4>1
        <5>5. QED BY <5>2, <5>3, <5>4
      <4>4. MaxAge * Rate \in Nat /\ y * Rate \in Nat
        BY <1>2, <4>1
      <4>5. QED BY <1>2, <4>1, <4>2, <4>3, <4>4
    <3>7. Level(h, log, time, {c}, OfOwn, Rate, ClientCapacity)
      BY <2>1, <3>2 DEF LevelOf
    <3> HIDE DEF h
    <3>8. Level(ClientCapacity, log, time, {c}, OfOwn, Rate, ClientCapacity)
      BY <1>2, <3>6, <3>7, LevelForgotten
    <3>9. QED BY <3>5, <3>8 DEF LevelOf
  <2>3. CASE ~(c \in DOMAIN buckets /\ time - buckets[c].last > MaxAge)
    <3>1. c \in DOMAIN buckets => buckets[c].last \in Nat
      BY <1>1 DEF Typed, Bucket
    <3>2. c \in DOMAIN buckets => time - buckets[c].last <= MaxAge
      BY <1>2, <2>3, <3>1
    <3>3. BucketOf(YoungOf(buckets), c, time) = BucketOf(buckets, c, time)
      BY <1>3, <3>2 DEF BucketOf
    <3>4. QED BY <2>1, <3>3 DEF LevelOf
  <2>4. QED BY <2>2, <2>3
<1>5. Typed(time, everyone, YoungOf(buckets), log)
  BY <1>1, <1>3 DEF Typed
<1>6. QED BY <1>1, <1>4, <1>5 DEF Kept, Levels

LEMMA TickKeeps ==
    ASSUME RateInv
    PROVE  Kept(time + 1, everyone, buckets, log)
<1>1. /\ Typed(time, everyone, buckets, log) /\ LevelOfAll(time, everyone, log) /\ Exact(log)
      /\ \A c \in Clients : LevelOf(c, time, buckets, log)
  BY DEF RateInv, Kept, Levels
<1>2. time \in Nat /\ log \in Seq(Checks) /\ Rate \in Nat /\ ClientCapacity \in Nat
        /\ Rate * Share \in Nat /\ Burst * Share \in Nat
  BY <1>1, CapacityNat, RateAssumption DEF Typed
<1>3. ASSUME NEW b \in Bucket, NEW r \in Nat
      PROVE  Have(b, time, r) \in Int /\ Have(b, time + 1, r) = Have(b, time, r) + r
  <2> DEFINE x == b.tokens
             y == b.last
  <2>1. x \in Nat /\ y \in Nat
    BY DEF Bucket
  <2> HIDE DEF x, y
  <2>2. x + (time - y) * r \in Int /\ x + ((time + 1) - y) * r = (x + (time - y) * r) + r
    BY <1>2, <2>1
  <2>3. QED BY <2>2 DEF Have, x, y
<1>4. LevelOfAll(time + 1, everyone, log)
  <2> DEFINE h == Have(everyone, time, Rate * Share)
             i == Have(everyone, time + 1, Rate * Share)
  <2>1. h \in Int /\ i = h + Rate * Share
    BY <1>1, <1>2, <1>3 DEF Typed
  <2>2. Level(h, log, time, Clients, OfAll, Rate * Share, Burst * Share)
    BY <1>1 DEF LevelOfAll
  <2> HIDE DEF h, i
  <2>3. Level(h + Rate * Share, log, time + 1, Clients, OfAll, Rate * Share, Burst * Share)
    BY <1>2, <2>1, <2>2, LevelLater
  <2>4. QED BY <2>1, <2>3 DEF LevelOfAll, i
<1>5. ASSUME NEW c \in Clients PROVE LevelOf(c, time + 1, buckets, log)
  <2> DEFINE b == BucketOf(buckets, c, time)
             h == Have(b, time, Rate)
  <2>1. Level(h, log, time, {c}, OfOwn, Rate, ClientCapacity)
    BY <1>1 DEF LevelOf
  <2>2. b \in Bucket
    BY BucketThere
  <2>3. h \in Int
    BY <1>2, <1>3, <2>2
  <2>4. CASE c \in DOMAIN buckets
    <3>1. BucketOf(buckets, c, time + 1) = b
      BY <2>4 DEF BucketOf
    <3>2. Have(b, time + 1, Rate) = h + Rate
      BY <1>2, <1>3, <2>2
    <3> HIDE DEF h, b
    <3>3. Level(h + Rate, log, time + 1, {c}, OfOwn, Rate, ClientCapacity)
      BY <1>2, <2>1, <2>3, LevelLater
    <3>4. QED BY <3>1, <3>2, <3>3 DEF LevelOf
  <2>5. CASE c \notin DOMAIN buckets
    <3>1. h = ClientCapacity
      <4>1. b = [tokens |-> ClientCapacity, last |-> time]
        BY <2>5 DEF BucketOf
      <4>2. ClientCapacity + (time - time) * Rate = ClientCapacity
        BY <1>2
      <4> HIDE DEF b
      <4>3. QED BY <4>1, <4>2 DEF Have
    <3>2. Have(BucketOf(buckets, c, time + 1), time + 1, Rate) = ClientCapacity
      <4>1. BucketOf(buckets, c, time + 1) = [tokens |-> ClientCapacity, last |-> time + 1]
        BY <2>5 DEF BucketOf
      <4>2. ClientCapacity + ((time + 1) - (time + 1)) * Rate = ClientCapacity
        BY <1>2
      <4>3. QED BY <4>1, <4>2 DEF Have
    <3> HIDE DEF h
    <3>3. Level(ClientCapacity, log, time + 1, {c}, OfOwn, Rate, ClientCapacity)
      BY <1>2, <2>1, <2>3, <3>1, LevelLater
    <3>4. QED BY <3>2, <3>3 DEF LevelOf
  <2>6. QED BY <2>4, <2>5
<1>6. Typed(time + 1, everyone, buckets, log)
  <2>1. time + 1 \in Nat /\ \A n \in Nat : n <= time => n <= time + 1
    BY <1>2
  <2>2. everyone.last \in Nat /\ \A c \in DOMAIN buckets : buckets[c].last \in Nat
    BY <1>1 DEF Typed, Bucket
  <2>3. QED BY <1>1, <2>1, <2>2 DEF Typed
<1>7. QED BY <1>1, <1>4, <1>5, <1>6 DEF Kept, Levels

-----------------------------------------------------------------------------
(* The theorem.                                                             *)

LEMMA RateInit0 ==
    ASSUME RateInit PROVE RateInv
<1>1. time = 0 /\ everyone = [tokens |-> Burst * Share, last |-> 0] /\ buckets = <<>> /\ log = <<>>
  BY DEF RateInit
<1>2. Rate * Share \in Nat /\ Burst * Share \in Nat /\ ClientCapacity \in Nat /\ Rate \in Nat
  BY CapacityNat, RateAssumption
<1>3. log \in Seq(Checks) /\ Len(log) = 0 /\ DOMAIN buckets = {}
  BY <1>1
<1>4. Have(everyone, time, Rate * Share) = Burst * Share
  <2>1. Burst * Share + (0 - 0) * (Rate * Share) = Burst * Share
    BY <1>2
  <2>2. QED BY <1>1, <2>1 DEF Have
<1>5. \A c \in Clients : Have(BucketOf(buckets, c, time), time, Rate) = ClientCapacity
  <2>1. ClientCapacity + (0 - 0) * Rate = ClientCapacity
    BY <1>2
  <2>2. QED BY <1>1, <1>3, <2>1 DEF Have, BucketOf
<1>6. \A C, O, r, cap : cap \in Nat => Level(cap, log, time, C, O, r, cap)
  BY <1>3 DEF Level
<1>7. Levels(time, everyone, buckets, log)
  BY <1>2, <1>4, <1>5, <1>6 DEF Levels, LevelOfAll, LevelOf
<1>8. Typed(time, everyone, buckets, log)
  BY <1>1, <1>2, <1>3 DEF Typed, Bucket
<1>9. QED BY <1>3, <1>7, <1>8 DEF RateInv, Kept, Exact

LEMMA CheckStep ==
    ASSUME RateInv, NEW c \in Clients, CheckRequest(c)
    PROVE  RateInv'
<1>1. time' = time
  BY DEF CheckRequest
<1>2. CASE Note(c, "denied") /\ UNCHANGED <<everyone, buckets>>
  <2>1. log' = Append(log, Entry(c, "denied")) /\ everyone' = everyone /\ buckets' = buckets
    BY <1>2 DEF Note, Entry
  <2>2. Kept(time', everyone', buckets', log')
    BY <1>1, <2>1, DeniedKeeps
  <2>3. QED BY <2>2 DEF RateInv
<1>3. CASE everyone' = TakeFrom(GlobalNow) /\ ~Acquired(GlobalNow) /\ Note(c, "global") /\ UNCHANGED buckets
  <2>1. log' = Append(log, Entry(c, "global")) /\ everyone' = TakeFrom(GlobalNow) /\ buckets' = buckets
    BY <1>3 DEF Note, Entry
  <2>2. Kept(time', everyone', buckets', log')
    BY <1>1, <1>3, <2>1, GlobalKeeps
  <2>3. QED BY <2>2 DEF RateInv
<1>4. ASSUME NEW came \in {"client", "passed", "invalid"}, Acquired(GlobalNow),
             Acquired(ClientNow(c)) <=> came # "client",
             everyone' = TakeFrom(GlobalNow), buckets' = TakenFrom(c), Note(c, came)
      PROVE  RateInv'
  <2>1. log' = Append(log, Entry(c, came))
    BY <1>4 DEF Note, Entry
  <2>2. Kept(time', everyone', buckets', log')
    BY <1>1, <1>4, <2>1, ClientKeeps
  <2>3. QED BY <2>2 DEF RateInv
<1>5. \/ Note(c, "denied") /\ UNCHANGED <<everyone, buckets>>
      \/ everyone' = TakeFrom(GlobalNow) /\ ~Acquired(GlobalNow) /\ Note(c, "global") /\ UNCHANGED buckets
      \/ \E came \in {"client", "passed", "invalid"} :
            /\ Acquired(GlobalNow) /\ (Acquired(ClientNow(c)) <=> came # "client")
            /\ everyone' = TakeFrom(GlobalNow) /\ buckets' = TakenFrom(c) /\ Note(c, came)
  BY DEF CheckRequest, TakenFrom
<1>6. QED BY <1>2, <1>3, <1>4, <1>5

LEMMA RateSteps == RateInv /\ [RateNext]_rateVars => RateInv'
<1> SUFFICES ASSUME RateInv, [RateNext]_rateVars PROVE RateInv'
  OBVIOUS
<1>1. CASE \E c \in Clients : CheckRequest(c)
  BY <1>1, CheckStep
<1>2. CASE Cleanup
  <2>1. buckets' = YoungOf(buckets) /\ time' = time /\ everyone' = everyone /\ log' = log
    BY <1>2 DEF Cleanup, YoungOf
  <2>2. Kept(time', everyone', buckets', log')
    BY <2>1, CleanupKeeps
  <2>3. QED BY <2>2 DEF RateInv
<1>3. CASE Tick
  <2>1. time' = time + 1 /\ everyone' = everyone /\ buckets' = buckets /\ log' = log
    BY <1>3 DEF Tick
  <2>2. Kept(time', everyone', buckets', log')
    BY <2>1, TickKeeps
  <2>3. QED BY <2>2 DEF RateInv
<1>4. CASE UNCHANGED rateVars
  BY <1>4 DEF rateVars, RateInv
<1>5. QED BY <1>1, <1>2, <1>3, <1>4 DEF RateNext

LEMMA RateInvImplies == RateInv => RateExact
<1> SUFFICES ASSUME RateInv, NEW n \in DOMAIN log PROVE ExactIn(log, n) => 
      (log[n].came # "denied" =>
        LET all == Tokens(n, Clients, {"passed", "invalid", "client"}, Rate * Share, Burst * Share)
            own == Tokens(n, {log[n].who}, {"passed", "invalid"}, Rate, ClientCapacity)
        IN log[n].came = (IF all < Share THEN "global"
                          ELSE IF own < Share THEN "client"
                          ELSE IF log[n].came = "invalid" THEN "invalid" ELSE "passed"))
  <2>1. RateInv => log \in Seq(Checks) /\ Exact(log)
    BY DEF RateInv, Kept, Typed
  <2>2. RateInv => DOMAIN log = 1..Len(log)
    BY <2>1, LenProperties
  <2>3. QED BY <2>1, <2>2 DEF RateExact, Exact
<1>1. QED BY DEF ExactIn, Verdict, WorstAt, OfAll, OfOwn, Tokens, Left, Took, TookIn

\* Whatever was refused, forgotten or reached in another order before, a check is told
\* what the worst window that ends there has left of burst and rate (check_request,
\* TokenBucket.acquire, cleanup_old_clients): nobody gets more than burst plus rate times
\* time, and nobody is refused who has a token.
THEOREM RateLimitsExact == RateSpec => []RateExact
<1>1. RateInit => RateInv
  BY RateInit0
<1>2. RateInv /\ [RateNext]_rateVars => RateInv'
  BY RateSteps
<1>3. RateInv => RateExact
  BY RateInvImplies
<1>4. QED BY <1>1, <1>2, <1>3, PTL DEF RateSpec

-----------------------------------------------------------------------------
(* DirectRequests *)

Senders == {"retrying", "enhanced", "cli", "executor"}
Stands == {"new", "permit", "waiting", "back"}
Working == {"connect", "send", "recv", "sleep", "spin"}
Jobs == Working \cup {"none", "queued", "over"}
Ends == {"none", "answer", "error", "raised", "cancelled",
         "response", "imhex_error", "connection_error"}
Lines == {"open", "refused", "asked", "ran", "answered", "cut"}

DirectTypes ==
    /\ sender \in Senders /\ adapted \in BOOLEAN
    /\ asker \in [Calls -> Stands] /\ job \in [Calls -> Jobs] /\ outcome \in [Calls -> Ends]
    /\ conns \in [Calls -> Seq(Lines)] /\ ran \in [Calls -> SUBSET Nat]

MostAttempts(s) == IF s = "retrying" THEN MaxAttempts ELSE 1

\* A call of sender s: where asker and job are, its connections k, the attempts r
\* that were executed, and what came of it.
CallOK(s, a, j, k, r, o) ==
    /\ Len(k) <= MostAttempts(s)
    /\ j \in {"connect", "sleep"} => Len(k) < MostAttempts(s)
    /\ j \in {"none", "queued"} => Len(k) = 0
    /\ j \in {"send", "recv", "spin"} => Len(k) >= 1
    /\ \A i \in r : i \in 1..Len(k) /\ k[i] \in {"ran", "answered", "cut"}
    /\ \A i \in 1..Len(k) : k[i] \in {"ran", "answered"} => i \in r
    /\ o \in {"answer", "response"} => j = "over" /\ Len(k) \in r
    /\ j = "spin" => s \in {"retrying", "enhanced"} /\ k[Len(k)] = "cut"
    /\ j \in Working => a = "waiting" \/ o = "cancelled"
    /\ j = "queued" => a = "waiting"
    /\ a \in {"new", "permit"} => j = "none"
    /\ a # "back" => o = "none"

Bounds ==
    /\ Cardinality(Holders) <= MaxConcurrent
    /\ sender = "executor" => Cardinality(Running) <= MaxThreads

DirectInv ==
    /\ DirectTypes
    /\ \A c \in Calls : CallOK(sender, asker[c], job[c], conns[c], ran[c], outcome[c])
    /\ Bounds

\* What a step of call c leaves alone.
Elsewhere(c) ==
    /\ sender' = sender /\ adapted' = adapted
    /\ \A d \in Calls \ {c} :
        /\ asker'[d] = asker[d] /\ job'[d] = job[d] /\ conns'[d] = conns[d]
        /\ ran'[d] = ran[d] /\ outcome'[d] = outcome[d]

Here(c) ==
    /\ DirectTypes' /\ Elsewhere(c)
    /\ CallOK(sender, asker'[c], job'[c], conns'[c], ran'[c], outcome'[c])

\* Who is let in, and which threads work, changes only by what the bounds allow.
Admits(c) ==
    /\ Holders' \subseteq Holders
       \/ (Cardinality(Holders) < MaxConcurrent /\ Holders' \subseteq Holders \cup {c})
    /\ \/ sender # "executor"
       \/ Running' \subseteq Running
       \/ Cardinality(Running) < MaxThreads /\ Running' \subseteq Running \cup {c}

LEMMA GrowsByOne ==
    ASSUME NEW S \in SUBSET Calls, NEW T \in SUBSET Calls, NEW c \in Calls, NEW n \in Nat,
           DirectAssumption, Cardinality(S) <= n,
           T \subseteq S \/ (Cardinality(S) < n /\ T \subseteq S \cup {c})
    PROVE  Cardinality(T) <= n
<1>1. IsFiniteSet(S) /\ IsFiniteSet(T)
  BY FS_Subset DEF DirectAssumption
<1>2. Cardinality(S) \in Nat /\ Cardinality(T) \in Nat
  BY <1>1, FS_CardinalityType
<1>3. CASE T \subseteq S
  BY <1>1, <1>2, <1>3, FS_Subset
<1>4. CASE Cardinality(S) < n /\ T \subseteq S \cup {c}
  <2>1. IsFiniteSet(S \cup {c}) /\ Cardinality(S \cup {c}) <= Cardinality(S) + 1
    BY <1>1, <1>2, FS_AddElement
  <2>2. Cardinality(T) <= Cardinality(S \cup {c}) /\ Cardinality(S \cup {c}) \in Nat
    BY <2>1, <1>4, FS_Subset, FS_CardinalityType
  <2>3. QED BY <1>2, <1>4, <2>1, <2>2
<1>5. QED BY <1>3, <1>4

LEMMA CallsKeep ==
    ASSUME DirectAssumption, DirectInv, NEW c \in Calls, Here(c), Admits(c)
    PROVE  DirectInv'
<1>1. ASSUME NEW d \in Calls
      PROVE  CallOK(sender, asker'[d], job'[d], conns'[d], ran'[d], outcome'[d])
  BY DEF DirectInv, Here, Elsewhere
<1>2. Holders \subseteq Calls /\ Holders' \subseteq Calls /\ Running \subseteq Calls
      /\ Running' \subseteq Calls
  BY DEF Holders, Running
<1>3. MaxConcurrent \in Nat /\ MaxThreads \in Nat
  BY DEF DirectAssumption
<1>4. Cardinality(Holders') <= MaxConcurrent
  BY <1>2, <1>3, GrowsByOne DEF Admits, DirectInv, Bounds
<1>5. sender = "executor" => Cardinality(Running') <= MaxThreads
  BY <1>2, <1>3, GrowsByOne DEF Admits, DirectInv, Bounds
<1>6. sender' = sender
  BY DEF Here, Elsewhere
<1>7. QED BY <1>1, <1>4, <1>5, <1>6 DEF DirectInv, Bounds, Here

\* A step that starts no job and lets nobody in.
LEMMA NobodyLetIn ==
    ASSUME NEW c \in Calls, Elsewhere(c),
           asker'[c] = "waiting" => asker[c] = "waiting",
           job'[c] \in Working => job[c] \in Working \/ sender # "executor"
    PROVE  Admits(c)
  BY DEF Admits, Holders, Running, Working, Elsewhere

\* A connection c is at its k-th, made, or in a new state.
LEMMA NewLine ==
    ASSUME NEW k \in Seq(Lines), NEW x \in Lines
    PROVE  /\ Append(k, x) \in Seq(Lines) /\ Len(Append(k, x)) = Len(k) + 1
           /\ \A i \in 1..Len(k) : Append(k, x)[i] = k[i]
           /\ Append(k, x)[Len(k) + 1] = x
  BY AppendProperties

LEMMA LineSet ==
    ASSUME NEW k \in Seq(Lines), NEW n \in 1..Len(k), NEW x \in Lines
    PROVE  /\ [k EXCEPT ![n] = x] \in Seq(Lines) /\ Len([k EXCEPT ![n] = x]) = Len(k)
           /\ \A i \in 1..Len(k) : [k EXCEPT ![n] = x][i] = IF i = n THEN x ELSE k[i]
  BY ExceptSeq

\* The end of the job of c, or of an attempt: with connections k that lack nothing.
LEMMA EndCallHere ==
    ASSUME NEW c \in Calls, NEW out \in {"answer", "error", "raised"}, DirectInv, EndCall(c, out),
           job[c] \in Working, UNCHANGED <<sender, adapted, ran>>,
           conns' \in [Calls -> Seq(Lines)], \A d \in Calls \ {c} : conns'[d] = conns[d],
           CallOK(sender, asker[c], "over", conns'[c], ran[c], "none"),
           out = "answer" => Len(conns'[c]) \in ran[c]
    PROVE  Here(c) /\ Admits(c)
<1>1. asker[c] = "waiting" \/ outcome[c] = "cancelled"
  BY DEF DirectInv, CallOK
<1>2. DirectTypes' /\ Elsewhere(c) /\ job'[c] = "over"
  <2>1. Told(out) \subseteq Ends
    BY DEF Told, Ends
  <2>2. DirectTypes /\ job' = [job EXCEPT ![c] = "over"]
    BY DEF DirectInv, EndCall
  <2>3. CASE UNCHANGED <<asker, outcome>>
    BY <2>2, <2>3 DEF DirectTypes, Elsewhere, Jobs
  <2>4. CASE asker' = [asker EXCEPT ![c] = "back"]
             /\ \E told \in Told(out) : outcome' = [outcome EXCEPT ![c] = told]
    BY <2>1, <2>2, <2>4 DEF DirectTypes, Elsewhere, Jobs, Stands
  <2>5. QED BY <2>3, <2>4 DEF EndCall
<1>3. /\ asker'[c] = "back"
      /\ outcome'[c] \in {"answer", "response"} => out = "answer"
  BY <1>1 DEF DirectInv, DirectTypes, CallOK, EndCall, Told
<1>4. CallOK(sender, asker'[c], job'[c], conns'[c], ran'[c], outcome'[c])
  BY <1>2, <1>3 DEF CallOK, Working
<1>5. Admits(c)
  BY <1>2, <1>3, NobodyLetIn DEF Working
<1>6. QED BY <1>2, <1>4, <1>5 DEF Here

LEMMA SocketErrorHere ==
    ASSUME NEW c \in Calls, DirectAssumption, DirectInv, SocketError(c),
           job[c] \in Working, UNCHANGED <<sender, adapted, ran>>,
           conns' \in [Calls -> Seq(Lines)], \A d \in Calls \ {c} : conns'[d] = conns[d],
           CallOK(sender, asker[c], "over", conns'[c], ran[c], "none")
    PROVE  Here(c) /\ Admits(c)
<1>1. CASE sender = "retrying" /\ Len(conns'[c]) < MaxAttempts
  <2>1. job' = [job EXCEPT ![c] = "sleep"] /\ UNCHANGED <<asker, outcome>>
    BY <1>1 DEF SocketError
  <2>2. DirectTypes' /\ Elsewhere(c) /\ job'[c] = "sleep"
    BY <2>1 DEF DirectInv, DirectTypes, Elsewhere, Jobs, Working
  <2>3. CallOK(sender, asker'[c], job'[c], conns'[c], ran'[c], outcome'[c])
    BY <1>1, <2>1, <2>2 DEF CallOK, Working, MostAttempts, DirectInv
  <2>4. Admits(c)
    BY <2>1, <2>2, NobodyLetIn
  <2>5. QED BY <2>2, <2>3, <2>4 DEF Here
<1>2. CASE ~(sender = "retrying" /\ Len(conns'[c]) < MaxAttempts)
  <2>1. PICK out \in {"error", "raised"} : EndCall(c, out)
    BY <1>2 DEF SocketError
  <2>2. QED BY <2>1, EndCallHere
<1>3. QED BY <1>1, <1>2

\* What can be said of c whatever its job.
LEMMA CallAnyJob ==
    ASSUME DirectInv, NEW c \in Calls, job[c] \in Working
    PROVE  CallOK(sender, asker[c], "over", conns[c], ran[c], "none")
  BY DEF DirectInv, CallOK, Working, DirectTypes


\* The tasks and the threads.
LEMMA CallersHere ==
    ASSUME DirectAssumption, DirectInv, NEW c \in Calls,
           BeginCall(c) \/ EnterSemaphore(c) \/ CancelCall(c) \/ RunThread(c) \/ WakeUp(c)
    PROVE  Here(c) /\ Admits(c)
<1> DEFINE OK == CallOK(sender, asker[c], job[c], conns[c], ran[c], outcome[c])
<1>0. OK /\ DirectTypes
  BY DEF DirectInv
<1>1. CASE BeginCall(c)
  <2>1. DirectTypes' /\ Elsewhere(c)
    BY <1>0, <1>1 DEF DirectTypes, BeginCall, Elsewhere, Jobs, Working, Stands
  <2>2. CallOK(sender, asker'[c], job'[c], conns'[c], ran'[c], outcome'[c])
    BY <1>0, <1>1, DirectAssumption DEF DirectTypes, BeginCall, CallOK, Working, MostAttempts, DirectAssumption
  <2>3. Admits(c)
    BY <1>0, <1>1, <2>1 DEF DirectTypes, BeginCall, Admits, Elsewhere, Holders, Running
  <2>4. QED BY <2>1, <2>2, <2>3 DEF Here
<1>2. CASE EnterSemaphore(c)
  <2>1. DirectTypes' /\ Elsewhere(c)
    BY <1>0, <1>2 DEF DirectTypes, EnterSemaphore, Elsewhere, Jobs, Working, Stands
  <2>2. CallOK(sender, asker'[c], job'[c], conns'[c], ran'[c], outcome'[c])
    BY <1>0, <1>2 DEF DirectTypes, EnterSemaphore, CallOK, Working
  <2>3. Admits(c)
    BY <1>0, <1>2, <2>1 DEF DirectTypes, EnterSemaphore, Admits, Elsewhere, Holders, Running
  <2>4. QED BY <2>1, <2>2, <2>3 DEF Here
<1>3. CASE CancelCall(c)
  <2>1. DirectTypes' /\ Elsewhere(c)
    BY <1>0, <1>3 DEF DirectTypes, CancelCall, Elsewhere, Jobs, Working, Stands, Ends
  <2>2. CallOK(sender, asker'[c], job'[c], conns'[c], ran'[c], outcome'[c])
    BY <1>0, <1>3 DEF DirectTypes, CancelCall, CallOK, Working
  <2>3. Admits(c)
    BY <1>0, <1>3, <2>1, NobodyLetIn DEF DirectTypes, CancelCall, Working
  <2>4. QED BY <2>1, <2>2, <2>3 DEF Here
<1>4. CASE RunThread(c)
  <2>1. DirectTypes' /\ Elsewhere(c)
    BY <1>0, <1>4 DEF DirectTypes, RunThread, Elsewhere, Jobs, Working
  <2>2. CallOK(sender, asker'[c], job'[c], conns'[c], ran'[c], outcome'[c])
    BY <1>0, <1>4, DirectAssumption DEF DirectTypes, RunThread, CallOK, Working, MostAttempts, DirectAssumption
  <2>3. Admits(c)
    BY <1>0, <1>4, <2>1 DEF DirectTypes, RunThread, Admits, Elsewhere, Holders, Running
  <2>4. QED BY <2>1, <2>2, <2>3 DEF Here
<1>5. CASE WakeUp(c)
  <2>1. DirectTypes' /\ Elsewhere(c)
    BY <1>0, <1>5 DEF DirectTypes, WakeUp, Elsewhere, Jobs, Working
  <2>2. CallOK(sender, asker'[c], job'[c], conns'[c], ran'[c], outcome'[c])
    BY <1>0, <1>5 DEF DirectTypes, WakeUp, CallOK, Working
  <2>3. Admits(c)
    BY <1>0, <1>5, <2>1, NobodyLetIn DEF WakeUp, Working
  <2>4. QED BY <2>1, <2>2, <2>3 DEF Here
<1>6. QED BY <1>1, <1>2, <1>3, <1>4, <1>5

\* An attempt: connecting, sending and reading.
LEMMA ConnectHere ==
    ASSUME DirectAssumption, DirectInv, NEW c \in Calls, Connect(c)
    PROVE  Here(c) /\ Admits(c)
<1>0. /\ CallOK(sender, asker[c], job[c], conns[c], ran[c], outcome[c]) /\ DirectTypes
      /\ conns[c] \in Seq(Lines) /\ job[c] = "connect" /\ job[c] \in Working
  BY DEF DirectInv, DirectTypes, Connect, Working
<1>1. ASSUME NEW x \in {"open", "refused"}, conns' = [conns EXCEPT ![c] = Append(@, x)]
      PROVE  /\ conns' \in [Calls -> Seq(Lines)] /\ \A d \in Calls \ {c} : conns'[d] = conns[d]
             /\ CallOK(sender, asker[c], "over", conns'[c], ran[c], "none")
             /\ CallOK(sender, asker[c], "send", conns'[c], ran[c], outcome[c])
  <2>1. x \in Lines
    BY DEF Lines
  <2>2. conns'[c] = Append(conns[c], x) /\ conns' \in [Calls -> Seq(Lines)]
        /\ \A d \in Calls \ {c} : conns'[d] = conns[d]
    BY <1>0, <1>1, <2>1, NewLine DEF DirectTypes
  <2> DEFINE k == conns[c]
             K == Append(k, x)
  <2>3. /\ K \in Seq(Lines) /\ Len(K) = Len(k) + 1 /\ Len(k) \in Nat
        /\ \A i \in 1..Len(k) : K[i] = k[i]
        /\ K[Len(k) + 1] = x
    BY <1>0, <2>1, NewLine, LenProperties
  <2>4. CallOK(sender, asker[c], "connect", k, ran[c], outcome[c]) /\ conns'[c] = K
    BY <1>0, <2>2
  <2> HIDE DEF K, k
  <2>5. \A i \in 1..Len(K) : i \in 1..Len(k) \/ i = Len(k) + 1
    BY <2>3
  <2>6. MostAttempts(sender) \in Nat
    BY DEF MostAttempts, DirectAssumption
  <2>7. /\ CallOK(sender, asker[c], "over", K, ran[c], "none")
        /\ CallOK(sender, asker[c], "send", K, ran[c], outcome[c])
    BY <2>3, <2>4, <2>5, <2>6 DEF CallOK, Working
  <2>8. QED BY <2>2, <2>4, <2>7
<1>2. UNCHANGED <<sender, adapted, ran>>
  BY DEF Connect
<1>3. CASE /\ conns' = [conns EXCEPT ![c] = Append(@, "open")]
           /\ job' = [job EXCEPT ![c] = "send"] /\ UNCHANGED <<asker, outcome>>
  <2>1. DirectTypes' /\ Elsewhere(c) /\ job'[c] = "send"
    BY <1>0, <1>1, <1>2, <1>3 DEF DirectTypes, Elsewhere, Jobs, Working
  <2>2. CallOK(sender, asker'[c], job'[c], conns'[c], ran'[c], outcome'[c])
    BY <1>1, <1>2, <1>3, <2>1
  <2>3. QED BY <1>0, <1>3, <2>1, <2>2, NobodyLetIn DEF Here
<1>4. CASE conns' = [conns EXCEPT ![c] = Append(@, "refused")] /\ SocketError(c)
  BY <1>0, <1>1, <1>2, <1>4, SocketErrorHere
<1>5. QED BY <1>3, <1>4 DEF Connect

\* A connection n of c gets into state x, and ImHex has executed the attempts R.
LEMMA LineHere ==
    ASSUME DirectInv, NEW c \in Calls, NEW n \in 1..Len(conns[c]), NEW x \in Lines,
           NEW R \in SUBSET Nat,
           R = ran[c] \/ (R = ran[c] \cup {n} /\ x \in {"ran", "answered", "cut"}),
           n \in R => x \in {"ran", "answered", "cut"},
           x \in {"ran", "answered"} => n \in R,
           conns[c][n] # "cut",
           conns' = [conns EXCEPT ![c] = [conns[c] EXCEPT ![n] = x]]
    PROVE  /\ conns' \in [Calls -> Seq(Lines)] /\ \A d \in Calls \ {c} : conns'[d] = conns[d]
           /\ Len(conns'[c]) = Len(conns[c])
           /\ CallOK(sender, asker[c], job[c], conns'[c], R, outcome[c])
<1> DEFINE k == conns[c]
           K == [k EXCEPT ![n] = x]
<1>1. /\ CallOK(sender, asker[c], job[c], k, ran[c], outcome[c]) /\ DirectTypes
      /\ k \in Seq(Lines)
  BY DEF DirectInv, DirectTypes
<1>2. /\ K \in Seq(Lines) /\ Len(K) = Len(k) /\ Len(k) \in Nat
      /\ \A i \in 1..Len(k) : K[i] = IF i = n THEN x ELSE k[i]
  BY <1>1, LineSet, LenProperties
<1>3. /\ conns'[c] = K /\ conns' \in [Calls -> Seq(Lines)]
      /\ \A d \in Calls \ {c} : conns'[d] = conns[d]
  BY <1>1, <1>2 DEF DirectTypes
<1>4. n \in 1..Len(k) /\ k[n] # "cut"
  OBVIOUS
<1> HIDE DEF K, k
<1>5. \A i \in R : i \in 1..Len(K) /\ K[i] \in {"ran", "answered", "cut"}
  BY <1>1, <1>2, <1>4 DEF CallOK
<1>6. \A i \in 1..Len(K) : K[i] \in {"ran", "answered"} => i \in R
  BY <1>1, <1>2, <1>4 DEF CallOK
<1>7. job[c] = "spin" => k[Len(k)] = "cut" /\ Len(k) # n
  BY <1>1, <1>4 DEF CallOK
<1>8. CallOK(sender, asker[c], job[c], K, R, outcome[c])
  BY <1>1, <1>2, <1>5, <1>6, <1>7 DEF CallOK
<1>9. QED BY <1>2, <1>3, <1>8 DEF k

LEMMA SendHere ==
    ASSUME DirectAssumption, DirectInv, NEW c \in Calls, SendRequest(c)
    PROVE  Here(c) /\ Admits(c)
<1>0. /\ CallOK(sender, asker[c], job[c], conns[c], ran[c], outcome[c]) /\ DirectTypes
      /\ conns[c] \in Seq(Lines) /\ job[c] = "send" /\ job[c] \in Working
      /\ UNCHANGED <<sender, adapted, ran>> /\ Len(conns[c]) \in Nat
  BY LenProperties DEF DirectInv, DirectTypes, SendRequest, Working
<1>1. CASE UNCHANGED conns /\ SocketError(c)
  <2>1. conns' \in [Calls -> Seq(Lines)] /\ \A d \in Calls \ {c} : conns'[d] = conns[d]
    BY <1>0, <1>1 DEF DirectTypes
  <2>2. CallOK(sender, asker[c], "over", conns'[c], ran[c], "none")
    BY <1>0, <1>1, CallAnyJob
  <2>3. QED BY <1>0, <1>1, <2>1, <2>2, SocketErrorHere
<1>2. CASE Conn(c) = "open" /\ conns' = [conns EXCEPT ![c][Attempt(c)] = "asked"]
  <2> DEFINE n == Len(conns[c])
  <2>1. n \in 1..Len(conns[c]) /\ conns[c][n] = "open"
    BY <1>0, <1>2 DEF CallOK, Conn, Attempt
  <2>2. n \notin ran[c] /\ "asked" \in Lines /\ ran[c] \in SUBSET Nat
    BY <1>0, <2>1 DEF CallOK, Lines, DirectTypes
  <2>3. conns' = [conns EXCEPT ![c] = [conns[c] EXCEPT ![n] = "asked"]]
    BY <1>2 DEF Attempt
  <2>4. /\ conns' \in [Calls -> Seq(Lines)] /\ \A d \in Calls \ {c} : conns'[d] = conns[d]
        /\ Len(conns'[c]) = Len(conns[c])
        /\ CallOK(sender, asker[c], job[c], conns'[c], ran[c], outcome[c])
    BY <2>1, <2>2, <2>3, LineHere
  <2> HIDE DEF n
  <2>5. /\ CallOK(sender, asker[c], "over", conns'[c], ran[c], "none")
        /\ CallOK(sender, asker[c], "recv", conns'[c], ran[c], outcome[c])
    BY <1>0, <2>4 DEF CallOK, Working
  <2>6. CASE SocketError(c)
    BY <1>0, <2>4, <2>5, <2>6, SocketErrorHere
  <2>7. CASE job' = [job EXCEPT ![c] = "recv"] /\ UNCHANGED <<asker, outcome>>
    <3>1. DirectTypes' /\ Elsewhere(c) /\ job'[c] = "recv"
      BY <1>0, <2>4, <2>7 DEF DirectTypes, Elsewhere, Jobs, Working
    <3>2. CallOK(sender, asker'[c], job'[c], conns'[c], ran'[c], outcome'[c])
      BY <1>0, <2>5, <2>7, <3>1
    <3>3. QED BY <1>0, <2>7, <3>1, <3>2, NobodyLetIn DEF Here
  <2>8. QED BY <1>1, <1>2, <2>6, <2>7 DEF SendRequest
<1>3. CASE job' = [job EXCEPT ![c] = "recv"] /\ UNCHANGED <<conns, asker, outcome>>
  <2>1. DirectTypes' /\ Elsewhere(c) /\ job'[c] = "recv"
    BY <1>0, <1>3 DEF DirectTypes, Elsewhere, Jobs, Working
  <2>2. CallOK(sender, asker[c], "recv", conns[c], ran[c], outcome[c])
    BY <1>0 DEF CallOK, Working
  <2>3. CallOK(sender, asker'[c], job'[c], conns'[c], ran'[c], outcome'[c])
    BY <1>0, <1>3, <2>1, <2>2
  <2>4. QED BY <1>0, <1>3, <2>1, <2>3, NobodyLetIn DEF Here
<1>4. QED BY <1>1, <1>2, <1>3 DEF SendRequest

LEMMA ReadHere ==
    ASSUME DirectAssumption, DirectInv, NEW c \in Calls,
           Received(c) \/ ReadError(c) \/ EndOfStream(c)
    PROVE  Here(c) /\ Admits(c)
<1>0. /\ CallOK(sender, asker[c], job[c], conns[c], ran[c], outcome[c]) /\ DirectTypes
      /\ conns[c] \in Seq(Lines) /\ job[c] = "recv" /\ job[c] \in Working
      /\ UNCHANGED <<sender, adapted, ran, conns>> /\ Len(conns[c]) \in Nat
  BY LenProperties DEF DirectInv, DirectTypes, Received, ReadError, EndOfStream, Working
<1>1. /\ conns' \in [Calls -> Seq(Lines)] /\ \A d \in Calls \ {c} : conns'[d] = conns[d]
      /\ CallOK(sender, asker[c], "over", conns'[c], ran[c], "none")
  BY <1>0, CallAnyJob DEF DirectTypes
<1>2. CASE Received(c)
  <2>1. Len(conns'[c]) \in ran[c]
    BY <1>0, <1>2 DEF Received, Conn, Attempt, CallOK
  <2>2. QED BY <1>0, <1>1, <1>2, <2>1, EndCallHere DEF Received
<1>3. CASE ReadError(c)
  BY <1>0, <1>1, <1>3, SocketErrorHere DEF ReadError
<1>4. CASE EndOfStream(c)
  <2>1. CASE /\ sender \in {"retrying", "enhanced"} /\ Conn(c) = "cut"
             /\ job' = [job EXCEPT ![c] = "spin"] /\ UNCHANGED <<asker, outcome>>
    <3>1. DirectTypes' /\ Elsewhere(c) /\ job'[c] = "spin"
      BY <1>0, <2>1 DEF DirectTypes, Elsewhere, Jobs, Working
    <3>2. CallOK(sender, asker'[c], job'[c], conns'[c], ran'[c], outcome'[c])
      BY <1>0, <2>1, <3>1 DEF CallOK, Working, Conn, Attempt
    <3>3. QED BY <1>0, <2>1, <3>1, <3>2, NobodyLetIn DEF Here
  <2>2. ASSUME NEW out \in {"answer", "error", "raised"}, EndCall(c, out),
               out = "answer" => Attempt(c) \in ran[c]
        PROVE  Here(c) /\ Admits(c)
    BY <1>0, <1>1, <2>2, EndCallHere DEF Attempt
  <2>3. QED BY <1>4, <2>1, <2>2 DEF EndOfStream
<1>5. QED BY <1>2, <1>3, <1>4

\* What ImHex does on a connection.
LEMMA PeerHere ==
    ASSUME DirectAssumption, DirectInv, NEW c \in Calls, NEW n \in DOMAIN conns[c],
           Execute(c, n) \/ Respond(c, n) \/ Hangup(c, n)
    PROVE  Here(c) /\ Admits(c)
<1>0. /\ CallOK(sender, asker[c], job[c], conns[c], ran[c], outcome[c]) /\ DirectTypes
      /\ conns[c] \in Seq(Lines) /\ ran[c] \in SUBSET Nat
      /\ n \in 1..Len(conns[c]) /\ n \in Nat
  BY LenProperties DEF DirectInv, DirectTypes
<1>1. UNCHANGED <<sender, adapted, asker, job, outcome>>
  BY DEF Execute, Respond, Hangup
<1>2. ASSUME NEW x \in Lines, NEW R \in SUBSET Nat, ran' = [ran EXCEPT ![c] = R],
             R = ran[c] \/ (R = ran[c] \cup {n} /\ x \in {"ran", "answered", "cut"}),
             n \in R => x \in {"ran", "answered", "cut"},
             x \in {"ran", "answered"} => n \in R,
             conns[c][n] # "cut",
             conns' = [conns EXCEPT ![c] = [conns[c] EXCEPT ![n] = x]]
      PROVE  Here(c) /\ Admits(c)
  <2>1. /\ conns' \in [Calls -> Seq(Lines)] /\ \A d \in Calls \ {c} : conns'[d] = conns[d]
        /\ CallOK(sender, asker[c], job[c], conns'[c], R, outcome[c])
    BY <1>0, <1>2, LineHere
  <2>2. DirectTypes' /\ Elsewhere(c) /\ ran'[c] = R
    BY <1>0, <1>1, <1>2, <2>1 DEF DirectTypes, Elsewhere
  <2>3. Here(c)
    BY <1>1, <2>1, <2>2 DEF Here
  <2>4. QED BY <1>1, <2>2, <2>3, NobodyLetIn
<1>3. CASE Execute(c, n)
  <2>1. /\ "ran" \in Lines /\ ran[c] \cup {n} \in SUBSET Nat /\ conns[c][n] = "asked"
        /\ ran' = [ran EXCEPT ![c] = ran[c] \cup {n}]
        /\ conns' = [conns EXCEPT ![c] = [conns[c] EXCEPT ![n] = "ran"]]
    BY <1>0, <1>3 DEF Execute, Lines
  <2>2. QED BY <1>2, <2>1
<1>4. CASE Respond(c, n)
  <2>1. /\ "answered" \in Lines /\ conns[c][n] = "ran" /\ n \in ran[c]
        /\ ran' = [ran EXCEPT ![c] = ran[c]]
        /\ conns' = [conns EXCEPT ![c] = [conns[c] EXCEPT ![n] = "answered"]]
    BY <1>0, <1>4 DEF Respond, Lines, CallOK, DirectTypes
  <2>2. QED BY <1>0, <1>2, <2>1
<1>5. CASE Hangup(c, n)
  <2>1. /\ "cut" \in Lines /\ conns[c][n] # "cut"
        /\ ran' = [ran EXCEPT ![c] = ran[c]]
        /\ conns' = [conns EXCEPT ![c] = [conns[c] EXCEPT ![n] = "cut"]]
    BY <1>0, <1>5 DEF Hangup, Lines, DirectTypes
  <2>2. QED BY <1>0, <1>2, <2>1
<1>6. QED BY <1>3, <1>4, <1>5

LEMMA DirectStarts == ASSUME DirectAssumption PROVE DirectInit => DirectInv
<1> SUFFICES ASSUME DirectInit PROVE DirectInv
  OBVIOUS
<1>1. DirectTypes
  BY DEF DirectInit, DirectTypes, Senders, Stands, Jobs, Ends
<1>2. ASSUME NEW c \in Calls
      PROVE  CallOK(sender, asker[c], job[c], conns[c], ran[c], outcome[c])
  <2>1. Len(conns[c]) = 0
    BY DEF DirectInit
  <2>2. MostAttempts(sender) \in Nat
    BY DEF MostAttempts, DirectAssumption
  <2>3. QED BY <2>1, <2>2 DEF DirectInit, CallOK, Working
<1>3. Holders = {} /\ Running = {}
  BY DEF DirectInit, Holders, Running
<1>4. Bounds
  BY <1>3, FS_EmptySet DEF Bounds, DirectAssumption
<1>5. QED BY <1>1, <1>2, <1>4 DEF DirectInv

LEMMA DirectSteps ==
    ASSUME DirectAssumption PROVE DirectInv /\ [DirectNext]_directVars => DirectInv'
<1> SUFFICES ASSUME DirectInv, [DirectNext]_directVars PROVE DirectInv'
  OBVIOUS
<1>1. ASSUME NEW c \in Calls, DirectStep(c) PROVE DirectInv'
  <2>1. Here(c) /\ Admits(c)
    BY <1>1, CallersHere, ConnectHere, SendHere, ReadHere, PeerHere DEF DirectStep
  <2>2. QED BY <2>1, CallsKeep
<1>2. CASE UNCHANGED directVars
  BY <1>2 DEF directVars, DirectInv, DirectTypes, Bounds, Holders, Running
<1>3. QED BY <1>1, <1>2 DEF DirectNext

\* A command that is sent without the pool is executed at most once, by the retrying
\* clients at most once for each attempt they may make, for any number of calls,
\* attempts, permits and threads; who gets an answer gets that of its last attempt.
THEOREM DirectRepeatsExplained == DirectSpec => []RepeatsExplained
<1>1. DirectInit => DirectInv
  BY DirectStarts, DirectAssumption
<1>2. DirectInv /\ [DirectNext]_directVars => DirectInv'
  BY DirectSteps, DirectAssumption
<1>3. DirectInv => RepeatsExplained
  <2> SUFFICES ASSUME DirectInv PROVE RepeatsExplained
    OBVIOUS
  <2>1. ASSUME NEW c \in Calls
        PROVE  /\ Attempt(c) <= IF sender = "retrying" THEN MaxAttempts ELSE 1
               /\ \A k \in ran[c] : k \in DOMAIN conns[c] /\ conns[c][k] \in {"ran", "answered", "cut"}
               /\ outcome[c] \in {"answer", "response"} => Attempt(c) \in ran[c]
               /\ job[c] = "spin" => sender \in {"retrying", "enhanced"} /\ Conn(c) = "cut"
               /\ c \in Running => asker[c] = "waiting" \/ outcome[c] = "cancelled"
    <3>1. CallOK(sender, asker[c], job[c], conns[c], ran[c], outcome[c])
      BY DEF DirectInv
    <3>2. DOMAIN conns[c] = 1..Len(conns[c])
      BY LenProperties DEF DirectInv, DirectTypes
    <3>3. QED BY <3>1, <3>2 DEF CallOK, MostAttempts, Attempt, Conn, Running, Working
  <2>2. QED BY <2>1 DEF DirectInv, Bounds, RepeatsExplained, Running
<1>4. QED BY <1>1, <1>2, <1>3, PTL DEF DirectSpec

-----------------------------------------------------------------------------
(* HealthMonitor *)

Verdicts == {"none", "healthy", "degraded", "unhealthy"}
Shown == [metrics : Verdicts, requests : Nat, overtaken : BOOLEAN]

HealthTypes ==
    /\ monitors \in 0..1 /\ monLock \in Watchers \cup {Never}
    /\ spot \in [Watchers -> {"out", "make", "idle", "metrics", "store", "status"}]
    /\ metrics \in [Counters -> Nat] /\ spent \in [sum : Nat, least : Int, most : Nat]
    /\ checks \in Shown /\ found \in [Watchers -> Shown]

\* The counters, and the times of what they count.
Balanced(m, s) ==
    /\ m["total"] = m["successful"] + m["failed"]
    /\ m["connections"] = m["active"] + m["failures"]
    /\ m["total"] = 0 => s = NoTime
    /\ m["total"] > 0 => /\ s.least >= 0
                         /\ s.least * m["total"] <= s.sum
                         /\ s.sum <= s.most * m["total"]

\* A check was made of requests that are counted still, or before a reset.
MadeOf(x, m) ==
    \/ x.overtaken
    \/ x.requests <= m["total"] /\ (x.metrics = "unhealthy" => m["failed"] > 0)

HealthInv ==
    /\ HealthTypes /\ Balanced(metrics, spent)
    /\ \A w \in Watchers : spot[w] # "store" => found[w] = NoChecks
    /\ MadeOf(checks, metrics) /\ \A w \in Watchers : MadeOf(found[w], metrics)

\* Which counters are raised together.
LEMMA RaisedTogether ==
    /\ Counters = {"total", "successful", "failed", "hits", "misses", "connections", "active",
                   "failures", "timeouts", "connectionErrors", "otherErrors"}
    /\ \A e \in Events :
        /\ "total" \in Raises[e] <=> ("successful" \in Raises[e] \/ "failed" \in Raises[e])
        /\ ~("successful" \in Raises[e] /\ "failed" \in Raises[e])
        /\ "connections" \in Raises[e] <=> ("active" \in Raises[e] \/ "failures" \in Raises[e])
        /\ ~("active" \in Raises[e] /\ "failures" \in Raises[e])
<1>1. Events = {"success", "failure", "cacheHit", "cacheMiss", "connected", "refused", "timeout",
                "connectionError", "otherError"}
  BY DEF Events, Raises
<1>2. /\ Raises["success"] = {"total", "successful"} /\ Raises["failure"] = {"total", "failed"}
      /\ Raises["cacheHit"] = {"hits"} /\ Raises["cacheMiss"] = {"misses"}
      /\ Raises["connected"] = {"connections", "active"}
      /\ Raises["refused"] = {"connections", "failures"} /\ Raises["timeout"] = {"timeouts"}
      /\ Raises["connectionError"] = {"connectionErrors"}
      /\ Raises["otherError"] = {"otherErrors"}
  BY DEF Raises
<1> HIDE DEF Raises
<1>3. Counters = UNION {Raises[e] : e \in Events}
  BY DEF Counters
<1>4. QED BY <1>1, <1>2, <1>3

LEMMA TimesKept ==
    ASSUME NEW n \in Nat \ {0}, NEW least \in Nat, NEW sum \in Nat, NEW most \in Nat, NEW ms \in Nat,
           least * n <= sum, sum <= most * n, NEW l \in Nat, NEW h \in Nat,
           l <= least, l <= ms, most <= h, ms <= h
    PROVE  l * (n + 1) <= sum + ms /\ sum + ms <= h * (n + 1)
<1>1. l * n <= least * n /\ most * n <= h * n
  BY SMT
<1>2. l * (n + 1) = l * n + l /\ h * (n + 1) = h * n + h
  BY SMT
<1>3. l * n \in Nat /\ least * n \in Nat /\ most * n \in Nat /\ h * n \in Nat
  BY SMT
<1>4. QED BY <1>1, <1>2, <1>3

LEMMA HealthStarts == HealthInit => HealthInv
<1> SUFFICES ASSUME HealthInit PROVE HealthInv
  OBVIOUS
<1>1. {"total", "successful", "failed", "connections", "active", "failures"} \subseteq Counters
  BY RaisedTogether
<1>2. \A c \in Counters : metrics[c] = 0
  BY DEF HealthInit, NoCounts
<1>3. HealthTypes
  <2>1. NoTime \in [sum : Nat, least : Int, most : Nat] /\ NoCounts \in [Counters -> Nat]
    BY DEF NoTime, NoCounts
  <2>2. NoChecks \in Shown
    BY DEF NoChecks, Shown, Verdicts
  <2>3. spot \in [Watchers -> {"out", "make", "idle", "metrics", "store", "status"}]
    BY DEF HealthInit
  <2>4. found \in [Watchers -> Shown]
    BY <2>2 DEF HealthInit
  <2>5. metrics \in [Counters -> Nat] /\ spent \in [sum : Nat, least : Int, most : Nat]
        /\ checks \in Shown
    BY <2>1, <2>2 DEF HealthInit
  <2>6. monitors \in 0..1 /\ monLock \in Watchers \cup {Never}
    BY DEF HealthInit
  <2>7. QED BY <2>3, <2>4, <2>5, <2>6 DEF HealthTypes
<1>4. Balanced(metrics, spent)
  BY <1>1, <1>2 DEF Balanced, HealthInit
<1>5. MadeOf(NoChecks, metrics)
  BY <1>1, <1>2 DEF MadeOf, NoChecks
<1>6. QED BY <1>3, <1>4, <1>5 DEF HealthInv, HealthInit

\* What is recorded is counted in full, and only raises the counters.
LEMMA RecordKeeps ==
    ASSUME WatchersAssumption, HealthInv, NEW w \in Watchers, NEW e \in Events, Record(w, e)
    PROVE  HealthInv'
<1> DEFINE m == metrics
           M == metrics'
<1>1. /\ {"total", "successful", "failed", "connections", "active", "failures"} \subseteq Counters
      /\ "total" \in Raises[e] <=> ("successful" \in Raises[e] \/ "failed" \in Raises[e])
      /\ ~("successful" \in Raises[e] /\ "failed" \in Raises[e])
      /\ "connections" \in Raises[e] <=> ("active" \in Raises[e] \/ "failures" \in Raises[e])
      /\ ~("active" \in Raises[e] /\ "failures" \in Raises[e])
  BY RaisedTogether
<1>2. /\ HealthTypes /\ Balanced(m, spent) /\ m \in [Counters -> Nat]
      /\ \A c \in Counters : M[c] = IF c \in Raises[e] THEN m[c] + 1 ELSE m[c]
      /\ M \in [Counters -> Nat]
  BY DEF HealthInv, HealthTypes, Record, Count
<1>3. /\ M["total"] = IF "total" \in Raises[e] THEN m["total"] + 1 ELSE m["total"]
      /\ M["successful"] = IF "successful" \in Raises[e] THEN m["successful"] + 1 ELSE m["successful"]
      /\ M["failed"] = IF "failed" \in Raises[e] THEN m["failed"] + 1 ELSE m["failed"]
      /\ M["connections"] = IF "connections" \in Raises[e] THEN m["connections"] + 1 ELSE m["connections"]
      /\ M["active"] = IF "active" \in Raises[e] THEN m["active"] + 1 ELSE m["active"]
      /\ M["failures"] = IF "failures" \in Raises[e] THEN m["failures"] + 1 ELSE m["failures"]
  BY <1>1, <1>2
<1>4. /\ m["total"] \in Nat /\ m["successful"] \in Nat /\ m["failed"] \in Nat
      /\ m["connections"] \in Nat /\ m["active"] \in Nat /\ m["failures"] \in Nat
  BY <1>1, <1>2
<1> HIDE DEF m, M
<1>5. /\ M["total"] = M["successful"] + M["failed"]
      /\ M["connections"] = M["active"] + M["failures"]
  BY <1>1, <1>2, <1>3, <1>4 DEF Balanced
<1>6. /\ spent' \in [sum : Nat, least : Int, most : Nat]
      /\ M["total"] = 0 => spent' = NoTime
      /\ M["total"] > 0 => /\ spent'.least >= 0 /\ spent'.least * M["total"] <= spent'.sum
                           /\ spent'.sum <= spent'.most * M["total"]
  <2>1. CASE "total" \notin Raises[e]
    <3>1. spent' = spent /\ M["total"] = m["total"]
      BY <1>3, <2>1 DEF Record
    <3>2. QED BY <1>2, <3>1 DEF Balanced, HealthTypes
  <2>2. CASE "total" \in Raises[e]
    <3>1. PICK ms \in Durations : spent' = Spend(spent, ms)
      BY <2>2 DEF Record
    <3>2. ms \in Nat /\ spent \in [sum : Nat, least : Int, most : Nat]
      BY <1>2 DEF WatchersAssumption, HealthTypes
    <3>3. /\ spent'.sum = spent.sum + ms
          /\ spent'.least = IF spent.least = -1 \/ ms < spent.least THEN ms ELSE spent.least
          /\ spent'.most = IF ms > spent.most THEN ms ELSE spent.most
          /\ spent' = [sum |-> spent'.sum, least |-> spent'.least, most |-> spent'.most]
      BY <3>1 DEF Spend
    <3>4. spent' \in [sum : Nat, least : Int, most : Nat]
      BY <3>2, <3>3
    <3>5. M["total"] = m["total"] + 1
      BY <1>3, <2>2
    <3>6. CASE m["total"] = 0
      <4>1. spent.sum = 0 /\ spent.least = -1 /\ spent.most = 0
        BY <1>2, <3>6 DEF Balanced, NoTime
      <4>2. spent'.sum = ms /\ spent'.least = ms /\ spent'.most = ms /\ M["total"] = 1
        BY <3>2, <3>3, <3>5, <3>6, <4>1
      <4>3. QED BY <3>2, <3>4, <4>2
    <3>7. CASE m["total"] # 0
      <4>1. /\ m["total"] \in Nat \ {0} /\ spent.least \in Nat /\ spent.sum \in Nat /\ spent.most \in Nat
            /\ spent.least * m["total"] <= spent.sum /\ spent.sum <= spent.most * m["total"]
        BY <1>2, <1>4, <3>2, <3>7 DEF Balanced
      <4>2. /\ spent'.least \in Nat /\ spent'.most \in Nat
            /\ spent'.least <= spent.least /\ spent'.least <= ms
            /\ spent.most <= spent'.most /\ ms <= spent'.most
        BY <3>2, <3>3, <4>1
      <4>3. /\ spent'.least * (m["total"] + 1) <= spent.sum + ms
            /\ spent.sum + ms <= spent'.most * (m["total"] + 1)
        BY <3>2, <4>1, <4>2, TimesKept
      <4>4. QED BY <3>3, <3>4, <3>5, <4>1, <4>2, <4>3
    <3>8. QED BY <3>6, <3>7
  <2>3. QED BY <2>1, <2>2
<1>7. ASSUME NEW x \in Shown, MadeOf(x, m) PROVE MadeOf(x, M)
  BY <1>3, <1>4, <1>7 DEF MadeOf, Shown
<1>8. /\ UNCHANGED <<monitors, monLock, spot, checks, found>> /\ M = metrics' /\ m = metrics
  BY DEF Record, M, m
<1>9. HealthTypes' /\ Balanced(metrics', spent')
  BY <1>2, <1>5, <1>6, <1>8 DEF HealthTypes, Balanced
<1>10. MadeOf(checks, M) /\ \A v \in Watchers : MadeOf(found[v], M)
  BY <1>2, <1>7, <1>8 DEF HealthInv, HealthTypes
<1>11. QED BY <1>8, <1>9, <1>10 DEF HealthInv

\* Making the monitor, and the steps that change no more than where a thread is.
LEMMA WatcherMoves ==
    ASSUME WatchersAssumption, HealthInv, NEW w \in Watchers,
           TestMonitor(w) \/ MakeMonitor(w) \/ CheckClient(w) \/ AskStatus(w) \/ HoldAndAsk(w)
    PROVE  HealthInv'
<1>1. HealthTypes /\ WatchersAssumption
  BY DEF HealthInv
<1>2. /\ UNCHANGED <<metrics, spent, checks, found>>
      /\ \E place \in {"make", "idle", "metrics", "status"} : spot' = [spot EXCEPT ![w] = place]
      /\ monitors' \in 0..1
      /\ monLock' \in {monLock, w}
  BY <1>1 DEF TestMonitor, MakeMonitor, CheckClient, AskStatus, HoldAndAsk, Free, MoveTo, HealthTypes
<1>3. HealthTypes'
  BY <1>1, <1>2 DEF HealthTypes
<1>4. \A v \in Watchers : spot'[v] # "store" => found'[v] = NoChecks
  <2>1. spot[w] # "store"
    BY DEF TestMonitor, MakeMonitor, CheckClient, AskStatus, HoldAndAsk, Free
  <2>2. QED BY <1>1, <1>2, <2>1 DEF HealthInv, HealthTypes
<1>5. QED BY <1>2, <1>3, <1>4 DEF HealthInv

LEMMA ChecksKeep ==
    ASSUME WatchersAssumption, HealthInv, NEW w \in Watchers, CheckMetrics(w) \/ StoreChecks(w)
    PROVE  HealthInv'
<1>1. /\ HealthTypes /\ {"total", "failed"} \subseteq Counters
      /\ metrics["total"] \in Nat /\ metrics["failed"] \in Nat
  BY RaisedTogether DEF HealthInv, HealthTypes
<1>2. CASE CheckMetrics(w)
  <2> DEFINE x == [metrics |-> MetricsStatus(metrics, spent), requests |-> metrics["total"], overtaken |-> FALSE]
  <2>1. /\ found' = [found EXCEPT ![w] = x] /\ spot' = [spot EXCEPT ![w] = "store"]
        /\ UNCHANGED <<monitors, monLock, metrics, spent, checks>>
        /\ monLock = Never
    BY <1>2 DEF CheckMetrics, MoveTo, Free
  <2>2. /\ MetricsStatus(metrics, spent) \in Verdicts
        /\ MetricsStatus(metrics, spent) = "unhealthy" => 100 * metrics["failed"] > 20 * metrics["total"]
    BY <1>1 DEF MetricsStatus, Verdicts, HealthTypes
  <2>3. x \in Shown /\ x.requests = metrics["total"] /\ x.metrics = MetricsStatus(metrics, spent)
    BY <1>1, <2>2 DEF Shown
  <2> HIDE DEF x
  <2>4. MadeOf(x, metrics)
    BY <1>1, <2>2, <2>3 DEF MadeOf
  <2>5. HealthTypes'
    BY <1>1, <2>1, <2>3 DEF HealthTypes
  <2>6. /\ \A v \in Watchers : spot'[v] # "store" => found'[v] = NoChecks
        /\ \A v \in Watchers : MadeOf(found'[v], metrics)
    BY <1>1, <2>1, <2>4 DEF HealthInv, HealthTypes
  <2>7. QED BY <2>1, <2>5, <2>6 DEF HealthInv
<1>3. CASE StoreChecks(w)
  <2>1. /\ checks' = found[w] /\ found' = [found EXCEPT ![w] = NoChecks]
        /\ spot' = [spot EXCEPT ![w] = "idle"] /\ monLock = Never
        /\ UNCHANGED <<monitors, monLock, metrics, spent>>
    BY <1>3 DEF StoreChecks, MoveTo, Free
  <2>2. NoChecks \in Shown /\ MadeOf(NoChecks, metrics)
    BY <1>1 DEF NoChecks, Shown, Verdicts, MadeOf
  <2>3. HealthTypes'
    BY <1>1, <2>1, <2>2 DEF HealthTypes
  <2>4. /\ \A v \in Watchers : spot'[v] # "store" => found'[v] = NoChecks
        /\ MadeOf(checks', metrics) /\ \A v \in Watchers : MadeOf(found'[v], metrics)
    BY <1>1, <2>1, <2>2 DEF HealthInv, HealthTypes
  <2>5. QED BY <2>1, <2>3, <2>4 DEF HealthInv
<1>4. QED BY <1>2, <1>3

\* The status changes nothing but where the thread is.
LEMMA StatusKeeps ==
    ASSUME WatchersAssumption, HealthInv, NEW w \in Watchers, GetOverallStatus(w)
    PROVE  HealthInv'
<1>1. HealthTypes /\ spot[w] = "status"
  BY DEF GetOverallStatus, Free, HealthInv
<1>2. /\ spot' = [spot EXCEPT ![w] = "idle"] /\ monLock' = Never
      /\ UNCHANGED <<monitors, metrics, spent, checks, found>>
  BY <1>1 DEF GetOverallStatus, MoveTo
<1>3. HealthTypes'
  BY <1>1, <1>2 DEF HealthTypes
<1>4. \A v \in Watchers : spot'[v] # "store" => found'[v] = NoChecks
  BY <1>1, <1>2 DEF HealthInv, HealthTypes
<1>5. QED BY <1>2, <1>3, <1>4 DEF HealthInv

\* What is still to be stored after a reset is marked.
LEMMA ResetMetricsKeeps ==
    ASSUME WatchersAssumption, HealthInv, NEW w \in Watchers, ResetMetrics(w)
    PROVE  HealthInv'
<1>1. {"total", "successful", "failed", "connections", "active", "failures"} \subseteq Counters
  BY RaisedTogether
<1>2. /\ metrics' = NoCounts /\ spent' = NoTime /\ checks' = NoChecks /\ found' = Overtaken
      /\ UNCHANGED <<monitors, monLock, spot>>
  BY DEF ResetMetrics
<1>3. \A c \in Counters : metrics'[c] = 0
  BY <1>2 DEF NoCounts
<1>4. /\ found \in [Watchers -> Shown]
      /\ \A v \in Watchers : found'[v] = IF spot[v] = "store" THEN [found[v] EXCEPT !.overtaken = TRUE]
                                        ELSE NoChecks
  BY <1>2 DEF HealthInv, HealthTypes, Overtaken
<1>5. NoChecks \in Shown /\ MadeOf(NoChecks, metrics')
  BY <1>1, <1>3 DEF NoChecks, Shown, Verdicts, MadeOf
<1>6. \A v \in Watchers : found'[v] \in Shown /\ MadeOf(found'[v], metrics')
  <2> TAKE v \in Watchers
  <2>1. CASE spot[v] = "store"
    <3>1. found[v] \in Shown /\ found'[v] = [found[v] EXCEPT !.overtaken = TRUE]
      BY <1>4, <2>1
    <3>2. found'[v] \in Shown /\ found'[v].overtaken
      BY <3>1 DEF Shown
    <3>3. QED BY <3>2 DEF MadeOf
  <2>2. QED BY <1>4, <1>5, <2>1
<1>7. HealthTypes'
  <2>1. found' \in [Watchers -> Shown]
    BY <1>2, <1>6 DEF Overtaken
  <2>2. metrics' \in [Counters -> Nat] /\ spent' \in [sum : Nat, least : Int, most : Nat]
    BY <1>2 DEF NoCounts, NoTime
  <2>3. QED BY <1>2, <1>5, <2>1, <2>2 DEF HealthInv, HealthTypes
<1>8. Balanced(metrics', spent')
  BY <1>1, <1>2, <1>3 DEF Balanced
<1>9. \A v \in Watchers : spot'[v] # "store" => found'[v] = NoChecks
  BY <1>2, <1>4
<1>10. QED BY <1>2, <1>5, <1>6, <1>7, <1>8, <1>9 DEF HealthInv

LEMMA HealthSteps ==
    ASSUME WatchersAssumption PROVE HealthInv /\ [HealthNext]_healthVars => HealthInv'
<1> SUFFICES ASSUME HealthInv, [HealthNext]_healthVars PROVE HealthInv'
  OBVIOUS
<1>1. ASSUME NEW w \in Watchers, WatcherStep(w) PROVE HealthInv'
  BY <1>1, RecordKeeps, WatcherMoves, ChecksKeep, StatusKeeps, ResetMetricsKeeps
     DEF WatcherStep, Report, PrintSummary
<1>2. CASE UNCHANGED healthVars
  BY <1>2 DEF healthVars, HealthInv, HealthTypes, Balanced, MadeOf
<1>3. QED BY <1>1, <1>2 DEF HealthNext

\* For any number of threads that use it and any times, there is one health monitor,
\* its counters agree with each other and with the times, and the checks it shows
\* are covered by what it counts, but for those made before a reset and stored after it.
THEOREM HealthMonitorStands == HealthSpec => []HealthStands
<1>1. HealthInit => HealthInv
  BY HealthStarts
<1>2. HealthInv /\ [HealthNext]_healthVars => HealthInv'
  BY HealthSteps, WatchersAssumption
<1>3. HealthInv => HealthStands
  BY DEF HealthInv, HealthTypes, Balanced, MadeOf, HealthStands
<1>4. QED BY <1>1, <1>2, <1>3, PTL DEF HealthSpec

=============================================================================
