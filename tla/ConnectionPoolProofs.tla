------------------------ MODULE ConnectionPoolProofs ------------------------
(***************************************************************************)
(* Machine-checked theorems about the connection pool, for every number of  *)
(* callers and connections and every size of the pool.                      *)
(***************************************************************************)
EXTENDS ConnectionPoolRefinement, FiniteSetTheorems, SequenceTheorems, TLAPS

-----------------------------------------------------------------------------
(* The idle queue: what popping, appending and evicting do to it.           *)

\* deque.append of a connection that is not queued yet.
LEMMA AppendNew ==
    ASSUME NEW S, NEW s \in Seq(S), NEW c \in S, IsInjective(s), c \notin Range(s)
    PROVE  /\ Append(s, c) \in Seq(S)
           /\ IsInjective(Append(s, c))
           /\ Range(Append(s, c)) = Range(s) \cup {c}
<1> DEFINE a == Append(s, c)
<1>1. /\ a \in Seq(S) /\ Len(a) = Len(s) + 1 /\ a[Len(s) + 1] = c
      /\ \A i \in 1..Len(s) : a[i] = s[i]
  BY AppendProperties
<1>2. DOMAIN a = 1..(Len(s) + 1) /\ DOMAIN s = 1..Len(s) /\ Len(s) \in Nat
  BY <1>1, LenProperties
<1>3. IsInjective(a)
  BY <1>1, <1>2 DEF IsInjective, Range
<1>4. Range(a) = Range(s) \cup {c}
  <2>1. \A x \in Range(a) : x \in Range(s) \cup {c}
    BY <1>1, <1>2 DEF Range
  <2>2. \A x \in Range(s) \cup {c} : x \in Range(a)
    <3>1. c \in Range(a)
      BY <1>1, <1>2 DEF Range
    <3>2. ASSUME NEW x \in Range(s) PROVE x \in Range(a)
      BY <1>1, <1>2 DEF Range
    <3>3. QED BY <3>1, <3>2
  <2>3. QED BY <2>1, <2>2
<1>5. QED BY <1>1, <1>3, <1>4

\* deque.popleft.
LEMMA PopOldest ==
    ASSUME NEW S, NEW s \in Seq(S), s # <<>>, IsInjective(s)
    PROVE  /\ Tail(s) \in Seq(S) /\ Head(s) \in S
           /\ IsInjective(Tail(s))
           /\ Head(s) \in Range(s)
           /\ Range(Tail(s)) \subseteq Range(s) \ {Head(s)}
<1>1. /\ Tail(s) \in Seq(S) /\ Head(s) \in S /\ Len(Tail(s)) = Len(s) - 1
      /\ \A i \in 1..Len(Tail(s)) : Tail(s)[i] = s[i+1]
  BY HeadTailProperties
<1>2. /\ DOMAIN s = 1..Len(s) /\ DOMAIN Tail(s) = 1..(Len(s) - 1)
      /\ Len(s) \in Nat \ {0} /\ Head(s) = s[1]
  BY <1>1, LenProperties, EmptySeq
<1>3. IsInjective(Tail(s))
  BY <1>1, <1>2 DEF IsInjective
<1>4. Head(s) \in Range(s)
  BY <1>2 DEF Range
<1>5. ASSUME NEW x \in Range(Tail(s)) PROVE x \in Range(s) /\ x # Head(s)
  <2>1. PICK i \in 1..(Len(s) - 1) : x = s[i+1]
    BY <1>1, <1>2, <1>5 DEF Range
  <2>2. i+1 \in DOMAIN s /\ 1 \in DOMAIN s /\ i+1 # 1
    BY <1>2
  <2>3. QED BY <1>2, <2>1, <2>2 DEF Range, IsInjective
<1>6. QED BY <1>1, <1>3, <1>4, <1>5

\* deque.remove of the element at position i: the later ones move up.
LEMMA EvictInSeq ==
    ASSUME NEW S, NEW s \in Seq(S), NEW i \in 1..Len(s)
    PROVE  /\ RemoveAt(s, i) \in Seq(S)
           /\ Len(RemoveAt(s, i)) = Len(s) - 1
           /\ \A j \in 1..(Len(s) - 1) :
                 RemoveAt(s, i)[j] = IF j < i THEN s[j] ELSE s[j + 1]
<1> DEFINE l == SubSeq(s, 1, i-1)
           r == SubSeq(s, i+1, Len(s))
           n == Len(s) - 1
           t == RemoveAt(s, i)
<1>1. Len(s) \in Nat /\ DOMAIN s = 1..Len(s) /\ \A j \in 1..Len(s) : s[j] \in S
  BY LenProperties, ElementOfSeq
<1>2. /\ l \in Seq(S) /\ Len(l) = i - 1
      /\ \A j \in 1..(i-1) : l[j] = s[j]
  <2>1. \A j \in 1..(i-1) : s[j] \in S
    BY <1>1
  <2>2. 1 \in Int /\ i-1 \in Int
    BY <1>1
  <2>3. /\ l \in Seq(S) /\ Len(l) = IF 1 <= i-1 THEN (i-1) - 1 + 1 ELSE 0
        /\ \A j \in 1..((i-1) - 1 + 1) : l[j] = s[1 + j - 1]
    BY <2>1, <2>2, SubSeqProperties
  <2>4. QED BY <1>1, <2>3
<1>3. /\ r \in Seq(S) /\ Len(r) = Len(s) - i
      /\ \A j \in 1..(Len(s) - i) : r[j] = s[j + i]
  <2>1. \A j \in (i+1)..Len(s) : s[j] \in S
    BY <1>1
  <2>2. i+1 \in Int /\ Len(s) \in Int
    BY <1>1
  <2>3. /\ r \in Seq(S) /\ Len(r) = IF i+1 <= Len(s) THEN Len(s) - (i+1) + 1 ELSE 0
        /\ \A j \in 1..(Len(s) - (i+1) + 1) : r[j] = s[(i+1) + j - 1]
    BY <2>1, <2>2, SubSeqProperties
  <2> HIDE DEF r
  <2>4. ASSUME NEW j \in 1..(Len(s) - i) PROVE r[j] = s[j + i]
    <3>1. /\ j \in 1..(Len(s) - (i+1) + 1)
          /\ (i+1) + j - 1 = j + i
      BY <1>1
    <3>2. QED BY <2>3, <3>1
  <2>5. Len(r) = Len(s) - i
    <3>1. Len(r) = IF i+1 <= Len(s) THEN Len(s) - (i+1) + 1 ELSE 0
      BY <2>3
    <3>2. Len(s) \in Nat /\ i \in Nat /\ i <= Len(s)
      BY <1>1
    <3>3. QED BY <3>1, <3>2
  <2>6. QED BY <2>3, <2>4, <2>5
<1>4. t = l \o r
  BY DEF RemoveAt
<1> HIDE DEF l, r, t
<1>5. /\ t \in Seq(S) /\ Len(t) = n
      /\ \A j \in 1..n : t[j] = IF j < i THEN s[j] ELSE s[j + 1]
  <2>1. /\ t \in Seq(S) /\ Len(t) = Len(l) + Len(r)
        /\ \A j \in 1..(Len(l) + Len(r)) :
              t[j] = IF j <= Len(l) THEN l[j] ELSE r[j - Len(l)]
    BY <1>2, <1>3, <1>4, ConcatProperties
  <2>2. Len(l) + Len(r) = n
    BY <1>1, <1>2, <1>3
  <2>3. ASSUME NEW j \in 1..n PROVE t[j] = IF j < i THEN s[j] ELSE s[j + 1]
    <3>1. CASE j < i
      BY <1>1, <1>2, <2>1, <2>2, <3>1
    <3>2. CASE ~(j < i)
      <4>1. j - (i - 1) \in 1..(Len(s) - i) /\ (j - (i - 1)) + i = j + 1
        BY <1>1, <3>2
      <4>2. t[j] = r[j - (i - 1)]
        BY <1>1, <1>2, <2>1, <2>2, <3>2
      <4>3. QED BY <1>3, <3>2, <4>1, <4>2
    <3>3. QED BY <3>1, <3>2
  <2>4. QED BY <2>1, <2>2, <2>3
<1>6. QED BY <1>5 DEF t

\* Evicting from a queue without duplicates leaves one, without the evicted.
LEMMA EvictAt ==
    ASSUME NEW S, NEW s \in Seq(S), NEW i \in 1..Len(s), IsInjective(s)
    PROVE  /\ IsInjective(RemoveAt(s, i))
           /\ Range(RemoveAt(s, i)) \subseteq Range(s) \ {s[i]}
<1> DEFINE n == Len(s) - 1
           t == RemoveAt(s, i)
<1>1. /\ t \in Seq(S) /\ Len(t) = n
      /\ \A j \in 1..n : t[j] = IF j < i THEN s[j] ELSE s[j + 1]
  BY EvictInSeq
<1> HIDE DEF t
<1>2. /\ Len(s) \in Nat /\ DOMAIN s = 1..Len(s)
      /\ DOMAIN t = 1..n /\ n \in Nat
  BY <1>1, LenProperties
<1>3. ASSUME NEW j \in 1..n
      PROVE \E k \in 1..Len(s) : k # i /\ t[j] = s[k]
  <2>1. CASE j < i
    BY <1>1, <1>2, <2>1
  <2>2. CASE ~(j < i)
    BY <1>1, <1>2, <2>2
  <2>3. QED BY <2>1, <2>2
<1>4. IsInjective(t)
  <2> DEFINE at(j) == IF j < i THEN j ELSE j + 1
  <2>1. ASSUME NEW j \in 1..n PROVE at(j) \in DOMAIN s /\ t[j] = s[at(j)]
    BY <1>1, <1>2
  <2>2. ASSUME NEW j \in 1..n, NEW k \in 1..n, at(j) = at(k) PROVE j = k
    BY <1>2, <2>2
  <2> HIDE DEF at
  <2>3. QED BY <1>2, <2>1, <2>2 DEF IsInjective
<1>5. ASSUME NEW x \in Range(t) PROVE x \in Range(s) \ {s[i]}
  <2>1. PICK j \in 1..n : x = t[j]
    BY <1>2, <1>5 DEF Range
  <2>2. PICK k \in 1..Len(s) : k # i /\ x = s[k]
    BY <1>3, <2>1
  <2>3. QED BY <1>2, <2>2 DEF Range, IsInjective
<1>6. QED BY <1>4, <1>5 DEF t

-----------------------------------------------------------------------------
(* Type correctness.                                                        *)

\* The initial state is well-typed.
LEMMA InitTypeOK == Init => TypeOK
<1> SUFFICES ASSUME Init PROVE TypeOK
  OBVIOUS
<1>1. available \in Seq(Conns)
  BY EmptySeq DEF Init
<1>2. IsFiniteSet(inUse)
  BY FS_EmptySet DEF Init
<1>3. pc \in [Tasks -> PCs]
  BY DEF Init, PCs
<1>4. conn \in [Tasks -> Conns \cup {NoConn}] /\ tries \in [Tasks -> Nat]
  BY DEF Init
<1>5. mon \in [Tasks -> MonStates]
  BY DEF Init, MonStates
<1>6. permits \in Int
  BY PoolAssumption DEF Init
<1>7. locked \in BOOLEAN /\ initialized \in BOOLEAN /\ closed \in BOOLEAN
  BY DEF Init
<1>8. /\ inUse = {} /\ victims = {} /\ open = {} /\ unfit = {} /\ healthTask = NoTask
      /\ idle = 0 /\ active = 0 /\ needed = 0 /\ removed = 0 /\ cancels = 0
  BY DEF Init
<1>9. QED
  BY <1>1, <1>2, <1>3, <1>4, <1>5, <1>6, <1>7, <1>8 DEF TypeOK

\* AddIdle appends a connection that exists nowhere yet, or does nothing.
LEMMA AddIdleTypes ==
    ASSUME TypeOK, AddIdle
    PROVE  /\ available' \in Seq(Conns) /\ open' \in SUBSET Conns
           /\ idle' \in Int /\ active' \in Int
<1>1. CASE UNCHANGED <<available, open, idle, active>>
  BY <1>1 DEF TypeOK
<1>2. CASE \E c \in Conns :
             /\ Fresh(c) /\ available' = Append(available, c)
             /\ open' = open \cup {c}
             /\ idle' = idle + 1 /\ active' = active + 1
  <2>1. PICK c \in Conns : available' = Append(available, c) /\ open' = open \cup {c}
    BY <1>2
  <2>2. Append(available, c) \in Seq(Conns)
    BY AppendProperties DEF TypeOK
  <2>3. QED BY <1>2, <2>1, <2>2 DEF TypeOK
<1>3. QED BY <1>1, <1>2 DEF AddIdle

\* The acquire() path keeps the types.
LEMMA AcquireTypes ==
    ASSUME TypeOK, NEW p \in Callers, Acquire(p)
    PROVE  TypeOK'
<1> p \in Tasks
  BY DEF Tasks
<1> USE DEF TypeOK
<1>1. CASE AcquireStart(p)
  BY <1>1 DEF AcquireStart, poolVars, statVars, monVars, envVars, PCs
<1>2. CASE TakePermit(p)
  BY <1>2 DEF TakePermit, statVars, monVars, envVars, PCs
<1>3. CASE EnterLock(p)
  BY <1>3 DEF EnterLock, statVars, monVars, envVars, PCs
<1>4. CASE TryIdle(p)
  <2>1. Tail(available) \in Seq(Conns) /\ Head(available) \in Conns
    BY <1>4, HeadTailProperties DEF TryIdle, PoppedIdle
  <2>2. IsFiniteSet(inUse \cup {Head(available)})
    BY FS_AddElement
  <2>3. pc' \in [Tasks -> PCs]
    BY <1>4 DEF TryIdle, PoppedIdle, PCs
  <2>4. conn' \in [Tasks -> Conns \cup {NoConn}] /\ inUse' \in SUBSET Conns /\ IsFiniteSet(inUse')
    BY <1>4, <2>1, <2>2 DEF TryIdle, PoppedIdle
  <2>5. locked' \in BOOLEAN
    BY <1>4 DEF TryIdle, PoppedIdle
  <2>6. open' \in SUBSET Conns /\ unfit' \in SUBSET Conns
    BY <1>4 DEF TryIdle, PoppedIdle, CloseSocket
  <2>7. QED BY <1>4, <2>1, <2>3, <2>4, <2>5, <2>6 DEF TryIdle, PoppedIdle, monVars
<1>5. CASE Discarded(p)
  BY <1>5 DEF Discarded, poolVars, monVars, envVars, PCs
<1>6. CASE StartCreate(p)
  BY <1>6 DEF StartCreate, poolVars, statVars, monVars, envVars, PCs
<1>7. CASE CreateOk(p)
  <2>1. \A c \in Conns : IsFiniteSet(inUse \cup {c})
    BY FS_AddElement
  <2>2. pc' \in [Tasks -> PCs]
    BY <1>7 DEF CreateOk, PCs
  <2>3. conn' \in [Tasks -> Conns \cup {NoConn}] /\ inUse' \in SUBSET Conns /\ IsFiniteSet(inUse')
    BY <1>7, <2>1 DEF CreateOk
  <2>4. permits' \in Int
    BY <1>7 DEF CreateOk
  <2>5. active' \in Int
    BY <1>7 DEF CreateOk
  <2>6. open' \in SUBSET Conns
    BY <1>7 DEF CreateOk
  <2>7. QED BY <1>7, <2>2, <2>3, <2>4, <2>5, <2>6 DEF CreateOk, monVars
<1>8. CASE CreateRefused(p)
  <2>1. pc' \in [Tasks -> PCs]
    BY <1>8 DEF CreateRefused, PCs
  <2>2. locked' \in BOOLEAN
    BY <1>8 DEF CreateRefused
  <2>3. permits' \in Int
    BY <1>8 DEF CreateRefused
  <2>4. QED BY <1>8, <2>1, <2>2, <2>3 DEF CreateRefused, statVars, monVars, envVars
<1>9. QED
  BY <1>1, <1>2, <1>3, <1>4, <1>5, <1>6, <1>7, <1>8, Acquire(p) DEF Acquire

\* The release() path and cancellation keep the types.
LEMMA GivebackTypes ==
    ASSUME TypeOK, NEW p \in Callers, Giveback(p) \/ CancelCaller(p)
    PROVE  TypeOK'
<1> p \in Tasks
  BY DEF Tasks
<1> USE DEF TypeOK
<1>1. CASE ReleaseStart(p)
  BY <1>1 DEF ReleaseStart, poolVars, statVars, monVars, envVars, PCs
<1>2. CASE Release(p)
  <2>1. conn[p] \in inUse => Append(available, conn[p]) \in Seq(Conns)
    BY AppendProperties
  <2>2. IsFiniteSet(inUse \ {conn[p]})
    BY FS_RemoveElement
  <2>3. pc' \in [Tasks -> PCs]
    BY <1>2 DEF Release, Keepable, PCs
  <2>4. conn' \in [Tasks -> Conns \cup {NoConn}] /\ inUse' \in SUBSET Conns /\ IsFiniteSet(inUse')
    BY <1>2, <2>2 DEF Release, Keepable
  <2>5. available' \in Seq(Conns)
    BY <1>2, <2>1 DEF Release, Keepable
  <2>6. permits' \in Int
    BY <1>2 DEF Release, Keepable
  <2>7. idle' \in Int
    BY <1>2 DEF Release, Keepable
  <2>8. locked' \in BOOLEAN
    BY <1>2 DEF Release, Keepable
  <2>9. open' \in SUBSET Conns /\ unfit' \in SUBSET Conns
    BY <1>2 DEF Release, Keepable, CloseSocket
  <2>10. QED BY <1>2, <2>3, <2>4, <2>5, <2>6, <2>7, <2>8, <2>9 DEF Release, Keepable, monVars
<1>3. CASE Retired(p)
  <2>1. pc' \in [Tasks -> PCs]
    BY <1>3 DEF Retired, PCs
  <2>2. permits' \in Int
    BY <1>3 DEF Retired
  <2>3. locked' \in BOOLEAN
    BY <1>3 DEF Retired
  <2>4. QED BY <1>3, <2>1, <2>2, <2>3 DEF Retired, monVars, envVars
<1>4. CASE CancelCaller(p)
  <2>1. pc' \in [Tasks -> PCs]
    BY <1>4 DEF CancelCaller, PCs
  <2>2. locked' \in BOOLEAN
    BY <1>4 DEF CancelCaller
  <2>3. tries' \in [Tasks -> Nat] /\ cancels' \in Nat
    BY <1>4 DEF CancelCaller
  <2>4. QED BY <1>4, <2>1, <2>2, <2>3 DEF CancelCaller, statVars, monVars
<1>5. QED
  BY <1>1, <1>2, <1>3, <1>4, Giveback(p) \/ CancelCaller(p) DEF Giveback

\* initialize() and the health check keep the types.
LEMMA TaskTypes ==
    ASSUME TypeOK, NEW t \in Tasks, InitCreate(t) \/ HealthCheck(t)
    PROVE  TypeOK'
<1> USE DEF TypeOK, MonStates
<1>1. CASE InitCreate(t)
  <2>1. available' \in Seq(Conns) /\ open' \in SUBSET Conns /\ idle' \in Int /\ active' \in Int
    BY <1>1, AddIdleTypes DEF InitCreate
  <2>2. tries' \in [Tasks -> Nat]
    BY <1>1 DEF InitCreate
  <2>3. pc' \in [Tasks -> PCs]
    BY <1>1 DEF InitCreate, PCs
  <2>4. mon' \in [Tasks -> MonStates]
    BY <1>1 DEF InitCreate
  <2>5. QED BY <1>1, <2>1, <2>2, <2>3, <2>4 DEF InitCreate
<1>2. CASE MonWake(t)
  BY <1>2 DEF MonWake, poolVars, statVars, taskVars, envVars
<1>3. CASE MonScan(t)
  <2>1. Idle \subseteq Conns
    BY ElementOfSeq, LenProperties DEF Idle, Range
  <2>2. victims' \in SUBSET Conns
    BY <1>3, <2>1 DEF MonScan
  <2>3. QED BY <1>3, <2>2 DEF MonScan, statVars, taskVars, envVars
<1>4. CASE MonEvict(t)
  <2>1. PICK i \in 1..Len(available) :
           /\ available' = RemoveAt(available, i)
           /\ victims' = victims \ {available[i]}
           /\ CloseSocket(available[i])
    BY <1>4 DEF MonEvict
  <2>2. RemoveAt(available, i) \in Seq(Conns)
    BY EvictInSeq
  <2>3. QED BY <1>4, <2>1, <2>2 DEF MonEvict, CloseSocket, taskVars
<1>5. CASE MonClosed(t)
  BY <1>5 DEF MonClosed, taskVars
<1>6. CASE MonMeasure(t)
  <2>1. Len(available) \in Nat /\ Cardinality(inUse) \in Nat
    BY FS_CardinalityType, LenProperties
  <2>2. needed' \in Nat
    BY <1>6, <2>1, PoolAssumption DEF MonMeasure, Shortfall, PoolSize
  <2>3. QED BY <1>6, <2>2 DEF MonMeasure, poolVars, statVars, taskVars, envVars
<1>7. CASE MonTopUp(t)
  <2>1. available' \in Seq(Conns) /\ open' \in SUBSET Conns /\ idle' \in Int /\ active' \in Int
    BY <1>7, AddIdleTypes DEF MonTopUp
  <2>2. QED BY <1>7, <2>1 DEF MonTopUp, taskVars
<1>8. CASE MonDone(t)
  BY <1>8 DEF MonDone, statVars, taskVars, envVars
<1>9. QED
  BY <1>1, <1>2, <1>3, <1>4, <1>5, <1>6, <1>7, <1>8,
     InitCreate(t) \/ HealthCheck(t) DEF HealthCheck

\* Entering, closing and the environment keep the types.
LEMMA CloseTypes ==
    ASSUME TypeOK, OwnerEnter \/ Close \/ \E c \in Conns : Decay(c)
    PROVE  TypeOK'
<1> Owner \in Tasks
  BY DEF Tasks
<1> USE DEF TypeOK, PCs, MonStates
<1>1. CASE OwnerEnter
  BY <1>1 DEF OwnerEnter, poolVars, statVars, monVars, envVars
<1>2. CASE CloseStart
  BY <1>2 DEF CloseStart, statVars, envVars
<1>3. CASE DrainStart
  BY <1>3 DEF DrainStart, statVars, monVars, envVars
<1>4. CASE DrainIdle
  <2>1. Tail(available) \in Seq(Conns)
    BY <1>4, HeadTailProperties DEF DrainIdle
  <2>2. QED BY <1>4, <2>1 DEF DrainIdle, CloseSocket, statVars, taskVars, monVars
<1>5. CASE DrainInUse
  <2>1. IsFiniteSet(inUse')
    BY <1>5, FS_EmptySet DEF DrainInUse
  <2>2. QED BY <1>5, <2>1 DEF DrainInUse, statVars, monVars
<1>6. CASE \E c \in Conns : Decay(c)
  BY <1>6 DEF Decay, poolVars, statVars, taskVars, monVars
<1>7. QED
  BY <1>1, <1>2, <1>3, <1>4, <1>5, <1>6, OwnerEnter \/ Close \/ \E c \in Conns : Decay(c)
     DEF Close

\* No step of the pool breaks the types.
LEMMA TypeStep == TypeOK /\ [Next]_vars => TypeOK'
<1> SUFFICES ASSUME TypeOK, [Next]_vars PROVE TypeOK'
  OBVIOUS
<1>1. CASE UNCHANGED vars
  BY <1>1 DEF vars, poolVars, statVars, taskVars, monVars, envVars, TypeOK
<1>2. CASE Next
  BY <1>2, AcquireTypes, GivebackTypes, TaskTypes, CloseTypes DEF Next
<1>3. QED BY <1>1, <1>2

\* Every state the pool reaches is well-typed: in particular the health check
\* never computes a negative number of connections to create.
THEOREM PoolTypeCorrect == Spec => []TypeOK
  BY InitTypeOK, TypeStep, PTL DEF Spec

-----------------------------------------------------------------------------
(* Exclusive use.  ExclusiveUse is not inductive: release() appends the      *)
(* caller's connection to the idle queue, which is harmless only because a   *)
(* connection of _in_use is never idle at the same time.                     *)

Apart == inUse \cap Idle = {}

ExclusiveInv == TypeOK /\ ExclusiveUse /\ Apart

\* A step that only takes connections away, from the queue, from _in_use or
\* from callers, disturbs nothing.
LEMMA TakingAway ==
    ASSUME ExclusiveInv,
           IsInjective(available'), Range(available') \subseteq Idle,
           inUse' \subseteq inUse,
           \A p \in Callers : Holds(p)' => Holds(p) /\ conn'[p] = conn[p]
    PROVE  ExclusiveUse' /\ Apart'
<1>1. Idle' \subseteq Idle
  BY DEF Idle
<1>2. ASSUME NEW p \in Callers, Holds(p)' PROVE conn'[p] \in Conns \ Idle'
  BY <1>1, <1>2 DEF ExclusiveInv, ExclusiveUse
<1>3. ASSUME NEW p \in Callers, NEW q \in Callers, Holds(p)', Holds(q)', p # q
      PROVE  conn'[p] # conn'[q]
  BY <1>3 DEF ExclusiveInv, ExclusiveUse
<1>4. Apart'
  BY <1>1 DEF ExclusiveInv, Apart
<1>5. QED BY <1>2, <1>3, <1>4 DEF ExclusiveUse

\* The same when the queue and _in_use do not change.
LEMMA TakingNothing ==
    ASSUME ExclusiveInv, available' = available, inUse' = inUse,
           \A p \in Callers : Holds(p)' => Holds(p) /\ conn'[p] = conn[p]
    PROVE  ExclusiveUse' /\ Apart'
<1>1. IsInjective(available') /\ Range(available') \subseteq Idle
  BY DEF ExclusiveInv, ExclusiveUse, Idle
<1>2. QED BY <1>1, TakingAway

\* A caller is given a connection that nobody holds and that is not idle.
LEMMA HandingOut ==
    ASSUME ExclusiveInv, NEW p \in Callers, NEW c \in Conns,
           IsInjective(available'), Range(available') \subseteq Idle \ {c},
           inUse' = inUse \cup {c}, conn' = [conn EXCEPT ![p] = c],
           \A q \in Callers \ {p} : Holds(q)' = Holds(q),
           \A q \in Callers \ {p} : Holds(q) => conn[q] # c
    PROVE  ExclusiveUse' /\ Apart'
<1>1. Idle' \subseteq Idle \ {c}
  BY DEF Idle
<1>2. conn'[p] = c /\ \A q \in Callers \ {p} : conn'[q] = conn[q]
  BY DEF ExclusiveInv, TypeOK, Tasks
<1>3. ASSUME NEW q \in Callers, Holds(q)' PROVE conn'[q] \in Conns \ Idle'
  BY <1>1, <1>2, <1>3 DEF ExclusiveInv, ExclusiveUse
<1>4. ASSUME NEW q \in Callers, NEW r \in Callers, Holds(q)', Holds(r)', q # r
      PROVE  conn'[q] # conn'[r]
  BY <1>2, <1>4 DEF ExclusiveInv, ExclusiveUse
<1>5. Apart'
  BY <1>1 DEF ExclusiveInv, Apart
<1>6. QED BY <1>3, <1>4, <1>5 DEF ExclusiveUse

\* A connection nobody holds and that is in neither collection becomes idle.
LEMMA Queueing ==
    ASSUME ExclusiveInv, NEW c \in Conns, c \notin Idle,
           available' = Append(available, c), inUse' \subseteq inUse \ {c},
           \A p \in Callers : Holds(p)' => Holds(p) /\ conn'[p] = conn[p] /\ conn[p] # c
    PROVE  ExclusiveUse' /\ Apart'
<1>1. IsInjective(available') /\ Idle' = Idle \cup {c}
  <2>1. available \in Seq(Conns) /\ IsInjective(available) /\ c \notin Range(available)
    BY DEF ExclusiveInv, TypeOK, ExclusiveUse, Idle
  <2>2. QED BY <2>1, AppendNew DEF Idle
<1>2. ASSUME NEW p \in Callers, Holds(p)' PROVE conn'[p] \in Conns \ Idle'
  BY <1>1, <1>2 DEF ExclusiveInv, ExclusiveUse
<1>3. ASSUME NEW p \in Callers, NEW q \in Callers, Holds(p)', Holds(q)', p # q
      PROVE  conn'[p] # conn'[q]
  BY <1>3 DEF ExclusiveInv, ExclusiveUse
<1>4. Apart'
  BY <1>1 DEF ExclusiveInv, Apart
<1>5. QED BY <1>1, <1>2, <1>3, <1>4 DEF ExclusiveUse

\* A connection established in the background is a new one.
LEMMA AddIdleExclusive ==
    ASSUME ExclusiveInv, AddIdle, inUse' = inUse,
           \A p \in Callers : Holds(p)' => Holds(p) /\ conn'[p] = conn[p]
    PROVE  ExclusiveUse' /\ Apart'
<1>1. CASE available' = available
  BY <1>1, TakingNothing
<1>2. CASE \E c \in Conns : Fresh(c) /\ available' = Append(available, c)
  <2>1. PICK c \in Conns : Fresh(c) /\ available' = Append(available, c)
    BY <1>2
  <2>2. /\ c \notin Idle /\ inUse' \subseteq inUse \ {c}
        /\ \A p \in Callers : conn[p] # c
    BY <2>1 DEF Fresh, Tasks
  <2>3. QED BY <2>1, <2>2, Queueing
<1>3. QED BY <1>1, <1>2 DEF AddIdle
\* acquire() hands out connections exclusively.
LEMMA AcquireExclusive ==
    ASSUME ExclusiveInv, NEW p \in Callers, Acquire(p)
    PROVE  ExclusiveUse' /\ Apart'
<1> p \in Tasks /\ Callers \subseteq Tasks
  BY DEF Tasks
<1> pc \in [Tasks -> PCs] /\ conn \in [Tasks -> Conns \cup {NoConn}]
  BY DEF ExclusiveInv, TypeOK
<1>1. CASE AcquireStart(p)
  BY <1>1, TakingNothing DEF AcquireStart, poolVars, Holds
<1>2. CASE TakePermit(p)
  BY <1>2, TakingNothing DEF TakePermit, Holds
<1>3. CASE EnterLock(p)
  BY <1>3, TakingNothing DEF EnterLock, Holds
<1>4. CASE TryIdle(p)
  <2> DEFINE c == Head(available)
  <2>1. /\ IsInjective(Tail(available)) /\ c \in Conns /\ c \in Idle
        /\ Range(Tail(available)) \subseteq Idle \ {c}
    BY <1>4, PopOldest DEF TryIdle, PoppedIdle, ExclusiveInv, TypeOK, ExclusiveUse, Idle
  <2>2. available' = Tail(available) /\ conn' = [conn EXCEPT ![p] = c]
    BY <1>4 DEF TryIdle, PoppedIdle
  <2>3. \A q \in Callers : Holds(q) => conn[q] # c
    BY <2>1 DEF ExclusiveInv, ExclusiveUse
  <2> HIDE DEF c
  <2>4. CASE inUse' = inUse \cup {c} /\ pc' = [pc EXCEPT ![p] = "using"]
    <3>1. \A q \in Callers \ {p} : Holds(q)' = Holds(q)
      BY <2>4 DEF Holds
    <3>2. QED BY <2>1, <2>2, <2>3, <2>4, <3>1, HandingOut
  <2>5. CASE inUse' = inUse /\ pc' = [pc EXCEPT ![p] = "discard"]
    <3>1. \A q \in Callers : Holds(q)' => Holds(q) /\ conn'[q] = conn[q]
      BY <2>2, <2>5 DEF Holds
    <3>2. QED BY <2>1, <2>2, <2>5, <3>1, TakingAway
  <2>6. QED BY <1>4, <2>4, <2>5 DEF TryIdle, PoppedIdle, c
<1>5. CASE Discarded(p)
  BY <1>5, TakingNothing DEF Discarded, poolVars, Holds
<1>6. CASE StartCreate(p)
  BY <1>6, TakingNothing DEF StartCreate, poolVars, Holds
<1>7. CASE CreateOk(p)
  <2>1. CASE pc' = [pc EXCEPT ![p] = "failed"] /\ permits' = permits + 1
             /\ UNCHANGED <<conn, inUse>>
    BY <1>7, <2>1, TakingNothing DEF CreateOk, Holds
  <2>2. CASE pc' = [pc EXCEPT ![p] = "using"]
    <3>1. PICK c \in Conns : /\ Fresh(c) /\ conn' = [conn EXCEPT ![p] = c]
                             /\ inUse' = inUse \cup {c}
      BY <1>7, <2>2 DEF CreateOk
    <3>2. /\ IsInjective(available') /\ Range(available') \subseteq Idle \ {c}
          /\ \A q \in Callers : conn[q] # c
      BY <1>7, <3>1 DEF CreateOk, Fresh, Idle, ExclusiveInv, ExclusiveUse
    <3>3. \A q \in Callers \ {p} : Holds(q)' = Holds(q)
      BY <1>7, <2>2 DEF CreateOk, Holds
    <3>4. QED BY <3>1, <3>2, <3>3, HandingOut
  <2>3. QED BY <1>7, <2>1, <2>2 DEF CreateOk
<1>8. CASE CreateRefused(p)
  BY <1>8, TakingNothing DEF CreateRefused, Holds
<1>9. QED
  BY <1>1, <1>2, <1>3, <1>4, <1>5, <1>6, <1>7, <1>8, Acquire(p) DEF Acquire

\* release() and cancellation: a connection goes back only when it is not idle.
LEMMA GivebackExclusive ==
    ASSUME ExclusiveInv, NEW p \in Callers, Giveback(p) \/ CancelCaller(p)
    PROVE  ExclusiveUse' /\ Apart'
<1> p \in Tasks /\ Callers \subseteq Tasks
  BY DEF Tasks
<1> pc \in [Tasks -> PCs] /\ conn \in [Tasks -> Conns \cup {NoConn}]
  BY DEF ExclusiveInv, TypeOK
<1>1. CASE ReleaseStart(p)
  BY <1>1, TakingNothing DEF ReleaseStart, poolVars, Holds
<1>2. CASE Release(p)
  <2> DEFINE c == conn[p]
  <2>1. /\ Holds(p) /\ c \in Conns /\ c \notin Idle
        /\ IsInjective(available) /\ Range(available) = Idle
    BY <1>2 DEF Release, Keepable, Holds, ExclusiveInv, ExclusiveUse, Idle
  <2>2. \A q \in Callers : Holds(q)' => q # p /\ Holds(q)
    BY <1>2 DEF Release, Keepable, Holds
  <2>3. \A q \in Callers \ {p} : conn'[q] = conn[q] /\ (Holds(q) => conn[q] # c)
    BY <1>2, <2>1 DEF Release, Keepable, ExclusiveInv, ExclusiveUse
  <2>4. CASE available' = available /\ inUse' \subseteq inUse
    BY <2>1, <2>2, <2>3, <2>4, TakingAway
  <2>5. CASE available' = Append(available, c) /\ inUse' = inUse \ {c}
    BY <2>1, <2>2, <2>3, <2>5, Queueing
  <2>6. QED BY <1>2, <2>4, <2>5 DEF Release, Keepable
<1>3. CASE Retired(p)
  BY <1>3, TakingNothing DEF Retired, Holds
<1>4. CASE CancelCaller(p)
  BY <1>4, TakingNothing DEF CancelCaller, Holds
<1>5. QED
  BY <1>1, <1>2, <1>3, <1>4, Giveback(p) \/ CancelCaller(p) DEF Giveback

\* initialize() and the health check never touch a connection in use.
LEMMA TaskExclusive ==
    ASSUME ExclusiveInv, NEW t \in Tasks, InitCreate(t) \/ HealthCheck(t)
    PROVE  ExclusiveUse' /\ Apart'
<1> Callers \subseteq Tasks
  BY DEF Tasks
<1> pc \in [Tasks -> PCs]
  BY DEF ExclusiveInv, TypeOK
<1>1. CASE InitCreate(t)
  <2>1. \A p \in Callers : Holds(p)' => Holds(p) /\ conn'[p] = conn[p]
    BY <1>1 DEF InitCreate, Holds
  <2>2. QED BY <1>1, <2>1, AddIdleExclusive DEF InitCreate
<1>2. CASE MonWake(t)
  BY <1>2, TakingNothing DEF MonWake, poolVars, taskVars, Holds
<1>3. CASE MonScan(t)
  BY <1>3, TakingNothing DEF MonScan, taskVars, Holds
<1>4. CASE MonEvict(t)
  <2>1. PICK i \in 1..Len(available) : available' = RemoveAt(available, i)
    BY <1>4 DEF MonEvict
  <2>2. IsInjective(available') /\ Range(available') \subseteq Idle
    BY <2>1, EvictAt DEF ExclusiveInv, TypeOK, ExclusiveUse, Idle
  <2>3. inUse' = inUse /\ \A p \in Callers : Holds(p)' => Holds(p) /\ conn'[p] = conn[p]
    BY <1>4 DEF MonEvict, taskVars, Holds
  <2>4. QED BY <2>2, <2>3, TakingAway
<1>5. CASE MonClosed(t)
  BY <1>5, TakingNothing DEF MonClosed, taskVars, Holds
<1>6. CASE MonMeasure(t)
  BY <1>6, TakingNothing DEF MonMeasure, poolVars, taskVars, Holds
<1>7. CASE MonTopUp(t)
  <2>1. inUse' = inUse /\ \A p \in Callers : Holds(p)' => Holds(p) /\ conn'[p] = conn[p]
    BY <1>7 DEF MonTopUp, taskVars, Holds
  <2>2. QED BY <1>7, <2>1, AddIdleExclusive DEF MonTopUp
<1>8. CASE MonDone(t)
  BY <1>8, TakingNothing DEF MonDone, taskVars, Holds
<1>9. QED
  BY <1>1, <1>2, <1>3, <1>4, <1>5, <1>6, <1>7, <1>8,
     InitCreate(t) \/ HealthCheck(t) DEF HealthCheck

\* close() may close a connection under its user, but it hands out none.
LEMMA CloseExclusive ==
    ASSUME ExclusiveInv, OwnerEnter \/ Close \/ \E c \in Conns : Decay(c)
    PROVE  ExclusiveUse' /\ Apart'
<1> Callers \subseteq Tasks /\ Owner \in Tasks /\ Owner \notin Callers
  BY PoolAssumption DEF Tasks
<1> pc \in [Tasks -> PCs]
  BY DEF ExclusiveInv, TypeOK
<1>1. CASE OwnerEnter
  BY <1>1, TakingNothing DEF OwnerEnter, poolVars, Holds
<1>2. CASE CloseStart
  BY <1>2, TakingNothing DEF CloseStart, Holds
<1>3. CASE DrainStart
  BY <1>3, TakingNothing DEF DrainStart, Holds
<1>4. CASE DrainIdle
  <2>1. IsInjective(available') /\ Range(available') \subseteq Idle
    BY <1>4, PopOldest DEF DrainIdle, ExclusiveInv, TypeOK, ExclusiveUse, Idle
  <2>2. inUse' = inUse /\ \A p \in Callers : Holds(p)' => Holds(p) /\ conn'[p] = conn[p]
    BY <1>4 DEF DrainIdle, taskVars, Holds
  <2>3. QED BY <2>1, <2>2, TakingAway
<1>5. CASE DrainInUse
  <2>1. \A p \in Callers : Holds(p)' => Holds(p) /\ conn'[p] = conn[p]
    BY <1>5 DEF DrainInUse, Holds
  <2>2. IsInjective(available') /\ Range(available') \subseteq Idle /\ inUse' \subseteq inUse
    BY <1>5 DEF DrainInUse, ExclusiveInv, ExclusiveUse, Idle
  <2>3. QED BY <2>1, <2>2, TakingAway
<1>6. CASE \E c \in Conns : Decay(c)
  BY <1>6, TakingNothing DEF Decay, poolVars, taskVars, Holds
<1>7. QED
  BY <1>1, <1>2, <1>3, <1>4, <1>5, <1>6, OwnerEnter \/ Close \/ \E c \in Conns : Decay(c)
     DEF Close

\* The strengthened invariant holds of every reachable state.
LEMMA PoolExclusiveInv == Spec => []ExclusiveInv
<1>1. Init => ExclusiveInv
  <2> SUFFICES ASSUME Init PROVE ExclusiveUse /\ Apart
    BY InitTypeOK DEF ExclusiveInv
  <2>1. available = <<>> /\ inUse = {} /\ DOMAIN available = {}
    BY DEF Init
  <2>2. \A p \in Callers : ~Holds(p)
    BY DEF Init, Holds, Tasks
  <2>3. QED BY <2>1, <2>2 DEF ExclusiveUse, Apart, IsInjective
<1>2. ExclusiveInv /\ [Next]_vars => ExclusiveInv'
  <2> SUFFICES ASSUME ExclusiveInv, [Next]_vars PROVE ExclusiveInv'
    OBVIOUS
  <2>1. TypeOK'
    BY TypeStep DEF ExclusiveInv
  <2>2. CASE UNCHANGED vars
    <3>1. \A p \in Callers : Holds(p)' => Holds(p) /\ conn'[p] = conn[p]
      BY <2>2 DEF vars, taskVars, Holds
    <3>2. QED BY <2>1, <2>2, <3>1, TakingNothing DEF vars, poolVars, ExclusiveInv
  <2>3. CASE Next
    <3>1. ExclusiveUse' /\ Apart'
      BY <2>3, AcquireExclusive, GivebackExclusive, TaskExclusive, CloseExclusive DEF Next
    <3>2. QED BY <2>1, <3>1 DEF ExclusiveInv
  <2>4. QED BY <2>2, <2>3
<1>3. QED BY <1>1, <1>2, PTL DEF Spec

\* A connection has one user at a time, and is not idle meanwhile.
THEOREM PoolExclusive == Spec => []ExclusiveUse
<1>1. ExclusiveInv => ExclusiveUse
  BY DEF ExclusiveInv
<1>2. QED BY <1>1, PoolExclusiveInv, PTL
-----------------------------------------------------------------------------
(* Semaphore accounting.                                                    *)

\* PermitHolders is a finite set, so that its members can be counted.
LEMMA HoldersFinite == IsFiniteSet(PermitHolders) /\ Cardinality(PermitHolders) \in Nat
<1>1. PermitHolders \in SUBSET Callers
  BY DEF PermitHolders
<1>2. QED BY <1>1, PoolAssumption, FS_Subset, FS_CardinalityType

\* A step that neither moves a permit nor counts a cancellation or a removal.
LEMMA PermitsKept ==
    ASSUME PermitsBounded, permits' = permits, PermitHolders' = PermitHolders,
           cancels' = cancels, removed' = removed
    PROVE  PermitsBounded'
BY DEF PermitsBounded

\* Semaphore.acquire(): the permit moves from the semaphore to the caller.
LEMMA PermitTaken ==
    ASSUME TypeOK, PermitsBounded, NEW p \in Callers, p \notin PermitHolders,
           permits' = permits - 1, PermitHolders' = PermitHolders \cup {p},
           cancels' = cancels, removed' = removed
    PROVE  PermitsBounded'
<1>1. Cardinality(PermitHolders') = Cardinality(PermitHolders) + 1
  BY HoldersFinite, FS_AddElement
<1>2. permits \in Int /\ Cardinality(PermitHolders) \in Nat
  BY HoldersFinite DEF TypeOK
<1>3. QED BY <1>1, <1>2 DEF PermitsBounded

\* Semaphore.release(): the permit moves back.
LEMMA PermitReturned ==
    ASSUME TypeOK, PermitsBounded, NEW p \in PermitHolders,
           permits' = permits + 1, PermitHolders' = PermitHolders \ {p},
           cancels' = cancels, removed' = removed
    PROVE  PermitsBounded'
<1>1. Cardinality(PermitHolders') = Cardinality(PermitHolders) - 1
  BY HoldersFinite, FS_RemoveElement
<1>2. permits \in Int /\ Cardinality(PermitHolders) \in Nat
  BY HoldersFinite DEF TypeOK
<1>3. QED BY <1>1, <1>2 DEF PermitsBounded

\* A cancelled caller takes its permit, if it has one, with it.
LEMMA PermitLost ==
    ASSUME TypeOK, PermitsBounded, NEW p \in Callers,
           permits' = permits, PermitHolders' = PermitHolders \ {p},
           cancels' = cancels + 1, removed' = removed
    PROVE  PermitsBounded'
<1>1. /\ Cardinality(PermitHolders') \in Nat
      /\ Cardinality(PermitHolders) - 1 <= Cardinality(PermitHolders')
      /\ Cardinality(PermitHolders') <= Cardinality(PermitHolders)
  <2>1. Cardinality(PermitHolders \ {p}) =
          IF p \in PermitHolders THEN Cardinality(PermitHolders) - 1
                                 ELSE Cardinality(PermitHolders)
    BY HoldersFinite, FS_RemoveElement
  <2>2. Cardinality(PermitHolders \ {p}) \in Nat
    BY HoldersFinite, FS_RemoveElement, FS_CardinalityType
  <2>3. CASE p \in PermitHolders
    BY <2>1, <2>2, <2>3, HoldersFinite
  <2>4. CASE p \notin PermitHolders
    BY <2>1, <2>2, <2>4, HoldersFinite
  <2>5. QED BY <2>3, <2>4
<1>2. /\ permits \in Int /\ Cardinality(PermitHolders) \in Nat
      /\ cancels \in Nat /\ removed \in Nat /\ MaxSize \in Nat
  BY HoldersFinite, PoolAssumption DEF TypeOK
<1>3. QED BY <1>1, <1>2 DEF PermitsBounded

\* The health check invents a permit for a connection it removes.
LEMMA PermitInvented ==
    ASSUME TypeOK, PermitsBounded,
           permits' = permits + 1, PermitHolders' = PermitHolders,
           cancels' = cancels, removed' = removed + 1
    PROVE  PermitsBounded'
<1>1. /\ permits \in Int /\ Cardinality(PermitHolders) \in Nat
      /\ cancels \in Nat /\ removed \in Nat /\ MaxSize \in Nat
  BY HoldersFinite, PoolAssumption DEF TypeOK
<1>2. QED BY <1>1 DEF PermitsBounded

\* The steps of the callers keep the account.
LEMMA CallerPermits ==
    ASSUME TypeOK, PermitsBounded, NEW p \in Callers,
           Acquire(p) \/ Giveback(p) \/ CancelCaller(p)
    PROVE  PermitsBounded'
<1> p \in Tasks /\ Callers \subseteq Tasks /\ pc \in [Tasks -> PCs]
  BY DEF Tasks, TypeOK
<1>1. CASE AcquireStart(p)
  BY <1>1, PermitsKept DEF AcquireStart, poolVars, envVars, PermitHolders
<1>2. CASE TakePermit(p)
  BY <1>2, PermitTaken DEF TakePermit, envVars, PermitHolders
<1>3. CASE EnterLock(p)
  BY <1>3, PermitsKept DEF EnterLock, envVars, PermitHolders
<1>4. CASE TryIdle(p)
  <2>1. PermitHolders' = PermitHolders
    <3>1. CASE pc' = [pc EXCEPT ![p] = "using"]
      BY <1>4, <3>1 DEF TryIdle, PoppedIdle, PermitHolders
    <3>2. CASE pc' = [pc EXCEPT ![p] = "discard"]
      BY <1>4, <3>2 DEF TryIdle, PoppedIdle, PermitHolders
    <3>3. QED BY <1>4, <3>1, <3>2 DEF TryIdle, PoppedIdle
  <2>2. QED BY <1>4, <2>1, PermitsKept DEF TryIdle, PoppedIdle
<1>5. CASE Discarded(p)
  BY <1>5, PermitsKept DEF Discarded, poolVars, envVars, PermitHolders
<1>6. CASE StartCreate(p)
  BY <1>6, PermitsKept DEF StartCreate, poolVars, envVars, PermitHolders
<1>7. CASE CreateOk(p)
  <2>1. CASE pc' = [pc EXCEPT ![p] = "failed"] /\ permits' = permits + 1
             /\ UNCHANGED <<conn, inUse>>
    BY <1>7, <2>1, PermitReturned DEF CreateOk, PermitHolders
  <2>2. CASE pc' = [pc EXCEPT ![p] = "using"] /\ UNCHANGED permits
    BY <1>7, <2>2, PermitsKept DEF CreateOk, PermitHolders
  <2>3. QED BY <1>7, <2>1, <2>2 DEF CreateOk
<1>8. CASE CreateRefused(p)
  BY <1>8, PermitReturned DEF CreateRefused, envVars, PermitHolders
<1>9. CASE ReleaseStart(p)
  BY <1>9, PermitsKept DEF ReleaseStart, poolVars, envVars, PermitHolders
<1>10. CASE Release(p)
  <2>1. p \in PermitHolders /\ cancels' = cancels /\ removed' = removed
    BY <1>10 DEF Release, Keepable, PermitHolders
  <2>2. CASE permits' = permits + 1 /\ pc' = [pc EXCEPT ![p] = "ready"]
    BY <2>1, <2>2, PermitReturned DEF PermitHolders
  <2>3. CASE permits' = permits /\ pc' = [pc EXCEPT ![p] = "retire"]
    BY <2>1, <2>3, PermitsKept DEF PermitHolders
  <2>4. QED BY <1>10, <2>2, <2>3 DEF Release, Keepable
<1>11. CASE Retired(p)
  BY <1>11, PermitReturned DEF Retired, envVars, PermitHolders
<1>12. CASE CancelCaller(p)
  BY <1>12, PermitLost DEF CancelCaller, PermitHolders
<1>13. QED
  BY <1>1, <1>2, <1>3, <1>4, <1>5, <1>6, <1>7, <1>8, <1>9, <1>10, <1>11, <1>12,
     Acquire(p) \/ Giveback(p) \/ CancelCaller(p) DEF Acquire, Giveback

\* Nobody else moves a permit but the health check.
LEMMA BackgroundPermits ==
    ASSUME TypeOK, PermitsBounded,
           \/ OwnerEnter \/ Close \/ \E c \in Conns : Decay(c)
           \/ \E t \in Tasks : InitCreate(t) \/ HealthCheck(t)
    PROVE  PermitsBounded'
<1> Callers \subseteq Tasks /\ Owner \in Tasks /\ Owner \notin Callers
  BY PoolAssumption DEF Tasks
<1> pc \in [Tasks -> PCs]
  BY DEF TypeOK
<1>1. CASE OwnerEnter
  BY <1>1, PermitsKept DEF OwnerEnter, poolVars, envVars, PermitHolders
<1>2. CASE Close
  BY <1>2, PermitsKept
     DEF Close, CloseStart, DrainStart, DrainIdle, DrainInUse, taskVars, envVars, PermitHolders
<1>3. CASE \E c \in Conns : Decay(c)
  BY <1>3, PermitsKept DEF Decay, poolVars, taskVars, PermitHolders
<1>4. CASE \E t \in Tasks : InitCreate(t)
  BY <1>4, PermitsKept DEF InitCreate, PermitHolders
<1>5. ASSUME NEW t \in Tasks, HealthCheck(t) PROVE PermitsBounded'
  <2>1. CASE MonClosed(t)
    BY <2>1, PermitInvented DEF MonClosed, taskVars, PermitHolders
  <2>2. CASE ~MonClosed(t)
    BY <1>5, <2>2, PermitsKept
       DEF HealthCheck, MonWake, MonScan, MonEvict, MonMeasure, MonTopUp, MonDone,
           poolVars, taskVars, envVars, PermitHolders
  <2>3. QED BY <2>1, <2>2
<1>6. QED BY <1>1, <1>2, <1>3, <1>4, <1>5

\* However the callers, the health check and close() interleave, permits are
\* lost only to cancellations and gained only from the health check.
THEOREM PoolPermits == Spec => []PermitsBounded
<1>1. Init => PermitsBounded
  <2> SUFFICES ASSUME Init PROVE PermitsBounded
    OBVIOUS
  <2>1. PermitHolders = {}
    BY DEF Init, PermitHolders, Tasks
  <2>2. QED BY <2>1, FS_EmptySet, PoolAssumption DEF Init, PermitsBounded
<1>2. TypeOK /\ PermitsBounded /\ [Next]_vars => PermitsBounded'
  <2> SUFFICES ASSUME TypeOK, PermitsBounded, [Next]_vars PROVE PermitsBounded'
    OBVIOUS
  <2>1. CASE UNCHANGED vars
    BY <2>1, PermitsKept DEF vars, poolVars, taskVars, envVars, PermitHolders
  <2>2. CASE Next
    BY <2>2, CallerPermits, BackgroundPermits DEF Next
  <2>3. QED BY <2>1, <2>2
<1>3. QED BY <1>1, <1>2, PoolTypeCorrect, PTL DEF Spec
-----------------------------------------------------------------------------
(* The lock and the health check.                                           *)

\* Who is inside the lock: a caller between the awaits of acquire() and release(),
\* the owner in close(), and the health check while it cleans up.
Inside(t) == pc[t] \in {"search", "discard", "create", "retire", "drain"}
Cleaning(t) == mon[t] \in {"evict", "closing", "topup"}

\* The lock is held by at most one of them.
OneInside ==
    /\ \A t \in Tasks : Inside(t) \/ Cleaning(t) => locked
    /\ \A t, u \in Tasks : /\ Inside(t) /\ Inside(u) => t = u
                           /\ Cleaning(t) /\ Cleaning(u) => t = u
                           /\ ~ (Inside(t) /\ Cleaning(u))

\* The owner and the callers are at places of their own; who initializes the pool has
\* no health check yet; the first to come out of it has initialized it for good; and
\* if that is the owner, nobody else has a health check, and close() ends the owner's.
Watched ==
    /\ pc[Owner] \in {"ready", "init", "body", "wantDrain", "drain", "done"}
    /\ \A p \in Callers : pc[p] \notin {"body", "wantDrain", "drain", "done"}
    /\ pc[Owner] \in {"wantDrain", "drain", "done"} => closed
    /\ \A t \in Tasks : (pc[t] = "init" => mon[t] = "none") /\ (mon[t] # "none" => initialized)
    /\ pc[Owner] = "ready" => mon[Owner] = "none"
    /\ healthTask # NoTask => mon[healthTask] # "none"
    /\ pc[Owner] \in {"ready", "init"} => \A p \in Callers : pc[p] = "ready" /\ mon[p] = "none"
    /\ healthTask = Owner =>
          /\ initialized /\ pc[Owner] \notin {"ready", "init"}
          /\ \A p \in Callers : pc[p] # "init" /\ mon[p] = "none"
          /\ pc[Owner] \in {"wantDrain", "drain", "done"} => mon[Owner] = "done"

\* A socket is open only if its connection is idle or in use.
NoneForgotten == open \subseteq Idle \cup inUse

PoolBooksInv == TypeOK /\ OneInside /\ Watched

\* Whoever moves outside the lock, or inside it without leaving, keeps it.
LEMMA LockKept ==
    ASSUME OneInside, locked' = locked,
           \A t \in Tasks : (Inside(t)' => Inside(t)) /\ (Cleaning(t)' => Cleaning(t))
    PROVE  OneInside'
  BY DEF OneInside

\* Whoever takes the free lock is alone inside.
LEMMA LockTaken ==
    ASSUME OneInside, ~locked, locked', NEW u \in Tasks,
           \A t \in Tasks : Inside(t)' \/ Cleaning(t)' => t = u \/ Inside(t) \/ Cleaning(t),
           ~ (Inside(u)' /\ Cleaning(u)')
    PROVE  OneInside'
  BY DEF OneInside

\* Whoever leaves the lock leaves nobody inside.
LEMMA LockLeft ==
    ASSUME OneInside, NEW u \in Tasks, Inside(u) \/ Cleaning(u),
           \A t \in Tasks : (Inside(t)' => Inside(t) /\ t # u) /\ (Cleaning(t)' => Cleaning(t)),
           ~ Inside(u) => \A t \in Tasks : Cleaning(t)' => t # u
    PROVE  OneInside'
  BY DEF OneInside

LEMMA CallerLocks ==
    ASSUME TypeOK, OneInside, NEW p \in Callers, Acquire(p) \/ Giveback(p) \/ CancelCaller(p)
    PROVE  OneInside'
<1> p \in Tasks /\ Callers \subseteq Tasks /\ pc \in [Tasks -> PCs] /\ locked \in BOOLEAN
  BY DEF Tasks, TypeOK
<1> USE DEF Inside, Cleaning
<1>1. CASE AcquireStart(p)
  BY <1>1, LockKept DEF AcquireStart, poolVars, monVars
<1>2. CASE TakePermit(p)
  BY <1>2, LockKept DEF TakePermit, monVars
<1>3. CASE EnterLock(p)
  BY <1>3, LockTaken DEF EnterLock, monVars, OneInside
<1>4. CASE TryIdle(p)
  <2>1. CASE locked' = FALSE /\ pc' = [pc EXCEPT ![p] = "using"]
    BY <1>4, <2>1, LockLeft DEF TryIdle, monVars
  <2>2. CASE UNCHANGED locked /\ pc' = [pc EXCEPT ![p] = "discard"]
    BY <1>4, <2>2, LockKept DEF TryIdle, monVars
  <2>3. QED BY <1>4, <2>1, <2>2 DEF TryIdle
<1>5. CASE Discarded(p)
  BY <1>5, LockKept DEF Discarded, poolVars, monVars
<1>6. CASE StartCreate(p)
  BY <1>6, LockKept DEF StartCreate, poolVars, monVars
<1>7. CASE CreateOk(p)
  <2>1. pc[p] = "create" /\ mon' = mon
        /\ (pc' = [pc EXCEPT ![p] = "using"] \/ pc' = [pc EXCEPT ![p] = "failed"])
    BY <1>7 DEF CreateOk, monVars
  <2>2. QED BY <2>1, LockLeft
<1>8. CASE CreateRefused(p)
  BY <1>8, LockLeft DEF CreateRefused, monVars
<1>9. CASE ReleaseStart(p)
  BY <1>9, LockKept DEF ReleaseStart, poolVars, monVars
<1>10. CASE Release(p)
  <2>1. CASE UNCHANGED locked /\ pc' = [pc EXCEPT ![p] = "ready"]
    BY <1>10, <2>1, LockKept DEF Release, monVars
  <2>2. CASE locked' = TRUE /\ pc' = [pc EXCEPT ![p] = "retire"]
    BY <1>10, <2>2, LockTaken DEF Release, monVars, OneInside
  <2>3. QED BY <1>10, <2>1, <2>2 DEF Release
<1>11. CASE Retired(p)
  BY <1>11, LockLeft DEF Retired, monVars
<1>12. CASE CancelCaller(p)
  <2>1. CASE Inside(p)
    BY <1>12, <2>1, LockLeft DEF CancelCaller, monVars
  <2>2. CASE ~ Inside(p)
    <3>1. locked' = locked
      BY <1>12, <2>2 DEF CancelCaller
    <3>2. QED BY <1>12, <3>1, LockKept DEF CancelCaller, monVars
  <2>3. QED BY <2>1, <2>2
<1>13. QED
  BY <1>1, <1>2, <1>3, <1>4, <1>5, <1>6, <1>7, <1>8, <1>9, <1>10, <1>11, <1>12,
     Acquire(p) \/ Giveback(p) \/ CancelCaller(p) DEF Acquire, Giveback

LEMMA BackgroundLocks ==
    ASSUME TypeOK, OneInside, Watched,
           \/ OwnerEnter \/ Close \/ \E c \in Conns : Decay(c)
           \/ \E t \in Tasks : InitCreate(t) \/ HealthCheck(t)
    PROVE  OneInside'
<1> /\ Callers \subseteq Tasks /\ Owner \in Tasks /\ Owner \notin Callers
    /\ NoTask \notin Tasks
  BY PoolAssumption DEF Tasks
<1> /\ pc \in [Tasks -> PCs] /\ mon \in [Tasks -> MonStates] /\ locked \in BOOLEAN
    /\ healthTask \in Tasks \cup {NoTask}
  BY DEF TypeOK
<1> USE DEF Inside, Cleaning
<1>1. CASE OwnerEnter
  BY <1>1, LockKept DEF OwnerEnter, poolVars, monVars
<1>2. CASE CloseStart
  <2>1. CASE healthTask = NoTask
    BY <1>2, <2>1, LockKept DEF CloseStart
  <2>2. CASE healthTask # NoTask /\ Cleaning(healthTask)
    <3>1. /\ healthTask \in Tasks /\ ~ Inside(healthTask)
          /\ pc' = [pc EXCEPT ![Owner] = "wantDrain"] /\ mon' = [mon EXCEPT ![healthTask] = "done"]
      BY <1>2, <2>2 DEF CloseStart, OneInside
    <3>2. \A t \in Tasks : (Cleaning(t)' => Cleaning(t)) /\ (Cleaning(t)' => t # healthTask)
      BY <3>1
    <3>3. \A t \in Tasks : Inside(t)' => Inside(t) /\ t # healthTask
      BY <3>1
    <3>4. QED BY <2>2, <3>1, <3>2, <3>3, LockLeft
  <2>3. CASE healthTask # NoTask /\ ~ Cleaning(healthTask)
    BY <1>2, <2>3, LockKept DEF CloseStart
  <2>4. QED BY <2>1, <2>2, <2>3
<1>3. CASE DrainStart
  BY <1>3, LockTaken DEF DrainStart, monVars, OneInside
<1>4. CASE DrainIdle
  BY <1>4, LockKept DEF DrainIdle, taskVars, monVars
<1>5. CASE DrainInUse
  BY <1>5, LockLeft DEF DrainInUse, monVars
<1>6. CASE \E c \in Conns : Decay(c)
  BY <1>6, LockKept DEF Decay, poolVars, taskVars, monVars
<1>7. CASE \E t \in Tasks : InitCreate(t)
  <2>1. PICK t \in Tasks : InitCreate(t)
    BY <1>7
  <2>2. mon[t] = "none" /\ pc[t] = "init" /\ locked' = locked
    BY <2>1 DEF InitCreate, Watched
  <2>3. \A u \in Tasks : (Inside(u)' => Inside(u)) /\ (Cleaning(u)' => Cleaning(u))
    BY <2>1, <2>2 DEF InitCreate
  <2>4. QED BY <2>2, <2>3, LockKept
<1>8. ASSUME NEW m \in Tasks, HealthCheck(m) PROVE OneInside'
  <2>1. CASE MonWake(m)
    BY <2>1, LockKept DEF MonWake, poolVars, taskVars
  <2>2. CASE MonScan(m)
    BY <2>2, LockTaken DEF MonScan, taskVars, OneInside
  <2>3. CASE MonEvict(m)
    BY <2>3, LockKept DEF MonEvict, taskVars
  <2>4. CASE MonClosed(m)
    BY <2>4, LockKept DEF MonClosed, taskVars
  <2>5. CASE MonMeasure(m)
    BY <2>5, LockKept DEF MonMeasure, poolVars, taskVars
  <2>6. CASE MonTopUp(m)
    BY <2>6, LockKept DEF MonTopUp, taskVars
  <2>7. CASE MonDone(m)
    <3>1. ~ Inside(m) /\ Cleaning(m) /\ pc' = pc
      BY <2>7 DEF MonDone, taskVars, OneInside
    <3>2. \A t \in Tasks : (Cleaning(t)' => Cleaning(t)) /\ (Cleaning(t)' => t # m)
      BY <2>7 DEF MonDone
    <3>3. \A t \in Tasks : Inside(t)' => Inside(t) /\ t # m
      BY <3>1
    <3>4. QED BY <3>1, <3>2, <3>3, LockLeft
  <2>8. QED
    BY <1>8, <2>1, <2>2, <2>3, <2>4, <2>5, <2>6, <2>7 DEF HealthCheck
<1>9. QED BY <1>1, <1>2, <1>3, <1>4, <1>5, <1>6, <1>7, <1>8 DEF Close

LEMMA CallerWatched ==
    ASSUME TypeOK, Watched, NEW p \in Callers, Acquire(p) \/ Giveback(p) \/ CancelCaller(p)
    PROVE  Watched'
<1> /\ p \in Tasks /\ Callers \subseteq Tasks /\ Owner \in Tasks /\ Owner \notin Callers
    /\ pc \in [Tasks -> PCs]
  BY PoolAssumption DEF Tasks, TypeOK
<1>1. /\ UNCHANGED <<initialized, healthTask, mon, closed>>
      /\ \E s \in PCs \ {"body", "wantDrain", "drain", "done"} :
            /\ pc' = [pc EXCEPT ![p] = s]
            /\ s = "init" => ~ initialized
            /\ pc[p] = "ready" => pc[Owner] \notin {"ready", "init"}
  <2>1. CASE Acquire(p)
    BY <2>1 DEF Acquire, AcquireStart, TakePermit, EnterLock, TryIdle, Discarded, StartCreate,
       CreateOk, CreateRefused, Shared, poolVars, taskVars, monVars, envVars, PCs
  <2>2. CASE Giveback(p) \/ CancelCaller(p)
    BY <2>2 DEF Giveback, ReleaseStart, Release, Retired, CancelCaller, poolVars, taskVars,
       monVars, envVars, PCs
  <2>3. QED BY <2>1, <2>2, Acquire(p) \/ Giveback(p) \/ CancelCaller(p)
<1>2. PICK s \in PCs \ {"body", "wantDrain", "drain", "done"} :
            /\ pc' = [pc EXCEPT ![p] = s]
            /\ s = "init" => ~ initialized
            /\ pc[p] = "ready" => pc[Owner] \notin {"ready", "init"}
  BY <1>1
<1>3. pc'[Owner] = pc[Owner] /\ \A t \in Tasks : pc'[t] = IF t = p THEN s ELSE pc[t]
  BY <1>2
<1>4. QED BY <1>1, <1>2, <1>3 DEF Watched

LEMMA BackgroundWatched ==
    ASSUME TypeOK, Watched,
           \/ OwnerEnter \/ Close \/ \E c \in Conns : Decay(c)
           \/ \E t \in Tasks : InitCreate(t) \/ HealthCheck(t)
    PROVE  Watched'
<1> /\ Callers \subseteq Tasks /\ Owner \in Tasks /\ Owner \notin Callers
    /\ NoTask \notin Tasks /\ Tasks = Callers \cup {Owner}
  BY PoolAssumption DEF Tasks
<1> /\ pc \in [Tasks -> PCs] /\ mon \in [Tasks -> MonStates]
    /\ healthTask \in Tasks \cup {NoTask}
  BY DEF TypeOK
<1>1. CASE OwnerEnter
  BY <1>1 DEF OwnerEnter, poolVars, monVars, Watched
<1>2. CASE CloseStart
  <2>1. /\ UNCHANGED <<initialized, healthTask>> /\ pc[Owner] = "body" /\ closed' = TRUE
        /\ pc' = [pc EXCEPT ![Owner] = "wantDrain"]
    BY <1>2 DEF CloseStart
  <2>2. CASE healthTask = NoTask /\ mon' = mon
    BY <2>1, <2>2 DEF Watched
  <2>3. CASE healthTask \in Tasks /\ mon' = [mon EXCEPT ![healthTask] = "done"]
    BY <2>1, <2>3 DEF Watched
  <2>4. QED BY <1>2, <2>2, <2>3 DEF CloseStart
<1>3. CASE DrainStart \/ DrainIdle \/ DrainInUse
  <2>1. /\ UNCHANGED <<initialized, healthTask, mon, closed>> /\ pc[Owner] \in {"wantDrain", "drain"}
        /\ \E s \in {"wantDrain", "drain", "done"} : pc' = [pc EXCEPT ![Owner] = s]
    BY <1>3 DEF DrainStart, DrainIdle, DrainInUse, taskVars, monVars, Watched
  <2>2. QED BY <2>1 DEF Watched
<1>4. CASE \E c \in Conns : Decay(c)
  BY <1>4 DEF Decay, poolVars, taskVars, monVars, Watched
<1>5. ASSUME NEW t \in Tasks, InitCreate(t) PROVE Watched'
  <2>1. CASE UNCHANGED <<initialized, healthTask, pc, mon>>
    BY <1>5, <2>1 DEF InitCreate, Watched
  <2>2. CASE /\ initialized' = TRUE /\ healthTask' = t
             /\ mon' = [mon EXCEPT ![t] = IF closed THEN "done" ELSE "sleep"]
             /\ pc' = [pc EXCEPT ![t] = IF t = Owner THEN "body" ELSE "wantPermit"]
    <3>1. pc[t] = "init" /\ closed' = closed
      BY <1>5 DEF InitCreate
    <3>2. QED BY <2>2, <3>1 DEF Watched
  <2>3. QED BY <1>5, <2>1, <2>2 DEF InitCreate
<1>6. ASSUME NEW m \in Tasks, HealthCheck(m) PROVE Watched'
  <2>1. /\ UNCHANGED <<initialized, healthTask, pc, closed>> /\ mon[m] \notin {"none", "done"}
        /\ \E s \in MonStates \ {"none"} : mon' = [mon EXCEPT ![m] = s]
    BY <1>6 DEF HealthCheck, MonWake, MonScan, MonEvict, MonClosed, MonMeasure, MonTopUp, MonDone,
       poolVars, taskVars, envVars, MonStates
  <2>2. QED BY <2>1 DEF Watched
<1>7. QED BY <1>1, <1>2, <1>3, <1>4, <1>5, <1>6 DEF Close

LEMMA PoolBooks == Spec => []PoolBooksInv
<1>1. Init => PoolBooksInv
  <2> SUFFICES ASSUME Init PROVE OneInside /\ Watched
    BY InitTypeOK DEF PoolBooksInv
  <2>1. /\ pc[Owner] \in {"ready", "body"} /\ \A p \in Callers : pc[p] = "ready"
        /\ \A t \in Tasks : mon[t] = "none" /\ pc[t] \in {"ready", "body"}
        /\ healthTask = NoTask
    BY PoolAssumption DEF Init, Tasks
  <2>2. healthTask # Owner /\ Owner \in Tasks /\ Callers \subseteq Tasks
    BY <2>1, PoolAssumption DEF Tasks
  <2>3. QED BY <2>1, <2>2 DEF OneInside, Inside, Cleaning, Watched
<1>2. PoolBooksInv /\ [Next]_vars => PoolBooksInv'
  <2> SUFFICES ASSUME PoolBooksInv, [Next]_vars PROVE OneInside' /\ Watched'
    BY TypeStep DEF PoolBooksInv
  <2>1. CASE UNCHANGED vars
    BY <2>1 DEF vars, poolVars, taskVars, monVars, PoolBooksInv, OneInside, Watched, Inside, Cleaning
  <2>2. CASE Next
    BY <2>2, CallerLocks, BackgroundLocks, CallerWatched, BackgroundWatched DEF Next, PoolBooksInv
  <2>3. QED BY <2>1, <2>2
<1>3. QED BY <1>1, <1>2, PTL DEF Spec

-----------------------------------------------------------------------------
(* The gauges of get_stats().                                               *)

\* The counts are numbers, before and after a step.
LEMMA CountsFinite ==
    ASSUME TypeOK, TypeOK'
    PROVE  /\ Len(available) \in Nat /\ Cardinality(inUse) \in Nat /\ Cardinality(Closing) \in Nat
           /\ Len(available') \in Nat /\ Cardinality(inUse') \in Nat /\ Cardinality(Closing') \in Nat
           /\ IsFiniteSet(Closing)
<1>1. Closing \subseteq Tasks /\ Closing' \subseteq Tasks
  BY DEF Closing, Tasks
<1>2. IsFiniteSet(Tasks)
  BY PoolAssumption, FS_AddElement DEF Tasks
<1>3. IsFiniteSet(Closing) /\ IsFiniteSet(Closing') /\ IsFiniteSet(inUse) /\ IsFiniteSet(inUse')
  BY <1>1, <1>2, FS_Subset DEF TypeOK
<1>4. Len(available) \in Nat /\ Len(available') \in Nat
  BY LenProperties DEF TypeOK
<1>5. QED BY <1>3, <1>4, FS_CardinalityType

\* A step moves idle_connections by i, the connections in use by u, those being closed
\* by k, and active_connections by their sum, and s more out of x cancellations.
Moves(i, u, k, s, x) ==
    /\ Len(available') = Len(available) + i
    /\ Cardinality(inUse') = Cardinality(inUse) + u
    /\ Cardinality(Closing') = Cardinality(Closing) + k
    /\ idle' = idle + i /\ active' = active + (i + u + k + s)
    /\ cancels' = cancels + x /\ closed' = closed

\* The gauges stay good as long as they move with what they count, but for what
\* cancellations leave counted.
LEMMA GaugesMove ==
    ASSUME TypeOK, TypeOK', GaugesExact, NEW i \in Int, NEW u \in Int, NEW k \in Int,
           NEW x \in Nat, NEW s \in 0..x, Moves(i, u, k, s, x)
    PROVE  GaugesExact'
<1>1. CASE closed
  BY <1>1 DEF GaugesExact, Moves
<1>2. CASE ~closed
  <2> DEFINE a == active  a1 == active'  c == cancels  c1 == cancels'
             l == Len(available)  l1 == Len(available')
             v == Cardinality(inUse)  v1 == Cardinality(inUse')
             w == Cardinality(Closing)  w1 == Cardinality(Closing')
  <2>1. /\ a \in Int /\ c \in Nat /\ l \in Nat /\ v \in Nat /\ w \in Nat
    BY CountsFinite DEF TypeOK
  <2>2. idle = l /\ a \in (l + v + w) .. (l + v + w + c)
    BY <1>2 DEF GaugesExact, Counted
  <2>3. /\ l1 = l + i /\ v1 = v + u /\ w1 = w + k
        /\ a1 = a + (i + u + k + s) /\ c1 = c + x /\ idle' = idle + i
    BY DEF Moves
  <2> HIDE DEF a, a1, c, c1, l, l1, v, v1, w, w1
  <2>4. a1 \in (l1 + v1 + w1) .. (l1 + v1 + w1 + c1) /\ idle' = l1
    BY <2>1, <2>2, <2>3
  <2>5. QED BY <2>4, Zenon DEF GaugesExact, Counted, a1, c1, l1, v1, w1
<1>3. QED BY <1>1, <1>2

\* A step that leaves both the gauges and what they count alone.
LEMMA GaugesStay ==
    ASSUME TypeOK, TypeOK', GaugesExact, closed' = closed,
           UNCHANGED <<available, inUse, idle, active, cancels>>, Closing' = Closing
    PROVE  GaugesExact'
  BY DEF GaugesExact, Counted

\* One more, or one fewer, whose socket is being closed.
LEMMA ClosingMoves ==
    ASSUME TypeOK, TypeOK', NEW t
    PROVE  /\ t \notin Closing /\ Closing' = Closing \cup {t}
                => Cardinality(Closing') = Cardinality(Closing) + 1
           /\ t \in Closing /\ Closing' = Closing \ {t}
                => Cardinality(Closing') = Cardinality(Closing) + (-1)
<1>1. IsFiniteSet(Closing) /\ Cardinality(Closing) \in Nat
  BY CountsFinite
<1>2. t \notin Closing => Cardinality(Closing \cup {t}) = Cardinality(Closing) + 1
  BY <1>1, FS_AddElement
<1>3. t \in Closing => Cardinality(Closing \ {t}) = Cardinality(Closing) + (-1)
  BY <1>1, FS_RemoveElement
<1>4. QED BY <1>2, <1>3, Zenon

\* One more, or one fewer, connection in use.
LEMMA InUseMoves ==
    ASSUME TypeOK, TypeOK', NEW c
    PROVE  /\ c \notin inUse /\ inUse' = inUse \cup {c}
                => Cardinality(inUse') = Cardinality(inUse) + 1
           /\ c \in inUse /\ inUse' = inUse \ {c}
                => Cardinality(inUse') = Cardinality(inUse) + (-1)
<1>1. IsFiniteSet(inUse) /\ Cardinality(inUse) \in Nat
  BY CountsFinite DEF TypeOK
<1>2. c \notin inUse => Cardinality(inUse \cup {c}) = Cardinality(inUse) + 1
  BY <1>1, FS_AddElement
<1>3. c \in inUse => Cardinality(inUse \ {c}) = Cardinality(inUse) + (-1)
  BY <1>1, FS_RemoveElement
<1>4. QED BY <1>2, <1>3, Zenon

\* What does not change keeps its count.
LEMMA NothingMoves ==
    ASSUME TypeOK, TypeOK'
    PROVE  /\ available' = available => Len(available') = Len(available) + 0
           /\ inUse' = inUse => Cardinality(inUse') = Cardinality(inUse) + 0
           /\ Closing' = Closing => Cardinality(Closing') = Cardinality(Closing) + 0
<1>1. /\ Len(available) = Len(available) + 0 /\ Cardinality(inUse) = Cardinality(inUse) + 0
      /\ Cardinality(Closing) = Cardinality(Closing) + 0
  BY CountsFinite
<1>2. QED BY <1>1, Zenon

GaugesInv == ExclusiveInv /\ PoolBooksInv /\ GaugesExact

\* A connection added in the background is idle and active.
LEMMA AddIdleGauges ==
    ASSUME TypeOK, TypeOK', GaugesExact, AddIdle, closed' = closed,
           UNCHANGED <<inUse, cancels>>, Closing' = Closing
    PROVE  GaugesExact'
<1>1. CASE UNCHANGED <<available, open, idle, active>>
  BY <1>1, GaugesStay
<1>2. CASE \E c \in Conns : /\ available' = Append(available, c)
                            /\ idle' = idle + 1 /\ active' = active + 1
  <2>1. Len(available') = Len(available) + 1
    BY <1>2, AppendProperties DEF TypeOK
  <2>2. idle' = idle + 1 /\ active' = active + (1 + 0 + 0 + 0) /\ cancels' = cancels + 0
    BY <1>2 DEF TypeOK
  <2>3. Moves(1, 0, 0, 0, 0)
    BY <2>1, <2>2, NothingMoves DEF Moves
  <2>4. QED BY <2>3, GaugesMove
<1>3. QED BY <1>1, <1>2 DEF AddIdle

LEMMA AcquireGauges ==
    ASSUME GaugesInv, TypeOK', NEW p \in Callers, Acquire(p)
    PROVE  GaugesExact'
<1> /\ p \in Tasks /\ Callers \subseteq Tasks /\ pc \in [Tasks -> PCs] /\ TypeOK
    /\ mon \in [Tasks -> MonStates] /\ GaugesExact /\ cancels \in Nat
    /\ idle \in Int /\ active \in Int
  BY DEF Tasks, TypeOK, GaugesInv, ExclusiveInv
<1>1. CASE AcquireStart(p)
  BY <1>1, GaugesStay DEF AcquireStart, poolVars, statVars, monVars, envVars, Closing
<1>2. CASE TakePermit(p)
  BY <1>2, GaugesStay DEF TakePermit, statVars, monVars, envVars, Closing
<1>3. CASE EnterLock(p)
  BY <1>3, GaugesStay DEF EnterLock, statVars, monVars, envVars, Closing
<1>4. CASE TryIdle(p)
  <2> DEFINE c == Head(available)
  <2>1. /\ available \in Seq(Conns) /\ available # <<>> /\ available' = Tail(available)
        /\ pc[p] = "search" /\ idle' = idle + (-1) /\ cancels' = cancels + 0
        /\ active' = active + (-1 + 1 + 0 + 0) /\ active' = active + (-1 + 0 + 1 + 0)
        /\ UNCHANGED <<closed, mon>>
    BY <1>4 DEF TryIdle, PoppedIdle, TypeOK, monVars
  <2>2. c \in Idle /\ Len(available') = Len(available) + (-1)
    BY <2>1, PopOldest, HeadTailProperties, LenProperties
       DEF GaugesInv, ExclusiveInv, ExclusiveUse, Idle
  <2>3. c \notin inUse
    BY <2>2 DEF GaugesInv, ExclusiveInv, Apart
  <2>4. p \notin Closing
    BY <2>1 DEF Closing, GaugesInv, PoolBooksInv, OneInside, Inside, Cleaning
  <2> HIDE DEF c
  <2>5. CASE inUse' = inUse \cup {c} /\ pc' = [pc EXCEPT ![p] = "using"]
    <3>1. Closing' = Closing
      BY <2>1, <2>5 DEF Closing
    <3>2. Moves(-1, 1, 0, 0, 0)
      BY <2>1, <2>2, <2>3, <2>5, <3>1, InUseMoves, NothingMoves DEF Moves
    <3>3. QED BY <3>2, GaugesMove
  <2>6. CASE inUse' = inUse /\ pc' = [pc EXCEPT ![p] = "discard"]
    <3>1. Closing' = Closing \cup {p}
      BY <2>1, <2>6 DEF Closing
    <3>2. Moves(-1, 0, 1, 0, 0)
      BY <2>1, <2>2, <2>4, <2>6, <3>1, ClosingMoves, NothingMoves DEF Moves
    <3>3. QED BY <3>2, GaugesMove
  <2>7. QED BY <1>4, <2>5, <2>6 DEF TryIdle, c
<1>5. CASE Discarded(p)
  <2>1. /\ pc[p] = "discard" /\ pc' = [pc EXCEPT ![p] = "search"]
        /\ active' = active + (-1) /\ idle' = idle + 0 /\ cancels' = cancels + 0
        /\ UNCHANGED <<available, inUse, closed, mon>>
    BY <1>5 DEF Discarded, poolVars, monVars, envVars
  <2>2. p \in Closing /\ mon[p] # "closing"
    BY <2>1 DEF Closing, GaugesInv, PoolBooksInv, OneInside, Inside, Cleaning
  <2>3. Closing' = Closing \ {p}
    BY <2>1, <2>2 DEF Closing
  <2>4. Moves(0, 0, -1, 0, 0)
    BY <2>1, <2>2, <2>3, ClosingMoves, NothingMoves DEF Moves
  <2>5. QED BY <2>4, GaugesMove
<1>6. CASE StartCreate(p)
  BY <1>6, GaugesStay DEF StartCreate, poolVars, statVars, monVars, envVars, Closing
<1>7. CASE CreateOk(p)
  <2>1. /\ pc[p] = "create" /\ UNCHANGED <<available, closed, idle, mon>>
        /\ idle' = idle + 0 /\ cancels' = cancels + 0
    BY <1>7 DEF CreateOk, monVars
  <2>2. CASE pc' = [pc EXCEPT ![p] = "failed"] /\ UNCHANGED <<inUse, active>>
    BY <1>7, <2>1, <2>2, GaugesStay DEF Closing, CreateOk
  <2>3. CASE pc' = [pc EXCEPT ![p] = "using"]
    <3>1. PICK c \in Conns : Fresh(c) /\ inUse' = inUse \cup {c} /\ active' = active + 1
      BY <1>7, <2>3 DEF CreateOk
    <3>2. c \notin inUse
      BY <3>1 DEF Fresh
    <3>3. Closing' = Closing
      BY <2>1, <2>3 DEF Closing
    <3>4. Moves(0, 1, 0, 0, 0)
      BY <2>1, <3>1, <3>2, <3>3, InUseMoves, NothingMoves DEF Moves
    <3>5. QED BY <3>4, GaugesMove
  <2>4. QED BY <1>7, <2>2, <2>3 DEF CreateOk
<1>8. CASE CreateRefused(p)
  BY <1>8, GaugesStay DEF CreateRefused, statVars, monVars, envVars, Closing
<1>9. QED
  BY <1>1, <1>2, <1>3, <1>4, <1>5, <1>6, <1>7, <1>8, Acquire(p) DEF Acquire

LEMMA GivebackGauges ==
    ASSUME GaugesInv, TypeOK', NEW p \in Callers, Giveback(p) \/ CancelCaller(p)
    PROVE  GaugesExact'
<1> /\ p \in Tasks /\ Callers \subseteq Tasks /\ pc \in [Tasks -> PCs] /\ TypeOK
    /\ mon \in [Tasks -> MonStates] /\ GaugesExact /\ cancels \in Nat
    /\ idle \in Int /\ active \in Int
  BY DEF Tasks, TypeOK, GaugesInv, ExclusiveInv
<1>1. CASE ReleaseStart(p)
  BY <1>1, GaugesStay DEF ReleaseStart, poolVars, statVars, monVars, envVars, Closing
<1>2. CASE Release(p)
  <2> DEFINE c == conn[p]
  <2>1. /\ pc[p] = "wantRelease" /\ ~locked /\ UNCHANGED <<closed, active, cancels, mon>>
    BY <1>2 DEF Release, monVars
  <2>2. /\ p \notin Closing /\ cancels' = cancels + 0
        /\ active' = active + (1 + -1 + 0 + 0) /\ active' = active + (0 + -1 + 1 + 0)
    BY <2>1 DEF Closing, GaugesInv, PoolBooksInv, OneInside, Inside, Cleaning
  <2>3. CASE UNCHANGED <<available, inUse, idle>> /\ pc' = [pc EXCEPT ![p] = "ready"]
    BY <2>1, <2>3, GaugesStay DEF Closing
  <2>4. CASE /\ c \in inUse /\ inUse' = inUse \ {c} /\ available' = Append(available, c)
             /\ idle' = idle + 1 /\ pc' = [pc EXCEPT ![p] = "ready"]
    <3>1. Len(available') = Len(available) + 1
      BY <2>4, AppendProperties DEF TypeOK
    <3>2. Closing' = Closing
      BY <2>1, <2>4 DEF Closing
    <3> HIDE DEF c
    <3>3. Moves(1, -1, 0, 0, 0)
      BY <2>1, <2>2, <2>4, <3>1, <3>2, InUseMoves, NothingMoves DEF Moves
    <3>4. QED BY <3>3, GaugesMove
  <2>5. CASE /\ c \in inUse /\ inUse' = inUse \ {c} /\ UNCHANGED <<available, idle>>
             /\ pc' = [pc EXCEPT ![p] = "retire"]
    <3>1. Closing' = Closing \cup {p} /\ idle' = idle + 0
      BY <2>1, <2>5 DEF Closing
    <3> HIDE DEF c
    <3>2. Moves(0, -1, 1, 0, 0)
      BY <2>1, <2>2, <2>5, <3>1, InUseMoves, ClosingMoves, NothingMoves DEF Moves
    <3>3. QED BY <3>2, GaugesMove
  <2>6. QED BY <1>2, <2>3, <2>4, <2>5 DEF Release, Keepable
<1>3. CASE Retired(p)
  <2>1. /\ pc[p] = "retire" /\ pc' = [pc EXCEPT ![p] = "ready"]
        /\ active' = active + (-1) /\ idle' = idle + 0 /\ cancels' = cancels + 0
        /\ UNCHANGED <<available, inUse, closed, mon>>
    BY <1>3 DEF Retired, monVars, envVars
  <2>2. p \in Closing /\ mon[p] # "closing"
    BY <2>1 DEF Closing, GaugesInv, PoolBooksInv, OneInside, Inside, Cleaning
  <2>3. Closing' = Closing \ {p}
    BY <2>1, <2>2 DEF Closing
  <2>4. Moves(0, 0, -1, 0, 0)
    BY <2>1, <2>2, <2>3, ClosingMoves, NothingMoves DEF Moves
  <2>5. QED BY <2>4, GaugesMove
<1>4. CASE CancelCaller(p)
  <2>1. /\ pc' = [pc EXCEPT ![p] = "ready"] /\ cancels' = cancels + 1
        /\ active' = active + 0 /\ idle' = idle + 0
        /\ UNCHANGED <<available, inUse, closed, mon>>
    BY <1>4 DEF CancelCaller, statVars, monVars
  <2>2. CASE pc[p] \in {"discard", "retire"}
    <3>1. p \in Closing /\ mon[p] # "closing"
      BY <2>2 DEF Closing, GaugesInv, PoolBooksInv, OneInside, Inside, Cleaning
    <3>2. Closing' = Closing \ {p}
      BY <2>1, <3>1 DEF Closing
    <3>3. Moves(0, 0, -1, 1, 1)
      BY <2>1, <3>1, <3>2, ClosingMoves, NothingMoves DEF Moves
    <3>4. QED BY <3>3, GaugesMove
  <2>3. CASE pc[p] \notin {"discard", "retire"}
    <3>1. Closing' = Closing
      BY <2>1, <2>3 DEF Closing
    <3>2. Moves(0, 0, 0, 0, 1)
      BY <2>1, <3>1, NothingMoves DEF Moves
    <3>3. QED BY <3>2, GaugesMove
  <2>4. QED BY <2>2, <2>3
<1>5. QED
  BY <1>1, <1>2, <1>3, <1>4, Giveback(p) \/ CancelCaller(p) DEF Giveback

\* The background tasks: a late initializer, and the health check.
LEMMA TaskGauges ==
    ASSUME GaugesInv, TypeOK', NEW m \in Tasks, InitCreate(m) \/ HealthCheck(m)
    PROVE  GaugesExact'
<1> /\ Callers \subseteq Tasks /\ pc \in [Tasks -> PCs] /\ TypeOK /\ mon \in [Tasks -> MonStates]
    /\ GaugesExact /\ cancels \in Nat /\ idle \in Int /\ active \in Int
  BY DEF Tasks, TypeOK, GaugesInv, ExclusiveInv
<1>1. CASE InitCreate(m)
  <2>1. pc[m] = "init" /\ mon[m] = "none"
    BY <1>1 DEF InitCreate, GaugesInv, PoolBooksInv, Watched
  <2>2. Closing' = Closing
    BY <1>1, <2>1 DEF InitCreate, Closing
  <2>3. QED BY <1>1, <2>2, AddIdleGauges DEF InitCreate
<1>2. CASE MonWake(m)
  BY <1>2, GaugesStay DEF MonWake, poolVars, statVars, taskVars, envVars, Closing
<1>3. CASE MonScan(m)
  BY <1>3, GaugesStay DEF MonScan, statVars, taskVars, envVars, Closing
<1>4. CASE MonEvict(m)
  <2>1. /\ mon[m] = "evict" /\ mon' = [mon EXCEPT ![m] = "closing"] /\ idle' = idle + (-1)
        /\ active' = active + (-1 + 0 + 1 + 0) /\ cancels' = cancels + 0
        /\ UNCHANGED <<inUse, closed, pc>>
    BY <1>4 DEF MonEvict, taskVars
  <2>2. PICK i \in 1..Len(available) : available' = RemoveAt(available, i)
    BY <1>4 DEF MonEvict
  <2>3. Len(available') = Len(available) - 1 /\ Len(available) \in Nat
    BY <2>2, EvictInSeq, LenProperties DEF TypeOK
  <2>4. Len(available') = Len(available) + (-1)
    BY <2>3
  <2>5. m \notin Closing /\ Closing' = Closing \cup {m}
    BY <2>1 DEF Closing, GaugesInv, PoolBooksInv, OneInside, Inside, Cleaning
  <2>6. Moves(-1, 0, 1, 0, 0)
    BY <2>1, <2>4, <2>5, ClosingMoves, NothingMoves DEF Moves
  <2>7. QED BY <2>6, GaugesMove
<1>5. CASE MonClosed(m)
  <2>1. /\ mon[m] = "closing" /\ mon' = [mon EXCEPT ![m] = "evict"] /\ idle' = idle + 0
        /\ active' = active + (-1) /\ cancels' = cancels + 0
        /\ UNCHANGED <<available, inUse, closed, pc>>
    BY <1>5 DEF MonClosed, taskVars
  <2>2. m \in Closing /\ pc[m] \notin {"discard", "retire"}
    BY <2>1 DEF Closing, GaugesInv, PoolBooksInv, OneInside, Inside, Cleaning
  <2>3. Closing' = Closing \ {m}
    BY <2>1, <2>2 DEF Closing
  <2>4. Moves(0, 0, -1, 0, 0)
    BY <2>1, <2>2, <2>3, ClosingMoves, NothingMoves DEF Moves
  <2>5. QED BY <2>4, GaugesMove
<1>6. CASE MonMeasure(m)
  BY <1>6, GaugesStay DEF MonMeasure, poolVars, statVars, taskVars, envVars, Closing
<1>7. CASE MonTopUp(m)
  BY <1>7, AddIdleGauges DEF MonTopUp, taskVars, Closing
<1>8. CASE MonDone(m)
  BY <1>8, GaugesStay DEF MonDone, statVars, taskVars, envVars, Closing
<1>9. QED
  BY <1>1, <1>2, <1>3, <1>4, <1>5, <1>6, <1>7, <1>8, InitCreate(m) \/ HealthCheck(m) DEF HealthCheck

LEMMA CloseGauges ==
    ASSUME GaugesInv, TypeOK', OwnerEnter \/ Close \/ \E c \in Conns : Decay(c)
    PROVE  GaugesExact'
<1> Owner \notin Callers /\ pc \in [Tasks -> PCs] /\ TypeOK /\ GaugesExact
  BY PoolAssumption DEF TypeOK, GaugesInv, ExclusiveInv
<1>1. CASE OwnerEnter
  BY <1>1, GaugesStay DEF OwnerEnter, poolVars, statVars, monVars, envVars, Closing
<1>2. CASE CloseStart
  BY <1>2 DEF CloseStart, GaugesExact
<1>3. CASE DrainStart \/ DrainIdle \/ DrainInUse
  BY <1>3 DEF DrainStart, DrainIdle, DrainInUse, GaugesExact, GaugesInv, PoolBooksInv, Watched
<1>4. CASE \E c \in Conns : Decay(c)
  BY <1>4, GaugesStay DEF Decay, poolVars, statVars, taskVars, monVars, Closing
<1>5. QED BY <1>1, <1>2, <1>3, <1>4 DEF Close

LEMMA GaugesSteps == GaugesInv /\ [Next]_vars => GaugesExact'
<1> SUFFICES ASSUME GaugesInv, [Next]_vars PROVE GaugesExact'
  OBVIOUS
<1>1. TypeOK /\ TypeOK'
  BY TypeStep DEF GaugesInv, ExclusiveInv
<1>2. CASE UNCHANGED vars
  BY <1>1, <1>2, GaugesStay
     DEF vars, poolVars, statVars, taskVars, monVars, envVars, Closing, GaugesInv
<1>3. CASE Next
  BY <1>1, <1>3, AcquireGauges, GivebackGauges, TaskGauges, CloseGauges DEF Next
<1>4. QED BY <1>2, <1>3

\* Until close(), get_stats() reports the idle connections exactly and the active ones
\* up to those whose closing a cancellation cut short, however the steps interleave.
THEOREM PoolGaugesExact == Spec => []GaugesExact
<1>1. Init => GaugesExact
  <2> SUFFICES ASSUME Init PROVE GaugesExact
    OBVIOUS
  <2>1. Closing = {} /\ available = <<>> /\ inUse = {} /\ idle = 0 /\ active = 0 /\ cancels = 0
    BY DEF Init, Closing, Tasks
  <2>2. Counted = 0
    BY <2>1, FS_EmptySet DEF Counted
  <2>3. QED BY <2>1, <2>2 DEF GaugesExact
<1>2. ExclusiveInv /\ PoolBooksInv /\ GaugesExact /\ [Next]_vars => GaugesExact'
  BY GaugesSteps DEF GaugesInv
<1>3. QED BY <1>1, <1>2, PoolExclusiveInv, PoolBooks, PTL DEF Spec

-----------------------------------------------------------------------------
(* What close() leaves behind.                                              *)

\* Popping and evicting drop one element only.
LEMMA NothingElseDropped ==
    ASSUME NEW S, NEW s \in Seq(S)
    PROVE  /\ s # <<>> => Range(s) \subseteq Range(Tail(s)) \cup {Head(s)}
           /\ \A i \in 1..Len(s) : Range(s) \subseteq Range(RemoveAt(s, i)) \cup {s[i]}
<1> DOMAIN s = 1..Len(s) /\ Len(s) \in Nat
  BY LenProperties
<1>1. ASSUME s # <<>>, NEW x \in Range(s) PROVE x \in Range(Tail(s)) \cup {Head(s)}
  <2>1. /\ Head(s) = s[1] /\ \A i \in 1..Len(Tail(s)) : Tail(s)[i] = s[i+1]
        /\ Len(Tail(s)) = Len(s) - 1 /\ DOMAIN Tail(s) = 1..(Len(s) - 1)
    BY <1>1, HeadTailProperties, LenProperties
  <2>2. PICK k \in 1..Len(s) : x = s[k]
    BY <1>1 DEF Range
  <2>3. CASE k = 1
    BY <2>1, <2>2, <2>3
  <2>4. CASE k # 1
    <3>1. k - 1 \in 1..(Len(s) - 1) /\ (k - 1) + 1 = k
      BY <2>4
    <3>2. Tail(s)[k - 1] = x
      BY <2>1, <2>2, <3>1
    <3>3. QED BY <2>1, <3>1, <3>2 DEF Range
  <2>5. QED BY <2>3, <2>4
<1>2. ASSUME NEW i \in 1..Len(s), NEW x \in Range(s)
      PROVE  x \in Range(RemoveAt(s, i)) \cup {s[i]}
  <2> DEFINE t == RemoveAt(s, i)
             n == Len(s) - 1
  <2>1. /\ t \in Seq(S) /\ Len(t) = n
        /\ \A j \in 1..n : t[j] = IF j < i THEN s[j] ELSE s[j + 1]
    BY EvictInSeq
  <2> HIDE DEF t
  <2>2. DOMAIN t = 1..n
    BY <2>1, LenProperties
  <2>3. PICK k \in 1..Len(s) : x = s[k]
    BY <1>2 DEF Range
  <2>4. CASE k < i
    <3>1. k \in 1..n /\ t[k] = x
      BY <2>1, <2>3, <2>4
    <3>2. QED BY <2>2, <3>1 DEF Range, t
  <2>5. CASE k = i
    BY <2>3, <2>5
  <2>6. CASE k > i
    <3>1. k - 1 \in 1..n /\ ~ (k - 1 < i) /\ (k - 1) + 1 = k
      BY <2>6
    <3>2. t[k - 1] = x
      BY <2>1, <2>3, <3>1
    <3>3. QED BY <2>2, <3>1, <3>2 DEF Range, t
  <2>7. QED BY <2>4, <2>5, <2>6
<1>3. QED BY <1>1, <1>2

\* A step that opens nothing, and neither drops an idle connection nor frees one in use.
LEMMA NothingLost ==
    ASSUME NoneForgotten, open' \subseteq open, inUse \subseteq inUse', available' = available
    PROVE  NoneForgotten'
  BY DEF NoneForgotten, Idle

\* The connection added in the background is put in the queue.
LEMMA AddIdleKept ==
    ASSUME TypeOK, ExclusiveUse, NoneForgotten, AddIdle, inUse' = inUse
    PROVE  NoneForgotten'
<1>1. CASE UNCHANGED <<available, open, idle, active>>
  BY <1>1, NothingLost
<1>2. CASE \E c \in Conns : /\ Fresh(c) /\ available' = Append(available, c)
                            /\ open' = open \cup {c}
  <2>1. PICK c \in Conns : /\ Fresh(c) /\ available' = Append(available, c)
                           /\ open' = open \cup {c}
    BY <1>2
  <2>2. Range(available') = Idle \cup {c}
    BY <2>1, AppendNew DEF TypeOK, ExclusiveUse, Fresh, Idle
  <2>3. QED BY <2>1, <2>2 DEF NoneForgotten, Idle
<1>3. QED BY <1>1, <1>2 DEF AddIdle

LEMMA CallerForgetsNone ==
    ASSUME ExclusiveInv, NoneForgotten, NEW p \in Callers, Acquire(p) \/ Giveback(p) \/ CancelCaller(p)
    PROVE  NoneForgotten'
<1> TypeOK /\ ExclusiveUse
  BY DEF ExclusiveInv
<1>1. CASE TryIdle(p)
  <2> DEFINE c == Head(available)
  <2>1. /\ available # <<>> /\ available' = Tail(available) /\ available \in Seq(Conns)
        /\ \/ inUse' = inUse \cup {c} /\ open' = open
           \/ inUse' = inUse /\ open' = open \ {c}
    BY <1>1 DEF TryIdle, PoppedIdle, CloseSocket, TypeOK
  <2>2. Idle \subseteq Range(available') \cup {c}
    BY <2>1, NothingElseDropped DEF Idle
  <2> HIDE DEF c
  <2>3. QED BY <2>1, <2>2 DEF NoneForgotten, Idle
<1>2. CASE CreateOk(p)
  BY <1>2 DEF CreateOk, NoneForgotten, Idle
<1>3. CASE Release(p)
  <2> DEFINE c == conn[p]
  <2>1. CASE UNCHANGED <<available, inUse, open>>
    BY <2>1, NothingLost
  <2>2. CASE /\ c \in inUse /\ inUse' = inUse \ {c} /\ available' = Append(available, c)
             /\ open' = open
    <3>1. c \in Conns /\ c \notin Range(available) /\ available \in Seq(Conns)
      BY <2>2 DEF ExclusiveInv, Apart, Idle, TypeOK
    <3>2. Range(available') = Idle \cup {c}
      BY <2>2, <3>1, AppendNew DEF ExclusiveUse, Idle
    <3> HIDE DEF c
    <3>3. QED BY <2>2, <3>2 DEF NoneForgotten, Idle
  <2>3. CASE inUse' = inUse \ {c} /\ available' = available /\ open' = open \ {c}
    BY <2>3 DEF NoneForgotten, Idle
  <2>4. QED BY <1>3, <2>1, <2>2, <2>3 DEF Release, Keepable, CloseSocket
<1>4. CASE ~ TryIdle(p) /\ ~ CreateOk(p) /\ ~ Release(p)
  <2>1. open' = open /\ inUse' = inUse /\ available' = available
    BY <1>4, Acquire(p) \/ Giveback(p) \/ CancelCaller(p)
       DEF Acquire, Giveback, AcquireStart, TakePermit, EnterLock, Discarded, StartCreate,
           CreateRefused, ReleaseStart, Retired, CancelCaller, poolVars, envVars
  <2>2. QED BY <2>1, NothingLost
<1>5. QED BY <1>1, <1>2, <1>3, <1>4

LEMMA BackgroundForgetsNone ==
    ASSUME ExclusiveInv, NoneForgotten,
           \/ OwnerEnter \/ Close \/ \E c \in Conns : Decay(c)
           \/ \E t \in Tasks : InitCreate(t) \/ HealthCheck(t)
    PROVE  NoneForgotten'
<1> TypeOK /\ ExclusiveUse
  BY DEF ExclusiveInv
<1>1. CASE OwnerEnter \/ CloseStart \/ DrainStart \/ \E c \in Conns : Decay(c)
  BY <1>1, NothingLost DEF OwnerEnter, CloseStart, DrainStart, Decay, poolVars, envVars
<1>2. CASE DrainIdle
  <2> DEFINE c == Head(available)
  <2>1. /\ available # <<>> /\ available' = Tail(available) /\ available \in Seq(Conns)
        /\ inUse' = inUse /\ open' = open \ {c}
    BY <1>2 DEF DrainIdle, CloseSocket, TypeOK
  <2>2. Idle \subseteq Range(available') \cup {c}
    BY <2>1, NothingElseDropped DEF Idle
  <2> HIDE DEF c
  <2>3. QED BY <2>1, <2>2 DEF NoneForgotten, Idle
<1>3. CASE DrainInUse
  BY <1>3 DEF DrainInUse, NoneForgotten, Idle
<1>4. ASSUME NEW t \in Tasks, InitCreate(t) \/ MonTopUp(t) PROVE NoneForgotten'
  BY <1>4, AddIdleKept DEF InitCreate, MonTopUp
<1>5. ASSUME NEW t \in Tasks, MonEvict(t) PROVE NoneForgotten'
  <2>1. PICK i \in 1..Len(available) : /\ available' = RemoveAt(available, i)
                                       /\ open' = open \ {available[i]}
    BY <1>5 DEF MonEvict, CloseSocket
  <2>2. Idle \subseteq Range(available') \cup {available[i]}
    BY <2>1, NothingElseDropped DEF Idle, TypeOK
  <2>3. inUse' = inUse
    BY <1>5 DEF MonEvict
  <2>4. QED BY <2>1, <2>2, <2>3 DEF NoneForgotten, Idle
<1>6. ASSUME NEW t \in Tasks, HealthCheck(t), ~ MonEvict(t), ~ MonTopUp(t) PROVE NoneForgotten'
  <2>1. open' = open /\ inUse' = inUse /\ available' = available
    BY <1>6 DEF HealthCheck, MonWake, MonScan, MonClosed, MonMeasure, MonDone, poolVars, envVars
  <2>2. QED BY <2>1, NothingLost
<1>7. QED BY <1>1, <1>2, <1>3, <1>4, <1>5, <1>6 DEF Close, HealthCheck

\* Once the owner's close() is over, the queue stays empty.
Drained == healthTask = Owner /\ pc[Owner] = "done" => available = <<>>

LEMMA StaysDrained ==
    ASSUME TypeOK, Watched, Drained, Next
    PROVE  Drained'
<1> /\ Callers \subseteq Tasks /\ Owner \in Tasks /\ Owner \notin Callers
    /\ Tasks = Callers \cup {Owner} /\ pc \in [Tasks -> PCs] /\ mon \in [Tasks -> MonStates]
  BY PoolAssumption DEF Tasks, TypeOK
<1>1. ASSUME NEW p \in Callers, Acquire(p) \/ Giveback(p) \/ CancelCaller(p) PROVE Drained'
  <2>1. UNCHANGED healthTask /\ pc'[Owner] = pc[Owner]
    BY <1>1 DEF Acquire, AcquireStart, TakePermit, EnterLock, TryIdle, Discarded, StartCreate,
       CreateOk, CreateRefused, Giveback, ReleaseStart, Release, Retired, CancelCaller
  <2>2. CASE pc[Owner] = "done" /\ healthTask = Owner
    <3>1. available = <<>> /\ closed
      BY <2>2 DEF Drained, Watched
    <3>2. available' = available
      BY <1>1, <3>1 DEF Acquire, AcquireStart, TakePermit, EnterLock, TryIdle, Discarded, StartCreate,
         CreateOk, CreateRefused, Giveback, ReleaseStart, Release, Retired, CancelCaller, Keepable, poolVars
    <3>3. QED BY <3>1, <3>2 DEF Drained
  <2>3. QED BY <2>1, <2>2 DEF Drained
<1>2. ASSUME NEW t \in Tasks, InitCreate(t) PROVE Drained'
  <2>1. pc[t] = "init" /\ (t = Owner => pc'[Owner] # "done")
    BY <1>2 DEF InitCreate
  <2>2. CASE t = Owner
    BY <2>1, <2>2 DEF Drained
  <2>3. CASE t # Owner
    BY <1>2, <2>1, <2>3 DEF InitCreate, Drained, Watched
  <2>4. QED BY <2>2, <2>3
<1>3. ASSUME NEW t \in Tasks, HealthCheck(t) PROVE Drained'
  <2>1. mon[t] \notin {"none", "done"} /\ UNCHANGED <<healthTask, pc>>
    BY <1>3 DEF HealthCheck, MonWake, MonScan, MonEvict, MonClosed, MonMeasure, MonTopUp, MonDone, taskVars
  <2>2. QED BY <2>1 DEF Drained, Watched
<1>4. CASE OwnerEnter \/ CloseStart \/ DrainStart
  BY <1>4 DEF OwnerEnter, CloseStart, DrainStart, Drained
<1>5. CASE DrainIdle
  BY <1>5 DEF DrainIdle, taskVars, Drained
<1>6. CASE DrainInUse \/ \E c \in Conns : Decay(c)
  BY <1>6 DEF DrainInUse, Decay, poolVars, taskVars, Drained
<1>7. QED BY <1>1, <1>2, <1>3, <1>4, <1>5, <1>6, Next DEF Next, Close

\* Once close() of a pool that its owner entered returned, the idle queue stays empty and
\* an open socket belongs to a caller that acquire() let in before close().
THEOREM PoolDrainedStaysEmpty == Spec => []DrainedStaysEmpty
<1> DEFINE Inv == NoneForgotten /\ Drained
<1>1. Init => Inv
  BY DEF Init, NoneForgotten, Drained
<1>2. ExclusiveInv /\ PoolBooksInv /\ Inv /\ [Next]_vars => Inv'
  <2> SUFFICES ASSUME ExclusiveInv, PoolBooksInv, Inv, [Next]_vars PROVE Inv'
    OBVIOUS
  <2>1. CASE UNCHANGED vars
    BY <2>1 DEF vars, poolVars, taskVars, envVars, NoneForgotten, Idle, Drained
  <2>2. CASE Next
    <3>1. NoneForgotten'
      BY <2>2, CallerForgetsNone, BackgroundForgetsNone DEF Next
    <3>2. Drained'
      BY <2>2, StaysDrained DEF PoolBooksInv
    <3>3. QED BY <3>1, <3>2
  <2>3. QED BY <2>1, <2>2
<1>3. Inv => DrainedStaysEmpty
  <2> SUFFICES ASSUME Inv, healthTask = Owner, pc[Owner] = "done"
               PROVE  available = <<>> /\ open \subseteq inUse
    BY DEF DrainedStaysEmpty
  <2>1. available = <<>> /\ DOMAIN available = {}
    BY DEF Drained
  <2>2. Idle = {}
    BY <2>1 DEF Idle, Range
  <2>3. QED BY <2>1, <2>2 DEF NoneForgotten
<1> HIDE DEF Inv
<1>4. QED BY <1>1, <1>2, <1>3, PoolExclusiveInv, PoolBooks, PTL DEF Spec

-----------------------------------------------------------------------------
(* The pool implements PoolPromise.                                         *)

\* A step after which every caller is where it was and owns what it owned is
\* no step of the promise, unless the pool starts closing.
LEMMA PromiseStutters ==
    ASSUME \A q \in Callers : StageOf(q)' = StageOf(q) /\ GrantOf(q)' = GrantOf(q),
           closed' = closed
    PROVE  UNCHANGED Promise!vars
BY DEF Promise!vars

\* A step that moves the stage of one caller only.
LEMMA PromiseMoves ==
    ASSUME NEW p \in Callers, closed' = closed,
           \A q \in Callers \ {p} : StageOf(q)' = StageOf(q) /\ GrantOf(q)' = GrantOf(q),
           \/ /\ StageOf(p) = "out" /\ ~closed
              /\ StageOf(p)' = "waiting" /\ GrantOf(p)' = GrantOf(p)
           \/ /\ StageOf(p) = "waiting" /\ StageOf(p)' = "using"
              /\ GrantOf(p)' \in Conns /\ \A q \in Callers : GrantOf(q) # GrantOf(p)'
           \/ /\ StageOf(p) # "out"
              /\ StageOf(p)' = "out" /\ GrantOf(p)' = NoConn
    PROVE  Promise!Next
<1> DEFINE stage == [q \in Callers |-> StageOf(q)]
           grant == [q \in Callers |-> GrantOf(q)]
<1>1. stage' = [stage EXCEPT ![p] = StageOf(p)']
  OBVIOUS
<1>2. grant' = [grant EXCEPT ![p] = GrantOf(p)']
  OBVIOUS
<1>3. CASE /\ StageOf(p) = "out" /\ ~closed
           /\ StageOf(p)' = "waiting" /\ GrantOf(p)' = GrantOf(p)
  BY <1>1, <1>2, <1>3 DEF Promise!Next, Promise!Enter
<1>4. CASE /\ StageOf(p) = "waiting" /\ StageOf(p)' = "using"
           /\ GrantOf(p)' \in Conns /\ \A q \in Callers : GrantOf(q) # GrantOf(p)'
  BY <1>1, <1>2, <1>4 DEF Promise!Next, Promise!Grant
<1>5. CASE /\ StageOf(p) # "out"
           /\ StageOf(p)' = "out" /\ GrantOf(p)' = NoConn
  BY <1>1, <1>2, <1>5 DEF Promise!Next, Promise!Leave
<1>6. QED BY <1>3, <1>4, <1>5

\* Each step of acquire() enters, is granted a connection, leaves, or is internal.
LEMMA AcquirePromise ==
    ASSUME ExclusiveInv, NEW p \in Callers, Acquire(p)
    PROVE  Promise!Next \/ UNCHANGED Promise!vars
<1> p \in Tasks /\ Callers \subseteq Tasks
  BY DEF Tasks
<1> pc \in [Tasks -> PCs] /\ conn \in [Tasks -> Conns \cup {NoConn}]
  BY DEF ExclusiveInv, TypeOK
<1> USE DEF StageOf, GrantOf, Holds
<1>1. CASE AcquireStart(p)
  <2>1. CASE closed
    BY <1>1, <2>1, PromiseStutters DEF AcquireStart, poolVars
  <2>2. CASE ~closed
    BY <1>1, <2>2, PromiseMoves DEF AcquireStart, poolVars
  <2>3. QED BY <2>1, <2>2
<1>2. CASE TakePermit(p)
  BY <1>2, PromiseStutters DEF TakePermit
<1>3. CASE EnterLock(p)
  BY <1>3, PromiseStutters DEF EnterLock
<1>4. CASE TryIdle(p)
  <2> DEFINE c == Head(available)
  <2>1. c \in Conns /\ \A q \in Callers : GrantOf(q) # c
    <3>1. c \in Idle /\ c \in Conns
      BY <1>4, PopOldest DEF TryIdle, PoppedIdle, ExclusiveInv, TypeOK, ExclusiveUse, Idle
    <3>2. QED BY <3>1, PoolAssumption DEF ExclusiveInv, ExclusiveUse
  <2>2. closed' = closed /\ pc[p] = "search" /\ conn' = [conn EXCEPT ![p] = c]
    BY <1>4 DEF TryIdle, PoppedIdle
  <2> HIDE DEF c
  <2>3. CASE pc' = [pc EXCEPT ![p] = "using"]
    BY <2>1, <2>2, <2>3, PromiseMoves
  <2>4. CASE pc' = [pc EXCEPT ![p] = "discard"]
    BY <2>2, <2>4, PromiseStutters
  <2>5. QED BY <1>4, <2>3, <2>4 DEF TryIdle, PoppedIdle
<1>5. CASE Discarded(p)
  BY <1>5, PromiseStutters DEF Discarded, poolVars
<1>6. CASE StartCreate(p)
  BY <1>6, PromiseStutters DEF StartCreate, poolVars
<1>7. CASE CreateOk(p)
  <2>1. CASE pc' = [pc EXCEPT ![p] = "failed"] /\ permits' = permits + 1
             /\ UNCHANGED <<conn, inUse>>
    BY <1>7, <2>1, PromiseMoves DEF CreateOk
  <2>2. CASE pc' = [pc EXCEPT ![p] = "using"]
    <3>1. PICK c \in Conns : Fresh(c) /\ conn' = [conn EXCEPT ![p] = c]
      BY <1>7, <2>2 DEF CreateOk
    <3>2. closed' = closed /\ pc[p] = "create" /\ pc' = [pc EXCEPT ![p] = "using"]
      BY <1>7, <2>2 DEF CreateOk
    <3>3. \A q \in Callers : GrantOf(q) # c
      BY <3>1, PoolAssumption DEF Fresh
    <3>4. QED BY <3>1, <3>2, <3>3, PromiseMoves
  <2>3. QED BY <1>7, <2>1, <2>2 DEF CreateOk
<1>8. CASE CreateRefused(p)
  BY <1>8, PromiseMoves DEF CreateRefused
<1>9. QED
  BY <1>1, <1>2, <1>3, <1>4, <1>5, <1>6, <1>7, <1>8, Acquire(p) DEF Acquire

\* A caller leaves when release() has the lock, or when it is cancelled.
LEMMA GivebackPromise ==
    ASSUME ExclusiveInv, NEW p \in Callers, Giveback(p) \/ CancelCaller(p)
    PROVE  Promise!Next \/ UNCHANGED Promise!vars
<1> p \in Tasks /\ Callers \subseteq Tasks
  BY DEF Tasks
<1> pc \in [Tasks -> PCs] /\ conn \in [Tasks -> Conns \cup {NoConn}]
  BY DEF ExclusiveInv, TypeOK
<1> USE DEF StageOf, GrantOf, Holds
<1>1. CASE ReleaseStart(p)
  BY <1>1, PromiseStutters DEF ReleaseStart, poolVars
<1>2. CASE Release(p)
  <2>1. closed' = closed /\ pc[p] = "wantRelease" /\ \A q \in Callers \ {p} : conn'[q] = conn[q]
    BY <1>2 DEF Release, Keepable
  <2>2. CASE pc' = [pc EXCEPT ![p] = "ready"]
    BY <2>1, <2>2, PromiseMoves
  <2>3. CASE pc' = [pc EXCEPT ![p] = "retire"]
    BY <2>1, <2>3, PromiseMoves
  <2>4. QED BY <1>2, <2>2, <2>3 DEF Release, Keepable
<1>3. CASE Retired(p)
  BY <1>3, PromiseStutters DEF Retired
<1>4. CASE CancelCaller(p)
  <2>1. CASE pc[p] = "retire"
    BY <1>4, <2>1, PromiseStutters DEF CancelCaller
  <2>2. CASE pc[p] # "retire"
    BY <1>4, <2>2, PromiseMoves DEF CancelCaller
  <2>3. QED BY <2>1, <2>2
<1>5. QED
  BY <1>1, <1>2, <1>3, <1>4, Giveback(p) \/ CancelCaller(p) DEF Giveback

\* The background tasks are internal, and close() shuts the promise.
LEMMA BackgroundPromise ==
    ASSUME ExclusiveInv,
           \/ OwnerEnter \/ Close \/ \E c \in Conns : Decay(c)
           \/ \E t \in Tasks : InitCreate(t) \/ HealthCheck(t)
    PROVE  Promise!Next \/ UNCHANGED Promise!vars
<1> Callers \subseteq Tasks /\ Owner \in Tasks /\ Owner \notin Callers
  BY PoolAssumption DEF Tasks
<1> pc \in [Tasks -> PCs]
  BY DEF ExclusiveInv, TypeOK
<1> USE DEF StageOf, GrantOf, Holds
<1>1. CASE OwnerEnter
  BY <1>1, PromiseStutters DEF OwnerEnter, poolVars
<1>2. CASE CloseStart
  <2>1. \A q \in Callers : StageOf(q)' = StageOf(q) /\ GrantOf(q)' = GrantOf(q)
    BY <1>2 DEF CloseStart
  <2>2. closed' = TRUE
    BY <1>2 DEF CloseStart
  <2> HIDE DEF StageOf, GrantOf
  <2>3. QED BY <2>1, <2>2 DEF Promise!Next, Promise!Shut
<1>3. CASE DrainStart \/ DrainIdle \/ DrainInUse
  BY <1>3, PromiseStutters DEF DrainStart, DrainIdle, DrainInUse, taskVars
<1>4. CASE \E c \in Conns : Decay(c)
  BY <1>4, PromiseStutters DEF Decay, poolVars, taskVars
<1>5. CASE \E t \in Tasks : InitCreate(t)
  <2>1. PICK t \in Tasks : InitCreate(t)
    BY <1>5
  <2>2. closed' = closed /\ conn' = conn /\ pc[t] = "init"
    BY <2>1 DEF InitCreate
  <2>3. \/ pc' = pc
        \/ pc' = [pc EXCEPT ![t] = "wantPermit"]
        \/ t = Owner /\ pc' = [pc EXCEPT ![t] = "body"]
    BY <2>1 DEF InitCreate
  <2>4. QED BY <2>2, <2>3, PromiseStutters
<1>6. CASE \E t \in Tasks : HealthCheck(t)
  BY <1>6, PromiseStutters
     DEF HealthCheck, MonWake, MonScan, MonEvict, MonClosed, MonMeasure, MonTopUp, MonDone,
         poolVars, taskVars
<1>7. QED BY <1>1, <1>2, <1>3, <1>4, <1>5, <1>6 DEF Close

\* Whatever happens inside the pool, its callers see what PoolPromise allows.
THEOREM PoolKeepsPromise == Spec => KeepsPromise
<1>1. Init => Promise!Init
  <2> SUFFICES ASSUME Init PROVE Promise!Init
    OBVIOUS
  <2>1. \A p \in Callers : pc[p] = "ready"
    BY PoolAssumption DEF Init, Tasks
  <2>2. \A p \in Callers : StageOf(p) = "out" /\ GrantOf(p) = NoConn
    BY <2>1 DEF StageOf, GrantOf, Holds
  <2>3. closed = FALSE
    BY DEF Init
  <2> HIDE DEF StageOf, GrantOf
  <2>4. QED BY <2>2, <2>3 DEF Promise!Init
<1>2. ExclusiveInv /\ [Next]_vars => [Promise!Next]_(Promise!vars)
  <2> SUFFICES ASSUME ExclusiveInv, [Next]_vars
               PROVE  Promise!Next \/ UNCHANGED Promise!vars
    OBVIOUS
  <2>1. CASE UNCHANGED vars
    BY <2>1, PromiseStutters DEF vars, poolVars, taskVars, StageOf, GrantOf, Holds
  <2>2. CASE Next
    BY <2>2, AcquirePromise, GivebackPromise, BackgroundPromise DEF Next
  <2>3. QED BY <2>1, <2>2
<1>3. QED BY <1>1, <1>2, PoolExclusiveInv, PTL DEF Spec, KeepsPromise, Promise!Spec
=============================================================================
