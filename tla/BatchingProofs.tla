--------------------------- MODULE BatchingProofs ---------------------------
(***************************************************************************)
(* What takes several requests.  RequestBatching, for every batch of any    *)
(* length and with any ids and dependencies: waves keep the order of the    *)
(* dependencies, and exactly the requests that cannot be resolved are       *)
(* answered as unresolved.  SocketBatching, for batches of any size and any *)
(* cut of the answers: the pieces on the socket carry consecutive numbers,  *)
(* so what was received is known by how many of them were used up, and a    *)
(* response is the answer to its request exactly while nothing was used up  *)
(* for a request that failed.  Streaming, for any file and sizes: what a    *)
(* generator yielded so far covers the file up to its position.             *)
(***************************************************************************)
EXTENDS RequestBatching, SocketBatching, Streaming, ListProofs

-----------------------------------------------------------------------------
(* RequestBatching *)

\* The requests execute() works on.
Universe == IF mode = "adaptive" THEN Kept ELSE Rows

\* A request is pending, in the wave or behind; nothing is given up before
\* nothing is left to run.
Sorted ==
    /\ pending \subseteq Universe /\ wave \subseteq Universe /\ pending \cap wave = {}
    /\ pc # "waiting" => wave = {}
    /\ pc = "new" => pending = {} /\ \A r \in Rows : outcome[r] = "none"
    /\ \A r \in Rows : r \in pending \cup running \/ r \notin Universe => outcome[r] = "none"
    /\ pc # "new" =>
         \A r \in Universe \ (pending \cup running) : Ended(r) \/ outcome[r] = "unresolved"
    /\ \A r \in Rows : outcome[r] = "unresolved" =>
         mode = "adaptive" /\ pending = {} /\ wave = {}

\* While the loop runs, the ids it calls completed are those of the requests
\* that ended in earlier waves.
Behind ==
    mode = "adaptive" /\ pc \in {"new", "planning", "waiting"} =>
        \A i \in Ids : i \in completed <=> \E s \in Kept : id[s] = i /\ Ended(s) /\ s \notin wave

\* What was started is resolvable, and what was given up is not.
Known ==
    mode = "adaptive" =>
        /\ \A r \in Kept : r \in wave \/ Ended(r) => id[r] \in Resolvable
        /\ \A r \in Rows : outcome[r] = "unresolved" => id[r] \notin Resolvable

BatchInv == BatcherTypeOK /\ Sorted /\ Behind /\ Known /\ OrderKept

-----------------------------------------------------------------------------
\* The dictionary keeps one request of an id.
LEMMA KeptUnique ==
    ASSUME BatchAssumption, NEW r \in Kept, NEW s \in Kept, id[r] = id[s]
    PROVE  r = s
<1>1. r \in Rows /\ s \in Rows /\ s <= r /\ r <= s
  BY DEF Kept
<1>2. QED BY <1>1 DEF Rows, BatchAssumption

\* A non-empty set of places has a least one: the places before it are a
\* minimal set among the sets of places before one.
LEMMA LeastPlace ==
    ASSUME BatchAssumption, NEW P \in SUBSET Rows, P # {}
    PROVE  \E r \in P : \A s \in P : r <= s
<1> DEFINE Earlier(r) == {s \in P : s < r}
           Earliers == {Earlier(r) : r \in P}
<1>1. P \subseteq Int /\ IsFiniteSet(P)
  <2>1. Rows \subseteq Int /\ 1 \in Int /\ NumRequests \in Int
    BY DEF Rows, BatchAssumption
  <2>2. IsFiniteSet(Rows)
    BY <2>1, FS_Interval DEF Rows
  <2>3. QED BY <2>1, <2>2, FS_Subset
<1>2. IsWellFoundedOn(StrictSubsetOrdering(P), SUBSET P)
  BY <1>1, FS_FiniteSubsetsOfFinite, FS_StrictSubsetOrderingWellFounded
<1>3. Earliers \subseteq SUBSET P /\ Earliers # {}
  OBVIOUS
<1>4. PICK E \in Earliers : \A D \in Earliers : ~ (<<D, E>> \in StrictSubsetOrdering(P))
  <2> HIDE DEF Earliers
  <2> QED BY <1>2, <1>3, WFMin
<1>5. PICK r \in P : E = Earlier(r)
  OBVIOUS
<1>6. ASSUME NEW s \in P, ~ (r <= s) PROVE FALSE
  <2>1. Earlier(s) \subseteq Earlier(r) /\ s \in Earlier(r) /\ s \notin Earlier(s)
    <3>1. s \in Int /\ r \in Int /\ s < r
      BY <1>1, <1>6
    <3>2. ASSUME NEW t \in P, t < s PROVE t < r
      BY <1>1, <3>1, <3>2
    <3>3. s \in Earlier(r) /\ s \notin Earlier(s)
      BY <1>6, <3>1
    <3>4. Earlier(s) \subseteq Earlier(r)
      BY <3>2
    <3>5. QED BY <3>3, <3>4
  <2>2. <<Earlier(s), Earlier(r)>> \in StrictSubsetOrdering(P)
    BY <2>1 DEF StrictSubsetOrdering
  <2>3. QED BY <1>4, <1>5, <2>2
<1>7. QED BY <1>6

\* The dictionary keeps a request of every id.
LEMMA KeptOfEveryId ==
    ASSUME BatchAssumption, BatcherTypeOK, NEW r \in Rows
    PROVE  \E s \in Kept : id[s] = id[r]
<1> DEFINE Same == {s \in Rows : id[s] = id[r]}
           Mirror == {NumRequests + 1 - s : s \in Same}
<1>1. Mirror \subseteq Rows /\ Mirror # {}
  BY DEF Rows, BatchAssumption
<1>2. PICK m \in Mirror : \A k \in Mirror : m <= k
  <2> HIDE DEF Mirror
  <2> QED BY <1>1, LeastPlace
<1>3. PICK s \in Same : m = NumRequests + 1 - s
  OBVIOUS
<1>4. \A t \in Same : t <= s
  BY <1>2, <1>3 DEF Rows, BatchAssumption
<1>5. s \in Kept
  BY <1>3, <1>4 DEF Kept
<1>6. QED BY <1>3, <1>5

\* The definitions that speak of the batch alone do not change with a step.
LEMMA BatchFixed ==
    ASSUME UNCHANGED batch
    PROVE  /\ Kept' = Kept /\ Universe' = Universe /\ Resolvable' = Resolvable
           /\ \A r \in Rows : Before(r)' = Before(r)
<1>1. Kept' = Kept
  BY DEF batch, Kept
<1>2. Universe' = Universe
  BY <1>1 DEF batch, Universe
<1>3. \A S : Closed(S)' = Closed(S)
  BY <1>1 DEF batch, Closed
<1>4. Resolvable' = Resolvable
  BY <1>3 DEF Resolvable
<1>5. \A r \in Rows : Before(r)' = Before(r)
  BY <1>1 DEF batch, Before
<1>6. QED BY <1>1, <1>2, <1>4, <1>5

-----------------------------------------------------------------------------
(* The steps, one lemma each for those that a part of the invariant is about. *)

\* What a wave starts has its dependencies behind it.
LEMMA StartWaveOrdered ==
    ASSUME BatchAssumption, BatchInv, StartWave, NEW r \in Ready
    PROVE  /\ r \in Universe /\ r \in Rows
           /\ \A s \in Before(r) : Ended(s)
           /\ mode = "adaptive" =>
                /\ dependsOn[r] \subseteq {id[s] : s \in Kept}
                /\ id[r] \in Resolvable
<1>1. r \in pending /\ pending \subseteq Universe /\ Universe \subseteq Rows /\ wave = {}
      /\ running = {} /\ pc = "planning" /\ pending # {} /\ mode \in Modes
  BY DEF BatchInv, BatcherTypeOK, Sorted, StartWave, Ready, Universe, Kept
<1>2. \A s \in Universe \ pending : Ended(s) \/ outcome[s] = "unresolved"
  BY <1>1 DEF BatchInv, Sorted
<1>3. \A s \in Universe \ pending : Ended(s)
  BY <1>1, <1>2 DEF BatchInv, Sorted
<1>4. ASSUME mode = "sequential", NEW s \in Before(r) PROVE Ended(s)
  <2>1. s \in Rows /\ s < r /\ Universe = Rows
    BY <1>4 DEF Before, Universe
  <2>2. s \notin pending
    BY <1>1, <1>4, <2>1 DEF Ready, Rows, BatchAssumption
  <2>3. QED BY <1>3, <2>1, <2>2
<1>5. ASSUME mode = "adaptive"
      PROVE  /\ \A s \in Before(r) : Ended(s)
             /\ dependsOn[r] \subseteq {id[s] : s \in Kept}
             /\ id[r] \in Resolvable
  <2>1. dependsOn[r] \subseteq completed /\ dependsOn[r] \subseteq Ids /\ id[r] \in Ids
    BY <1>1, <1>5 DEF Ready, Satisfied, BatchInv, BatcherTypeOK
  <2>2. \A i \in dependsOn[r] : \E s \in Kept : id[s] = i /\ Ended(s)
    BY <1>1, <1>5, <2>1 DEF BatchInv, Behind
  <2>3. ASSUME NEW s \in Before(r) PROVE Ended(s)
    <3>1. s \in Kept /\ id[s] \in dependsOn[r]
      BY <1>5, <2>3 DEF Before
    <3>2. PICK t \in Kept : id[t] = id[s] /\ Ended(t)
      BY <2>2, <3>1
    <3>3. QED BY <3>1, <3>2, KeptUnique
  <2>4. \A i \in dependsOn[r] : i \in Resolvable
    BY <1>5, <2>2 DEF BatchInv, Known
  <2>5. id[r] \in Resolvable
    <3>1. r \in Kept
      BY <1>1, <1>5 DEF Universe
    <3>2. QED BY <2>1, <2>4, <3>1 DEF Resolvable, Closed
  <2>6. QED BY <2>2, <2>3, <2>5
<1>6. mode = "parallel" => Before(r) = {}
  BY DEF Before
<1>7. QED BY <1>1, <1>4, <1>5, <1>6 DEF Modes

\* What is given up hangs on a cycle or on a missing id: the completed ids are
\* closed, and it is not among them.
LEMMA GivenUpUnresolvable ==
    ASSUME BatchAssumption, BatchInv, LeaveUnresolved
    PROVE  mode = "adaptive" /\ \A r \in pending : id[r] \notin Resolvable
<1>1. pending \subseteq Universe /\ Universe \subseteq Rows /\ wave = {} /\ running = {}
      /\ pc = "planning" /\ pending # {} /\ Ready = {} /\ mode \in Modes
      /\ completed \subseteq Ids
  BY DEF BatchInv, BatcherTypeOK, Sorted, LeaveUnresolved, Universe, Kept
<1>2. mode = "adaptive"
  <2>1. mode # "sequential"
    <3>1. PICK r \in pending : \A s \in pending : r <= s
      BY <1>1, LeastPlace
    <3>2. QED BY <1>1, <3>1 DEF Ready
  <2>2. mode # "parallel"
    BY <1>1 DEF Ready
  <2>3. QED BY <1>1, <2>1, <2>2 DEF Modes
<1>3. \A s \in Kept \ pending : Ended(s)
  <2>1. Universe = Kept
    BY <1>2 DEF Universe
  <2>2. \A s \in Universe \ pending : Ended(s) \/ outcome[s] = "unresolved"
    BY <1>1 DEF BatchInv, Sorted
  <2>3. QED BY <1>1, <2>1, <2>2 DEF BatchInv, Sorted
<1>4. \A i \in Ids : i \in completed <=> \E s \in Kept : id[s] = i /\ Ended(s)
  BY <1>1, <1>2 DEF BatchInv, Behind
<1>5. Closed(completed)
  <2>1. ASSUME NEW r \in Kept, dependsOn[r] \subseteq completed PROVE id[r] \in completed
    <3>1. r \notin pending
      BY <1>1, <1>2, <2>1 DEF Ready, Satisfied
    <3>2. id[r] \in Ids
      BY <2>1 DEF Kept, BatchInv, BatcherTypeOK
    <3>3. QED BY <1>3, <1>4, <2>1, <3>1, <3>2
  <2>2. QED BY <2>1 DEF Closed
<1>6. ASSUME NEW r \in pending, id[r] \in Resolvable PROVE FALSE
  <2>1. r \in Kept /\ id[r] \in Ids /\ id[r] \in completed
    BY <1>1, <1>2, <1>5, <1>6 DEF Resolvable, Universe
  <2>2. PICK s \in Kept : id[s] = id[r] /\ Ended(s)
    BY <1>4, <2>1
  <2>3. Ended(r)
    BY <2>1, <2>2, KeptUnique
  <2>4. outcome[r] = "none"
    BY <1>1, <1>6 DEF BatchInv, Sorted
  <2>5. QED BY <2>3, <2>4 DEF Ended, Outcomes
<1>7. QED BY <1>2, <1>6

\* No call keeps execute() from a response for each of its requests: when
\* nothing is pending every request worked on has ended or was given up.
LEMMA AnswersTrue ==
    ASSUME BatchAssumption, BatchInv, pc = "planning", pending = {}, NEW r \in Rows
    PROVE  /\ Source(r) \in Rows /\ id[Source(r)] = id[r]
           /\ outcome[Source(r)] # "none"
           /\ mode = "adaptive" =>
                (outcome[Source(r)] = "unresolved" <=> id[r] \notin Resolvable)
<1>1. Universe \subseteq Rows /\ running = {} /\ BatcherTypeOK
  BY DEF BatchInv, BatcherTypeOK, Sorted, Universe, Kept
<1>2. \A s \in Universe : Ended(s) \/ outcome[s] = "unresolved"
  BY <1>1 DEF BatchInv, Sorted
<1>3. Source(r) \in Universe /\ id[Source(r)] = id[r]
  <2>1. CASE mode = "adaptive"
    BY <1>1, <2>1, KeptOfEveryId DEF Source, Universe
  <2>2. CASE mode # "adaptive"
    BY <2>2 DEF Source, Universe
  <2>3. QED BY <2>1, <2>2
<1>4. Ended(Source(r)) \/ outcome[Source(r)] = "unresolved"
  BY <1>2, <1>3
<1>5. mode = "adaptive" => (Ended(Source(r)) => id[r] \in Resolvable)
  BY <1>3 DEF Universe, BatchInv, Known
<1>6. mode = "adaptive" => (outcome[Source(r)] = "unresolved" => id[r] \notin Resolvable)
  BY <1>1, <1>3 DEF BatchInv, Known
<1>7. outcome[Source(r)] # "none"
  BY <1>4 DEF Ended, Outcomes
<1>8. QED BY <1>1, <1>3, <1>4, <1>5, <1>6, <1>7

-----------------------------------------------------------------------------
\* A batch that was not executed yet satisfies the invariant.
LEMMA InitKeepsInv ==
    ASSUME BatchAssumption, BatcherInit
    PROVE  BatchInv
<1>1. BatcherTypeOK
  BY DEF BatcherInit, BatcherTypeOK, Modes, Returned, Statuses
<1>2. Sorted
  BY DEF BatcherInit, Sorted
<1>3. \A r \in Rows : ~Begun(r) /\ ~Ended(r) /\ outcome[r] = "none"
  BY DEF BatcherInit, Begun, Ended, Outcomes
<1>4. Kept \subseteq Rows
  BY DEF Kept
<1>5. Behind /\ Known /\ OrderKept
  BY <1>3, <1>4 DEF BatcherInit, Behind, Known, OrderKept
<1>6. QED BY <1>1, <1>2, <1>5 DEF BatchInv

\* Every step keeps the variables typed.
LEMMA StepKeepsType ==
    ASSUME BatchAssumption, BatcherTypeOK, [BatcherNext]_batcherVars
    PROVE  BatcherTypeOK'
<1>0. ASSUME NEW r \in Rows PROVE Source(r) \in Rows
  BY <1>0, KeptOfEveryId DEF Source, Kept
<1> USE DEF BatcherTypeOK, Modes, Outcomes, Statuses, Returned
<1>1. CASE Execute
  BY <1>1 DEF Execute, batch, Kept
<1>2. CASE StartWave
  BY <1>2 DEF StartWave, batch, Ready
<1>3. CASE WaveDone
  BY <1>3 DEF WaveDone, batch
<1>4. CASE LeaveUnresolved
  BY <1>4 DEF LeaveUnresolved, batch
<1>5. CASE Cancel
  BY <1>5 DEF Cancel, batch
<1>6. ASSUME NEW r \in Rows, End(r) PROVE BatcherTypeOK'
  BY <1>6 DEF End, batch
<1>7. CASE UNCHANGED batcherVars
  BY <1>7 DEF batcherVars, batch
<1>8. CASE Respond
  BY <1>0, <1>8 DEF Respond, batch
<1>9. QED BY <1>1, <1>2, <1>3, <1>4, <1>5, <1>6, <1>7, <1>8 DEF BatcherNext

\* Each step keeps the requests sorted and the completed ids right.
LEMMA StepKeepsSorted ==
    ASSUME BatchAssumption, BatchInv, [BatcherNext]_batcherVars
    PROVE  Sorted' /\ Behind'
<1>1. BatcherTypeOK /\ BatcherTypeOK' /\ Universe \subseteq Rows /\ Kept \subseteq Rows
  BY StepKeepsType DEF BatchInv, Universe, Kept
<1>2. Sorted /\ Behind
  BY DEF BatchInv
<1> DEFINE Fixed == /\ UNCHANGED batch /\ mode' = mode /\ id' = id
                    /\ Kept' = Kept /\ Universe' = Universe
<1>3. UNCHANGED batch => Fixed
  BY BatchFixed DEF batch
<1>4. CASE Execute
  <2>1. Fixed
    BY <1>3, <1>4 DEF Execute
  <2>2. Sorted'
    BY <1>1, <1>2, <1>4, <2>1 DEF Execute, Sorted, BatcherTypeOK, Universe, Ended
  <2>3. Behind'
    BY <1>2, <1>4, <2>1 DEF Execute, Behind, Ended
  <2>4. QED BY <2>2, <2>3
<1>5. CASE StartWave
  <2>1. Fixed
    BY <1>3, <1>5 DEF StartWave
  <2>2. Ready \subseteq pending
    BY DEF Ready
  <2>3. Sorted'
    BY <1>1, <1>2, <1>5, <2>1, <2>2 DEF StartWave, Sorted, BatcherTypeOK, Ended
  <2>4. \A r \in Ready : ~Ended(r)
    BY <1>1, <1>2, <2>2 DEF Sorted, Ended, Outcomes
  <2>5. Behind'
    BY <1>2, <1>5, <2>1, <2>4 DEF StartWave, Sorted, Behind, Ended
  <2>6. QED BY <2>3, <2>5
<1>6. CASE WaveDone
  <2>1. Fixed
    BY <1>3, <1>6 DEF WaveDone
  <2>2. Sorted'
    BY <1>1, <1>2, <1>6, <2>1 DEF WaveDone, Sorted, BatcherTypeOK, Ended
  <2>3. \A r \in wave : Ended(r) /\ r \in Universe
    BY <1>1, <1>2, <1>6 DEF WaveDone, Sorted
  <2>4. ASSUME mode = "adaptive", NEW i \in Ids
        PROVE  i \in completed' <=> \E s \in Kept : id[s] = i /\ Ended(s)
    <3>1. i \in completed <=> \E s \in Kept : id[s] = i /\ Ended(s) /\ s \notin wave
      BY <1>2, <1>6, <2>4 DEF WaveDone, Behind
    <3>2. i \in completed' <=> i \in completed \/ \E s \in wave : id[s] = i
      BY <1>6 DEF WaveDone
    <3>3. wave \subseteq Kept
      BY <2>3, <2>4 DEF Universe
    <3>4. QED BY <2>3, <3>1, <3>2, <3>3
  <2>5. Behind'
    BY <1>6, <2>1, <2>4 DEF WaveDone, Behind, Ended
  <2>6. QED BY <2>2, <2>5
<1>7. CASE LeaveUnresolved
  <2>1. Fixed
    BY <1>3, <1>7 DEF LeaveUnresolved
  <2>2. mode = "adaptive"
    BY <1>7, GivenUpUnresolvable
  <2>3. Sorted'
    BY <1>1, <1>2, <1>7, <2>1, <2>2 DEF LeaveUnresolved, Sorted, BatcherTypeOK, Ended, Outcomes
  <2>4. \A r \in Rows : Ended(r)' <=> Ended(r)
    BY <1>1, <1>2, <1>7 DEF LeaveUnresolved, Sorted, Ended, Outcomes, BatcherTypeOK
  <2>5. Behind'
    BY <1>1, <1>2, <1>7, <2>1, <2>4 DEF LeaveUnresolved, Behind
  <2>6. QED BY <2>3, <2>5
<1>8. CASE Respond
  <2>1. Fixed
    BY <1>3, <1>8 DEF Respond
  <2>2. Sorted'
    BY <1>1, <1>2, <1>8, <2>1 DEF Respond, Sorted, BatcherTypeOK, Ended
  <2>3. Behind'
    BY <1>8 DEF Respond, Behind
  <2>4. QED BY <2>2, <2>3
<1>9. CASE Cancel
  <2>1. Fixed
    BY <1>3, <1>9 DEF Cancel
  <2>2. Sorted'
    BY <1>1, <1>2, <1>9, <2>1 DEF Cancel, Sorted, BatcherTypeOK, Ended, Outcomes
  <2>3. Behind'
    BY <1>9 DEF Cancel, Behind
  <2>4. QED BY <2>2, <2>3
<1>10. ASSUME NEW r \in Rows, End(r) PROVE Sorted' /\ Behind'
  <2>1. Fixed
    BY <1>3, <1>10 DEF End
  <2>2. Sorted'
    BY <1>1, <1>2, <1>10, <2>1 DEF End, Sorted, BatcherTypeOK, Ended, Outcomes
  <2>3. r \in wave /\ \A s \in Rows \ {r} : Ended(s)' <=> Ended(s)
    BY <1>1, <1>10 DEF End, BatcherTypeOK, Ended
  <2>4. Behind'
    BY <1>1, <1>2, <1>10, <2>1, <2>3 DEF End, Behind
  <2>5. QED BY <2>2, <2>4
<1>11. CASE UNCHANGED batcherVars
  <2>1. Fixed
    BY <1>3, <1>11 DEF batcherVars
  <2>2. Sorted' /\ Behind'
    BY <1>2, <1>11, <2>1 DEF batcherVars, Sorted, Behind, Ended
  <2>3. QED BY <2>2
<1>12. QED
  BY <1>4, <1>5, <1>6, <1>7, <1>8, <1>9, <1>10, <1>11 DEF BatcherNext

\* What a step leaves begun was begun before, or it is started by a wave.
LEMMA StepBegins ==
    ASSUME BatchAssumption, BatchInv, [BatcherNext]_batcherVars
    PROVE  /\ UNCHANGED batch
           /\ \A r \in Rows : Ended(r) => Ended(r)'
           /\ \A r \in Rows : Begun(r)' => Begun(r) \/ (StartWave /\ r \in Ready)
           /\ \A r \in Rows : r \in wave' => r \in wave \/ (StartWave /\ r \in Ready)
           /\ \A r \in Rows : Ended(r)' => r \in wave \/ Ended(r)
           /\ \A r \in Rows : outcome'[r] = "unresolved" =>
                outcome[r] = "unresolved" \/ (LeaveUnresolved /\ r \in pending)
<1>1. BatcherTypeOK /\ running \subseteq wave /\ \A r \in pending : outcome[r] = "none"
  BY DEF BatchInv, BatcherTypeOK, Sorted
<1> USE DEF Ended, Begun, Outcomes
<1>2. CASE Execute
  BY <1>1, <1>2 DEF Execute
<1>3. CASE StartWave
  BY <1>1, <1>3 DEF StartWave
<1>4. CASE WaveDone
  BY <1>1, <1>4 DEF WaveDone
<1>5. CASE LeaveUnresolved
  BY <1>1, <1>5 DEF LeaveUnresolved, BatcherTypeOK
<1>6. CASE Respond
  BY <1>1, <1>6 DEF Respond
<1>7. CASE Cancel
  BY <1>1, <1>7 DEF Cancel, BatcherTypeOK
<1>8. CASE \E r \in Rows : End(r)
  BY <1>1, <1>8 DEF End, BatcherTypeOK
<1>9. CASE UNCHANGED batcherVars
  BY <1>1, <1>9 DEF batcherVars
<1>10. QED
  BY <1>2, <1>3, <1>4, <1>5, <1>6, <1>7, <1>8, <1>9 DEF BatcherNext

\* Every step keeps the whole invariant.
LEMMA StepKeepsInv ==
    ASSUME BatchAssumption, BatchInv, [BatcherNext]_batcherVars
    PROVE  BatchInv'
<1>1. BatcherTypeOK' /\ Sorted' /\ Behind' /\ Kept \subseteq Rows /\ running \subseteq wave
  BY StepKeepsType, StepKeepsSorted DEF BatchInv, Kept, BatcherTypeOK
<1>2. UNCHANGED batch /\ mode' = mode /\ id' = id /\ dependsOn' = dependsOn
  BY StepBegins DEF batch
<1>3. /\ Kept' = Kept /\ Resolvable' = Resolvable
      /\ \A r \in Rows : Before(r)' = Before(r)
  BY <1>2, BatchFixed
<1>4. ASSUME mode = "adaptive", NEW r \in Kept, r \in wave' \/ Ended(r)'
      PROVE  id[r] \in Resolvable
  <2>1. r \in Rows /\ (r \in wave \/ Ended(r) \/ (StartWave /\ r \in Ready))
    BY <1>1, <1>4, StepBegins
  <2>2. CASE r \in wave \/ Ended(r)
    BY <1>4, <2>2 DEF BatchInv, Known
  <2>3. CASE StartWave /\ r \in Ready
    BY <1>4, <2>3, StartWaveOrdered
  <2>4. QED BY <2>1, <2>2, <2>3
<1>5. ASSUME mode = "adaptive", NEW r \in Rows, outcome'[r] = "unresolved"
      PROVE  id[r] \notin Resolvable
  <2>1. outcome[r] = "unresolved" \/ (LeaveUnresolved /\ r \in pending)
    BY <1>5, StepBegins
  <2>2. QED BY <1>5, <2>1, GivenUpUnresolvable DEF BatchInv, Known
<1>6. Known'
  BY <1>2, <1>3, <1>4, <1>5 DEF Known
<1>7. ASSUME NEW r \in Rows, Begun(r)'
      PROVE  /\ \A s \in Before(r) : Ended(s)'
             /\ mode = "adaptive" => dependsOn[r] \subseteq {id[s] : s \in Kept}
  <2>1. /\ \A s \in Before(r) : Ended(s)
        /\ mode = "adaptive" => dependsOn[r] \subseteq {id[s] : s \in Kept}
    <3>1. CASE Begun(r)
      BY <3>1 DEF BatchInv, OrderKept
    <3>2. CASE StartWave /\ r \in Ready
      BY <3>2, StartWaveOrdered
    <3>3. QED BY <1>7, <3>1, <3>2, StepBegins
  <2>2. Before(r) \subseteq Rows
    BY <1>1 DEF Before, BatchInv, BatcherTypeOK, Modes
  <2>3. QED BY <2>1, <2>2, StepBegins
<1>8. OrderKept'
  BY <1>2, <1>3, <1>7 DEF OrderKept
<1>9. QED BY <1>1, <1>6, <1>8 DEF BatchInv

-----------------------------------------------------------------------------
\* What execute() returned is right when it returns, and stays.
Answered == UnresolvedExactly /\ Aligned /\ Isolated

\* Only the last step answers, and nothing is changed after it.
LEMMA StepKeepsAnswered ==
    ASSUME BatchAssumption, BatchInv, Answered, [BatcherNext]_batcherVars
    PROVE  Answered'
<1>1. BatcherTypeOK /\ BatcherTypeOK' /\ running \subseteq wave /\ (pc # "waiting" => wave = {})
  BY StepKeepsType DEF BatchInv, Sorted, BatcherTypeOK
<1>2. UNCHANGED batch /\ mode' = mode /\ id' = id /\ Resolvable' = Resolvable
  BY StepBegins, BatchFixed DEF batch
<1>3. CASE Respond
  <2>1. pc = "planning" /\ pending = {} /\ outcome' = outcome
    BY <1>3 DEF Respond
  <2>2. Isolated'
    BY <1>3, <2>1, AnswersTrue DEF Respond, Isolated
  <2>3. ASSUME pc' = "done", NEW r \in Rows
        PROVE  /\ Source(r) \in Rows /\ id[Source(r)] = id[r]
               /\ answers'[r].id = id[r] /\ answers'[r].status = outcome[Source(r)]
               /\ answers'[r].status # "none"
               /\ mode = "adaptive" =>
                    (answers'[r].status = "unresolved" <=> id[r] \notin Resolvable)
    <3>1. /\ Source(r) \in Rows /\ id[Source(r)] = id[r]
          /\ outcome[Source(r)] # "none"
          /\ mode = "adaptive" =>
               (outcome[Source(r)] = "unresolved" <=> id[r] \notin Resolvable)
      BY <2>1, AnswersTrue
    <3>2. answers'[r] = [id |-> id[Source(r)], status |-> outcome[Source(r)]]
      BY <1>3, <2>3 DEF Respond
    <3>3. answers'[r].id = id[Source(r)] /\ answers'[r].status = outcome[Source(r)]
      BY <3>2
    <3>4. QED BY <3>1, <3>3
  <2>4. UnresolvedExactly' /\ Aligned'
    BY <1>2, <2>1, <2>3 DEF UnresolvedExactly, Aligned
  <2>5. QED BY <2>2, <2>4 DEF Answered
<1>4. CASE pc' \notin {"done", "raised"}
  BY <1>4 DEF Answered, UnresolvedExactly, Aligned, Isolated
<1>5. CASE UNCHANGED batcherVars
  BY <1>2, <1>5 DEF batcherVars, Answered, UnresolvedExactly, Aligned, Isolated
<1>6. CASE WaveDone
  <2>1. pc' \in {"raised", "planning"} /\ outcome' = outcome
        /\ (pc' = "raised" => \E r \in wave : outcome[r] = "cancelled")
    BY <1>6 DEF WaveDone
  <2>2. QED BY <1>1, <2>1 DEF BatcherTypeOK, Answered, UnresolvedExactly, Aligned, Isolated
<1>7. ASSUME NEW r \in Rows, End(r), pc' \in {"done", "raised"} PROVE FALSE
  BY <1>1, <1>7 DEF End
<1>8. pc' \in {"done", "raised"} =>
        \/ Respond \/ WaveDone \/ UNCHANGED batcherVars \/ \E r \in Rows : End(r)
  BY DEF BatcherNext, Execute, StartWave, LeaveUnresolved, Cancel
<1>9. QED BY <1>3, <1>4, <1>5, <1>6, <1>7, <1>8

-----------------------------------------------------------------------------
\* No request of a batch begins before those it waits for have ended, and in
\* an adaptive batch none begins that depends on an id the batch does not have.
THEOREM BatchOrderKept == BatcherSpec => []OrderKept
<1>1. BatcherInit => BatchInv
  BY BatchAssumption, InitKeepsInv
<1>2. BatchInv /\ [BatcherNext]_batcherVars => BatchInv'
  BY BatchAssumption, StepKeepsInv
<1>3. BatchInv => OrderKept
  BY DEF BatchInv
<1>4. QED BY <1>1, <1>2, <1>3, PTL DEF BatcherSpec

LEMMA BatchAnswered == BatcherSpec => []Answered
<1>1. BatcherInit => BatchInv /\ Answered
  BY BatchAssumption, InitKeepsInv DEF BatcherInit, Answered, UnresolvedExactly, Aligned, Isolated
<1>2. BatchInv /\ Answered /\ [BatcherNext]_batcherVars => (BatchInv /\ Answered)'
  BY BatchAssumption, StepKeepsInv, StepKeepsAnswered
<1>3. QED BY <1>1, <1>2, PTL DEF BatcherSpec

\* Whatever the batch, "Unresolved dependency" is the answer of exactly the requests
\* that hang on a cycle or on a missing id.
THEOREM BatchUnresolvedExactly == BatcherSpec => []UnresolvedExactly
<1>1. Answered => UnresolvedExactly
  BY DEF Answered
<1>2. QED BY <1>1, BatchAnswered, PTL

\* A response stands in its place, under its own id and with the outcome of a
\* request of that id; ids that are all different name the request itself.
LEMMA OwnAnswersFollow ==
    ASSUME BatchInv, Aligned
    PROVE  OwnAnswers
<1>1. SUFFICES ASSUME pc = "done", MultiBatch \/ Pipeline, NEW r \in Rows
               PROVE  /\ answers[r].status = outcome[r] /\ outcome[r] # "unresolved"
                      /\ Chunks[r] = "data" <=> outcome[r] = "success"
  BY DEF OwnAnswers
<1>2. mode # "adaptive" /\ \A s \in Rows : id[s] = id[r] => s = r
  BY <1>1 DEF MultiBatch, Pipeline
<1>3. PICK s \in Rows : id[s] = id[r] /\ answers[r].status = outcome[s]
  BY <1>1 DEF Aligned
<1>4. answers[r].status = outcome[r]
  BY <1>2, <1>3
<1>5. outcome[r] # "unresolved"
  BY <1>1, <1>2 DEF BatchInv, Sorted
<1>6. Chunks[r] = IF answers[r].status = "success" THEN "data" ELSE "empty"
  BY <1>1 DEF Chunks
<1>7. QED BY <1>4, <1>5, <1>6

\* Whatever the batch, its duplicates and its failures, every place of the list
\* gets a response under its own id, with the outcome of a request of that id (of
\* the request itself in the batches the helpers build), and execute() raises
\* only if a call was cancelled.
THEOREM BatchAnswersInPlace == BatcherSpec => []AnswersInPlace
<1>1. BatcherInit => BatchInv
  BY BatchAssumption, InitKeepsInv
<1>2. BatchInv /\ [BatcherNext]_batcherVars => BatchInv'
  BY BatchAssumption, StepKeepsInv
<1>3. BatchInv /\ Answered => AnswersInPlace
  BY OwnAnswersFollow DEF Answered, AnswersInPlace
<1>4. QED BY <1>1, <1>2, <1>3, BatchAnswered, PTL DEF BatcherSpec

-----------------------------------------------------------------------------
(* SocketBatching *)

Piece == [of : Nat, last : BOOLEAN]

Types ==
    /\ strategy \in {"sequential", "pipelined", "concurrent"}
    /\ reqId \in [Places -> RequestIds]
    /\ sent \in Nat /\ served \in Nat
    /\ inflow \in Seq(Piece) /\ buffer \in Seq(Piece) /\ replies \in Seq(Nat)

\* The number of a piece, and how many were used up for the responses so far.
Num(x) == IF x.last THEN 2 * x.of ELSE 2 * x.of - 1
Used == 2 * served - Len(inflow) - Len(buffer)

Numbered ==
    /\ Used >= 0
    /\ \A i \in 1..Len(buffer) : Num(buffer[i]) = Used + i
    /\ \A i \in 1..Len(inflow) : Num(inflow[i]) = Used + Len(buffer) + i

Paired ==
    Shared =>
      /\ \A r \in 1..Len(replies) : replies[r] # Failed =>
            2 * replies[r] <= Used /\ \A q \in 1..(r - 1) : replies[q] < replies[r]
      /\ \A r \in 1..Len(replies) :
            (\A q \in 1..r : replies[q] # Failed) => replies[r] = r
      /\ (\A r \in 1..Len(replies) : replies[r] # Failed) => Used = 2 * Len(replies)

Complete == Len(replies) <= BatchSize /\ (returned => Len(replies) = BatchSize)

Mapped ==
    /\ responseMap \in [RequestIds -> Nat]
    /\ \A i \in RequestIds : responseMap[i] # Failed =>
          responseMap[i] \in Places /\ reqId[responseMap[i]] = i
    /\ ~Shared => \A r \in 1..Len(replies) : replies[r] # Failed =>
          r \in Places /\ replies[r] \in Places /\ reqId[replies[r]] = reqId[r]

SocketInv == Types /\ Numbered /\ Paired /\ Complete /\ Mapped

-----------------------------------------------------------------------------

LEMMA BatchStarts == ASSUME SocketAssumption PROVE BatchInit => SocketInv
<1> SUFFICES ASSUME BatchInit PROVE SocketInv
  OBVIOUS
<1>1. /\ inflow = <<>> /\ buffer = <<>> /\ replies = <<>> /\ served = 0 /\ sent = 0
      /\ Len(inflow) = 0 /\ Len(buffer) = 0 /\ Len(replies) = 0
  BY DEF BatchInit
<1>2. Types
  BY <1>1, EmptySeq DEF BatchInit, Types
<1>3. Used = 0
  <2>1. Len(inflow) = 0 /\ Len(buffer) = 0 /\ served = 0
    BY <1>1
  <2> QED
    BY <2>1 DEF Used
<1>4. Numbered
  BY <1>1, <1>3 DEF Numbered
<1>5. Paired
  BY <1>1, <1>3 DEF Paired, Used
<1>6. Complete
  BY <1>1 DEF BatchInit, SocketAssumption, Complete
<1>7. Mapped
  BY <1>1, <1>3 DEF BatchInit, Mapped, Failed
<1> QED
  BY <1>2, <1>4, <1>5, <1>6, <1>7 DEF SocketInv

LEMMA Lengths ==
    ASSUME Types
    PROVE  /\ Len(inflow) \in Nat /\ Len(buffer) \in Nat /\ Len(replies) \in Nat
           /\ DOMAIN replies = 1..Len(replies)
           /\ \A r \in 1..Len(replies) : replies[r] \in Nat
  BY LenProperties, ElementOfSeq DEF Types

\* A response that parses is made of the next two pieces.
LEMMA ParsedPair ==
    ASSUME NEW used \in Nat, NEW got \in Seq(Piece), \A i \in 1..Len(got) : Num(got[i]) = used + i,
           Parsed(got) # Failed
    PROVE  Len(got) = 2 /\ Parsed(got) \in Nat /\ 2 * Parsed(got) = used + 2
<1>1. Len(got) = 2 /\ got[1].of = got[2].of /\ Parsed(got) = got[1].of
  BY DEF Parsed
<1>2. got[1] \in Piece /\ got[2] \in Piece
  BY <1>1, ElementOfSeq
<1>3. Num(got[1]) = used + 1 /\ Num(got[2]) = used + 2
  BY <1>1
<1> QED
  BY <1>1, <1>2, <1>3 DEF Num, Piece

\* One more response, whatever was used up for it.
LEMMA OneMore ==
    ASSUME SocketAssumption, SocketInv, Types', ~returned, returned' = returned, Shared, strategy' = strategy,
           Len(replies) < BatchSize,
           NEW reply \in Nat, replies' = Append(replies, reply), Used' >= Used,
           reply # Failed => 2 * reply = Used + 2 /\ Used' = Used + 2
    PROVE  Paired' /\ Complete'
<1>1. Len(replies') = Len(replies) + 1 /\ replies'[Len(replies) + 1] = reply
      /\ \A r \in 1..Len(replies) : replies'[r] = replies[r]
  BY AppendProperties DEF SocketInv, Types
<1>2. Used \in Int /\ Used' \in Int /\ Len(replies) \in Nat /\ \A r \in 1..Len(replies) : replies[r] \in Nat
  BY Lengths, LenProperties DEF SocketInv, Types, Used
<1>3. Shared' = Shared
  BY DEF Shared
<1>4. \A r \in 1..Len(replies') : replies'[r] # Failed =>
         2 * replies'[r] <= Used' /\ \A q \in 1..(r - 1) : replies'[q] < replies'[r]
  <2> SUFFICES ASSUME NEW r \in 1..Len(replies'), replies'[r] # Failed
               PROVE  2 * replies'[r] <= Used' /\ \A q \in 1..(r - 1) : replies'[q] < replies'[r]
    OBVIOUS
  <2>1. CASE r \in 1..Len(replies)
    BY <1>1, <1>2, <2>1 DEF SocketInv, Paired
  <2>2. CASE r = Len(replies) + 1
    <3>1. 2 * reply = Used + 2 /\ Used' = Used + 2 /\ replies'[r] = reply
      BY <1>1, <2>2
    <3>2. \A q \in 1..(r - 1) : replies'[q] = replies[q] /\ (replies[q] # Failed => 2 * replies[q] <= Used)
      BY <1>1, <1>2, <2>2 DEF SocketInv, Paired
    <3>3. \A q \in 1..(r - 1) : replies'[q] < reply
      BY <1>2, <2>2, <3>1, <3>2 DEF Failed, SocketInv, Numbered
    <3> QED
      BY <1>2, <3>1, <3>3
  <2> QED
    BY <1>1, <1>2, <2>1, <2>2
<1>5. (\A r \in 1..Len(replies') : replies'[r] # Failed) =>
         Used' = 2 * Len(replies') /\ reply = Len(replies')
  <2> SUFFICES ASSUME \A r \in 1..Len(replies') : replies'[r] # Failed
               PROVE  Used' = 2 * Len(replies') /\ reply = Len(replies')
    OBVIOUS
  <2>1. reply # Failed /\ \A r \in 1..Len(replies) : replies[r] # Failed
    BY <1>1, <1>2
  <2>2. Used = 2 * Len(replies)
    BY <2>1 DEF SocketInv, Paired
  <2>3. 2 * reply = Used + 2 /\ Used' = Used + 2
    BY <2>1
  <2> QED
    BY <1>1, <1>2, <2>2, <2>3
<1>6. \A r \in 1..Len(replies') : (\A q \in 1..r : replies'[q] # Failed) => replies'[r] = r
  <2> SUFFICES ASSUME NEW r \in 1..Len(replies'), \A q \in 1..r : replies'[q] # Failed
               PROVE  replies'[r] = r
    OBVIOUS
  <2>1. CASE r \in 1..Len(replies)
    BY <1>1, <1>2, <2>1 DEF SocketInv, Paired
  <2>2. CASE r = Len(replies) + 1
    BY <1>1, <1>2, <1>5, <2>2
  <2> QED
    BY <1>1, <1>2, <2>1, <2>2
<1> QED
  BY <1>1, <1>2, <1>3, <1>4, <1>5, <1>6 DEF Paired, Complete, SocketAssumption

-----------------------------------------------------------------------------
(* The steps. *)

\* What a step keeps that moves no piece and gives no response.
LEMMA NothingMoves ==
    ASSUME SocketInv, UNCHANGED <<strategy, reqId, served, inflow, buffer, replies, returned, responseMap>>,
           sent' \in Nat
    PROVE  SocketInv'
<1>1. Types' /\ Numbered'
  BY DEF SocketInv, Types, Numbered, Used
<1>2. Paired'
  BY DEF SocketInv, Paired, Used, Shared
<1>3. Complete' /\ Mapped'
  BY DEF SocketInv, Complete, Mapped, Shared
<1> QED
  BY <1>1, <1>2, <1>3 DEF SocketInv

LEMMA AnswerKeeps == ASSUME SocketAssumption, SocketInv, Answer PROVE SocketInv'
<1> DEFINE more == <<[of |-> served + 1, last |-> FALSE], [of |-> served + 1, last |-> TRUE]>>
<1>1. more \in Seq(Piece) /\ Len(more) = 2
  BY DEF SocketInv, Types, Piece
<1>2. Num(more[1]) = 2 * served + 1 /\ Num(more[2]) = 2 * served + 2
  <2>1. more[1] = [of |-> served + 1, last |-> FALSE] /\ more[2] = [of |-> served + 1, last |-> TRUE]
    OBVIOUS
  <2>2. more[1].of = served + 1 /\ ~more[1].last /\ more[2].of = served + 1 /\ more[2].last
    BY <2>1
  <2> HIDE DEF more
  <2> QED
    BY <2>2 DEF Num, SocketInv, Types
<1>3. inflow' = inflow \o more /\ served' = served + 1
  BY DEF Answer
<1>4. UNCHANGED <<strategy, reqId, buffer, replies, returned, responseMap, sent>>
  BY DEF Answer
<1> HIDE DEF more
<1>5. /\ inflow' \in Seq(Piece) /\ Len(inflow') = Len(inflow) + 2
      /\ \A i \in 1..(Len(inflow) + 2) :
            inflow'[i] = IF i <= Len(inflow) THEN inflow[i] ELSE more[i - Len(inflow)]
  <2>1. inflow \in Seq(Piece)
    BY DEF SocketInv, Types
  <2>2. /\ inflow \o more \in Seq(Piece) /\ Len(inflow \o more) = Len(inflow) + Len(more)
        /\ \A i \in 1..(Len(inflow) + Len(more)) :
              (inflow \o more)[i] = IF i <= Len(inflow) THEN inflow[i] ELSE more[i - Len(inflow)]
    BY <1>1, <2>1, ConcatProperties
  <2> QED
    BY <1>1, <1>3, <2>2
<1>6. Len(inflow) \in Nat /\ Len(buffer) \in Nat
  BY Lengths DEF SocketInv
<1>7. Used' = Used
  BY <1>3, <1>4, <1>5, <1>6 DEF Used, SocketInv, Types
<1>8. Types'
  BY <1>3, <1>4, <1>5 DEF SocketInv, Types
<1>9. \A i \in 1..Len(inflow') : Num(inflow'[i]) = Used' + Len(buffer') + i
  <2> SUFFICES ASSUME NEW i \in 1..Len(inflow')
               PROVE  Num(inflow'[i]) = Used + Len(buffer) + i
    BY <1>4, <1>7
  <2>1. CASE i \in 1..Len(inflow)
    BY <1>5, <1>6, <2>1 DEF SocketInv, Numbered
  <2>2. CASE i = Len(inflow) + 1
    <3>1. inflow'[i] = more[1]
      BY <1>5, <1>6, <2>2
    <3> QED
      BY <1>2, <1>6, <2>2, <3>1 DEF Used, SocketInv, Types
  <2>3. CASE i = Len(inflow) + 2
    <3>1. inflow'[i] = more[2]
      BY <1>5, <1>6, <2>3
    <3> QED
      BY <1>2, <1>6, <2>3, <3>1 DEF Used, SocketInv, Types
  <2> QED
    BY <1>5, <1>6, <2>1, <2>2, <2>3
<1>10. Numbered'
  BY <1>4, <1>7, <1>9 DEF SocketInv, Numbered
<1>11. Paired'
  BY <1>4, <1>7 DEF SocketInv, Paired, Shared
<1>12. Complete' /\ Mapped'
  BY <1>4 DEF SocketInv, Complete, Mapped, Shared
<1> QED
  BY <1>8, <1>10, <1>11, <1>12 DEF SocketInv

\* What recv returned, with what was received before.
Got(n) == buffer \o SubSeq(inflow, 1, n)

LEMMA Received ==
    ASSUME SocketInv, NEW n \in 1..Len(inflow),
           inflow' = SubSeq(inflow, n + 1, Len(inflow))
    PROVE  /\ Got(n) \in Seq(Piece) /\ Len(Got(n)) = Len(buffer) + n
           /\ \A i \in 1..Len(Got(n)) : Num(Got(n)[i]) = Used + i
           /\ inflow' \in Seq(Piece) /\ Len(inflow') = Len(inflow) - n
           /\ \A i \in 1..Len(inflow') : Num(inflow'[i]) = Used + Len(Got(n)) + i
<1>1. Len(inflow) \in Nat /\ Len(buffer) \in Nat /\ Used \in Int
  BY Lengths DEF SocketInv, Used, Types
<1>2. \A i \in 1..Len(inflow) : inflow[i] \in Piece
  BY ElementOfSeq DEF SocketInv, Types
<1> DEFINE taken == SubSeq(inflow, 1, n)
<1>3. /\ taken \in Seq(Piece) /\ Len(taken) = n
      /\ \A i \in 1..n : taken[i] = inflow[i]
  BY <1>1, <1>2, SubSeqProperties
<1>4. /\ inflow' \in Seq(Piece) /\ Len(inflow') = Len(inflow) - n
      /\ \A i \in 1..(Len(inflow) - n) : inflow'[i] = inflow[n + i]
  <2>1. n + 1 \in Int /\ Len(inflow) \in Int /\ \A i \in (n + 1)..Len(inflow) : inflow[i] \in Piece
    BY <1>1, <1>2
  <2>2. /\ SubSeq(inflow, n + 1, Len(inflow)) \in Seq(Piece)
        /\ Len(SubSeq(inflow, n + 1, Len(inflow))) =
              IF n + 1 <= Len(inflow) THEN Len(inflow) - (n + 1) + 1 ELSE 0
        /\ \A i \in 1..(Len(inflow) - (n + 1) + 1) :
              SubSeq(inflow, n + 1, Len(inflow))[i] = inflow[(n + 1) + i - 1]
    BY <2>1, SubSeqProperties
  <2> QED
    BY <1>1, <2>2
<1> HIDE DEF taken
<1>5. /\ Got(n) \in Seq(Piece) /\ Len(Got(n)) = Len(buffer) + n
      /\ \A i \in 1..(Len(buffer) + n) : Got(n)[i] = IF i <= Len(buffer) THEN buffer[i] ELSE taken[i - Len(buffer)]
  BY <1>3, ConcatProperties DEF SocketInv, Types, taken, Got
<1>6. \A i \in 1..Len(Got(n)) : Num(Got(n)[i]) = Used + i
  <2> SUFFICES ASSUME NEW i \in 1..Len(Got(n)) PROVE Num(Got(n)[i]) = Used + i
    OBVIOUS
  <2>1. CASE i <= Len(buffer)
    BY <1>1, <1>5, <2>1 DEF SocketInv, Numbered
  <2>2. CASE i > Len(buffer)
    <3>1. i - Len(buffer) \in 1..n /\ Got(n)[i] = inflow[i - Len(buffer)]
      BY <1>1, <1>3, <1>5, <2>2
    <3>2. Num(inflow[i - Len(buffer)]) = Used + Len(buffer) + (i - Len(buffer))
      BY <1>1, <3>1 DEF SocketInv, Numbered
    <3> QED
      BY <1>1, <3>1, <3>2
  <2> QED
    BY <1>1, <1>5, <2>1, <2>2
<1>7. \A i \in 1..Len(inflow') : Num(inflow'[i]) = Used + Len(Got(n)) + i
  <2> SUFFICES ASSUME NEW i \in 1..Len(inflow') PROVE Num(inflow'[i]) = Used + Len(Got(n)) + i
    OBVIOUS
  <2>1. n + i \in 1..Len(inflow) /\ inflow'[i] = inflow[n + i]
    BY <1>1, <1>4
  <2>2. Num(inflow[n + i]) = Used + Len(buffer) + (n + i)
    BY <2>1 DEF SocketInv, Numbered
  <2> QED
    BY <1>1, <1>5, <2>1, <2>2
<1> QED
  BY <1>4, <1>5, <1>6, <1>7

LEMMA RecvKeeps == ASSUME SocketAssumption, SocketInv, NEW n \in 1..Len(inflow), Recv(n) PROVE SocketInv'
<1>1. inflow' = SubSeq(inflow, n + 1, Len(inflow))
  BY DEF Recv
<1>2. UNCHANGED <<strategy, reqId, sent, served, open, ended, responseMap, returned>>
  BY DEF Recv
<1>3. ~returned /\ Shared /\ Len(replies) < BatchSize
  BY Lengths DEF Recv, Awaiting, Current, SocketInv, SocketAssumption
<1>4. \/ replies' = Append(replies, Parsed(Got(n))) /\ buffer' = <<>>
      \/ replies' = replies /\ buffer' = Got(n)
  BY DEF Recv, Got
<1>5. /\ Got(n) \in Seq(Piece) /\ Len(Got(n)) = Len(buffer) + n
      /\ \A i \in 1..Len(Got(n)) : Num(Got(n)[i]) = Used + i
      /\ inflow' \in Seq(Piece) /\ Len(inflow') = Len(inflow) - n
      /\ \A i \in 1..Len(inflow') : Num(inflow'[i]) = Used + Len(Got(n)) + i
  BY <1>1, Received
<1>6. Len(inflow) \in Nat /\ Len(buffer) \in Nat /\ Used \in Nat /\ served \in Nat
  BY Lengths DEF SocketInv, Used, Types, Numbered
<1>7. CASE replies' = Append(replies, Parsed(Got(n))) /\ buffer' = <<>>
  <2>1. Len(buffer') = 0
    BY <1>7
  <2>2. Used' = Used + Len(Got(n)) /\ Used' \in Nat
    BY <1>2, <1>5, <1>6, <2>1 DEF Used
  <2>3. Numbered'
    BY <1>2, <1>5, <1>6, <2>1, <2>2 DEF Numbered
  <2>4. Parsed(Got(n)) # Failed => Len(Got(n)) = 2 /\ Parsed(Got(n)) \in Nat /\ 2 * Parsed(Got(n)) = Used + 2
    BY <1>5, <1>6, ParsedPair
  <2>5. Parsed(Got(n)) \in Nat
    BY <2>4 DEF Failed
  <2>6. Types'
    BY <1>2, <1>5, <1>7, <2>5, EmptySeq, AppendProperties DEF SocketInv, Types
  <2>7. Paired' /\ Complete'
    <3>1. Used' >= Used /\ (Parsed(Got(n)) # Failed => 2 * Parsed(Got(n)) = Used + 2 /\ Used' = Used + 2)
      BY <1>5, <1>6, <2>2, <2>4
    <3>2. returned' = returned /\ strategy' = strategy
      BY <1>2
    <3> QED
      BY <1>3, <1>7, <2>5, <2>6, <3>1, <3>2, OneMore
  <2>8. Mapped'
    BY <1>2, <1>3 DEF SocketInv, Mapped, Shared
  <2> QED
    BY <2>3, <2>6, <2>7, <2>8 DEF SocketInv
<1>8. CASE replies' = replies /\ buffer' = Got(n)
  <2>1. Used' = Used
    <3>1. Len(buffer') = Len(buffer) + n /\ Len(inflow') = Len(inflow) - n /\ served' = served
      BY <1>2, <1>5, <1>8
    <3> QED
      BY <1>6, <3>1 DEF Used
  <2>2. Types' /\ Numbered'
    BY <1>2, <1>5, <1>6, <1>8, <2>1 DEF SocketInv, Types, Numbered
  <2>3. Paired'
    BY <1>2, <1>8, <2>1 DEF SocketInv, Paired, Shared
  <2>4. Complete' /\ Mapped'
    BY <1>2, <1>8 DEF SocketInv, Complete, Mapped, Shared
  <2> QED
    BY <2>2, <2>3, <2>4 DEF SocketInv
<1> QED
  BY <1>4, <1>7, <1>8

LEMMA RecvFailsKeeps == ASSUME SocketAssumption, SocketInv, RecvFails PROVE SocketInv'
<1>1. UNCHANGED <<strategy, reqId, sent, served, inflow, open, ended, responseMap, returned>>
      /\ replies' = Append(replies, Failed) /\ buffer' = <<>> /\ Len(buffer') = 0
  BY DEF RecvFails
<1>2. ~returned /\ Shared /\ Len(replies) < BatchSize
  BY Lengths DEF RecvFails, Awaiting, Current, SocketInv, SocketAssumption
<1>3. Len(inflow) \in Nat /\ Len(buffer) \in Nat /\ Used \in Nat /\ served \in Nat
  BY Lengths DEF SocketInv, Used, Types, Numbered
<1>4. Used' = Used + Len(buffer)
  BY <1>1, <1>3 DEF Used
<1>5. Types'
  BY <1>1, EmptySeq, AppendProperties DEF SocketInv, Types, Failed
<1>6. \A i \in 1..Len(inflow') : Num(inflow'[i]) = Used' + Len(buffer') + i
  BY <1>1, <1>3, <1>4 DEF SocketInv, Numbered
<1>7. Numbered'
  BY <1>1, <1>3, <1>4, <1>6 DEF Numbered
<1>8. Paired' /\ Complete'
  BY <1>1, <1>2, <1>3, <1>4, <1>5, OneMore DEF Failed
<1>9. Mapped'
  BY <1>1, <1>2 DEF SocketInv, Mapped, Shared
<1> QED
  BY <1>5, <1>7, <1>8, <1>9 DEF SocketInv

LEMMA GiveUpKeeps == ASSUME SocketAssumption, SocketInv, FailAll PROVE SocketInv'
<1> DEFINE k == BatchSize - Len(replies)
           rest == [i \in 1..k |-> Failed]
<1>1. UNCHANGED <<strategy, reqId, sent, served, inflow, open, buffer, ended, responseMap>>
      /\ Shared /\ returned' = TRUE /\ replies' = replies \o rest
  BY DEF FailAll, AllFailed
<1>2. k \in Nat /\ Len(replies) \in Nat /\ replies \in Seq(Nat)
  BY Lengths DEF SocketInv, Types, Complete, SocketAssumption
<1>3. rest \in Seq(Nat) /\ Len(rest) = k /\ \A i \in 1..k : rest[i] = Failed
  BY <1>2 DEF Failed
<1> HIDE DEF rest
<1>4. /\ replies' \in Seq(Nat) /\ Len(replies') = Len(replies) + k
      /\ \A i \in 1..(Len(replies) + k) :
            replies'[i] = IF i <= Len(replies) THEN replies[i] ELSE rest[i - Len(replies)]
  <2>1. /\ replies \o rest \in Seq(Nat) /\ Len(replies \o rest) = Len(replies) + Len(rest)
        /\ \A i \in 1..(Len(replies) + Len(rest)) :
              (replies \o rest)[i] = IF i <= Len(replies) THEN replies[i] ELSE rest[i - Len(replies)]
    BY <1>2, <1>3, ConcatProperties
  <2> QED
    BY <1>1, <1>3, <2>1
<1>5. \A r \in 1..Len(replies') : replies'[r] # Failed => r \in 1..Len(replies) /\ replies'[r] = replies[r]
  <2> SUFFICES ASSUME NEW r \in 1..Len(replies'), replies'[r] # Failed
               PROVE  r \in 1..Len(replies) /\ replies'[r] = replies[r]
    OBVIOUS
  <2>1. r \in 1..(Len(replies) + k) /\ r \in Int
    BY <1>4
  <2>2. CASE r <= Len(replies)
    BY <1>2, <1>4, <2>1, <2>2
  <2>3. CASE ~(r <= Len(replies))
    <3>1. r - Len(replies) \in 1..k
      BY <1>2, <2>1, <2>3
    <3>2. replies'[r] = rest[r - Len(replies)]
      BY <1>4, <2>1, <2>3
    <3> QED
      BY <1>3, <3>1, <3>2
  <2> QED
    BY <2>2, <2>3
<1>6. \A r \in 1..Len(replies) : r \in 1..Len(replies') /\ replies'[r] = replies[r]
  BY <1>2, <1>4
<1>7. Types'
  BY <1>1, <1>4 DEF SocketInv, Types
<1>8. Numbered'
  BY <1>1 DEF SocketInv, Numbered, Used
<1>9. Used' = Used /\ Shared' = Shared
  BY <1>1 DEF Used, Shared
<1>10. Complete'
  BY <1>1, <1>2, <1>4 DEF Complete, SocketAssumption
<1>11. Mapped'
  BY <1>1 DEF SocketInv, Mapped, Shared
<1>12. \A r \in 1..Len(replies') : replies'[r] # Failed =>
          2 * replies'[r] <= Used' /\ \A q \in 1..(r - 1) : replies'[q] < replies'[r]
  <2> SUFFICES ASSUME NEW r \in 1..Len(replies'), replies'[r] # Failed
               PROVE  2 * replies'[r] <= Used' /\ \A q \in 1..(r - 1) : replies'[q] < replies'[r]
    OBVIOUS
  <2>1. r \in 1..Len(replies) /\ replies'[r] = replies[r]
    BY <1>5
  <2>2. \A q \in 1..(r - 1) : replies'[q] = replies[q]
    BY <1>2, <1>6, <2>1
  <2> QED
    BY <1>1, <1>9, <2>1, <2>2 DEF SocketInv, Paired
<1>13. \A r \in 1..Len(replies') : (\A q \in 1..r : replies'[q] # Failed) => replies'[r] = r
  <2> SUFFICES ASSUME NEW r \in 1..Len(replies'), \A q \in 1..r : replies'[q] # Failed
               PROVE  replies'[r] = r
    OBVIOUS
  <2>1. r \in 1..Len(replies) /\ replies'[r] = replies[r]
    BY <1>2, <1>4, <1>5
  <2>2. \A q \in 1..r : replies[q] # Failed
    BY <1>2, <1>6, <2>1
  <2> QED
    BY <1>1, <2>1, <2>2 DEF SocketInv, Paired
<1>14. (\A r \in 1..Len(replies') : replies'[r] # Failed) => Used' = 2 * Len(replies')
  <2> SUFFICES ASSUME \A r \in 1..Len(replies') : replies'[r] # Failed
               PROVE  Used' = 2 * Len(replies')
    OBVIOUS
  <2>1. Len(replies') = Len(replies)
    <3>1. SUFFICES ASSUME k > 0 PROVE FALSE
      BY <1>2, <1>4
    <3>2. Len(replies') \in 1..Len(replies')
      BY <1>2, <1>4, <3>1
    <3>3. Len(replies') \in 1..Len(replies)
      BY <1>5, <3>2
    <3> QED
      BY <1>2, <1>4, <3>1, <3>3
  <2>2. \A r \in 1..Len(replies) : replies[r] # Failed
    BY <1>6
  <2> QED
    BY <1>1, <1>9, <2>1, <2>2 DEF SocketInv, Paired
<1>15. Paired'
  BY <1>12, <1>13, <1>14 DEF Paired
<1> QED
  BY <1>7, <1>8, <1>10, <1>11, <1>15 DEF SocketInv

LEMMA EndConcurrentKeeps == ASSUME SocketAssumption, SocketInv, NEW r \in Places, EndConcurrent(r) PROVE SocketInv'
<1>1. PICK reply \in {r, Failed} : responseMap' = [responseMap EXCEPT ![reqId[r]] = reply]
  BY DEF EndConcurrent
<1>2. UNCHANGED <<strategy, reqId, sent, served, inflow, open, buffer, replies, returned>>
  BY DEF EndConcurrent
<1>3. reply \in Nat /\ reqId[r] \in RequestIds
  BY DEF SocketInv, Types, Places, Failed, SocketAssumption
<1>4. Mapped'
  <2>1. responseMap' \in [RequestIds -> Nat]
    BY <1>1, <1>3 DEF SocketInv, Mapped
  <2>2. \A i \in RequestIds : responseMap'[i] # Failed =>
           responseMap'[i] \in Places /\ reqId[responseMap'[i]] = i
    BY <1>1, <1>3 DEF SocketInv, Mapped
  <2> QED
    BY <1>2, <2>1, <2>2 DEF SocketInv, Mapped, Shared
<1>5. Types' /\ Numbered'
  BY <1>2 DEF SocketInv, Types, Numbered, Used
<1>6. Paired' /\ Complete'
  BY <1>2 DEF SocketInv, Paired, Complete, Used, Shared
<1> QED
  BY <1>4, <1>5, <1>6 DEF SocketInv

LEMMA CollectKeeps == ASSUME SocketAssumption, SocketInv, Collect PROVE SocketInv'
<1>1. /\ strategy = "concurrent" /\ returned' = TRUE
      /\ replies' = [r \in 1..BatchSize |-> responseMap[reqId[r]]]
      /\ UNCHANGED <<strategy, reqId, sent, served, inflow, open, buffer, ended, responseMap>>
  BY DEF Collect, Places
<1>2. \A r \in 1..BatchSize : reqId[r] \in RequestIds /\ responseMap[reqId[r]] \in Nat
  BY DEF SocketInv, Types, Mapped, Places
<1>3. replies' \in Seq(Nat) /\ Len(replies') = BatchSize
  BY <1>1, <1>2 DEF SocketAssumption
<1>4. \A r \in 1..BatchSize : replies'[r] # Failed => replies'[r] \in Places /\ reqId[replies'[r]] = reqId[r]
  BY <1>1, <1>2 DEF SocketInv, Mapped
<1>5. Types' /\ Numbered'
  BY <1>1, <1>3 DEF SocketInv, Types, Numbered, Used
<1>6. Paired'
  BY <1>1 DEF Paired, Shared
<1>7. Complete'
  BY <1>3 DEF Complete, SocketAssumption
<1>8. Mapped'
  BY <1>1, <1>3, <1>4 DEF SocketInv, Mapped, Places
<1> QED
  BY <1>5, <1>6, <1>7, <1>8 DEF SocketInv

LEMMA FinishKeeps == ASSUME SocketAssumption, SocketInv, FinishBatch PROVE SocketInv'
<1>1. /\ UNCHANGED <<strategy, reqId, sent, served, inflow, buffer, replies, responseMap>>
      /\ Len(replies) = BatchSize
  BY DEF FinishBatch
<1>2. Types' /\ Numbered'
  BY <1>1 DEF SocketInv, Types, Numbered, Used
<1>3. Paired' /\ Complete' /\ Mapped'
  BY <1>1 DEF SocketInv, Paired, Complete, Mapped, Used, Shared, SocketAssumption
<1> QED
  BY <1>2, <1>3 DEF SocketInv

LEMMA BatchSteps == ASSUME SocketAssumption PROVE SocketInv /\ [BatchNext]_batchVars => SocketInv'
<1> SUFFICES ASSUME SocketInv, [BatchNext]_batchVars PROVE SocketInv'
  OBVIOUS
<1>1. CASE FailAll \/ RecvFails \/ Collect \/ FinishBatch \/ Answer
  BY <1>1, GiveUpKeeps, RecvFailsKeeps, CollectKeeps, FinishKeeps, AnswerKeeps
<1>2. CASE \E n \in 1..Len(inflow) : Recv(n)
  BY <1>2, RecvKeeps
<1>3. CASE \E r \in Places : EndConcurrent(r)
  BY <1>3, EndConcurrentKeeps
<1>4. CASE Send
  BY <1>4, NothingMoves DEF Send, SocketInv, Types
<1>5. CASE Close \/ UNCHANGED batchVars
  BY <1>5, NothingMoves DEF Close, batchVars, SocketInv, Types
<1> QED
  BY <1>1, <1>2, <1>3, <1>4, <1>5 DEF BatchNext

-----------------------------------------------------------------------------
(* The theorem. *)

\* The three ways to execute a batch, for any number of requests: a response is that
\* of its request unless one before it failed, no answer is given twice or overtaken,
\* and a batch returns one response for each of its requests.
THEOREM BatchRepliesPaired == BatchSpec => []RepliesPaired
<1>1. BatchInit => SocketInv
  BY BatchStarts, SocketAssumption
<1>2. SocketInv /\ [BatchNext]_batchVars => SocketInv'
  BY BatchSteps, SocketAssumption
<1>3. SocketInv => RepliesPaired
  <2> SUFFICES ASSUME SocketInv PROVE RepliesPaired
    OBVIOUS
  <2>1. DOMAIN replies = 1..Len(replies) /\ Len(replies) \in Nat
    BY Lengths DEF SocketInv
  <2>2. ASSUME Shared, NEW r \in DOMAIN replies, replies[r] # Failed
        PROVE  /\ replies[r] # r => \E q \in 1..(r - 1) : replies[q] = Failed
               /\ \A q \in 1..(r - 1) : replies[q] < replies[r]
    <3>1. (\A q \in 1..r : replies[q] # Failed) => replies[r] = r
      BY <2>1, <2>2 DEF SocketInv, Paired
    <3>2. replies[r] # r => \E q \in 1..(r - 1) : replies[q] = Failed
      BY <2>1, <2>2, <3>1
    <3>3. \A q \in 1..(r - 1) : replies[q] < replies[r]
      BY <2>1, <2>2 DEF SocketInv, Paired
    <3> QED
      BY <3>2, <3>3
  <2>3. strategy = "concurrent" =>
           \A r \in DOMAIN replies : replies[r] # Failed => reqId[replies[r]] = reqId[r]
    BY <2>1 DEF SocketInv, Mapped, Shared
  <2> QED
    BY <2>2, <2>3 DEF SocketInv, Complete, RepliesPaired
<1> QED
  BY <1>1, <1>2, <1>3, PTL DEF BatchSpec

-----------------------------------------------------------------------------
(* What chunks are together.                                                *)

Joins(f, w, m) == f = [n \in 0..m |-> IF n = 0 THEN <<>> ELSE f[n - 1] \o w[n].data]

LEMMA JoinsExist ==
    ASSUME NEW w, NEW m \in Nat
    PROVE  \E f : Joins(f, w, m)
<1> DEFINE T == {k \in Nat : \E f : Joins(f, w, k)}
<1>1. 0 \in T
  <2>1. Joins([n \in 0..0 |-> <<>>], w, 0)
    BY DEF Joins
  <2>2. QED BY <2>1
<1>2. ASSUME NEW k \in Nat, k \in T PROVE k + 1 \in T
  <2>1. PICK f : Joins(f, w, k)
    BY <1>2
  <2> DEFINE G(h, n) == IF n = 0 THEN <<>> ELSE h[n - 1] \o w[n].data
             g == [n \in 0..(k + 1) |-> IF n = k + 1 THEN G(f, n) ELSE f[n]]
  <2>2. \A n \in 0..k : f[n] = G(f, n)
    BY <2>1 DEF Joins
  <2>3. ASSUME NEW n \in 0..(k + 1) PROVE g[n] = G(g, n)
    <3>1. n = k + 1 \/ n \in 0..k
      OBVIOUS
    <3>2. n # 0 => n - 1 \in 0..k /\ n - 1 # k + 1
      BY <3>1
    <3>3. n # 0 => g[n - 1] = f[n - 1]
      BY <3>2
    <3>4. g[n] = G(f, n)
      BY <2>2, <3>1
    <3>5. QED BY <3>3, <3>4
  <2>4. g = [n \in 0..(k + 1) |-> G(g, n)]
    BY <2>3
  <2> HIDE DEF g
  <2>5. Joins(g, w, k + 1)
    BY <2>4 DEF Joins
  <2>6. QED BY <2>5
<1> HIDE DEF T
<1>3. m \in T
  BY <1>1, <1>2, NatSteps
<1>4. QED BY <1>3 DEF T

LEMMA JoinedJoins ==
    ASSUME NEW S, NEW w \in Seq(S)
    PROVE  \E f : Joins(f, w, Len(w)) /\ Joined(w) = f[Len(w)]
<1>1. Len(w) \in Nat
  BY LenProperties
<1>2. \E f : Joins(f, w, Len(w))
  BY <1>1, JoinsExist
<1>3. QED BY <1>2, Zenon DEF Joined, Joins

LEMMA JoinedStep ==
    ASSUME NEW S, NEW w \in Seq(S), NEW c \in S
    PROVE  Joined(<<>>) = <<>> /\ Joined(Append(w, c)) = Joined(w) \o c.data
<1>1. Joined(<<>>) = <<>>
  <2>1. <<>> \in Seq(S) /\ Len(<<>>) = 0
    BY EmptySeq
  <2>2. PICK f : Joins(f, <<>>, Len(<<>>)) /\ Joined(<<>>) = f[Len(<<>>)]
    BY <2>1, JoinedJoins
  <2>3. QED BY <2>1, <2>2 DEF Joins
<1> DEFINE a == Append(w, c)
<1>2. a \in Seq(S) /\ Len(a) = Len(w) + 1 /\ Len(w) \in Nat /\ a[Len(w) + 1] = c
        /\ \A k \in 1..Len(w) : a[k] = w[k]
  BY AppendProperties, LenProperties
<1> HIDE DEF a
<1>3. PICK f : Joins(f, w, Len(w)) /\ Joined(w) = f[Len(w)]
  BY JoinedJoins
<1>4. PICK g : Joins(g, a, Len(a)) /\ Joined(a) = g[Len(a)]
  BY <1>2, JoinedJoins
<1>5. \A n \in 0..Len(w) : f[n] = IF n = 0 THEN <<>> ELSE f[n - 1] \o w[n].data
  BY <1>3 DEF Joins
<1>6. \A n \in 0..Len(a) : g[n] = IF n = 0 THEN <<>> ELSE g[n - 1] \o a[n].data
  BY <1>4 DEF Joins
<1> DEFINE T == {n \in Nat : n <= Len(w) => g[n] = f[n]}
<1>7. 0 \in T
  BY <1>2, <1>5, <1>6
<1>8. ASSUME NEW n \in Nat, n \in T PROVE n + 1 \in T
  <2>1. SUFFICES ASSUME n + 1 <= Len(w) PROVE g[n + 1] = f[n + 1]
    BY DEF T
  <2>2. g[n] = f[n] /\ n + 1 \in 1..Len(w) /\ n + 1 \in 0..Len(w) /\ n + 1 \in 0..Len(a)
          /\ (n + 1) - 1 = n /\ n + 1 # 0
    BY <1>2, <1>8, <2>1
  <2>3. a[n + 1] = w[n + 1]
    BY <1>2, <2>2
  <2>4. f[n + 1] = f[n] \o w[n + 1].data /\ g[n + 1] = g[n] \o a[n + 1].data
    BY <1>5, <1>6, <2>2
  <2>5. QED BY <2>2, <2>3, <2>4
<1> HIDE DEF T
<1>9. Len(w) \in T
  BY <1>2, <1>7, <1>8, NatSteps
<1>10. g[Len(w)] = f[Len(w)]
  BY <1>2, <1>9 DEF T
<1>11. g[Len(w) + 1] = g[Len(w)] \o c.data
  <2>1. Len(w) + 1 \in 0..Len(a) /\ Len(w) + 1 # 0 /\ (Len(w) + 1) - 1 = Len(w)
    BY <1>2
  <2>2. QED BY <1>2, <1>6, <2>1
<1>12. QED BY <1>1, <1>2, <1>3, <1>4, <1>10, <1>11 DEF a

-----------------------------------------------------------------------------
(* Streaming                                                                *)

Values == Bytes \cup UNION {ToSet(c) : c \in Contents}
Pieces == [off : Int, size : Nat, data : Seq(Values) \cup SUBSET Int, last : BOOLEAN]
Slice(f, from, n) == SubSeq(f, from + 1, from + n)

StreamTyped ==
    /\ generator \in {"read", "search", "hash"} /\ chunk \in Nat \ {0} /\ overlap \in Nat
    /\ file \in Seq(Values) /\ fileSize = Len(file)
    /\ pos \in Int /\ pos <= fileSize /\ yielded \in Seq(Pieces)

\* A read: the chunks are consecutive, together what lies before the position, and
\* the last of them is marked when the position has come to the end.
ReadSound(f, p, ys, kept, end) ==
    /\ p >= 0
    /\ Len(ys) > 0 => p = ys[Len(ys)].off + ys[Len(ys)].size
    /\ \A i \in 2..Len(ys) : ys[i].off = ys[i - 1].off + ys[i - 1].size
    /\ kept => /\ Joined(ys) = SubSeq(f, 1, p)
               /\ \A i \in 1..Len(ys) : ys[i].last <=> i = Len(ys) /\ p = Len(f)
    /\ (\A i \in 1..Len(ys) : ys[i].size # 0) => Len(ys) <= p
    /\ end = "done" => p = Len(f)

\* A hash: likewise, of equal regions.
HashSound(f, p, ys, kept, end) ==
    /\ p >= 0 /\ Len(ys) <= p
    /\ kept => Joined(ys) = SubSeq(f, 1, p)
    /\ end = "done" => p = Len(f)

\* A search has found whatever begins before the position, or is over; it moves on in
\* every round if the chunks exceed their overlap.
MatchesIn(ys) == UNION {ys[i].data : i \in DOMAIN ys}
AllIn(f) == {o \in 0..Len(f) : o + Len(Sought) <= Len(f) /\ Slice(f, o, Len(Sought)) = Sought}
FoundIn(f, from, n) ==
    {o \in from..(from + n - Len(Sought)) :
        o >= 0 /\ o + Len(Sought) <= Len(f) /\ Slice(f, o, Len(Sought)) = Sought}
SearchSound(f, p, ys, kept, end) ==
    /\ kept => MatchesIn(ys) \subseteq AllIn(f)
    /\ kept /\ Len(Sought) <= overlap + 1 =>
          \A o \in AllIn(f) : o < p \/ end = "done" => o \in MatchesIn(ys)
    /\ overlap < chunk => Len(ys) <= Len(f) /\ (end = "ask" => Len(ys) <= p)

StreamInv ==
    /\ StreamTyped
    /\ generator = "read" => ReadSound(file, pos, yielded, whole, loop)
    /\ generator = "hash" => HashSound(file, pos, yielded, whole, loop)
    /\ generator = "search" => SearchSound(file, pos, yielded, whole, loop)

-----------------------------------------------------------------------------

LEMMA StreamStarts == StreamInit => StreamInv
<1> SUFFICES ASSUME StreamInit PROVE StreamInv
  OBVIOUS
<1>1. chunk \in Nat \ {0} /\ overlap \in Nat /\ file \in Seq(Values)
  BY StreamAssumption, SeqMonotonic DEF StreamInit, Values
<1>2. <<>> \in Seq(Pieces) /\ Len(<<>>) = 0 /\ DOMAIN <<>> = {} /\ Len(file) \in Nat
  BY <1>1, EmptySeq, LenProperties
<1>3. StreamTyped
  BY <1>1, <1>2 DEF StreamInit, StreamTyped
<1> DEFINE e == <<>>
<1>4. Joined(e) = <<>>
  <2>1. <<>> \in Seq(Nat) /\ 0 \in Nat
    BY EmptySeq
  <2>2. QED BY <2>1, JoinedStep
<1>5. Joined(e) = SubSeq(file, 1, 0)
  <2>1. SubSeq(file, 1, 0) = <<>>
    BY SubSeqEmpty
  <2>2. QED BY <1>4, <2>1
<1>6. Len(e) = 0 /\ MatchesIn(e) = {}
  BY <1>2 DEF MatchesIn
<1>7. pos = 0 /\ yielded = e /\ loop = "ask"
  BY DEF StreamInit
<1> HIDE DEF e
<1>8. ReadSound(file, 0, e, whole, "ask")
  BY <1>5, <1>6 DEF ReadSound
<1>9. HashSound(file, 0, e, whole, "ask")
  BY <1>5, <1>6 DEF HashSound
<1>10. SearchSound(file, 0, e, whole, "ask")
  BY <1>2, <1>6 DEF SearchSound, AllIn
<1>11. QED BY <1>3, <1>7, <1>8, <1>9, <1>10 DEF StreamInv

\* How much is asked for.
LEMMA AskedFor ==
    ASSUME StreamTyped, pos < fileSize
    PROVE  /\ AtMost(chunk, fileSize - pos) \in Nat /\ AtMost(chunk, fileSize - pos) >= 1
           /\ pos + AtMost(chunk, fileSize - pos) <= fileSize
           /\ AtMost(chunk, fileSize - pos) <= chunk
           /\ AtMost(chunk, fileSize - pos) < chunk => pos + AtMost(chunk, fileSize - pos) = fileSize
           /\ fileSize \in Nat
<1>1. chunk \in Nat /\ chunk >= 1 /\ fileSize \in Nat /\ pos \in Int
  BY LenProperties DEF StreamTyped
<1>2. QED BY <1>1 DEF AtMost

\* The chunks so far and the next one are what lies before its end.
LEMMA JoinedOn ==
    ASSUME NEW f \in Seq(Values), NEW ys \in Seq(Pieces), NEW c \in Pieces, NEW p \in Nat, NEW n \in Nat,
           p + n <= Len(f), c.data = Slice(f, p, n), Joined(ys) = SubSeq(f, 1, p)
    PROVE  Joined(Append(ys, c)) = SubSeq(f, 1, p + n)
<1>1. Joined(Append(ys, c)) = SubSeq(f, 1, p) \o SubSeq(f, p + 1, p + n)
  BY JoinedStep DEF Slice
<1>2. Len(f) \in Nat
  BY LenProperties
<1>3. 1 \in 1..(Len(f) + 1) /\ p \in (1 - 1)..Len(f) /\ p + n \in p..Len(f)
  BY <1>2
<1>4. QED BY <1>1, <1>3, ConcatAdjacentSubSeq

LEMMA SliceTyped ==
    ASSUME NEW f \in Seq(Values), NEW p \in Nat, NEW n \in Nat, p + n <= Len(f)
    PROVE  Slice(f, p, n) \in Seq(Values)
<1>1. \A i \in (p + 1)..(p + n) : f[i] \in Values
  BY LenProperties, ElementOfSeq
<1>2. QED BY <1>1, SubSeqProperties DEF Slice

LEMMA ReadKeepsStream ==
    ASSUME StreamInv, NEW n \in 0..chunk, ReadChunk(n)
    PROVE  StreamInv'
<1> DEFINE size == AtMost(chunk, fileSize - pos)
           final == fileSize - pos <= size
           c == [off |-> pos, size |-> n, data |-> Slice(file, pos, n), last |-> final]
           ys == Append(yielded, c)
           p == pos + n
           kept == whole /\ n = size
<1>1. /\ generator = "read" /\ loop = "ask" /\ pos < fileSize /\ n \in 0..size /\ p <= Len(file)
      /\ yielded' = ys /\ pos' = p /\ whole' = kept
      /\ UNCHANGED <<generator, chunk, overlap, file, fileSize, loop>>
  BY DEF ReadChunk, Yield, Part, Slice
<1>2. StreamTyped /\ ReadSound(file, pos, yielded, whole, "ask")
  BY <1>1 DEF StreamInv
<1>3. /\ size \in Nat /\ size >= 1 /\ pos + size <= fileSize /\ fileSize \in Nat /\ fileSize = Len(file)
      /\ pos \in Nat /\ n \in Nat /\ file \in Seq(Values) /\ yielded \in Seq(Pieces)
  <2>1. size \in Nat /\ size >= 1 /\ pos + size <= fileSize /\ fileSize \in Nat
    BY <1>1, <1>2, AskedFor
  <2>2. pos \in Int /\ pos >= 0 /\ fileSize = Len(file) /\ file \in Seq(Values) /\ yielded \in Seq(Pieces)
    BY <1>2 DEF ReadSound, StreamTyped
  <2> HIDE DEF size
  <2>3. QED BY <1>1, <2>1, <2>2
<1> HIDE DEF size
<1>4. c \in Pieces /\ c.off = pos /\ c.size = n /\ c.data = Slice(file, pos, n) /\ c.last = final
  BY <1>1, <1>3, SliceTyped DEF Pieces
<1> HIDE DEF c
<1>5. /\ ys \in Seq(Pieces) /\ Len(ys) = Len(yielded) + 1 /\ Len(yielded) \in Nat
      /\ ys[Len(yielded) + 1] = c /\ \A i \in 1..Len(yielded) : ys[i] = yielded[i]
  BY <1>3, <1>4, AppendProperties, LenProperties
<1>6. ASSUME kept PROVE Joined(ys) = SubSeq(file, 1, p)
  BY <1>1, <1>2, <1>3, <1>4, <1>6, JoinedOn DEF ReadSound
<1>7. p \in Nat /\ p >= 0 /\ p <= fileSize
  BY <1>1, <1>3
<1> HIDE DEF ys
<1>8. ASSUME kept PROVE \A i \in 1..Len(ys) : ys[i].last <=> i = Len(ys) /\ p = Len(file)
  <2>1. SUFFICES ASSUME NEW i \in 1..Len(ys) PROVE ys[i].last <=> i = Len(ys) /\ p = Len(file)
    OBVIOUS
  <2>2. CASE i = Len(ys)
    <3>1. ys[i] = c
      BY <1>5, <2>2
    <3>2. final <=> p = Len(file)
      BY <1>3, <1>8
    <3>3. QED BY <1>4, <2>2, <3>1, <3>2
  <2>3. CASE i # Len(ys)
    <3>1. i \in 1..Len(yielded) /\ ys[i] = yielded[i]
      BY <1>5, <2>1, <2>3
    <3>2. pos # Len(file)
      BY <1>1, <1>3
    <3>3. ~yielded[i].last
      BY <1>2, <1>8, <3>1, <3>2 DEF ReadSound
    <3>4. QED BY <2>3, <3>1, <3>3
  <2>4. QED BY <2>2, <2>3
<1>9. \A i \in 2..Len(ys) : ys[i].off = ys[i - 1].off + ys[i - 1].size
  <2>1. SUFFICES ASSUME NEW i \in 2..Len(ys) PROVE ys[i].off = ys[i - 1].off + ys[i - 1].size
    OBVIOUS
  <2>2. i - 1 \in 1..Len(yielded) /\ ys[i - 1] = yielded[i - 1]
    BY <1>5
  <2>3. CASE i = Len(ys)
    <3>1. ys[i] = c /\ i - 1 = Len(yielded) /\ Len(yielded) > 0
      BY <1>5, <2>3
    <3>2. QED BY <1>2, <1>4, <2>2, <3>1 DEF ReadSound
  <2>4. CASE i # Len(ys)
    <3>1. i \in 2..Len(yielded) /\ ys[i] = yielded[i]
      BY <1>5, <2>4
    <3>2. QED BY <1>2, <2>2, <3>1 DEF ReadSound
  <2>5. QED BY <2>3, <2>4
<1>10. ASSUME \A i \in 1..Len(ys) : ys[i].size # 0 PROVE Len(ys) <= p
  <2>1. \A i \in 1..Len(yielded) : yielded[i].size # 0
    BY <1>5, <1>10
  <2>2. Len(yielded) <= pos
    BY <1>2, <2>1 DEF ReadSound
  <2>3. Len(ys) \in 1..Len(ys) /\ ys[Len(ys)] = c
    BY <1>5
  <2>4. n # 0
    BY <1>4, <1>10, <2>3
  <2>5. QED BY <1>3, <1>5, <2>2, <2>4
<1>11. p = ys[Len(ys)].off + ys[Len(ys)].size
  BY <1>4, <1>5
<1>12. ReadSound(file, p, ys, kept, "ask")
  BY <1>6, <1>7, <1>8, <1>9, <1>10, <1>11 DEF ReadSound
<1>13. StreamTyped'
  BY <1>1, <1>2, <1>5, <1>7 DEF StreamTyped
<1> HIDE DEF p, kept
<1>14. QED BY <1>1, <1>12, <1>13 DEF StreamInv

LEMMA HashKeepsStream ==
    ASSUME StreamInv, NEW ok \in BOOLEAN, HashChunk(ok)
    PROVE  StreamInv'
<1> DEFINE size == AtMost(chunk, fileSize - pos)
           c == [off |-> pos, size |-> size, data |-> Slice(file, pos, size), last |-> FALSE]
           ys == IF ok THEN Append(yielded, c) ELSE yielded
           p == pos + size
           kept == whole /\ ok
<1>1. /\ generator = "hash" /\ loop = "ask" /\ pos < fileSize
      /\ yielded' = ys /\ pos' = p /\ whole' = kept
      /\ UNCHANGED <<generator, chunk, overlap, file, fileSize, loop>>
  BY DEF HashChunk, Yield, Part, Slice
<1>2. StreamTyped /\ HashSound(file, pos, yielded, whole, "ask")
  BY <1>1 DEF StreamInv
<1>3. /\ size \in Nat /\ size >= 1 /\ pos + size <= fileSize /\ fileSize \in Nat /\ fileSize = Len(file)
      /\ pos \in Nat /\ file \in Seq(Values) /\ yielded \in Seq(Pieces)
  <2>1. size \in Nat /\ size >= 1 /\ pos + size <= fileSize /\ fileSize \in Nat
    BY <1>1, <1>2, AskedFor
  <2>2. pos \in Int /\ pos >= 0 /\ fileSize = Len(file) /\ file \in Seq(Values) /\ yielded \in Seq(Pieces)
    BY <1>2 DEF HashSound, StreamTyped
  <2> HIDE DEF size
  <2>3. QED BY <1>1, <2>1, <2>2
<1> HIDE DEF size
<1>4. c \in Pieces /\ c.data = Slice(file, pos, size)
  BY <1>3, SliceTyped DEF Pieces
<1> HIDE DEF c
<1>5. ys \in Seq(Pieces) /\ Len(ys) <= Len(yielded) + 1 /\ Len(yielded) \in Nat /\ Len(ys) \in Nat
  BY <1>3, <1>4, AppendProperties, LenProperties
<1>6. ASSUME kept PROVE Joined(ys) = SubSeq(file, 1, p)
  <2>1. ys = Append(yielded, c)
    BY <1>6
  <2>2. Joined(yielded) = SubSeq(file, 1, pos)
    BY <1>2, <1>6 DEF HashSound
  <2>3. QED BY <1>3, <1>4, <2>1, <2>2, JoinedOn
<1>7. p \in Nat /\ p >= 0 /\ p <= fileSize /\ pos + 1 <= p
  BY <1>1, <1>3
<1> HIDE DEF ys
<1>8. Len(ys) <= p
  BY <1>2, <1>3, <1>5, <1>7 DEF HashSound
<1>9. HashSound(file, p, ys, kept, "ask")
  BY <1>6, <1>7, <1>8 DEF HashSound
<1>10. StreamTyped'
  BY <1>1, <1>2, <1>5, <1>7 DEF StreamTyped
<1> HIDE DEF p, kept
<1>11. QED BY <1>1, <1>9, <1>10 DEF StreamInv

LEMMA SearchKeepsStream ==
    ASSUME StreamInv, NEW ok \in BOOLEAN, SearchChunk(ok)
    PROVE  StreamInv'
<1> DEFINE size == AtMost(chunk, fileSize - pos)
           c == [off |-> pos, size |-> size,
                 data |-> IF ok THEN FoundIn(file, pos, size) ELSE {}, last |-> FALSE]
           ys == Append(yielded, c)
           p == pos + size - overlap
           end == IF p + overlap >= fileSize THEN "done" ELSE "ask"
           kept == whole /\ ok
           L == Len(Sought)
<1>1. /\ generator = "search" /\ loop = "ask" /\ pos < fileSize
      /\ yielded' = ys /\ pos' = p /\ whole' = kept /\ loop' = end
      /\ UNCHANGED <<generator, chunk, overlap, file, fileSize>>
  BY DEF SearchChunk, Yield, Part, Slice, Occurrences, FoundIn
<1>2. StreamTyped /\ SearchSound(file, pos, yielded, whole, "ask")
  BY <1>1 DEF StreamInv
<1>3. /\ size \in Nat /\ size >= 1 /\ pos + size <= fileSize /\ fileSize \in Nat /\ fileSize = Len(file)
      /\ size <= chunk /\ (size < chunk => pos + size = fileSize)
      /\ pos \in Int /\ file \in Seq(Values) /\ yielded \in Seq(Pieces)
      /\ chunk \in Nat /\ overlap \in Nat /\ L \in Nat /\ L >= 1
  BY <1>1, <1>2, AskedFor, StreamAssumption DEF StreamTyped
<1> HIDE DEF size, L
<1>4. c \in Pieces /\ c.data = IF ok THEN FoundIn(file, pos, size) ELSE {}
  <2>1. FoundIn(file, pos, size) \subseteq Int
    BY <1>3 DEF FoundIn, L
  <2>2. QED BY <1>3, <2>1 DEF Pieces
<1> HIDE DEF c
<1>5. /\ ys \in Seq(Pieces) /\ Len(ys) = Len(yielded) + 1 /\ Len(yielded) \in Nat
      /\ ys[Len(yielded) + 1] = c /\ \A i \in 1..Len(yielded) : ys[i] = yielded[i]
      /\ DOMAIN ys = 1..Len(ys) /\ DOMAIN yielded = 1..Len(yielded)
  BY <1>3, <1>4, AppendProperties, LenProperties
<1> HIDE DEF ys
<1>6. MatchesIn(ys) = MatchesIn(yielded) \cup c.data
  <2>1. ASSUME NEW x \in MatchesIn(ys) PROVE x \in MatchesIn(yielded) \cup c.data
    <3>1. PICK i \in 1..Len(ys) : x \in ys[i].data
      BY <1>5, <2>1 DEF MatchesIn
    <3>2. CASE i = Len(yielded) + 1
      BY <1>5, <3>1, <3>2
    <3>3. CASE i # Len(yielded) + 1
      <4>1. i \in DOMAIN yielded /\ x \in yielded[i].data
        BY <1>5, <3>1, <3>3
      <4>2. QED BY <4>1 DEF MatchesIn
    <3>4. QED BY <3>2, <3>3
  <2>2. ASSUME NEW x \in MatchesIn(yielded) PROVE x \in MatchesIn(ys)
    <3>1. PICK i \in DOMAIN yielded : x \in yielded[i].data
      BY <2>2 DEF MatchesIn
    <3>2. i \in DOMAIN ys /\ x \in ys[i].data
      BY <1>5, <3>1
    <3>3. QED BY <3>2 DEF MatchesIn
  <2>3. ASSUME NEW x \in c.data PROVE x \in MatchesIn(ys)
    <3>1. Len(yielded) + 1 \in DOMAIN ys /\ x \in ys[Len(yielded) + 1].data
      BY <1>5, <2>3
    <3>2. QED BY <3>1 DEF MatchesIn
  <2>4. QED BY <2>1, <2>2, <2>3
<1>7. p \in Int /\ p <= fileSize /\ p + overlap = pos + size
  BY <1>3
<1>8. ASSUME kept PROVE MatchesIn(ys) \subseteq AllIn(file)
  <2>1. FoundIn(file, pos, size) \subseteq AllIn(file)
    BY <1>3 DEF FoundIn, AllIn, L
  <2>2. MatchesIn(yielded) \subseteq AllIn(file)
    BY <1>2, <1>8 DEF SearchSound
  <2>3. QED BY <1>4, <1>6, <2>1, <2>2
<1>9. ASSUME kept, L <= overlap + 1, NEW o \in AllIn(file), o < p \/ end = "done"
      PROVE  o \in MatchesIn(ys)
  <2>1. o \in Nat /\ o + L <= fileSize /\ Slice(file, o, L) = Sought
    BY <1>3, <1>9 DEF AllIn, L
  <2>2. CASE o < pos
    BY <1>2, <1>6, <1>9, <2>2 DEF SearchSound, L
  <2>3. CASE o >= pos
    <3>1. o + L <= pos + size
      <4>1. CASE end = "done"
        <5>1. p + overlap >= fileSize
          BY <4>1
        <5>2. QED BY <1>3, <1>7, <2>1, <5>1
      <4>2. CASE o < p
        BY <1>3, <1>7, <1>9, <2>1, <4>2
      <4>3. QED BY <1>9, <4>1, <4>2
    <3>2. o \in pos..(pos + size - L)
      BY <1>3, <2>1, <2>3, <3>1
    <3>3. o \in FoundIn(file, pos, size)
      BY <1>3, <2>1, <3>2 DEF FoundIn, L
    <3>4. QED BY <1>4, <1>6, <1>9, <3>3
  <2>4. QED BY <1>3, <2>1, <2>2, <2>3
<1>10. ASSUME overlap < chunk PROVE Len(ys) <= Len(file) /\ (end = "ask" => Len(ys) <= p)
  <2>1. Len(yielded) <= pos
    BY <1>2, <1>10 DEF SearchSound
  <2>2. Len(ys) <= Len(file)
    BY <1>1, <1>3, <1>5, <2>1
  <2>3. ASSUME end = "ask" PROVE Len(ys) <= p
    <3>1. pos + size < fileSize
      BY <1>3, <1>7, <2>3
    <3>2. size = chunk
      BY <1>3, <3>1
    <3>3. QED BY <1>3, <1>5, <1>7, <1>10, <2>1, <3>2
  <2>4. QED BY <2>2, <2>3
<1> HIDE DEF p, end, kept
<1>11. SearchSound(file, p, ys, kept, end)
  BY <1>8, <1>9, <1>10 DEF SearchSound, L
<1>12. StreamTyped'
  BY <1>1, <1>2, <1>5, <1>7 DEF StreamTyped
<1>13. QED BY <1>1, <1>11, <1>12 DEF StreamInv, SearchSound

LEMMA FailKeepsStream ==
    ASSUME StreamInv, ReadFails
    PROVE  StreamInv'
BY DEF StreamInv, ReadFails, StreamTyped, ReadSound

LEMMA EndKeepsStream ==
    ASSUME StreamInv, EndStream
    PROVE  StreamInv'
<1>1. /\ loop = "ask" /\ pos >= fileSize /\ loop' = "done"
      /\ UNCHANGED <<generator, chunk, overlap, file, fileSize, pos, yielded, whole>>
  BY DEF EndStream
<1>2. StreamTyped /\ StreamTyped'
  BY <1>1 DEF StreamInv, StreamTyped
<1>3. pos = Len(file) /\ Len(file) \in Nat
  BY <1>1, <1>2, LenProperties DEF StreamTyped
<1>4. ASSUME generator = "read" PROVE ReadSound(file, pos, yielded, whole, "done")
  BY <1>1, <1>3, <1>4 DEF StreamInv, ReadSound
<1>5. ASSUME generator = "hash" PROVE HashSound(file, pos, yielded, whole, "done")
  BY <1>1, <1>3, <1>5 DEF StreamInv, HashSound
<1>6. ASSUME generator = "search" PROVE SearchSound(file, pos, yielded, whole, "done")
  <2>1. SearchSound(file, pos, yielded, whole, "ask")
    BY <1>1, <1>6 DEF StreamInv
  <2>2. \A o \in AllIn(file) : o < pos
    BY <1>3, StreamAssumption DEF AllIn
  <2>3. QED BY <2>1, <2>2 DEF SearchSound
<1>7. QED BY <1>1, <1>2, <1>4, <1>5, <1>6 DEF StreamInv, SearchSound

LEMMA OverwriteKeepsStream ==
    ASSUME StreamInv, Overwrite
    PROVE  StreamInv'
<1>1. /\ whole' = FALSE /\ loop = "ask"
      /\ UNCHANGED <<generator, chunk, overlap, fileSize, pos, yielded, loop>>
  BY DEF Overwrite
<1>2. StreamTyped
  BY DEF StreamInv
<1>3. PICK i \in DOMAIN file, b \in Bytes : file' = [file EXCEPT ![i] = b]
  BY DEF Overwrite
<1>4. file' \in Seq(Values) /\ Len(file') = Len(file)
  <2>1. b \in Values /\ file \in Seq(Values)
    BY <1>2 DEF StreamTyped, Values
  <2>2. QED BY <1>3, <2>1, ExceptSeq
<1>5. StreamTyped'
  BY <1>1, <1>2, <1>4 DEF StreamTyped
<1>6. ASSUME generator = "read" PROVE ReadSound(file', pos, yielded, FALSE, loop)
  BY <1>1, <1>4, <1>6 DEF StreamInv, ReadSound
<1>7. ASSUME generator = "hash" PROVE HashSound(file', pos, yielded, FALSE, loop)
  BY <1>1, <1>4, <1>7 DEF StreamInv, HashSound
<1>8. ASSUME generator = "search" PROVE SearchSound(file', pos, yielded, FALSE, loop)
  BY <1>1, <1>4, <1>8 DEF StreamInv, SearchSound
<1>9. QED BY <1>1, <1>5, <1>6, <1>7, <1>8 DEF StreamInv, SearchSound

LEMMA StreamSteps == StreamInv /\ [StreamNext]_streamVars => StreamInv'
<1> SUFFICES ASSUME StreamInv, [StreamNext]_streamVars PROVE StreamInv'
  OBVIOUS
<1>1. CASE UNCHANGED streamVars
  BY <1>1 DEF streamVars, StreamInv, StreamTyped, SearchSound
<1>2. ASSUME NEW n \in 0..chunk, ReadChunk(n) PROVE StreamInv'
  BY <1>2, ReadKeepsStream
<1>3. ASSUME NEW ok \in BOOLEAN, SearchChunk(ok) \/ HashChunk(ok) PROVE StreamInv'
  BY <1>3, SearchKeepsStream, HashKeepsStream
<1>4. QED
  BY <1>1, <1>2, <1>3, FailKeepsStream, EndKeepsStream, OverwriteKeepsStream, Zenon DEF StreamNext

\* Whatever the file, the sizes and the answers, the chunks are consecutive and
\* together the file, a search with enough overlap finds every occurrence, and
\* the rounds of a generator do not exceed the size of the file unless it moves back.
THEOREM StreamsExact == StreamSpec => []StreamExact
<1>1. StreamInv => StreamExact
  <2> SUFFICES ASSUME StreamInv PROVE StreamExact
    OBVIOUS
  <2>1. /\ StreamTyped /\ DOMAIN yielded = 1..Len(yielded) /\ Len(yielded) \in Nat /\ fileSize = Len(file)
        /\ pos <= fileSize /\ pos \in Int /\ fileSize \in Nat
    BY LenProperties DEF StreamInv, StreamTyped
  <2>2. SubSeq(file, 1, Len(file)) = file
    BY <2>1, SubSeqFull DEF StreamTyped
  <2>3. Matches = MatchesIn(yielded) /\ AllMatches = AllIn(file)
    BY DEF Matches, MatchesIn, AllMatches, AllIn, Part, Slice
  <2>4. CASE generator = "read"
    <3>1. ReadSound(file, pos, yielded, whole, loop)
      BY <2>4 DEF StreamInv
    <3>2. Rounds > fileSize => \E i \in DOMAIN yielded : yielded[i].size = 0
      <4>1. (\A i \in DOMAIN yielded : yielded[i].size # 0) => Len(yielded) <= pos
        BY <2>1, <3>1 DEF ReadSound
      <4>2. Len(yielded) <= pos => ~(Rounds > fileSize)
        BY <2>1 DEF Rounds
      <4>3. QED BY <4>1, <4>2
    <3>3. loop = "done" /\ whole => /\ Joined(yielded) = file
                                    /\ \A i \in DOMAIN yielded : yielded[i].last <=> i = Len(yielded)
      BY <2>1, <2>2, <3>1 DEF ReadSound
    <3>4. \A i \in 2..Rounds : yielded[i].off = yielded[i - 1].off + yielded[i - 1].size
      BY <3>1 DEF ReadSound, Rounds
    <3>5. QED BY <2>4, <3>2, <3>3, <3>4 DEF StreamExact
  <2>5. CASE generator = "hash"
    <3>1. HashSound(file, pos, yielded, whole, loop)
      BY <2>5 DEF StreamInv
    <3>2. Rounds <= fileSize
      BY <2>1, <3>1 DEF HashSound, Rounds
    <3>3. loop = "done" /\ whole => Joined(yielded) = file
      BY <2>1, <2>2, <3>1 DEF HashSound
    <3>4. ~(Rounds > fileSize)
      BY <2>1, <3>2 DEF Rounds
    <3>5. QED BY <2>5, <3>3, <3>4 DEF StreamExact
  <2>6. CASE generator = "search"
    <3>1. SearchSound(file, pos, yielded, whole, loop)
      BY <2>6 DEF StreamInv
    <3>2. Rounds > fileSize => chunk <= overlap
      <4>1. overlap < chunk => Rounds <= fileSize
        <5>1. overlap < chunk => Len(yielded) <= Len(file)
          BY <3>1 DEF SearchSound
        <5>2. QED BY <2>1, <5>1 DEF Rounds
      <4>2. Rounds \in Nat /\ chunk \in Nat /\ overlap \in Nat
        BY <2>1 DEF StreamTyped, Rounds
      <4>3. ASSUME Rounds > fileSize PROVE chunk <= overlap
        <5>1. ~(Rounds <= fileSize)
          BY <2>1, <4>2, <4>3
        <5>2. QED BY <4>1, <4>2, <5>1
      <4>4. QED BY <4>3
    <3>3. loop = "done" /\ whole => (Len(Sought) <= overlap + 1 => Matches = AllMatches)
      BY <2>3, <3>1 DEF SearchSound
    <3>4. QED BY <2>6, <3>2, <3>3 DEF StreamExact
  <2>7. CASE generator \notin {"read", "hash", "search"}
    BY <2>7 DEF StreamInv, StreamTyped
  <2>8. QED BY <2>4, <2>5, <2>6, <2>7
<1>2. QED BY <1>1, StreamStarts, StreamSteps, PTL DEF StreamSpec

=============================================================================
