-------------------------- MODULE AsyncClientProofs --------------------------
(***************************************************************************)
(* Theorems about send_request, for any number of callers, connections and   *)
(* requests.  Until a call is cancelled every call returns the answer to its *)
(* own request, the cache stays keyed, and without the cache a call sees the *)
(* writes that succeeded before it.  The invariant says what a connection    *)
(* can carry: the one request of its reader or the one answer to it, and     *)
(* nothing at all when nobody reads, unless its holder is about to drop it.  *)
(* After a cancellation what is left on the connections is counted.          *)
(***************************************************************************)
EXTENDS AsyncClient, SequenceTheorems, FiniteSetTheorems, TLAPS

Held == {"reading", "release"}
Unanswered == {"calling", "waiting", "reading"}

WireTypes ==
    /\ grant \in [Callers -> Conns \cup {NoConn}]
    /\ pc \in [Callers -> PCs \ {"aborting", "cancelled"}]
    /\ req \in [Callers -> Keys]
    /\ reply \in [Callers -> Answers \cup {NoAnswer}]
    /\ healthy \in [Callers -> BOOLEAN]
    /\ toServer \in [Conns -> Seq(Keys)] /\ toClient \in [Conns -> Seq(Answers)]
    /\ cache \in [Keys -> Answers \cup {NoAnswer}]
    /\ version \in Nat /\ cancels = 0

\* Holding a connection is a matter of pc, and nobody shares one.
Grants ==
    /\ \A p \in Callers : grant[p] # NoConn <=> pc[p] \in Held
    /\ \A p, q \in Callers : p # q /\ grant[p] = grant[q] => grant[p] = NoConn

\* What the connection of a reader carries.
Carries(p, c) ==
    \/ toServer[c] = <<>> /\ toClient[c] = <<>>
    \/ toServer[c] = <<req[p]>> /\ toClient[c] = <<>>
    \/ /\ toServer[c] = <<>>
       /\ Len(toClient[c]) = 1 /\ toClient[c][1].key = req[p]

Busy(p, c) == grant[p] = c /\ (pc[p] = "reading" \/ ~healthy[p])

Wire ==
    /\ \A p \in Callers : pc[p] = "reading" => Carries(p, grant[p])
    /\ \A c \in Conns : (\A p \in Callers : ~Busy(p, c))
                            => toServer[c] = <<>> /\ toClient[c] = <<>>

Replies ==
    /\ \A p \in Callers : reply[p] # NoAnswer => reply[p].key = req[p]
    /\ \A p \in Callers : pc[p] \in Unanswered => reply[p] = NoAnswer
    /\ \A p \in Callers : pc[p] \in {"got", "store"} => reply[p] # NoAnswer

Keyed == \A k \in Keys : cache[k] # NoAnswer => cache[k].key = k

OwnInv == WireTypes /\ Grants /\ Wire /\ Replies /\ Keyed

-----------------------------------------------------------------------------
(* Steps that leave the connections alone.                                  *)

LEMMA InitOwn == ASSUME ClientAssumption, Init PROVE OwnInv
<1>1. WireTypes
  BY EmptySeq DEF Init, Pool!Init, WireTypes, PCs, Rest
<1>2. Grants
  BY DEF Init, Pool!Init, Grants, Held
<1>3. Wire /\ Replies /\ Keyed
  BY DEF Init, Pool!Init, Wire, Busy, Replies, Keyed, Unanswered
<1>4. QED BY <1>1, <1>2, <1>3 DEF OwnInv

\* The retry loop never goes round: the error it sees is not of its classes.
LEMMA NoSecondAttempt ==
    ASSUME NEW p, NEW error, EndAttempt(p, error)
    PROVE  pc' = [pc EXCEPT ![p] = "failed"]
BY DEF EndAttempt, Retryable, Wrapped

LEMMA BeginOwn ==
    ASSUME ClientAssumption, OwnInv, NEW p \in Callers, Begin(p) PROVE OwnInv'
<1> USE DEF OwnInv, Begin, poolVars, wireVars
<1>1. PICK k \in Keys :
        LET hit == UseCache /\ cache[k] # NoAnswer IN
        /\ req' = [req EXCEPT ![p] = k]
        /\ reply' = [reply EXCEPT ![p] = IF hit THEN cache[k] ELSE NoAnswer]
        /\ pc' = [pc EXCEPT ![p] = IF hit THEN "got" ELSE "calling"]
  OBVIOUS
<1>2. cache[k] \in Answers \cup {NoAnswer}
  BY DEF WireTypes
<1>3. pc[p] \in Rest /\ pc'[p] \in {"got", "calling"} /\ \A q \in Callers \ {p} : pc'[q] = pc[q]
  BY <1>1 DEF WireTypes
<1>4. WireTypes'
  <2>1. pc' \in [Callers -> PCs \ {"aborting", "cancelled"}]
    BY <1>1 DEF WireTypes, PCs, Rest
  <2>2. reply' \in [Callers -> Answers \cup {NoAnswer}] /\ req' \in [Callers -> Keys]
    BY <1>1, <1>2 DEF WireTypes
  <2>3. QED BY <2>1, <2>2 DEF WireTypes
<1>5. Grants'
  BY <1>3 DEF Grants, Held, Rest
<1>6. Wire'
  <2>1. \A q \in Callers, c \in Conns : Busy(q, c) => q # p
    BY <1>3 DEF Busy, Grants, Held, Rest, WireTypes, ClientAssumption
  <2>2. \A q \in Callers, c \in Conns : Busy(q, c) => Busy(q, c)'
    BY <1>3, <2>1 DEF Busy, WireTypes
  <2>3. ASSUME NEW q \in Callers, pc'[q] = "reading"
        PROVE  q # p /\ pc[q] = "reading" /\ Carries(q, grant[q])'
    BY <1>1, <1>3, <2>3 DEF Carries, Wire, WireTypes
  <2>4. QED BY <2>2, <2>3 DEF Wire
<1>7. Replies'
  BY <1>1, <1>2, <1>3 DEF Replies, Keyed, WireTypes, Unanswered, Rest
<1>8. QED BY <1>4, <1>5, <1>6, <1>7 DEF Keyed

\* A caller that holds nothing moves on without taking anything.
LEMMA OutsideOwn ==
    ASSUME ClientAssumption, OwnInv, NEW p \in Callers, pc[p] \notin Held,
           NEW s \in {"waiting", "failed"}, pc' = [pc EXCEPT ![p] = s],
           s = "waiting" => pc[p] \in Unanswered,
           UNCHANGED <<grant, req, reply, healthy, wireVars, cache, version, cancels>>
    PROVE  OwnInv'
<1> USE DEF OwnInv, wireVars
<1>1. pc'[p] = s /\ \A q \in Callers \ {p} : pc'[q] = pc[q]
  BY DEF WireTypes
<1>2. WireTypes'
  BY DEF WireTypes, PCs, Rest
<1>3. Grants'
  BY <1>1 DEF Grants, Held
<1>4. Wire'
  <2>1. \A q \in Callers, c \in Conns : Busy(q, c) => Busy(q, c)'
    BY <1>1 DEF Busy, Held, Grants, ClientAssumption
  <2>2. \A c \in Conns : (\A q \in Callers : ~Busy(q, c)')
                            => toServer'[c] = <<>> /\ toClient'[c] = <<>>
    BY <2>1 DEF Wire
  <2>3. ASSUME NEW q \in Callers, pc'[q] = "reading"
        PROVE  Carries(q, grant[q])'
    BY <1>1, <2>3 DEF Carries, Wire
  <2>4. QED BY <2>2, <2>3 DEF Wire
<1>5. Replies'
  BY <1>1 DEF Replies, Unanswered
<1>6. QED BY <1>2, <1>3, <1>4, <1>5 DEF Keyed

LEMMA EnterOwn ==
    ASSUME ClientAssumption, OwnInv, NEW p \in Callers, Enter(p) \/ AcquireFails(p)
    PROVE  OwnInv'
<1>1. pc[p] \in {"calling", "waiting"} /\ grant[p] = NoConn
  BY DEF OwnInv, Enter, AcquireFails, Grants, Held
<1>2. grant' = grant
  BY <1>1 DEF Enter, AcquireFails, Pool!Enter, Pool!Leave, poolVars, OwnInv, WireTypes
<1>3. PICK s \in {"waiting", "failed"} : pc' = [pc EXCEPT ![p] = s]
  BY NoSecondAttempt DEF Enter, AcquireFails
<1>4. UNCHANGED <<req, reply, healthy, wireVars, cache, version, cancels>>
  BY DEF Enter, AcquireFails, histVars
<1>5. pc[p] \notin Held /\ pc[p] \in Unanswered
  BY <1>1 DEF Held, Unanswered
<1>6. QED BY <1>2, <1>3, <1>4, <1>5, OutsideOwn

-----------------------------------------------------------------------------
(* Steps on one connection.                                                 *)

\* A connection that is granted carries nothing yet.
LEMMA SendOwn ==
    ASSUME ClientAssumption, OwnInv, NEW p \in Callers, Send(p) PROVE OwnInv'
<1> USE DEF OwnInv
<1>1. PICK c \in Conns : (\A q \in Callers : grant[q] # c)
                         /\ grant' = [grant EXCEPT ![p] = c]
  BY DEF Send, Pool!Grant
<1>2. /\ grant'[p] = c /\ pc[p] = "waiting" /\ pc'[p] = "reading" /\ healthy'[p]
      /\ \A q \in Callers \ {p} : grant'[q] = grant[q] /\ pc'[q] = pc[q]
                                  /\ healthy'[q] = healthy[q]
      /\ UNCHANGED <<req, reply, toClient, cache, version, cancels>>
  BY <1>1 DEF Send, WireTypes, histVars
<1>3. toServer[c] = <<>> /\ toClient[c] = <<>>
  BY <1>1 DEF Wire, Busy
<1>4. /\ toServer' = [toServer EXCEPT ![c] = IF c \in gone THEN @ ELSE @ \o Lines(p)]
      /\ req[p] \in Keys /\ Lines(p) = <<req[p]>> /\ toServer \in [Conns -> Seq(Keys)]
  BY <1>2 DEF Send, Lines, WireTypes
<1>5. /\ toServer'[c] \in {<<>>, <<req[p]>>}
      /\ toServer' \in [Conns -> Seq(Keys)]
      /\ \A d \in Conns \ {c} : toServer'[d] = toServer[d]
  <2>1. <<>> \o <<req[p]>> = <<req[p]>> /\ <<req[p]>> \in Seq(Keys)
    BY <1>4
  <2>2. QED BY <1>3, <1>4, <2>1
<1>6. WireTypes'
  <2>1. pc' \in [Callers -> PCs \ {"aborting", "cancelled"}]
    BY DEF Send, WireTypes, PCs
  <2>2. healthy' \in [Callers -> BOOLEAN] /\ grant' \in [Callers -> Conns \cup {NoConn}]
    BY <1>1 DEF Send, WireTypes
  <2>3. QED BY <1>2, <1>5, <2>1, <2>2 DEF WireTypes
<1>7. Grants'
  BY <1>1, <1>2 DEF Grants, Held, ClientAssumption
<1>8. Wire'
  <2>1. ASSUME NEW q \in Callers, pc'[q] = "reading" PROVE Carries(q, grant[q])'
    <3>1. CASE q = p
      BY <1>2, <1>3, <1>5, <3>1 DEF Carries
    <3>2. CASE q # p
      <4>1. grant'[q] = grant[q] /\ grant[q] \in Conns \ {c} /\ Carries(q, grant[q])
        BY <1>1, <1>2, <2>1, <3>2 DEF Wire, Grants, Held, WireTypes
      <4>2. QED BY <1>2, <1>5, <4>1 DEF Carries
    <3>3. QED BY <3>1, <3>2
  <2>2. ASSUME NEW d \in Conns, \A q \in Callers : ~Busy(q, d)'
        PROVE  toServer'[d] = <<>> /\ toClient'[d] = <<>>
    <3>1. d # c
      BY <1>2, <2>2 DEF Busy
    <3>2. \A q \in Callers : ~Busy(q, d)
      BY <1>1, <1>2, <2>2 DEF Busy, Grants, Held, ClientAssumption
    <3>3. QED BY <1>2, <1>5, <3>1, <3>2 DEF Wire
  <2>3. QED BY <2>1, <2>2 DEF Wire
<1>9. Replies' /\ Keyed'
  BY <1>2 DEF Replies, Unanswered, Keyed
<1>10. QED BY <1>6, <1>7, <1>8, <1>9

\* The one answer on the connection is the reader's.
LEMMA ReadOwn ==
    ASSUME ClientAssumption, OwnInv, NEW p \in Callers, Read(p) PROVE OwnInv'
<1> USE DEF OwnInv
<1> DEFINE c == grant[p]
<1>1. pc[p] = "reading" /\ c \in Conns /\ Carries(p, c)
  BY DEF Read, Wire, Grants, Held, WireTypes
<1>2. PICK n \in 1..Len(toClient[c]) :
        /\ toClient' = [toClient EXCEPT ![c] = SubSeq(@, n + 1, Len(@))]
        /\ reply' = [reply EXCEPT ![p] = IF n = 1 THEN toClient[c][1] ELSE NoAnswer]
        /\ healthy' = [healthy EXCEPT ![p] = n = 1]
  BY DEF Read
<1>3. /\ pc' = [pc EXCEPT ![p] = "release"]
      /\ UNCHANGED <<grant, req, toServer, cache, version, cancels>>
  BY DEF Read, poolVars, histVars
<1>4. toClient[c] \in Seq(Answers) /\ toClient \in [Conns -> Seq(Answers)]
  BY <1>1 DEF WireTypes
<1>5. Len(toClient[c]) = 1 /\ n = 1 /\ toServer[c] = <<>> /\ toClient[c][1].key = req[p]
  <2>1. Len(toClient[c]) \in Nat /\ toClient[c] # <<>>
    BY <1>4, LenProperties, EmptySeq
  <2>2. toServer[c] = <<>> /\ Len(toClient[c]) = 1 /\ toClient[c][1].key = req[p]
    BY <1>1, <2>1 DEF Carries
  <2>3. n = 1
    BY <2>2
  <2>4. QED BY <2>2, <2>3
<1>6. toClient[c][1] \in Answers /\ SubSeq(toClient[c], 2, 1) = <<>>
  BY <1>4, <1>5
<1>7. /\ toClient'[c] = <<>> /\ \A d \in Conns \ {c} : toClient'[d] = toClient[d]
      /\ toClient' \in [Conns -> Seq(Answers)]
  BY <1>1, <1>2, <1>4, <1>5, <1>6
<1>8. /\ reply'[p] = toClient[c][1] /\ healthy'[p] = TRUE /\ pc'[p] = "release"
      /\ \A q \in Callers \ {p} : reply'[q] = reply[q] /\ healthy'[q] = healthy[q]
                                  /\ pc'[q] = pc[q]
  BY <1>2, <1>3, <1>5 DEF WireTypes
<1>9. WireTypes'
  <2>1. pc' \in [Callers -> PCs \ {"aborting", "cancelled"}]
    BY <1>3 DEF WireTypes, PCs
  <2>2. /\ reply' \in [Callers -> Answers \cup {NoAnswer}]
        /\ healthy' \in [Callers -> BOOLEAN]
    BY <1>2, <1>5, <1>6 DEF WireTypes
  <2>3. QED BY <1>3, <1>7, <2>1, <2>2 DEF WireTypes
<1>10. Grants'
  BY <1>1, <1>3, <1>8 DEF Grants, Held
<1>11. Wire'
  <2>1. ASSUME NEW q \in Callers, pc'[q] = "reading" PROVE Carries(q, grant[q])'
    <3>1. q # p /\ pc[q] = "reading"
      BY <1>8, <2>1
    <3>2. grant[q] \in Conns \ {c} /\ Carries(q, grant[q])
      BY <1>1, <3>1 DEF Wire, Grants, Held, WireTypes
    <3>3. QED BY <1>3, <1>7, <3>2 DEF Carries
  <2>2. ASSUME NEW d \in Conns, \A q \in Callers : ~Busy(q, d)'
        PROVE  toServer'[d] = <<>> /\ toClient'[d] = <<>>
    <3>1. CASE d = c
      BY <1>3, <1>5, <1>7, <3>1
    <3>2. CASE d # c
      <4>1. \A q \in Callers : ~Busy(q, d)
        BY <1>3, <1>8, <2>2, <3>2 DEF Busy
      <4>2. QED BY <1>3, <1>7, <3>2, <4>1 DEF Wire
    <3>3. QED BY <3>1, <3>2
  <2>3. QED BY <2>1, <2>2 DEF Wire
<1>12. Replies' /\ Keyed'
  BY <1>3, <1>5, <1>8 DEF Replies, Unanswered, Keyed
<1>13. QED BY <1>9, <1>10, <1>11, <1>12

LEMMA ReadFailsOwn ==
    ASSUME ClientAssumption, OwnInv, NEW p \in Callers, ReadFails(p) PROVE OwnInv'
<1> USE DEF OwnInv
<1>1. /\ pc[p] = "reading" /\ pc' = [pc EXCEPT ![p] = "release"]
      /\ healthy' = [healthy EXCEPT ![p] = FALSE]
      /\ UNCHANGED <<grant, req, reply, toServer, toClient, cache, version, cancels>>
  BY DEF ReadFails, poolVars, wireVars, histVars
<1>2. /\ pc'[p] = "release" /\ healthy'[p] = FALSE
      /\ \A q \in Callers \ {p} : healthy'[q] = healthy[q] /\ pc'[q] = pc[q]
  BY <1>1 DEF WireTypes
<1>3. WireTypes'
  BY <1>1 DEF WireTypes, PCs
<1>4. Grants'
  BY <1>1, <1>2 DEF Grants, Held
<1>5. Wire'
  <2>1. \A q \in Callers, d \in Conns : Busy(q, d) => Busy(q, d)'
    BY <1>1, <1>2 DEF Busy
  <2>2. ASSUME NEW q \in Callers, pc'[q] = "reading" PROVE Carries(q, grant[q])'
    BY <1>1, <1>2, <2>2 DEF Carries, Wire
  <2>3. QED BY <1>1, <2>1, <2>2 DEF Wire
<1>6. Replies' /\ Keyed'
  BY <1>1, <1>2 DEF Replies, Unanswered, Keyed
<1>7. QED BY <1>3, <1>4, <1>5, <1>6

\* The holder lets its connection go: it was read to the end, or is dropped.
LEMMA LetGoWire ==
    ASSUME ClientAssumption, OwnInv, NEW p \in Callers, pc[p] = "release", LetGo(p),
           \A q \in Callers \ {p} : pc'[q] = pc[q],
           pc'[p] \notin Held, UNCHANGED <<req, healthy>>
    PROVE  /\ grant' = [grant EXCEPT ![p] = NoConn]
           /\ toServer' \in [Conns -> Seq(Keys)] /\ toClient' \in [Conns -> Seq(Answers)]
           /\ Grants' /\ Wire'
<1> USE DEF OwnInv
<1> DEFINE c == grant[p]
<1>1. c \in Conns /\ grant' = [grant EXCEPT ![p] = NoConn]
  BY DEF LetGo, Pool!Leave, Grants, Held, WireTypes
<1>2. /\ grant'[p] = NoConn
      /\ \A q \in Callers \ {p} : grant'[q] = grant[q] /\ grant[q] # c
  BY <1>1 DEF Grants, WireTypes, ClientAssumption
<1>3. \A d \in Conns \ {c} : toServer'[d] = toServer[d] /\ toClient'[d] = toClient[d]
  BY DEF LetGo, Drop, wireVars
<1>4. toServer'[c] = <<>> /\ toClient'[c] = <<>>
  <2>1. CASE Reusable(p) /\ UNCHANGED wireVars
    <3>1. \A q \in Callers : ~Busy(q, c)
      BY <1>1, <1>2, <2>1 DEF Busy, Reusable
    <3>2. QED BY <1>1, <2>1, <3>1 DEF Wire, wireVars
  <2>2. CASE Drop({c})
    BY <1>1, <2>2 DEF Drop
  <2>3. QED BY <2>1, <2>2 DEF LetGo
<1>5. toServer' \in [Conns -> Seq(Keys)] /\ toClient' \in [Conns -> Seq(Answers)]
  <2>1. CASE UNCHANGED wireVars
    BY <2>1 DEF WireTypes, wireVars
  <2>2. CASE Drop({c})
    BY <2>2, EmptySeq DEF WireTypes, Drop
  <2>3. QED BY <2>1, <2>2 DEF LetGo
<1>6. Grants'
  BY <1>2 DEF Grants
<1>7. Wire'
  <2>1. ASSUME NEW q \in Callers, pc'[q] = "reading" PROVE Carries(q, grant[q])'
    <3>1. q # p /\ pc[q] = "reading"
      BY <2>1 DEF Held
    <3>2. grant[q] \in Conns \ {c} /\ Carries(q, grant[q]) /\ grant'[q] = grant[q]
      BY <1>2, <3>1 DEF Wire, Grants, Held, WireTypes
    <3>3. QED BY <1>3, <3>2 DEF Carries
  <2>2. ASSUME NEW d \in Conns, \A q \in Callers : ~Busy(q, d)'
        PROVE  toServer'[d] = <<>> /\ toClient'[d] = <<>>
    <3>1. CASE d = c
      BY <1>4, <3>1
    <3>2. CASE d # c
      <4>1. \A q \in Callers : ~Busy(q, d)
        BY <1>2, <2>2, <3>2 DEF Busy
      <4>2. QED BY <1>3, <3>2, <4>1 DEF Wire
    <3>3. QED BY <3>1, <3>2
  <2>3. QED BY <2>1, <2>2 DEF Wire
<1>8. QED BY <1>1, <1>5, <1>6, <1>7

LEMMA ReleaseOwn ==
    ASSUME ClientAssumption, OwnInv, NEW p \in Callers, Release(p) PROVE OwnInv'
<1> USE DEF OwnInv
<1>1. /\ pc[p] = "release" /\ LetGo(p)
      /\ UNCHANGED <<req, reply, healthy, cache, version, cancels>>
  BY DEF Release
<1>2. PICK s \in {"failed", "store", "got"} :
        /\ pc' = [pc EXCEPT ![p] = s]
        /\ s # "failed" => reply[p] # NoAnswer
  BY NoSecondAttempt DEF Release, Return
<1>3. pc'[p] = s /\ \A q \in Callers \ {p} : pc'[q] = pc[q]
  BY <1>2 DEF WireTypes
<1>4. /\ grant' = [grant EXCEPT ![p] = NoConn] /\ Grants' /\ Wire'
      /\ toServer' \in [Conns -> Seq(Keys)] /\ toClient' \in [Conns -> Seq(Answers)]
  BY <1>1, <1>3, LetGoWire DEF Held
<1>5. WireTypes'
  BY <1>1, <1>2, <1>4 DEF WireTypes, PCs, Rest
<1>6. Replies' /\ Keyed'
  BY <1>1, <1>2, <1>3 DEF Replies, Unanswered, Keyed
<1>7. QED BY <1>4, <1>5, <1>6

LEMMA StoreOwn ==
    ASSUME ClientAssumption, OwnInv, NEW p \in Callers, Store(p) PROVE OwnInv'
<1> USE DEF OwnInv
<1>1. /\ pc[p] = "store" /\ pc' = [pc EXCEPT ![p] = "got"]
      /\ UNCHANGED <<grant, req, reply, healthy, toServer, toClient, version, cancels>>
      /\ cache' = cache \/ cache' = [cache EXCEPT ![req[p]] = reply[p]]
  BY DEF Store, Return, poolVars, wireVars
<1>2. /\ pc'[p] = "got" /\ \A q \in Callers \ {p} : pc'[q] = pc[q]
      /\ reply[p] \in Answers \cup {NoAnswer} /\ reply[p] # NoAnswer /\ req[p] \in Keys
  BY <1>1 DEF WireTypes, Replies
<1>3. WireTypes'
  BY <1>1, <1>2 DEF WireTypes, PCs, Rest
<1>4. Grants'
  BY <1>1, <1>2 DEF Grants, Held
<1>5. Wire'
  <2>1. \A q \in Callers, d \in Conns : Busy(q, d) => Busy(q, d)'
    BY <1>1, <1>2 DEF Busy
  <2>2. ASSUME NEW q \in Callers, pc'[q] = "reading" PROVE Carries(q, grant[q])'
    BY <1>1, <1>2, <2>2 DEF Carries, Wire
  <2>3. QED BY <1>1, <2>1, <2>2 DEF Wire
<1>6. Replies'
  BY <1>1, <1>2 DEF Replies, Unanswered
<1>7. Keyed'
  BY <1>1, <1>2 DEF Keyed, Replies, WireTypes
<1>8. QED BY <1>3, <1>4, <1>5, <1>6, <1>7

-----------------------------------------------------------------------------
(* Steps of the environment.                                                *)

\* The callers stand still, and no connection nobody reads from gains anything.
LEMMA ElsewhereOwn ==
    ASSUME OwnInv, UNCHANGED <<grant, pc, req, reply, healthy, cancels>>,
           toServer' \in [Conns -> Seq(Keys)], toClient' \in [Conns -> Seq(Answers)],
           version' \in Nat, cache' \in [Keys -> Answers \cup {NoAnswer}], Keyed',
           \A p \in Callers : pc[p] = "reading" => Carries(p, grant[p])',
           \A c \in Conns : toServer[c] = <<>> /\ toClient[c] = <<>>
                                => toServer'[c] = <<>> /\ toClient'[c] = <<>>
    PROVE  OwnInv'
<1> USE DEF OwnInv
<1>1. WireTypes'
  BY DEF WireTypes
<1>2. Grants' /\ Replies'
  BY DEF Grants, Replies
<1>3. Wire'
  <2>1. \A q \in Callers, d \in Conns : Busy(q, d)' <=> Busy(q, d)
    BY DEF Busy
  <2>2. QED BY <2>1 DEF Wire
<1>4. QED BY <1>1, <1>2, <1>3

\* ImHex answers: the reader's request becomes the reader's answer.
LEMMA ServeOwn ==
    ASSUME ClientAssumption, OwnInv, NEW c \in Conns, Serve(c) PROVE OwnInv'
<1> USE DEF OwnInv
<1>1. PICK k, v :
        /\ k = Head(toServer[c]) /\ v = IF k \in Writes THEN version + 1 ELSE version
        /\ version' = v /\ toServer' = [toServer EXCEPT ![c] = Tail(@)]
        /\ toClient' = [toClient EXCEPT ![c] =
               IF c \in gone THEN @ ELSE Append(@, [key |-> k, seen |-> v])]
  BY DEF Serve
<1>2. toServer[c] # <<>> /\ UNCHANGED <<grant, pc, req, reply, healthy, cancels, cache>>
  BY DEF Serve, poolVars, callVars
<1>3. /\ toServer[c] \in Seq(Keys) /\ toClient[c] \in Seq(Answers) /\ version \in Nat
      /\ toServer \in [Conns -> Seq(Keys)] /\ toClient \in [Conns -> Seq(Answers)]
  BY DEF WireTypes
<1>4. k \in Keys /\ v \in Nat /\ Tail(toServer[c]) \in Seq(Keys)
  <2>1. k \in Keys /\ Tail(toServer[c]) \in Seq(Keys)
    BY <1>1, <1>2, <1>3, HeadTailProperties
  <2>2. QED BY <1>1, <1>3, <2>1
<1> DEFINE a == [key |-> k, seen |-> v]
<1>5. a \in Answers /\ Append(toClient[c], a) \in Seq(Answers)
  <2>1. a \in Answers
    BY <1>4 DEF Answers
  <2>2. QED BY <1>3, <2>1, AppendProperties
<1>6. /\ toServer'[c] = Tail(toServer[c])
      /\ toClient'[c] = IF c \in gone THEN toClient[c] ELSE Append(toClient[c], a)
      /\ \A d \in Conns \ {c} : toServer'[d] = toServer[d] /\ toClient'[d] = toClient[d]
      /\ toServer' \in [Conns -> Seq(Keys)] /\ toClient' \in [Conns -> Seq(Answers)]
  BY <1>1, <1>3, <1>4, <1>5
<1>7. ASSUME NEW p \in Callers, pc[p] = "reading" PROVE Carries(p, grant[p])'
  <2>1. grant[p] \in Conns /\ Carries(p, grant[p])
    BY <1>7 DEF Wire, Grants, Held, WireTypes
  <2>2. CASE grant[p] # c
    BY <1>2, <1>6, <2>1, <2>2 DEF Carries
  <2>3. CASE grant[p] = c
    <3>1. toServer[c] = <<req[p]>> /\ toClient[c] = <<>>
      BY <1>2, <2>1, <2>3 DEF Carries
    <3>2. k = req[p] /\ Tail(toServer[c]) = <<>> /\ Append(toClient[c], a) = <<a>>
      BY <1>1, <3>1
    <3>3. Len(<<a>>) = 1 /\ <<a>>[1].key = req[p]
      BY <3>2
    <3>4. QED BY <1>2, <1>6, <2>3, <3>1, <3>2, <3>3 DEF Carries
  <2>4. QED BY <2>2, <2>3
<1>8. \A d \in Conns : toServer[d] = <<>> /\ toClient[d] = <<>>
                            => toServer'[d] = <<>> /\ toClient'[d] = <<>>
  BY <1>2, <1>6
<1>9. /\ version' \in Nat /\ cache' \in [Keys -> Answers \cup {NoAnswer}] /\ Keyed'
  BY <1>1, <1>2, <1>4 DEF Keyed, WireTypes
<1>10. QED BY <1>2, <1>6, <1>7, <1>8, <1>9, ElsewhereOwn

\* Sockets that are dropped or closed carry less than before.
LEMMA EnvironmentOwn ==
    ASSUME ClientAssumption, OwnInv, Environment PROVE OwnInv'
<1> USE DEF OwnInv
<1>1. CASE Close
  <2>1. UNCHANGED <<grant, pc, req, reply, healthy, cancels, toServer, toClient,
                    version, cache>>
    BY <1>1 DEF Close, Pool!Shut, callVars, wireVars, histVars
  <2>2. \A p \in Callers : pc[p] = "reading" => Carries(p, grant[p])'
    BY <2>1 DEF Wire, Carries
  <2>3. QED BY <2>1, <2>2, ElsewhereOwn DEF Keyed, WireTypes
<1>2. ASSUME NEW c \in Conns, Retire(c) PROVE OwnInv'
  <2>1. /\ UNCHANGED <<grant, pc, req, reply, healthy, cancels, version, cache>>
        /\ Drop({c}) /\ \A p \in Callers : grant[p] # c
    BY <1>2 DEF Retire, poolVars, callVars, histVars, Resting
  <2>2. \A d \in Conns \ {c} : toServer'[d] = toServer[d] /\ toClient'[d] = toClient[d]
    BY <2>1 DEF Drop
  <2>3. /\ toServer'[c] = <<>> /\ toClient'[c] = <<>>
        /\ toServer' \in [Conns -> Seq(Keys)] /\ toClient' \in [Conns -> Seq(Answers)]
    BY <2>1, EmptySeq DEF Drop, WireTypes
  <2>4. ASSUME NEW p \in Callers, pc[p] = "reading" PROVE Carries(p, grant[p])'
    <3>1. grant[p] \in Conns \ {c} /\ Carries(p, grant[p])
      BY <2>1, <2>4 DEF Wire, Grants, Held, WireTypes
    <3>2. QED BY <2>1, <2>2, <3>1 DEF Carries
  <2>5. QED BY <2>1, <2>2, <2>3, <2>4, ElsewhereOwn DEF Keyed, WireTypes
<1>3. ASSUME NEW c \in Conns, CloseHeld(c) PROVE OwnInv'
  <2>1. UNCHANGED <<grant, pc, req, reply, healthy, cancels, toServer, toClient,
                    version, cache>>
    BY <1>3 DEF CloseHeld, poolVars, callVars, histVars
  <2>2. \A p \in Callers : pc[p] = "reading" => Carries(p, grant[p])'
    BY <2>1 DEF Wire, Carries
  <2>3. QED BY <2>1, <2>2, ElsewhereOwn DEF Keyed, WireTypes
<1>4. ASSUME NEW c \in Conns, PeerClose(c) PROVE OwnInv'
  <2>1. /\ UNCHANGED <<grant, pc, req, reply, healthy, cancels, toClient, version, cache>>
        /\ toServer' = [toServer EXCEPT ![c] = <<>>]
    BY <1>4 DEF PeerClose, poolVars, callVars, histVars
  <2>2. /\ toServer' \in [Conns -> Seq(Keys)]
        /\ \A d \in Conns : toServer'[d] \in {<<>>, toServer[d]}
    BY <2>1, EmptySeq DEF WireTypes
  <2>3. ASSUME NEW p \in Callers, pc[p] = "reading" PROVE Carries(p, grant[p])'
    <3>1. grant[p] \in Conns /\ Carries(p, grant[p])
      BY <2>3 DEF Wire, Grants, Held, WireTypes
    <3>2. QED BY <2>1, <2>2, <3>1 DEF Carries
  <2>4. QED BY <2>1, <2>2, <2>3, ElsewhereOwn DEF Keyed, WireTypes
<1>5. ASSUME NEW k \in Keys, Forget(k) PROVE OwnInv'
  <2>1. /\ UNCHANGED <<grant, pc, req, reply, healthy, cancels, toServer, toClient, version>>
        /\ cache' = [cache EXCEPT ![k] = NoAnswer]
    BY <1>5 DEF Forget, poolVars, callVars, wireVars, histVars
  <2>2. \A p \in Callers : pc[p] = "reading" => Carries(p, grant[p])'
    BY <2>1 DEF Wire, Carries
  <2>3. Keyed' /\ cache' \in [Keys -> Answers \cup {NoAnswer}]
    BY <2>1 DEF Keyed, WireTypes
  <2>4. QED BY <2>1, <2>2, <2>3, ElsewhereOwn DEF WireTypes
<1>6. QED BY <1>1, <1>2, <1>3, <1>4, <1>5, ServeOwn DEF Environment

-----------------------------------------------------------------------------
(* Cancellation is where the argument ends: the invariant holds until then. *)

Uncancelled == cancels \in Nat /\ (cancels = 0 => OwnInv)

LEMMA NextOwn ==
    ASSUME ClientAssumption, OwnInv, [Next]_vars, \A p \in Callers : ~Cancel(p)
    PROVE  OwnInv'
<1>1. CASE UNCHANGED vars
  <2>1. UNCHANGED <<grant, pc, req, reply, healthy, cancels, toServer, toClient,
                    version, cache>>
    BY <1>1 DEF vars, poolVars, callVars, wireVars, histVars
  <2>2. \A p \in Callers : pc[p] = "reading" => Carries(p, grant[p])'
    BY <2>1 DEF OwnInv, Wire, Carries
  <2>3. QED BY <2>1, <2>2, ElsewhereOwn DEF Keyed, WireTypes, OwnInv
<1>2. CASE Environment
  BY <1>2, EnvironmentOwn
<1>3. ASSUME NEW p \in Callers, Begin(p) \/ Progress(p) PROVE OwnInv'
  <2>1. ~Abort(p)
    BY DEF Abort, OwnInv, WireTypes
  <2>2. QED BY <1>3, <2>1, BeginOwn, EnterOwn, SendOwn, ReadOwn, ReadFailsOwn,
               ReleaseOwn, StoreOwn DEF Progress
<1>4. QED BY <1>1, <1>2, <1>3 DEF Next, Call

\* The count of cancellations never goes down.
LEMMA CancelsGrow ==
    ASSUME cancels \in Nat, [Next]_vars
    PROVE  /\ cancels' \in Nat
           /\ cancels' = 0 => cancels = 0 /\ \A p \in Callers : ~Cancel(p)
<1>1. ASSUME NEW p \in Callers, Cancel(p) PROVE cancels' = cancels + 1
  BY <1>1 DEF Cancel
<1>2. ASSUME \A p \in Callers : ~Cancel(p) PROVE cancels' = cancels
  <2>1. CASE UNCHANGED vars
    BY <2>1 DEF vars
  <2>2. CASE Environment
    BY <2>2 DEF Environment, Close, Retire, CloseHeld, Serve, PeerClose, Forget
  <2>3. ASSUME NEW p \in Callers, Begin(p) \/ Progress(p) PROVE cancels' = cancels
    BY <2>3 DEF Begin, Progress, Enter, AcquireFails, Send, Read, ReadFails, Release,
                Abort, Store
  <2>4. QED BY <1>2, <2>1, <2>2, <2>3 DEF Next, Call
<1>3. QED BY <1>1, <1>2

LEMMA UncancelledHolds == Spec => []Uncancelled
<1>1. Init => Uncancelled
  BY InitOwn, ClientAssumption DEF Init, Uncancelled
<1>2. Uncancelled /\ [Next]_vars => Uncancelled'
  BY CancelsGrow, NextOwn, ClientAssumption DEF Uncancelled
<1>3. QED BY <1>1, <1>2, PTL DEF Spec

\* Until a call is cancelled, every call returns the answer to its own request
\* (send_request) and the cache holds answers under their own requests.
THEOREM ClientOwnAnswer == Spec => [](OwnAnswer /\ CacheKeyed)
<1>1. Uncancelled => OwnAnswer /\ CacheKeyed
  BY DEF Uncancelled, OwnInv, Keyed, Replies, OwnAnswer, CacheKeyed
<1>2. QED BY <1>1, UncancelledHolds, PTL

\* Until a call is cancelled, no connection is at rest, or in the hands of a
\* caller that has read its answer, with anything still on it.
THEOREM ClientWire == Spec => [](cancels = 0 => Wire)
<1>1. Uncancelled => (cancels = 0 => Wire)
  BY DEF Uncancelled, OwnInv
<1>2. QED BY <1>1, UncancelledHolds, PTL
-----------------------------------------------------------------------------
(* Without the cache, a call sees every write that succeeded before it.     *)

\* Writes are executed before they succeed, and succeed before a later call begins.
Clock ==
    /\ version \in Nat /\ acked \in Nat /\ acked <= version
    /\ floor \in [Callers -> Nat] /\ \A p \in Callers : floor[p] <= acked

\* What the answer to p must have seen.
Meets(p, a) ==
    /\ a.seen <= version
    /\ IF req[p] \in Writes THEN a.seen > floor[p] ELSE a.seen >= floor[p]

OnTheWay == \A p \in Callers :
                pc[p] = "reading" /\ toClient[grant[p]] # <<>> => Meets(p, toClient[grant[p]][1])
Returned == \A p \in Callers : reply[p] # NoAnswer => Meets(p, reply[p])

FreshInv == Clock /\ OnTheWay /\ Returned

\* A step that executes no request and reads no answer.
LEMMA FreshElsewhere ==
    ASSUME FreshInv, UNCHANGED <<req, floor, reply, version>>,
           acked' \in Nat, acked <= acked', acked' <= version,
           \A p \in Callers : pc'[p] = "reading" =>
               /\ pc[p] = "reading" /\ grant'[p] = grant[p]
               /\ toClient'[grant[p]] \in {<<>>, toClient[grant[p]]}
    PROVE  FreshInv'
<1>1. Clock'
  BY DEF FreshInv, Clock
<1>2. \A p \in Callers : \A a : Meets(p, a) => Meets(p, a)'
  BY DEF Meets
<1>3. OnTheWay' /\ Returned'
  BY <1>2 DEF FreshInv, OnTheWay, Returned, Meets
<1>4. QED BY <1>1, <1>3 DEF FreshInv

LEMMA BeginFresh ==
    ASSUME OwnInv, FreshInv, UseCache = FALSE, NEW p \in Callers, Begin(p)
    PROVE  FreshInv'
<1>1. PICK k \in Keys : /\ req' = [req EXCEPT ![p] = k]
                        /\ reply' = [reply EXCEPT ![p] = NoAnswer]
                        /\ pc' = [pc EXCEPT ![p] = "calling"]
  BY DEF Begin
<1>2. /\ floor' = [floor EXCEPT ![p] = acked]
      /\ UNCHANGED <<version, acked, grant, toClient>>
  BY DEF Begin, poolVars, wireVars
<1>3. /\ reply'[p] = NoAnswer /\ pc'[p] = "calling"
      /\ \A q \in Callers \ {p} : /\ pc'[q] = pc[q] /\ reply'[q] = reply[q]
                                  /\ req'[q] = req[q] /\ floor'[q] = floor[q]
  BY <1>1, <1>2 DEF OwnInv, WireTypes, FreshInv, Clock
<1>4. Clock'
  BY <1>2 DEF FreshInv, Clock
<1>5. \A q \in Callers \ {p} : \A a : Meets(q, a) => Meets(q, a)'
  BY <1>2, <1>3 DEF Meets
<1>6. OnTheWay' /\ Returned'
  BY <1>2, <1>3, <1>5 DEF FreshInv, OnTheWay, Returned, Meets
<1>7. QED BY <1>4, <1>6 DEF FreshInv

\* Nothing is on the way to the caller on the connection it is granted.
LEMMA SendFresh ==
    ASSUME ClientAssumption, OwnInv, FreshInv, NEW p \in Callers, Send(p)
    PROVE  FreshInv'
<1>1. /\ pc' = [pc EXCEPT ![p] = "reading"]
      /\ UNCHANGED <<req, reply, floor, version, acked, toClient>>
  BY DEF Send, histVars
<1>2. PICK c \in Conns : (\A q \in Callers : grant[q] # c) /\ grant' = [grant EXCEPT ![p] = c]
  BY DEF Send, Pool!Grant
<1>3. toClient[c] = <<>>
  BY <1>2 DEF OwnInv, Wire, Busy
<1>4. /\ grant'[p] = c
      /\ \A q \in Callers \ {p} : pc'[q] = pc[q] /\ grant'[q] = grant[q]
  BY <1>1, <1>2 DEF OwnInv, WireTypes
<1>5. \A q \in Callers : \A a : Meets(q, a) => Meets(q, a)'
  BY <1>1 DEF Meets
<1>6. OnTheWay' /\ Returned'
  BY <1>1, <1>3, <1>4, <1>5 DEF FreshInv, OnTheWay, Returned, Meets
<1>7. QED BY <1>1, <1>6 DEF FreshInv, Clock

LEMMA ReadFresh ==
    ASSUME ClientAssumption, OwnInv, FreshInv, NEW p \in Callers, Read(p)
    PROVE  FreshInv'
<1> DEFINE c == grant[p]
<1>1. pc[p] = "reading" /\ c \in Conns
  BY DEF Read, OwnInv, Grants, Held, WireTypes
<1>2. PICK n \in 1..Len(toClient[c]) :
        /\ toClient' = [toClient EXCEPT ![c] = SubSeq(@, n + 1, Len(@))]
        /\ reply' = [reply EXCEPT ![p] = IF n = 1 THEN toClient[c][1] ELSE NoAnswer]
  BY DEF Read
<1>3. /\ pc' = [pc EXCEPT ![p] = "release"]
      /\ UNCHANGED <<grant, req, floor, version, acked>>
  BY DEF Read, poolVars, histVars
<1>4. toClient[c] # <<>>
  <2>1. Len(toClient[c]) # 0
    BY <1>1, <1>2, LenProperties DEF OwnInv, WireTypes
  <2>2. QED BY <1>1, <2>1, EmptySeq DEF OwnInv, WireTypes
<1>5. Meets(p, toClient[c][1])
  BY <1>1, <1>4 DEF FreshInv, OnTheWay
<1>6. \A q \in Callers : \A a : Meets(q, a) => Meets(q, a)'
  BY <1>3 DEF Meets
<1>7. /\ reply'[p] \in {toClient[c][1], NoAnswer} /\ pc'[p] = "release"
      /\ \A q \in Callers \ {p} : reply'[q] = reply[q] /\ pc'[q] = pc[q]
      /\ \A d \in Conns \ {c} : toClient'[d] = toClient[d]
  BY <1>1, <1>2, <1>3 DEF OwnInv, WireTypes
<1>8. \A q \in Callers \ {p} : pc[q] = "reading" => grant[q] \in Conns \ {c}
  BY <1>1 DEF OwnInv, WireTypes, Grants, Held
<1>9. OnTheWay'
  BY <1>3, <1>6, <1>7, <1>8 DEF FreshInv, OnTheWay, Meets
<1> HIDE DEF c
<1>10. Returned'
  BY <1>5, <1>6, <1>7 DEF FreshInv, Returned
<1>11. QED BY <1>3, <1>9, <1>10 DEF FreshInv, Clock

\* A write succeeds no earlier than it was executed.
LEMMA ReturnFresh ==
    ASSUME FreshInv, OwnInv, NEW p \in Callers, reply[p] # NoAnswer, Return(p, reply[p])
    PROVE  acked' \in Nat /\ acked <= acked' /\ acked' <= version
<1>1. reply[p].seen \in Nat /\ reply[p].seen <= version
  BY DEF FreshInv, Returned, Meets, OwnInv, WireTypes, Answers
<1>2. \/ acked' = reply[p].seen /\ reply[p].seen > acked
      \/ acked' = acked
  BY DEF Return
<1>3. QED BY <1>1, <1>2 DEF FreshInv, Clock

\* release() loses what is still on a connection it does not keep, or nothing.
LEMMA ReleaseFresh ==
    ASSUME OwnInv, FreshInv, NEW p \in Callers, Release(p)
    PROVE  FreshInv'
<1>1. /\ UNCHANGED <<req, floor, reply, version>> /\ grant' = [grant EXCEPT ![p] = NoConn]
      /\ \A c \in Conns : toClient'[c] \in {<<>>, toClient[c]}
  BY DEF Release, LetGo, Pool!Leave, Drop, wireVars
<1>2. \E s \in {"got", "store", "failed"} : pc' = [pc EXCEPT ![p] = s]
  BY NoSecondAttempt DEF Release, Return
<1>3. acked' \in Nat /\ acked <= acked' /\ acked' <= version
  <2>1. CASE acked' = acked
    BY <2>1 DEF FreshInv, Clock
  <2>2. CASE reply[p] # NoAnswer /\ Return(p, reply[p])
    BY <2>2, ReturnFresh
  <2>3. QED BY <2>1, <2>2 DEF Release
<1>4. \A q \in Callers : pc'[q] = "reading" => pc[q] = "reading" /\ grant'[q] = grant[q]
  BY <1>1, <1>2 DEF OwnInv, WireTypes
<1>5. \A q \in Callers : pc[q] = "reading" => grant[q] \in Conns
  BY DEF OwnInv, WireTypes, Grants, Held
<1>6. QED BY <1>1, <1>3, <1>4, <1>5, FreshElsewhere

\* ImHex executes a request after every write that has succeeded so far.
LEMMA ServeFresh ==
    ASSUME ClientAssumption, OwnInv, FreshInv, NEW c \in Conns, Serve(c)
    PROVE  FreshInv'
<1>1. PICK k, v :
        /\ k = Head(toServer[c]) /\ v = IF k \in Writes THEN version + 1 ELSE version
        /\ version' = v
        /\ toClient' = [toClient EXCEPT ![c] =
               IF c \in gone THEN @ ELSE Append(@, [key |-> k, seen |-> v])]
  BY DEF Serve
<1>2. toServer[c] # <<>> /\ UNCHANGED <<grant, pc, req, reply, acked, floor>>
  BY DEF Serve, poolVars, callVars
<1>3. v \in Nat /\ version <= v /\ version \in Nat
  BY <1>1 DEF FreshInv, Clock
<1>4. \A p \in Callers : \A a : a.seen \in Nat /\ Meets(p, a) => Meets(p, a)'
  BY <1>1, <1>2, <1>3 DEF Meets
<1>5. Clock'
  BY <1>1, <1>2, <1>3 DEF FreshInv, Clock
<1>6. Returned'
  BY <1>2, <1>4 DEF FreshInv, Returned, OwnInv, WireTypes, Answers
<1>7. ASSUME NEW p \in Callers, pc[p] = "reading", toClient'[grant[p]] # <<>>
      PROVE  Meets(p, toClient[grant[p]][1])'
  <2>1. grant[p] \in Conns /\ Carries(p, grant[p]) /\ toClient \in [Conns -> Seq(Answers)]
    BY <1>7 DEF OwnInv, Wire, Grants, Held, WireTypes
  <2>2. CASE toClient'[grant[p]] = toClient[grant[p]]
    <3>1. Meets(p, toClient[grant[p]][1])
      BY <1>7, <2>2 DEF FreshInv, OnTheWay
    <3>2. toClient[grant[p]][1].seen \in Nat
      <4>1. toClient[grant[p]] \in Seq(Answers) /\ toClient[grant[p]] # <<>>
        BY <1>7, <2>1, <2>2
      <4>2. toClient[grant[p]][1] \in Answers
        BY <4>1, EmptySeq, LenProperties
      <4>3. QED BY <4>2 DEF Answers
    <3>3. Meets(p, toClient'[grant[p]][1])
      BY <2>2, <3>1
    <3>4. QED BY <1>2, <1>4, <2>2, <3>1, <3>2 DEF Meets
  <2>3. CASE grant[p] = c /\ toClient'[c] = Append(toClient[c], [key |-> k, seen |-> v])
    <3>1. toServer[c] = <<req[p]>> /\ toClient[c] = <<>>
      BY <1>2, <2>1, <2>3 DEF Carries
    <3>2. k = req[p] /\ toClient'[c] = <<[key |-> k, seen |-> v]>>
      BY <1>1, <2>3, <3>1
    <3>3. toClient'[c][1].seen = v
      BY <3>2
    <3>4. floor[p] \in Nat /\ floor[p] <= version
      BY DEF FreshInv, Clock
    <3>5. v <= version' /\ IF req[p] \in Writes THEN v > floor[p] ELSE v >= floor[p]
      BY <1>1, <1>3, <3>2, <3>4
    <3>6. QED BY <1>2, <2>3, <3>3, <3>5 DEF Meets
  <2>4. QED BY <1>1, <2>1, <2>2, <2>3
<1>8. OnTheWay'
  BY <1>2, <1>7 DEF OnTheWay
<1>9. QED BY <1>5, <1>6, <1>8 DEF FreshInv

LEMMA EnvironmentFresh ==
    ASSUME ClientAssumption, OwnInv, FreshInv, Environment PROVE FreshInv'
<1>0. \A q \in Callers : pc[q] = "reading" => grant[q] \in Conns
  BY DEF OwnInv, WireTypes, Grants, Held
<1>1. CASE Close \/ (\E c \in Conns : CloseHeld(c) \/ PeerClose(c)) \/ \E k \in Keys : Forget(k)
  <2>1. UNCHANGED <<pc, grant, req, floor, reply, version, acked, toClient>>
    BY <1>1 DEF Close, Pool!Shut, CloseHeld, PeerClose, Forget, poolVars, callVars, wireVars, histVars
  <2>2. QED BY <2>1, FreshElsewhere DEF FreshInv, Clock
<1>2. CASE \E c \in Conns : Retire(c)
  <2>1. /\ UNCHANGED <<pc, grant, req, floor, reply, version, acked>>
        /\ \A c \in Conns : toClient'[c] \in {<<>>, toClient[c]}
    BY <1>2 DEF Retire, Drop, poolVars, callVars, histVars
  <2>2. QED BY <1>0, <2>1, FreshElsewhere DEF FreshInv, Clock
<1>3. QED BY <1>1, <1>2, ServeFresh DEF Environment

LEMMA NextFresh ==
    ASSUME ClientAssumption, OwnInv, FreshInv, UseCache = FALSE, [Next]_vars,
           \A p \in Callers : ~Cancel(p)
    PROVE  FreshInv'
<1>1. CASE UNCHANGED vars
  <2>1. UNCHANGED <<pc, grant, req, floor, reply, version, acked, toClient>>
    BY <1>1 DEF vars, poolVars, callVars, wireVars, histVars
  <2>2. QED BY <2>1, FreshElsewhere DEF FreshInv, Clock
<1>2. CASE Environment
  BY <1>2, EnvironmentFresh
<1>3. ASSUME NEW p \in Callers, Enter(p) \/ AcquireFails(p) \/ ReadFails(p) \/ Store(p)
      PROVE  FreshInv'
  <2>1. /\ UNCHANGED <<req, floor, reply, version, toClient>>
        /\ \A q \in Callers : pc[q] = "reading" /\ q # p => grant'[q] = grant[q]
    BY <1>3 DEF Enter, AcquireFails, ReadFails, Store, Pool!Enter, Pool!Leave, poolVars,
                wireVars, histVars, OwnInv, WireTypes
  <2>2. \E s \in PCs \ {"reading"} : pc' = [pc EXCEPT ![p] = s]
    BY <1>3, NoSecondAttempt DEF Enter, AcquireFails, ReadFails, Store, Return, PCs, Rest
  <2>3. acked' \in Nat /\ acked <= acked' /\ acked' <= version
    <3>1. CASE acked' = acked
      BY <3>1 DEF FreshInv, Clock
    <3>2. CASE Store(p)
      BY <3>2, ReturnFresh DEF Store, OwnInv, Replies
    <3>3. QED BY <1>3, <3>1, <3>2 DEF Enter, AcquireFails, ReadFails, histVars
  <2>4. \A q \in Callers : pc'[q] = "reading" => pc[q] = "reading" /\ q # p
    BY <2>2 DEF OwnInv, WireTypes
  <2>5. QED BY <2>1, <2>3, <2>4, FreshElsewhere
<1>4. ASSUME NEW p \in Callers, Begin(p) \/ Progress(p) PROVE FreshInv'
  <2>1. ~Abort(p)
    BY DEF Abort, OwnInv, WireTypes
  <2>2. QED BY <1>3, <1>4, <2>1, BeginFresh, SendFresh, ReadFresh, ReleaseFresh DEF Progress
<1>5. QED BY <1>1, <1>2, <1>4 DEF Next, Call

\* With the cache disabled and until a call is cancelled, a call returns an answer that has
\* seen every write that succeeded before the call, and a write its own execution.
THEOREM ClientSeesCompletedWrites ==
    ASSUME UseCache = FALSE
    PROVE  Spec => [](cancels = 0 => SeesCompletedWrites)
<1> DEFINE Inv == cancels = 0 => FreshInv
<1>1. Init => Inv
  <2> SUFFICES ASSUME Init PROVE FreshInv
    OBVIOUS
  <2>1. Clock
    BY DEF Init, Clock
  <2>2. QED BY <2>1 DEF Init, FreshInv, OnTheWay, Returned
<1>2. Uncancelled /\ Inv /\ [Next]_vars => Inv'
  BY CancelsGrow, NextFresh, ClientAssumption DEF Uncancelled
<1>3. Uncancelled /\ Inv => (cancels = 0 => SeesCompletedWrites)
  BY DEF Uncancelled, OwnInv, Replies, FreshInv, Returned, Meets, SeesCompletedWrites
<1> HIDE DEF Inv
<1>4. QED BY <1>1, <1>2, <1>3, UncancelledHolds, PTL DEF Spec

-----------------------------------------------------------------------------
(* Types, whatever is cancelled.  The bound on attempt rests on what the     *)
(* retry loop has left, acked on what the answers under way have seen.       *)

Known == [key : Keys, seen : 0..version]

Seen ==
    /\ reply \in [Callers -> Known \cup {NoAnswer}]
    /\ cache \in [Keys -> Known \cup {NoAnswer}]
    /\ toClient \in [Conns -> Seq(Known)]

InTurn == {"calling", "waiting", "reading", "release"}
Tries == \A p \in Callers : pc[p] \in InTurn => attempt[p] < MaxAttempts

\* Grants, with cancelled calls on their way out.
Holding == {"reading", "release", "aborting"}
Holds ==
    /\ \A p \in Callers : grant[p] # NoConn <=> pc[p] \in Holding
    /\ \A p, q \in Callers : p # q /\ grant[p] = grant[q] => grant[p] = NoConn

\* What is about to be cached is an answer.
Answered == \A p \in Callers : pc[p] = "store" => reply[p] # NoAnswer

TypeInv == TypeOK /\ Seen /\ Tries /\ Holds /\ Answered

\* What nobody has seen yet is known later all the same.
LEMMA KnownGrows ==
    ASSUME version \in Nat, version' \in Nat, version <= version'
    PROVE  Known \subseteq Known' /\ Seq(Known) \subseteq Seq(Known')
<1>1. Known \subseteq Known'
  BY DEF Known
<1>2. QED BY <1>1, SeqMonotonic

\* An attempt that fails leaves the loop or has turns left.
LEMMA EndAttemptTypes ==
    ASSUME ClientAssumption, TypeInv, NEW p \in Callers, NEW error,
           EndAttempt(p, error), attempt[p] < MaxAttempts
    PROVE  /\ pc' \in [Callers -> PCs] /\ attempt' \in [Callers -> 0..MaxAttempts]
           /\ Tries'
<1>1. pc' = [pc EXCEPT ![p] = "failed"] /\ attempt' = [attempt EXCEPT ![p] = @ + 1]
  BY NoSecondAttempt DEF EndAttempt
<1>2. pc \in [Callers -> PCs] /\ attempt \in [Callers -> 0..MaxAttempts]
  BY DEF TypeInv, TypeOK
<1>3. attempt[p] + 1 \in 0..MaxAttempts
  BY <1>2 DEF ClientAssumption
<1>4. pc' \in [Callers -> PCs] /\ attempt' \in [Callers -> 0..MaxAttempts]
  BY <1>1, <1>2, <1>3 DEF PCs, Rest
<1>5. Tries'
  BY <1>1, <1>2 DEF Tries, InTurn, TypeInv
<1>6. QED BY <1>4, <1>5

\* A caller moves on within its turn, or ends its call.
LEMMA MoveTypes ==
    ASSUME ClientAssumption, TypeInv, NEW p \in Callers, NEW s \in PCs,
           pc' = [pc EXCEPT ![p] = s], UNCHANGED attempt,
           s \in InTurn => pc[p] \in InTurn
    PROVE  /\ pc' \in [Callers -> PCs] /\ attempt' \in [Callers -> 0..MaxAttempts]
           /\ Tries'
<1>1. pc \in [Callers -> PCs] /\ attempt \in [Callers -> 0..MaxAttempts]
  BY DEF TypeInv, TypeOK
<1>2. Tries'
  BY <1>1 DEF Tries, TypeInv
<1>3. QED BY <1>1, <1>2

\* Who holds a connection changes with pc.
LEMMA HoldsKept ==
    ASSUME TypeInv, NEW p \in Callers, NEW s, pc' = [pc EXCEPT ![p] = s],
           \/ UNCHANGED grant /\ (s \in Holding <=> pc[p] \in Holding)
           \/ grant' = [grant EXCEPT ![p] = NoConn] /\ s \notin Holding
    PROVE  Holds'
<1>1. pc \in [Callers -> PCs] /\ grant \in [Callers -> Conns \cup {NoConn}]
  BY DEF TypeInv, TypeOK
<1>2. pc'[p] = s /\ \A q \in Callers \ {p} : pc'[q] = pc[q]
  BY <1>1
<1>3. CASE UNCHANGED grant /\ (s \in Holding <=> pc[p] \in Holding)
  BY <1>2, <1>3 DEF TypeInv, Holds
<1>4. CASE grant' = [grant EXCEPT ![p] = NoConn] /\ s \notin Holding
  <2>1. grant'[p] = NoConn /\ \A q \in Callers \ {p} : grant'[q] = grant[q]
    BY <1>1, <1>4
  <2>2. QED BY <1>2, <1>4, <2>1 DEF TypeInv, Holds
<1>5. QED BY <1>3, <1>4

LEMMA AnsweredKept ==
    ASSUME TypeInv, NEW p \in Callers, NEW s, pc' = [pc EXCEPT ![p] = s],
           \A q \in Callers \ {p} : reply'[q] = reply[q],
           s = "store" => reply'[p] # NoAnswer
    PROVE  Answered'
<1>1. pc \in [Callers -> PCs]
  BY DEF TypeInv, TypeOK
<1>2. pc'[p] = s /\ \A q \in Callers \ {p} : pc'[q] = pc[q]
  BY <1>1
<1>3. QED BY <1>2 DEF TypeInv, Answered

LEMMA LeaveTypes ==
    ASSUME TypeInv, NEW p \in Callers, Pool!Leave(p)
    PROVE  /\ grant' = [grant EXCEPT ![p] = NoConn]
           /\ stage' \in [Callers -> {"out", "waiting", "using"}]
           /\ grant' \in [Callers -> Conns \cup {NoConn}] /\ shut' \in BOOLEAN
BY DEF TypeInv, TypeOK, Pool!Leave

LEMMA DropTypes ==
    ASSUME TypeInv, NEW cs, Drop(cs)
    PROVE  /\ open' \in SUBSET Conns /\ gone' \in SUBSET open'
           /\ toServer' \in [Conns -> Seq(Keys)] /\ toClient' \in [Conns -> Seq(Answers)]
           /\ toClient' \in [Conns -> Seq(Known)]
<1>1. open' \in SUBSET Conns /\ gone' \in SUBSET open'
  BY DEF TypeInv, TypeOK, Drop
<1>2. /\ toServer \in [Conns -> Seq(Keys)] /\ toClient \in [Conns -> Seq(Answers)]
      /\ toClient \in [Conns -> Seq(Known)]
  BY DEF TypeInv, TypeOK, Seen
<1>3. <<>> \in Seq(Keys) /\ <<>> \in Seq(Answers) /\ <<>> \in Seq(Known)
  BY EmptySeq
<1>4. QED BY <1>1, <1>2, <1>3 DEF Drop

LEMMA LetGoTypes ==
    ASSUME TypeInv, NEW p \in Callers, LetGo(p)
    PROVE  /\ stage' \in [Callers -> {"out", "waiting", "using"}]
           /\ grant' \in [Callers -> Conns \cup {NoConn}] /\ shut' \in BOOLEAN
           /\ open' \in SUBSET Conns /\ gone' \in SUBSET open'
           /\ toServer' \in [Conns -> Seq(Keys)] /\ toClient' \in [Conns -> Seq(Answers)]
           /\ toClient' \in [Conns -> Seq(Known)]
<1>1. CASE UNCHANGED wireVars
  BY <1>1, LeaveTypes DEF LetGo, TypeInv, TypeOK, Seen, wireVars
<1>2. CASE Drop({grant[p]})
  BY <1>2, LeaveTypes, DropTypes DEF LetGo
<1>3. QED BY <1>1, <1>2 DEF LetGo

LEMMA ReturnTypes ==
    ASSUME TypeInv, NEW p \in Callers, reply[p] # NoAnswer, Return(p, reply[p])
    PROVE  acked' \in 0..version /\ pc' = [pc EXCEPT ![p] = "got"]
<1>1. reply[p] \in Known /\ acked \in 0..version
  BY DEF TypeInv, TypeOK, Seen
<1>2. QED BY <1>1 DEF Return, Known

LEMMA InitTypes == ASSUME ClientAssumption, Init PROVE TypeInv
<1>1. TypeOK
  <2>1. toServer \in [Conns -> Seq(Keys)] /\ toClient \in [Conns -> Seq(Answers)]
    BY EmptySeq DEF Init
  <2>2. pc \in [Callers -> PCs] /\ attempt \in [Callers -> 0..MaxAttempts]
    BY DEF Init, PCs, Rest, ClientAssumption
  <2>3. /\ acked \in 0..version /\ floor \in [Callers -> 0..version]
        /\ version \in Nat /\ begun \in Nat /\ cancels \in Nat
    BY DEF Init
  <2>4. /\ stage \in [Callers -> {"out", "waiting", "using"}]
        /\ grant \in [Callers -> Conns \cup {NoConn}] /\ shut \in BOOLEAN
    BY DEF Init, Pool!Init
  <2>5. QED BY <2>1, <2>2, <2>3, <2>4 DEF Init, TypeOK
<1>2. Seen
  BY EmptySeq DEF Init, Seen
<1>3. Tries /\ Holds /\ Answered
  BY DEF Init, Pool!Init, Tries, Holds, Holding, Answered, ClientAssumption
<1>4. QED BY <1>1, <1>2, <1>3 DEF TypeInv

LEMMA BeginTypes ==
    ASSUME ClientAssumption, TypeInv, NEW p \in Callers, Begin(p) PROVE TypeInv'
<1> USE DEF TypeInv, Begin, poolVars, wireVars
<1>1. PICK k \in Keys :
        LET hit == UseCache /\ cache[k] # NoAnswer IN
        /\ req' = [req EXCEPT ![p] = k]
        /\ reply' = [reply EXCEPT ![p] = IF hit THEN cache[k] ELSE NoAnswer]
        /\ pc' = [pc EXCEPT ![p] = IF hit THEN "got" ELSE "calling"]
  OBVIOUS
<1>2. /\ attempt' = [attempt EXCEPT ![p] = 0] /\ floor' = [floor EXCEPT ![p] = acked]
      /\ healthy' = [healthy EXCEPT ![p] = TRUE] /\ begun' = begun + 1
      /\ UNCHANGED <<stage, grant, shut, open, gone, toServer, toClient, cache,
                     version, acked, cancels>>
  OBVIOUS
<1>3. PICK s \in {"got", "calling"} : pc' = [pc EXCEPT ![p] = s]
  BY <1>1
<1>4. pc' \in [Callers -> PCs] /\ attempt' \in [Callers -> 0..MaxAttempts]
  BY <1>2, <1>3 DEF TypeOK, PCs, Rest, ClientAssumption
<1>5. reply' \in [Callers -> Answers \cup {NoAnswer}] /\ req' \in [Callers -> Keys]
  BY <1>1 DEF TypeOK
<1>6. reply' \in [Callers -> Known \cup {NoAnswer}]
  BY <1>1 DEF Seen
<1>7. TypeOK'
  <2>1. floor' \in [Callers -> 0..version] /\ healthy' \in [Callers -> BOOLEAN]
    BY <1>2 DEF TypeOK
  <2>2. QED BY <1>2, <1>4, <1>5, <2>1 DEF TypeOK
<1>8. Seen'
  BY <1>2, <1>6 DEF Seen, Known
<1>9. Tries'
  BY <1>2, <1>3 DEF Tries, TypeOK, ClientAssumption
<1>10. Holds'
  BY <1>2, <1>3, HoldsKept DEF Holding, Rest
<1>11. Answered'
  <2>1. \A q \in Callers \ {p} : reply'[q] = reply[q]
    BY <1>1 DEF TypeOK
  <2>2. QED BY <1>3, <2>1, AnsweredKept
<1>12. QED BY <1>7, <1>8, <1>9, <1>10, <1>11

LEMMA EnterTypes ==
    ASSUME ClientAssumption, TypeInv, NEW p \in Callers, Enter(p) \/ AcquireFails(p)
    PROVE  TypeInv'
<1>1. UNCHANGED <<req, reply, healthy, open, gone, toServer, toClient, cache, version,
                  acked, floor, begun, cancels>>
  BY DEF Enter, AcquireFails, wireVars, histVars
<1>2. /\ stage' \in [Callers -> {"out", "waiting", "using"}]
      /\ grant' \in [Callers -> Conns \cup {NoConn}] /\ shut' \in BOOLEAN
  <2>1. CASE AcquireFails(p)
    BY <2>1, LeaveTypes DEF AcquireFails
  <2>2. CASE Enter(p)
    BY <2>2 DEF Enter, Pool!Enter, TypeInv, TypeOK, poolVars
  <2>3. QED BY <2>1, <2>2
<1>3. attempt[p] < MaxAttempts /\ pc[p] \in {"calling", "waiting"}
  BY DEF TypeInv, Tries, InTurn, Enter, AcquireFails
<1>4. /\ pc' \in [Callers -> PCs] /\ attempt' \in [Callers -> 0..MaxAttempts]
      /\ Tries'
  <2>1. CASE \E error : EndAttempt(p, error)
    BY <1>3, <2>1, EndAttemptTypes
  <2>2. CASE pc' = [pc EXCEPT ![p] = "waiting"] /\ UNCHANGED attempt
    BY <1>3, <2>2, MoveTypes DEF PCs, InTurn
  <2>3. QED BY <2>1, <2>2 DEF Enter, AcquireFails
<1>5. TypeOK'
  BY <1>1, <1>2, <1>4 DEF TypeInv, TypeOK
<1>6. Seen'
  BY <1>1 DEF TypeInv, Seen, Known
<1>7. Holds' /\ Answered'
  <2>1. PICK s \in {"waiting", "failed"} : pc' = [pc EXCEPT ![p] = s]
    BY NoSecondAttempt DEF Enter, AcquireFails
  <2>2. grant' = grant \/ grant' = [grant EXCEPT ![p] = NoConn]
    BY LeaveTypes DEF Enter, AcquireFails, Pool!Enter, poolVars
  <2>3. Holds'
    BY <1>3, <2>1, <2>2, HoldsKept DEF Holding
  <2>4. QED BY <1>1, <2>1, <2>3, AnsweredKept
<1>8. QED BY <1>4, <1>5, <1>6, <1>7 DEF TypeInv

LEMMA SendTypes ==
    ASSUME ClientAssumption, TypeInv, NEW p \in Callers, Send(p) PROVE TypeInv'
<1> USE DEF TypeInv
<1>1. PICK c \in Conns : (\A q \in Callers : grant[q] # c)
                         /\ grant' = [grant EXCEPT ![p] = c]
  BY DEF Send, Pool!Grant
<1>2. grant'[p] = c /\ grant' \in [Callers -> Conns \cup {NoConn}]
  BY <1>1 DEF TypeOK
<1>3. /\ open' = open \cup {c}
      /\ toServer' = [toServer EXCEPT ![c] = IF c \in gone THEN @ ELSE @ \o Lines(p)]
      /\ pc' = [pc EXCEPT ![p] = "reading"] /\ healthy' = [healthy EXCEPT ![p] = TRUE]
      /\ pc[p] = "waiting"
      /\ stage' = [stage EXCEPT ![p] = "using"]
      /\ UNCHANGED <<shut, req, reply, attempt, gone, toClient, cache, version, acked,
                     floor, begun, cancels>>
  BY <1>2 DEF Send, Pool!Grant, histVars
<1>4. toServer' \in [Conns -> Seq(Keys)]
  <2>1. toServer \in [Conns -> Seq(Keys)] /\ Lines(p) \in Seq(Keys)
    BY DEF TypeOK, Lines
  <2>2. toServer[c] \o Lines(p) \in Seq(Keys)
    BY <2>1, ConcatProperties
  <2>3. QED BY <1>3, <2>1, <2>2
<1>5. pc' \in [Callers -> PCs] /\ attempt' \in [Callers -> 0..MaxAttempts] /\ Tries'
  BY <1>3, MoveTypes DEF PCs, InTurn
<1>6. TypeOK'
  <2>1. /\ stage' \in [Callers -> {"out", "waiting", "using"}]
        /\ healthy' \in [Callers -> BOOLEAN]
    BY <1>3 DEF TypeOK
  <2>2. open' \in SUBSET Conns /\ gone' \in SUBSET open'
    BY <1>3 DEF TypeOK
  <2>3. QED BY <1>2, <1>3, <1>4, <1>5, <2>1, <2>2 DEF TypeOK
<1>7. Seen'
  BY <1>3 DEF Seen, Known
<1>8. Holds'
  <2>1. /\ pc'[p] = "reading" /\ grant'[p] = c /\ c # NoConn
        /\ \A q \in Callers \ {p} : pc'[q] = pc[q] /\ grant'[q] = grant[q]
    BY <1>1, <1>2, <1>3 DEF TypeOK, ClientAssumption
  <2>2. QED BY <1>1, <2>1 DEF Holds, Holding
<1>9. Answered'
  BY <1>3, AnsweredKept
<1>10. QED BY <1>5, <1>6, <1>7, <1>8, <1>9

\* The end of a sequence.
LEMMA Suffix ==
    ASSUME NEW S, NEW s \in Seq(S), NEW n \in 1..Len(s)
    PROVE  /\ SubSeq(s, n + 1, Len(s)) \in Seq(S)
           /\ Len(SubSeq(s, n + 1, Len(s))) = Len(s) - n
<1>1. Len(s) \in Nat /\ n \in Nat
  BY LenProperties
<1>2. \A i \in n + 1 .. Len(s) : s[i] \in S
  BY <1>1, ElementOfSeq
<1>3. QED BY <1>1, <1>2, SubSeqProperties

LEMMA ReadTypes ==
    ASSUME ClientAssumption, TypeInv, NEW p \in Callers, Read(p) PROVE TypeInv'
<1> USE DEF TypeInv
<1> DEFINE c == grant[p]
<1>1. PICK n \in 1..Len(toClient[c]) :
        /\ toClient' = [toClient EXCEPT ![c] = SubSeq(@, n + 1, Len(@))]
        /\ reply' = [reply EXCEPT ![p] = IF n = 1 THEN toClient[c][1] ELSE NoAnswer]
        /\ healthy' = [healthy EXCEPT ![p] = n = 1]
  BY DEF Read
<1>2. /\ pc' = [pc EXCEPT ![p] = "release"] /\ pc[p] = "reading"
      /\ UNCHANGED <<stage, grant, shut, req, attempt, open, gone, toServer, cache,
                     version, acked, floor, begun, cancels>>
  BY DEF Read, poolVars, histVars
<1>3. c \in Conns
  BY <1>2 DEF Holds, Holding, TypeOK
<1>4. /\ toClient[c] \in Seq(Known) /\ toClient[c] \in Seq(Answers)
      /\ toClient \in [Conns -> Seq(Known)] /\ toClient \in [Conns -> Seq(Answers)]
  BY <1>3 DEF Seen, TypeOK
<1>5. toClient[c][1] \in Known /\ toClient[c][1] \in Answers
  <2>1. Len(toClient[c]) \in Nat /\ 1 \in 1..Len(toClient[c])
    BY <1>4, LenProperties
  <2>2. QED BY <1>4, <2>1, ElementOfSeq
<1>6. /\ toClient' \in [Conns -> Seq(Known)] /\ toClient' \in [Conns -> Seq(Answers)]
  BY <1>1, <1>4, Suffix
<1>7. /\ reply' \in [Callers -> Known \cup {NoAnswer}]
      /\ reply' \in [Callers -> Answers \cup {NoAnswer}]
      /\ healthy' \in [Callers -> BOOLEAN]
  BY <1>1, <1>5 DEF Seen, TypeOK
<1>8. pc' \in [Callers -> PCs] /\ attempt' \in [Callers -> 0..MaxAttempts] /\ Tries'
  BY <1>2, MoveTypes DEF PCs, InTurn
<1>9. Holds'
  BY <1>2, HoldsKept DEF Holding
<1>10. TypeOK'
  BY <1>2, <1>6, <1>7, <1>8 DEF TypeOK
<1>11. Seen'
  BY <1>2, <1>6, <1>7 DEF Seen, Known
<1>12. Answered'
  <2>1. \A q \in Callers \ {p} : reply'[q] = reply[q]
    BY <1>1 DEF TypeOK
  <2>2. QED BY <1>2, <2>1, AnsweredKept
<1>13. QED BY <1>8, <1>9, <1>10, <1>11, <1>12

LEMMA ReadFailsTypes ==
    ASSUME ClientAssumption, TypeInv, NEW p \in Callers, ReadFails(p) PROVE TypeInv'
<1> USE DEF TypeInv
<1>1. /\ pc' = [pc EXCEPT ![p] = "release"] /\ pc[p] = "reading"
      /\ healthy' = [healthy EXCEPT ![p] = FALSE]
      /\ UNCHANGED <<stage, grant, shut, req, reply, attempt, open, gone, toServer,
                     toClient, cache, version, acked, floor, begun, cancels>>
  BY DEF ReadFails, poolVars, wireVars, histVars
<1>2. pc' \in [Callers -> PCs] /\ attempt' \in [Callers -> 0..MaxAttempts] /\ Tries'
  BY <1>1, MoveTypes DEF PCs, InTurn
<1>3. Holds'
  BY <1>1, HoldsKept DEF Holding
<1>4. TypeOK'
  BY <1>1, <1>2 DEF TypeOK
<1>5. Seen'
  BY <1>1 DEF Seen, Known
<1>6. Answered'
  BY <1>1, AnsweredKept
<1>7. QED BY <1>2, <1>3, <1>4, <1>5, <1>6

LEMMA ReleaseTypes ==
    ASSUME ClientAssumption, TypeInv, NEW p \in Callers, Release(p) PROVE TypeInv'
<1> USE DEF TypeInv
<1>1. /\ pc[p] = "release" /\ LetGo(p) /\ Pool!Leave(p)
      /\ UNCHANGED <<req, reply, healthy, cache, version, floor, begun, cancels>>
  BY DEF Release, LetGo
<1>2. attempt[p] < MaxAttempts
  BY <1>1 DEF Tries, InTurn
<1>3. /\ pc' \in [Callers -> PCs] /\ attempt' \in [Callers -> 0..MaxAttempts]
      /\ Tries' /\ acked' \in 0..version
      /\ \E s \in {"failed", "store", "got"} :
            /\ pc' = [pc EXCEPT ![p] = s]
            /\ s = "store" => reply[p] # NoAnswer
  <2>1. CASE reply[p] = NoAnswer
    <3>1. EndAttempt(p, "Exception") /\ UNCHANGED acked
      BY <2>1 DEF Release
    <3>2. pc' = [pc EXCEPT ![p] = "failed"]
      BY <3>1, NoSecondAttempt
    <3>3. /\ pc' \in [Callers -> PCs] /\ attempt' \in [Callers -> 0..MaxAttempts]
          /\ Tries'
      BY <1>2, <3>1, EndAttemptTypes
    <3>4. QED BY <3>1, <3>2, <3>3 DEF TypeOK
  <2>2. CASE reply[p] # NoAnswer
    <3>1. UNCHANGED attempt
      BY <2>2 DEF Release
    <3>2. CASE UseCache
      <4>1. pc' = [pc EXCEPT ![p] = "store"] /\ UNCHANGED acked
        BY <2>2, <3>2 DEF Release
      <4>2. /\ pc' \in [Callers -> PCs] /\ attempt' \in [Callers -> 0..MaxAttempts]
            /\ Tries'
        BY <3>1, <4>1, MoveTypes DEF PCs, InTurn
      <4>3. QED BY <2>2, <4>1, <4>2 DEF TypeOK
    <3>3. CASE ~UseCache
      <4>1. Return(p, reply[p])
        BY <2>2, <3>3 DEF Release
      <4>2. acked' \in 0..version /\ pc' = [pc EXCEPT ![p] = "got"]
        BY <2>2, <4>1, ReturnTypes
      <4>3. /\ pc' \in [Callers -> PCs] /\ attempt' \in [Callers -> 0..MaxAttempts]
            /\ Tries'
        BY <3>1, <4>2, MoveTypes DEF PCs, Rest, InTurn
      <4>4. QED BY <4>2, <4>3
    <3>4. QED BY <3>2, <3>3
  <2>3. QED BY <2>1, <2>2
<1>4. Holds'
  BY <1>1, <1>3, LeaveTypes, HoldsKept DEF Holding
<1>5. TypeOK'
  BY <1>1, <1>3, LetGoTypes DEF TypeOK
<1>6. Seen'
  BY <1>1, LetGoTypes DEF Seen, Known
<1>7. Answered'
  BY <1>1, <1>3, AnsweredKept
<1>8. QED BY <1>3, <1>4, <1>5, <1>6, <1>7

LEMMA StoreTypes ==
    ASSUME ClientAssumption, TypeInv, NEW p \in Callers, Store(p) PROVE TypeInv'
<1> USE DEF TypeInv
<1>1. /\ pc[p] = "store" /\ Return(p, reply[p])
      /\ cache' = cache \/ cache' = [cache EXCEPT ![req[p]] = reply[p]]
      /\ UNCHANGED <<stage, grant, shut, req, reply, healthy, attempt, open, gone,
                     toServer, toClient, version, floor, begun, cancels>>
  BY DEF Store, poolVars, wireVars
<1>0. reply[p] # NoAnswer
  BY <1>1 DEF Answered
<1>2. acked' \in 0..version /\ pc' = [pc EXCEPT ![p] = "got"]
  BY <1>0, <1>1, ReturnTypes
<1>3. pc' \in [Callers -> PCs] /\ attempt' \in [Callers -> 0..MaxAttempts] /\ Tries'
  BY <1>1, <1>2, MoveTypes DEF PCs, Rest, InTurn
<1>4. Holds'
  BY <1>1, <1>2, HoldsKept DEF Holding
<1>5. /\ cache' \in [Keys -> Answers \cup {NoAnswer}]
      /\ cache' \in [Keys -> Known \cup {NoAnswer}]
  <2>1. /\ cache \in [Keys -> Answers \cup {NoAnswer}] /\ req[p] \in Keys
        /\ reply[p] \in Answers \cup {NoAnswer}
    BY DEF TypeOK
  <2>2. /\ cache \in [Keys -> Known \cup {NoAnswer}]
        /\ reply[p] \in Known \cup {NoAnswer}
    BY DEF Seen
  <2>3. QED BY <1>1, <2>1, <2>2
<1>6. TypeOK'
  BY <1>1, <1>2, <1>3, <1>5 DEF TypeOK
<1>7. Seen'
  BY <1>1, <1>5 DEF Seen, Known
<1>8. Answered'
  BY <1>1, <1>2, AnsweredKept
<1>9. QED BY <1>3, <1>4, <1>6, <1>7, <1>8

\* A cancelled call goes on to release its connection, or leaves at once.
LEMMA CancelTypes ==
    ASSUME ClientAssumption, TypeInv, NEW p \in Callers, Cancel(p) \/ Abort(p)
    PROVE  TypeInv'
<1> USE DEF TypeInv
<1>1. /\ UNCHANGED <<req, reply, healthy, attempt, cache, version, acked, floor, begun>>
      /\ cancels' \in Nat
  BY DEF Cancel, Abort, TypeOK, histVars
<1>2. \/ /\ pc[p] \in {"calling", "store"} /\ pc' = [pc EXCEPT ![p] = "cancelled"]
         /\ UNCHANGED <<poolVars, wireVars>>
      \/ /\ pc[p] = "waiting" /\ Pool!Leave(p) /\ pc' = [pc EXCEPT ![p] = "cancelled"]
         /\ UNCHANGED wireVars
      \/ /\ pc[p] = "reading" /\ pc' = [pc EXCEPT ![p] = "aborting"]
         /\ UNCHANGED <<poolVars, wireVars>>
      \/ /\ pc[p] \in {"release", "aborting"} /\ LetGo(p)
         /\ pc' = [pc EXCEPT ![p] = "cancelled"]
  BY DEF Cancel, Abort, LetGo
<1>3. PICK s \in {"cancelled", "aborting"} : pc' = [pc EXCEPT ![p] = s]
  BY <1>2
<1>4. pc' \in [Callers -> PCs] /\ attempt' \in [Callers -> 0..MaxAttempts] /\ Tries'
  BY <1>1, <1>3, MoveTypes DEF PCs, Rest, InTurn
<1>5. /\ stage' \in [Callers -> {"out", "waiting", "using"}]
      /\ grant' \in [Callers -> Conns \cup {NoConn}] /\ shut' \in BOOLEAN
  <2>1. CASE UNCHANGED poolVars
    BY <2>1 DEF poolVars, TypeOK
  <2>2. CASE Pool!Leave(p)
    BY <2>2, LeaveTypes
  <2>3. QED BY <1>2, <2>1, <2>2 DEF LetGo
<1>6. /\ open' \in SUBSET Conns /\ gone' \in SUBSET open'
      /\ toServer' \in [Conns -> Seq(Keys)] /\ toClient' \in [Conns -> Seq(Answers)]
      /\ toClient' \in [Conns -> Seq(Known)]
  <2>1. CASE UNCHANGED wireVars
    BY <2>1 DEF wireVars, TypeOK, Seen
  <2>2. CASE LetGo(p)
    BY <2>2, LetGoTypes
  <2>3. QED BY <1>2, <2>1, <2>2
<1>7. Holds'
  <2>1. CASE pc[p] \in {"calling", "store"} /\ UNCHANGED poolVars
             /\ pc' = [pc EXCEPT ![p] = "cancelled"]
    BY <2>1, HoldsKept DEF Holding, poolVars
  <2>2. CASE pc[p] = "reading" /\ UNCHANGED poolVars
             /\ pc' = [pc EXCEPT ![p] = "aborting"]
    BY <2>2, HoldsKept DEF Holding, poolVars
  <2>3. CASE Pool!Leave(p) /\ pc' = [pc EXCEPT ![p] = "cancelled"]
    BY <2>3, LeaveTypes, HoldsKept DEF Holding
  <2>4. QED BY <1>2, <2>1, <2>2, <2>3 DEF LetGo
<1>8. TypeOK'
  BY <1>1, <1>4, <1>5, <1>6 DEF TypeOK
<1>9. Seen'
  BY <1>1, <1>6 DEF Seen, Known
<1>10. Answered'
  BY <1>1, <1>3, AnsweredKept
<1>11. QED BY <1>4, <1>7, <1>8, <1>9, <1>10

LEMMA ServeTypes ==
    ASSUME ClientAssumption, TypeInv, NEW c \in Conns, Serve(c) PROVE TypeInv'
<1> USE DEF TypeInv
<1> DEFINE k == Head(toServer[c])
           v == IF k \in Writes THEN version + 1 ELSE version
           a == [key |-> k, seen |-> v]
<1>1. /\ toServer[c] # <<>> /\ version' = v
      /\ toServer' = [toServer EXCEPT ![c] = Tail(@)]
      /\ toClient' = [toClient EXCEPT ![c] = IF c \in gone THEN @ ELSE Append(@, a)]
      /\ UNCHANGED <<stage, grant, shut, pc, req, reply, healthy, attempt, open, gone,
                     cache, acked, floor, begun, cancels>>
  BY DEF Serve, poolVars, callVars
<1>2. /\ toServer[c] \in Seq(Keys) /\ toServer \in [Conns -> Seq(Keys)]
      /\ toClient \in [Conns -> Seq(Answers)] /\ toClient \in [Conns -> Seq(Known)]
      /\ version \in Nat
  BY DEF TypeOK, Seen
<1>3. k \in Keys /\ Tail(toServer[c]) \in Seq(Keys)
  BY <1>1, <1>2, HeadTailProperties
<1>4. v \in Nat /\ version <= v /\ version' \in Nat
  BY <1>1, <1>2
<1>5. Known \subseteq Known' /\ Seq(Known) \subseteq Seq(Known')
  BY <1>1, <1>2, <1>4, KnownGrows
<1>6. a \in Answers /\ a \in Known'
  BY <1>1, <1>3, <1>4 DEF Answers, Known
<1> HIDE DEF a, v, k
<1>7. /\ toServer' \in [Conns -> Seq(Keys)]
      /\ toClient' \in [Conns -> Seq(Answers)] /\ toClient' \in [Conns -> Seq(Known')]
  <2>1. Append(toClient[c], a) \in Seq(Answers)
    BY <1>2, <1>6, AppendProperties
  <2>2. toClient[c] \in Seq(Known')
    BY <1>2, <1>5
  <2>3. Append(toClient[c], a) \in Seq(Known')
    BY <1>6, <2>2, AppendProperties
  <2>4. QED BY <1>1, <1>2, <1>3, <1>5, <2>1, <2>2, <2>3
<1>8. TypeOK'
  <2>1. acked' \in 0..version' /\ floor' \in [Callers -> 0..version']
    BY <1>1, <1>4 DEF TypeOK
  <2>2. QED BY <1>1, <1>4, <1>7, <2>1 DEF TypeOK
<1>9. Seen'
  BY <1>1, <1>5, <1>7 DEF Seen
<1>10. Tries' /\ Holds' /\ Answered'
  BY <1>1 DEF Tries, Holds, Answered
<1>11. QED BY <1>8, <1>9, <1>10

LEMMA EnvironmentTypes ==
    ASSUME ClientAssumption, TypeInv, Environment PROVE TypeInv'
<1> USE DEF TypeInv
<1>1. CASE \E c \in Conns : Serve(c)
  BY <1>1, ServeTypes
<1>2. CASE Close \/ (\E c \in Conns : Retire(c) \/ CloseHeld(c) \/ PeerClose(c))
           \/ (\E k \in Keys : Forget(k))
  <2>1. UNCHANGED <<stage, grant, pc, req, reply, healthy, attempt, version, acked,
                    floor, begun, cancels>>
    BY <1>2 DEF Close, Pool!Shut, Retire, CloseHeld, PeerClose, Forget, poolVars,
                callVars, histVars
  <2>2. shut' \in BOOLEAN
    BY <1>2 DEF Close, Pool!Shut, Retire, CloseHeld, PeerClose, Forget, poolVars, TypeOK
  <2>3. /\ cache' \in [Keys -> Answers \cup {NoAnswer}]
        /\ cache' \in [Keys -> Known \cup {NoAnswer}]
    <3>1. CASE \E k \in Keys : Forget(k)
      BY <3>1 DEF Forget, TypeOK, Seen
    <3>2. CASE UNCHANGED cache
      BY <3>2 DEF TypeOK, Seen
    <3>3. QED BY <1>2, <3>1, <3>2 DEF Close, Retire, CloseHeld, PeerClose
  <2>4. /\ open' \in SUBSET Conns /\ gone' \in SUBSET open'
        /\ toServer' \in [Conns -> Seq(Keys)] /\ toClient' \in [Conns -> Seq(Answers)]
        /\ toClient' \in [Conns -> Seq(Known)]
    <3>1. CASE \E c \in Conns : Retire(c)
      BY <3>1, DropTypes DEF Retire
    <3>2. CASE UNCHANGED wireVars
      BY <3>2 DEF wireVars, TypeOK, Seen
    <3>3. ASSUME NEW c \in Conns, CloseHeld(c) \/ PeerClose(c)
          PROVE  /\ open' \in SUBSET Conns /\ gone' \in SUBSET open'
                 /\ toServer' \in [Conns -> Seq(Keys)]
                 /\ UNCHANGED toClient
      <4>1. gone' = gone \cup {c} /\ c \in open /\ UNCHANGED <<open, toClient>>
        BY <3>3 DEF CloseHeld, PeerClose
      <4>2. toServer' \in [Conns -> Seq(Keys)]
        <5>1. toServer \in [Conns -> Seq(Keys)] /\ <<>> \in Seq(Keys)
          BY EmptySeq DEF TypeOK
        <5>2. UNCHANGED toServer \/ toServer' = [toServer EXCEPT ![c] = <<>>]
          BY <3>3 DEF CloseHeld, PeerClose
        <5>3. QED BY <5>1, <5>2
      <4>3. QED BY <4>1, <4>2 DEF TypeOK
    <3>4. QED BY <1>2, <3>1, <3>2, <3>3 DEF Close, Forget, TypeOK, Seen
  <2>5. TypeOK'
    BY <2>1, <2>2, <2>3, <2>4 DEF TypeOK
  <2>6. Seen'
    BY <2>1, <2>3, <2>4 DEF Seen, Known
  <2>7. Tries' /\ Holds' /\ Answered'
    BY <2>1 DEF Tries, Holds, Answered
  <2>8. QED BY <2>5, <2>6, <2>7
<1>3. QED BY <1>1, <1>2 DEF Environment

LEMMA NextTypes == ASSUME ClientAssumption, TypeInv, [Next]_vars PROVE TypeInv'
<1>1. CASE UNCHANGED vars
  <2>1. TypeOK' /\ Seen'
    BY <1>1 DEF vars, poolVars, callVars, wireVars, histVars, TypeInv, TypeOK, Seen, Known
  <2>2. Tries' /\ Holds' /\ Answered'
    BY <1>1 DEF vars, poolVars, callVars, TypeInv, Tries, Holds, Answered
  <2>3. QED BY <2>1, <2>2 DEF TypeInv
<1>2. CASE Environment
  BY <1>2, EnvironmentTypes
<1>3. ASSUME NEW p \in Callers, Call(p) PROVE TypeInv'
  BY <1>3, BeginTypes, EnterTypes, SendTypes, ReadTypes, ReadFailsTypes, ReleaseTypes,
     StoreTypes, CancelTypes DEF Call, Progress
<1>4. QED BY <1>1, <1>2, <1>3 DEF Next

LEMMA TypeInvHolds == Spec => []TypeInv
<1>1. Init => TypeInv
  BY InitTypes, ClientAssumption
<1>2. TypeInv /\ [Next]_vars => TypeInv'
  BY NextTypes, ClientAssumption
<1>3. QED BY <1>1, <1>2, PTL DEF Spec

\* Whatever is cancelled, closed or lost, the client's state has its types; in
\* particular nobody runs past the retry loop's last turn, and no write is known
\* to have succeeded that ImHex has not executed.
THEOREM ClientTypeCorrect == Spec => []TypeOK
<1>1. TypeInv => TypeOK
  BY DEF TypeInv
<1>2. QED BY <1>1, TypeInvHolds, PTL

\* Whatever is cancelled, closed or lost, a connection is in the hands of at most
\* one call, from acquire() to the end of release().
THEOREM ClientHolds == Spec => []Holds
<1>1. TypeInv => Holds
  BY DEF TypeInv
<1>2. QED BY <1>1, TypeInvHolds, PTL
-----------------------------------------------------------------------------
(* What cancelled calls leave on the connections: one answer at most for     *)
(* each of them.  Only the cancellation of a reader adds a stray answer, and *)
(* a connection that is closed keeps none.                                   *)

Closed == \A c \in Conns \ open : toServer[c] = <<>> /\ toClient[c] = <<>>

StrayInv == Closed /\ IsFiniteSet(StrayAnswers) /\ StraysFromCancels

LEMMA ReaderAlone ==
    ASSUME ClientAssumption, TypeInv, NEW p \in Callers, pc[p] = "reading"
    PROVE  Readers(grant[p]) = {p} /\ Cardinality(Readers(grant[p])) = 1
<1>1. \A q \in Callers : pc[q] = "reading" /\ grant[q] = grant[p] => q = p
  BY DEF TypeInv, Holds, Holding
<1>2. Readers(grant[p]) = {p}
  BY <1>1 DEF Readers
<1>3. QED BY <1>2, FS_Singleton

LEMMA NoReader ==
    ASSUME NEW c, \A p \in Callers : ~(pc[p] = "reading" /\ grant[p] = c)
    PROVE  Readers(c) = {} /\ Cardinality(Readers(c)) = 0
BY FS_EmptySet DEF Readers

LEMMA StraysType ==
    ASSUME ClientAssumption, TypeInv, NEW c \in Conns
    PROVE  /\ Len(toServer[c]) \in Nat /\ Len(toClient[c]) \in Nat
           /\ Cardinality(Readers(c)) \in {0, 1} /\ Strays(c) \in Int
<1>1. Len(toServer[c]) \in Nat /\ Len(toClient[c]) \in Nat
  BY LenProperties DEF TypeInv, TypeOK
<1>2. Cardinality(Readers(c)) \in {0, 1}
  BY ReaderAlone, NoReader
<1>3. QED BY <1>1, <1>2 DEF Strays

\* A step of a caller that was not reading and will not be.
LEMMA ReadersKept ==
    ASSUME TypeInv, NEW p \in Callers, NEW s, pc' = [pc EXCEPT ![p] = s],
           s # "reading", pc[p] # "reading",
           \A q \in Callers \ {p} : grant'[q] = grant[q]
    PROVE  \A c : Readers(c)' = Readers(c)
<1>1. pc \in [Callers -> PCs]
  BY DEF TypeInv, TypeOK
<1>2. pc'[p] = s /\ \A q \in Callers \ {p} : pc'[q] = pc[q]
  BY <1>1
<1>3. QED BY <1>2 DEF Readers

\* No connection has more strays than before, or is new with one.
LEMMA StraysShrink ==
    ASSUME ClientAssumption, TypeInv, StrayInv, Closed',
           cancels' \in Nat, cancels <= cancels',
           \A c \in open' \ gone' :
               /\ Strays(c)' \in Nat
               /\ Strays(c)' = 0 \/ (c \in open \ gone /\ Strays(c)' <= Strays(c))
    PROVE  StrayInv'
<1>1. StrayAnswers' \subseteq StrayAnswers
  <2>1. ASSUME NEW c \in open' \ gone', NEW i \in 1..(Strays(c)')
        PROVE  c \in open \ gone /\ i \in 1..Strays(c)
    <3>1. c \in Conns
      BY DEF TypeInv, TypeOK
    <3>2. Strays(c) \in Int /\ Strays(c)' \in Int
      BY <3>1, StraysType
    <3>3. QED BY <2>1, <3>2
  <2>2. QED BY <2>1 DEF StrayAnswers
<1>2. /\ IsFiniteSet(StrayAnswers')
      /\ Cardinality(StrayAnswers') <= Cardinality(StrayAnswers)
  BY <1>1, FS_Subset DEF StrayInv
<1>3. Cardinality(StrayAnswers) \in Nat /\ Cardinality(StrayAnswers') \in Nat
  BY <1>2, FS_CardinalityType DEF StrayInv
<1>4. cancels \in Nat /\ cancels' \in Nat
  BY DEF TypeInv, TypeOK
<1>5. Cardinality(StrayAnswers') <= cancels'
  BY <1>2, <1>3, <1>4 DEF StrayInv, StraysFromCancels
<1>6. QED BY <1>2, <1>5 DEF StrayInv, StraysFromCancels

\* Connections that go keep nothing; the others stay as they are.
LEMMA SameStrays ==
    ASSUME ClientAssumption, TypeInv, StrayInv, Closed',
           cancels' \in Nat, cancels <= cancels',
           \A c \in open' \ gone' :
               /\ c \in open \ gone /\ toServer'[c] = toServer[c]
               /\ toClient'[c] = toClient[c] /\ Readers(c)' = Readers(c)
    PROVE  StrayInv'
<1>1. ASSUME NEW c \in open' \ gone'
      PROVE  /\ Strays(c)' \in Nat
             /\ Strays(c)' = 0 \/ (c \in open \ gone /\ Strays(c)' <= Strays(c))
  <2>1. c \in open \ gone /\ c \in Conns /\ Strays(c)' = Strays(c)
    BY DEF Strays, TypeInv, TypeOK
  <2>2. Strays(c) \in Int /\ Strays(c) >= 0
    BY <2>1, StraysType DEF StrayInv, StraysFromCancels
  <2>3. QED BY <2>1, <2>2
<1>2. QED BY <1>1, StraysShrink

\* The wires are left alone, but for ends that the other side closes.
LEMMA QuietStrays ==
    ASSUME ClientAssumption, TypeInv, StrayInv, cancels' \in Nat, cancels <= cancels',
           UNCHANGED <<open, toServer, toClient>>, gone \subseteq gone',
           \A c \in open \ gone' : Readers(c)' = Readers(c)
    PROVE  StrayInv'
<1>1. Closed'
  BY DEF StrayInv, Closed
<1>2. QED BY <1>1, SameStrays

LEMMA DropClosed ==
    ASSUME StrayInv, NEW cs, Drop(cs) PROVE Closed'
BY DEF StrayInv, Closed, Drop

LEMMA DropStrays ==
    ASSUME ClientAssumption, TypeInv, StrayInv, cancels' \in Nat, cancels <= cancels',
           NEW cs, Drop(cs), \A c : Readers(c)' = Readers(c)
    PROVE  StrayInv'
<1>1. Closed'
  BY DropClosed
<1>2. \A c \in open' \ gone' :
         /\ c \in open \ gone /\ toServer'[c] = toServer[c] /\ toClient'[c] = toClient[c]
  BY DEF Drop, TypeInv, TypeOK
<1>3. QED BY <1>1, <1>2, SameStrays

\* Callers that hold nothing, or let go of what they hold.
LEMMA CallerStrays ==
    ASSUME ClientAssumption, TypeInv, StrayInv, NEW p \in Callers,
           \/ Begin(p) \/ Enter(p) \/ AcquireFails(p) \/ Release(p) \/ Store(p)
           \/ Abort(p) \/ (Cancel(p) /\ pc[p] # "reading")
    PROVE  StrayInv'
<1>1. cancels' \in Nat /\ cancels <= cancels'
  BY DEF TypeInv, TypeOK, Begin, Enter, AcquireFails, Release, Store, Abort, Cancel
<1>2. \A q \in Callers \ {p} : grant'[q] = grant[q]
  <2>1. Pool!Leave(p) \/ Pool!Enter(p) \/ UNCHANGED grant
    BY DEF Begin, Enter, AcquireFails, Release, Store, Abort, Cancel, LetGo, poolVars
  <2>2. grant \in [Callers -> Conns \cup {NoConn}]
    BY DEF TypeInv, TypeOK
  <2>3. QED BY <2>1, <2>2 DEF Pool!Leave, Pool!Enter
<1>3. PICK s \in Rest \cup {"calling", "waiting", "store"} : pc' = [pc EXCEPT ![p] = s]
  BY NoSecondAttempt DEF Begin, Enter, AcquireFails, Release, Store, Abort, Cancel,
                         Return, Rest
<1>4. pc[p] # "reading"
  BY DEF Begin, Enter, AcquireFails, Release, Store, Abort, Rest
<1>5. \A c : Readers(c)' = Readers(c)
  BY <1>2, <1>3, <1>4, ReadersKept DEF Rest
<1>6. UNCHANGED wireVars \/ \E cs : Drop(cs)
  BY <1>4 DEF Begin, Enter, AcquireFails, Release, Store, Abort, Cancel, LetGo
<1>7. CASE UNCHANGED wireVars
  BY <1>1, <1>5, <1>7, QuietStrays DEF wireVars
<1>8. CASE \E cs : Drop(cs)
  BY <1>1, <1>5, <1>8, DropStrays
<1>9. QED BY <1>6, <1>7, <1>8

\* The request is the reader's: its answer is not stray.
LEMMA SendStrays ==
    ASSUME ClientAssumption, TypeInv, StrayInv, NEW p \in Callers, Send(p)
    PROVE  StrayInv'
<1>1. PICK c \in Conns : (\A q \in Callers : grant[q] # c)
                         /\ grant' = [grant EXCEPT ![p] = c]
  BY DEF Send, Pool!Grant
<1>2. /\ grant'[p] = c /\ pc'[p] = "reading" /\ pc[p] = "waiting"
      /\ \A q \in Callers \ {p} : grant'[q] = grant[q] /\ pc'[q] = pc[q]
      /\ open' = open \cup {c} /\ UNCHANGED <<gone, toClient, cancels>>
      /\ toServer' = [toServer EXCEPT ![c] = IF c \in gone THEN @ ELSE @ \o Lines(p)]
  BY <1>1 DEF Send, TypeInv, TypeOK
<1>3. toServer \in [Conns -> Seq(Keys)] /\ Lines(p) = <<req[p]>> /\ req[p] \in Keys
  BY DEF TypeInv, TypeOK, Lines
<1>4. Len(toServer[c] \o Lines(p)) = Len(toServer[c]) + 1
  <2>1. Lines(p) \in Seq(Keys) /\ Len(Lines(p)) = 1
    BY <1>3
  <2>2. QED BY <1>3, <2>1, ConcatProperties
<1>5. \A d \in Conns \ {c} : toServer'[d] = toServer[d] /\ Readers(d)' = Readers(d)
  BY <1>2 DEF Readers
<1>6. Closed'
  BY <1>2, <1>5 DEF StrayInv, Closed
<1>7. ASSUME NEW d \in open' \ gone'
      PROVE  /\ Strays(d)' \in Nat
             /\ Strays(d)' = 0 \/ (d \in open \ gone /\ Strays(d)' <= Strays(d))
  <2>1. d \in Conns
    BY <1>1, <1>2 DEF TypeInv, TypeOK
  <2>2. Strays(d) \in Int /\ (d \in open \ gone => Strays(d) >= 0)
    BY <2>1, StraysType DEF StrayInv, StraysFromCancels
  <2>3. CASE d # c
    <3>1. d \in open \ gone /\ Strays(d)' = Strays(d)
      BY <1>2, <1>5, <2>1, <2>3 DEF Strays
    <3>2. QED BY <2>2, <3>1
  <2>4. CASE d = c
    <3>1. c \notin gone
      BY <1>2, <2>4
    <3>2. Cardinality(Readers(c)) = 0
      BY <1>1, NoReader
    <3>3. Readers(c)' = {p} /\ Cardinality(Readers(c)') = 1
      <4>1. Readers(c)' = {p}
        BY <1>1, <1>2 DEF Readers
      <4>2. QED BY <4>1, FS_Singleton
    <3>4. Strays(c)' = Len(toServer[c]) + 1 + Len(toClient[c]) - 1
      BY <1>2, <1>3, <1>4, <3>1, <3>3 DEF Strays
    <3>5. /\ Strays(c) = Len(toServer[c]) + Len(toClient[c]) - 0
          /\ Len(toServer[c]) \in Nat /\ Len(toClient[c]) \in Nat
      BY <3>2, StraysType DEF Strays
    <3>6. Strays(c)' = Strays(c) /\ Strays(c) \in Nat
      <4>1. ASSUME NEW a \in Nat, NEW b \in Nat
            PROVE  a + 1 + b - 1 = a + b - 0 /\ a + b - 0 \in Nat
        OBVIOUS
      <4>2. QED BY ONLY <3>4, <3>5, <4>1
    <3>7. c \notin open => Strays(c) = 0
      <4>1. c \notin open => toServer[c] = <<>> /\ toClient[c] = <<>>
        BY DEF StrayInv, Closed
      <4>2. Len(<<>>) = 0 /\ 0 + 0 - 0 = 0
        OBVIOUS
      <4>3. QED BY ONLY <3>5, <4>1, <4>2
    <3>8. QED BY <2>4, <3>1, <3>6, <3>7
  <2>5. QED BY <2>3, <2>4
<1>8. cancels' \in Nat /\ cancels <= cancels'
  BY <1>2 DEF TypeInv, TypeOK
<1>9. QED BY <1>6, <1>7, <1>8, StraysShrink

\* The reader takes one answer at least, and is no reader any more.
LEMMA ReadStrays ==
    ASSUME ClientAssumption, TypeInv, StrayInv, NEW p \in Callers, Read(p)
    PROVE  StrayInv'
<1> DEFINE c == grant[p]
<1>1. PICK n \in 1..Len(toClient[c]) :
        toClient' = [toClient EXCEPT ![c] = SubSeq(@, n + 1, Len(@))]
  BY DEF Read
<1>2. /\ pc[p] = "reading" /\ pc' = [pc EXCEPT ![p] = "release"]
      /\ UNCHANGED <<grant, open, gone, toServer, cancels>>
  BY DEF Read, poolVars
<1>3. c \in Conns /\ pc'[p] = "release" /\ \A q \in Callers \ {p} : pc'[q] = pc[q]
  BY <1>2 DEF TypeInv, TypeOK, Holds, Holding
<1>4. toClient \in [Conns -> Seq(Answers)]
  BY DEF TypeInv, TypeOK
<1>5. /\ Len(toClient'[c]) = Len(toClient[c]) - n
      /\ \A d \in Conns \ {c} : toClient'[d] = toClient[d]
  BY <1>1, <1>3, <1>4, Suffix
<1>6. c \in open
  <2>1. Len(toClient[c]) \in Nat /\ n \in Nat /\ 1 <= n /\ n <= Len(toClient[c])
    BY <1>3, StraysType
  <2>2. toClient[c] # <<>>
    BY <2>1
  <2>3. QED BY <1>3, <2>2 DEF StrayInv, Closed
<1>7. Closed'
  BY <1>2, <1>5, <1>6 DEF StrayInv, Closed
<1>8. ASSUME NEW d \in open' \ gone'
      PROVE  /\ Strays(d)' \in Nat
             /\ Strays(d)' = 0 \/ (d \in open \ gone /\ Strays(d)' <= Strays(d))
  <2>1. d \in open \ gone /\ d \in Conns
    BY <1>2 DEF TypeInv, TypeOK
  <2>2. Strays(d) \in Int /\ Strays(d) >= 0
    BY <2>1, StraysType DEF StrayInv, StraysFromCancels
  <2>3. CASE d # c
    <3>1. Readers(d)' = Readers(d)
      BY <1>2, <1>3, <2>3 DEF Readers
    <3>2. Strays(d)' = Strays(d)
      BY <1>2, <1>5, <2>1, <2>3, <3>1 DEF Strays
    <3>3. QED BY <2>1, <2>2, <3>2
  <2>4. CASE d = c
    <3>1. Cardinality(Readers(c)) = 1 /\ Readers(c) = {p}
      BY <1>2, ReaderAlone
    <3>2. Cardinality(Readers(c)') = 0
      <4>1. Readers(c)' = {}
        BY <1>2, <1>3, <3>1 DEF Readers
      <4>2. QED BY <4>1, FS_EmptySet
    <3>3. /\ Strays(c) = Len(toServer[c]) + Len(toClient[c]) - 1
          /\ Strays(c)' = Len(toServer[c]) + (Len(toClient[c]) - n) - 0
      BY <1>2, <1>5, <3>1, <3>2 DEF Strays
    <3>4. Len(toServer[c]) \in Nat /\ Len(toClient[c]) \in Nat
      BY <1>3, StraysType
    <3>5. ASSUME NEW a \in Nat, NEW b \in Nat, n \in 1..b
          PROVE  a + (b - n) - 0 \in Nat /\ a + (b - n) - 0 <= a + b - 1
      BY <3>5
    <3>6. Strays(c)' \in Nat /\ Strays(c)' <= Strays(c)
      <4>1. n \in 1..Len(toClient[c])
        OBVIOUS
      <4>2. QED BY ONLY <3>3, <3>4, <3>5, <4>1
    <3>7. QED BY <1>2, <2>1, <2>4, <3>6
  <2>5. QED BY <2>3, <2>4
<1>9. cancels' \in Nat /\ cancels <= cancels'
  BY <1>2 DEF TypeInv, TypeOK
<1>10. QED BY <1>7, <1>8, <1>9, StraysShrink

\* The connection of a reader that fails is gone, and counts no more.
LEMMA ReadFailsStrays ==
    ASSUME ClientAssumption, TypeInv, StrayInv, NEW p \in Callers, ReadFails(p)
    PROVE  StrayInv'
<1>1. /\ grant[p] \in gone /\ pc' = [pc EXCEPT ![p] = "release"]
      /\ UNCHANGED <<grant, open, gone, toServer, toClient, cancels>>
  BY DEF ReadFails, poolVars, wireVars
<1>2. \A q \in Callers \ {p} : pc'[q] = pc[q]
  BY <1>1 DEF TypeInv, TypeOK
<1>3. pc'[p] = "release"
  BY <1>1 DEF TypeInv, TypeOK
<1>4. \A c \in open \ gone' : Readers(c)' = Readers(c)
  BY <1>1, <1>2, <1>3 DEF Readers
<1>5. cancels' \in Nat /\ cancels <= cancels'
  BY <1>1 DEF TypeInv, TypeOK
<1>6. QED BY <1>1, <1>4, <1>5, QuietStrays

\* A request becomes an answer on the same connection.
LEMMA ServeStrays ==
    ASSUME ClientAssumption, TypeInv, StrayInv, NEW c \in Conns, Serve(c)
    PROVE  StrayInv'
<1> DEFINE a == [key |-> Head(toServer[c]),
                 seen |-> IF Head(toServer[c]) \in Writes THEN version + 1 ELSE version]
<1>1. /\ toServer[c] # <<>> /\ toServer' = [toServer EXCEPT ![c] = Tail(@)]
      /\ toClient' = [toClient EXCEPT ![c] = IF c \in gone THEN @ ELSE Append(@, a)]
      /\ UNCHANGED <<grant, pc, open, gone, cancels>>
  BY DEF Serve, poolVars, callVars
<1>2. /\ toServer \in [Conns -> Seq(Keys)] /\ toClient \in [Conns -> Seq(Answers)]
      /\ version \in Nat
  BY DEF TypeInv, TypeOK
<1>3. Head(toServer[c]) \in Keys /\ Len(Tail(toServer[c])) = Len(toServer[c]) - 1
  BY <1>1, <1>2, HeadTailProperties
<1>4. a \in Answers
  BY <1>2, <1>3 DEF Answers
<1> HIDE DEF a
<1>5. Len(Append(toClient[c], a)) = Len(toClient[c]) + 1
  BY <1>2, <1>4, AppendProperties
<1>6. /\ \A d \in Conns \ {c} : toServer'[d] = toServer[d] /\ toClient'[d] = toClient[d]
      /\ Len(toServer'[c]) = Len(toServer[c]) - 1
      /\ c \notin gone => Len(toClient'[c]) = Len(toClient[c]) + 1
  BY <1>1, <1>2, <1>3, <1>5
<1>7. c \in open
  BY <1>1 DEF StrayInv, Closed
<1>8. Closed'
  BY <1>1, <1>6, <1>7 DEF StrayInv, Closed
<1>9. ASSUME NEW d \in open' \ gone'
      PROVE  /\ Strays(d)' \in Nat
             /\ Strays(d)' = 0 \/ (d \in open \ gone /\ Strays(d)' <= Strays(d))
  <2>1. d \in open \ gone /\ d \in Conns /\ Readers(d)' = Readers(d)
    BY <1>1 DEF TypeInv, TypeOK, Readers
  <2>2. Strays(d) \in Int /\ Strays(d) >= 0
    BY <2>1, StraysType DEF StrayInv, StraysFromCancels
  <2>3. Strays(d)' = Strays(d)
    <3>1. CASE d # c
      BY <1>6, <2>1, <3>1 DEF Strays
    <3>2. CASE d = c
      <4>1. Len(toServer[c]) \in Nat /\ Len(toClient[c]) \in Nat
            /\ Cardinality(Readers(c)) \in {0, 1}
        BY StraysType
      <4>2. Strays(c)' = (Len(toServer[c]) - 1) + (Len(toClient[c]) + 1)
                            - Cardinality(Readers(c))
        BY <1>6, <2>1, <3>2 DEF Strays
      <4>3. QED BY <3>2, <4>1, <4>2 DEF Strays
    <3>3. QED BY <3>1, <3>2
  <2>4. QED BY <2>1, <2>2, <2>3
<1>10. cancels' \in Nat /\ cancels <= cancels'
  BY <1>1 DEF TypeInv, TypeOK
<1>11. QED BY <1>8, <1>9, <1>10, StraysShrink

\* The call that was to read an answer is cancelled: one more is stray.
LEMMA CancelReaderStrays ==
    ASSUME ClientAssumption, TypeInv, StrayInv, NEW p \in Callers, Cancel(p),
           pc[p] = "reading"
    PROVE  StrayInv'
<1> DEFINE c == grant[p]
           a == <<c, Strays(c) + 1>>
<1>1. /\ pc' = [pc EXCEPT ![p] = "aborting"] /\ cancels' = cancels + 1
      /\ UNCHANGED <<grant, open, gone, toServer, toClient>>
  BY DEF Cancel, poolVars, wireVars
<1>2. /\ c \in Conns /\ pc'[p] = "aborting"
      /\ \A q \in Callers \ {p} : pc'[q] = pc[q]
  BY <1>1 DEF TypeInv, TypeOK, Holds, Holding
<1>3. Readers(c) = {p} /\ Cardinality(Readers(c)) = 1
  BY ReaderAlone
<1>4. /\ \A d \in Conns \ {c} : Strays(d)' = Strays(d)
      /\ Strays(c)' = Strays(c) + 1
  <2>1. ASSUME NEW d \in Conns \ {c} PROVE Strays(d)' = Strays(d)
    <3>1. Readers(d)' = Readers(d)
      BY <1>1, <1>2 DEF Readers
    <3>2. QED BY <1>1, <3>1 DEF Strays
  <2>2. Cardinality(Readers(c)') = 0
    <3>1. Readers(c)' = {}
      BY <1>1, <1>2, <1>3 DEF Readers
    <3>2. QED BY <3>1, FS_EmptySet
  <2>3. Strays(c)' = Len(toServer[c]) + Len(toClient[c]) - 0
    BY <1>1, <2>2 DEF Strays
  <2>4. Strays(c) = Len(toServer[c]) + Len(toClient[c]) - 1
    BY <1>3 DEF Strays
  <2>5. Len(toServer[c]) \in Nat /\ Len(toClient[c]) \in Nat
    BY <1>2, StraysType
  <2>6. QED BY <2>1, <2>3, <2>4, <2>5
<1>5. \A d \in open \ gone : Strays(d) \in Int /\ Strays(d) >= 0
  BY StraysType DEF StrayInv, StraysFromCancels, TypeInv, TypeOK
<1>6. \A d \in open' \ gone' : Strays(d)' >= 0
  <2>1. ASSUME NEW d \in open \ gone PROVE Strays(d)' >= 0
    <3>1. d \in Conns
      BY DEF TypeInv, TypeOK
    <3>2. CASE d = c
      BY <1>1, <1>4, <1>5, <3>2
    <3>3. CASE d # c
      BY <1>4, <1>5, <3>1, <3>3
    <3>4. QED BY <3>2, <3>3
  <2>2. QED BY <1>1, <2>1
<1>7. StrayAnswers' \subseteq StrayAnswers \cup {a}
  <2>1. ASSUME NEW d \in open \ gone, NEW i \in 1..(Strays(d)')
        PROVE  i \in 1..Strays(d) \/ (d = c /\ i = Strays(c) + 1)
    <3>1. d \in Conns
      BY DEF TypeInv, TypeOK
    <3>2. CASE d = c
      <4>1. Strays(d)' = Strays(d) + 1 /\ Strays(d) \in Int
        BY <1>1, <1>4, <1>5, <3>2
      <4>2. i \in 1..(Strays(d) + 1)
        BY <4>1
      <4>3. i \in 1..Strays(d) \/ i = Strays(d) + 1
        BY <4>1, <4>2
      <4>4. QED BY <3>2, <4>3
    <3>3. CASE d # c
      <4>1. Strays(d)' = Strays(d) /\ Strays(d) \in Int
        BY <1>4, <1>5, <3>1, <3>3
      <4>2. i \in 1..Strays(d)
        BY <4>1
      <4>3. QED BY <4>2
    <3>4. QED BY <3>2, <3>3
  <2>2. QED BY <1>1, <2>1 DEF StrayAnswers
<1> HIDE DEF a
<1>8. /\ IsFiniteSet(StrayAnswers \cup {a})
      /\ Cardinality(StrayAnswers \cup {a}) <= Cardinality(StrayAnswers) + 1
      /\ Cardinality(StrayAnswers) \in Nat
      /\ Cardinality(StrayAnswers \cup {a}) \in Nat
  <2>1. IsFiniteSet(StrayAnswers) /\ Cardinality(StrayAnswers) \in Nat
    BY FS_CardinalityType DEF StrayInv
  <2>2. /\ IsFiniteSet(StrayAnswers \cup {a})
        /\ Cardinality(StrayAnswers \cup {a})
              = IF a \in StrayAnswers THEN Cardinality(StrayAnswers)
                ELSE Cardinality(StrayAnswers) + 1
    BY <2>1, FS_AddElement
  <2>3. QED BY <2>1, <2>2
<1>9. /\ IsFiniteSet(StrayAnswers')
      /\ Cardinality(StrayAnswers') <= Cardinality(StrayAnswers \cup {a})
      /\ Cardinality(StrayAnswers') \in Nat
  BY <1>7, <1>8, FS_Subset, FS_CardinalityType
<1>10. Cardinality(StrayAnswers') <= cancels'
  <2>1. cancels \in Nat /\ Cardinality(StrayAnswers) <= cancels
    BY DEF TypeInv, TypeOK, StrayInv, StraysFromCancels
  <2>2. QED BY <1>1, <1>8, <1>9, <2>1
<1>11. Closed'
  BY <1>1 DEF StrayInv, Closed
<1>12. QED BY <1>6, <1>9, <1>10, <1>11 DEF StrayInv, StraysFromCancels

LEMMA EnvironmentStrays ==
    ASSUME ClientAssumption, TypeInv, StrayInv, Environment PROVE StrayInv'
<1>1. ASSUME UNCHANGED <<grant, pc>> PROVE \A c : Readers(c)' = Readers(c)
  BY <1>1 DEF Readers
<1>2. ASSUME UNCHANGED cancels PROVE cancels' \in Nat /\ cancels <= cancels'
  BY <1>2 DEF TypeInv, TypeOK
<1>3. CASE Close \/ \E k \in Keys : Forget(k)
  <2>1. UNCHANGED <<grant, pc, open, gone, toServer, toClient, cancels>>
    BY <1>3 DEF Close, Pool!Shut, Forget, poolVars, callVars, wireVars
  <2>2. QED BY <1>1, <1>2, <2>1, QuietStrays
<1>4. ASSUME NEW c \in Conns, Retire(c) PROVE StrayInv'
  <2>1. UNCHANGED <<grant, pc, cancels>> /\ Drop({c})
    BY <1>4 DEF Retire, poolVars, callVars
  <2>2. QED BY <1>1, <1>2, <2>1, DropStrays
<1>5. ASSUME NEW c \in Conns, CloseHeld(c) PROVE StrayInv'
  <2>1. /\ UNCHANGED <<grant, pc, open, toServer, toClient, cancels>>
        /\ gone \subseteq gone'
    BY <1>5 DEF CloseHeld, poolVars, callVars
  <2>2. QED BY <1>1, <1>2, <2>1, QuietStrays
<1>6. ASSUME NEW c \in Conns, PeerClose(c) PROVE StrayInv'
  <2>1. /\ UNCHANGED <<grant, pc, open, toClient, cancels>> /\ c \in open
        /\ gone' = gone \cup {c} /\ toServer' = [toServer EXCEPT ![c] = <<>>]
    BY <1>6 DEF PeerClose, poolVars, callVars
  <2>2. Closed'
    BY <2>1 DEF StrayInv, Closed
  <2>3. \A d \in open' \ gone' :
           d \in open \ gone /\ toServer'[d] = toServer[d] /\ toClient'[d] = toClient[d]
    BY <2>1 DEF TypeInv, TypeOK
  <2>4. QED BY <1>1, <1>2, <2>1, <2>2, <2>3, SameStrays
<1>7. QED BY <1>3, <1>4, <1>5, <1>6, ServeStrays DEF Environment

LEMMA NextStrays ==
    ASSUME ClientAssumption, TypeInv, StrayInv, [Next]_vars PROVE StrayInv'
<1>1. CASE UNCHANGED vars
  <2>1. UNCHANGED <<grant, pc, open, gone, toServer, toClient, cancels>>
    BY <1>1 DEF vars, poolVars, callVars, wireVars
  <2>2. cancels' \in Nat /\ cancels <= cancels'
    BY <2>1 DEF TypeInv, TypeOK
  <2>3. \A c : Readers(c)' = Readers(c)
    BY <2>1 DEF Readers
  <2>4. QED BY <2>1, <2>2, <2>3, QuietStrays
<1>2. CASE Environment
  BY <1>2, EnvironmentStrays
<1>3. ASSUME NEW p \in Callers, Call(p) PROVE StrayInv'
  BY <1>3, CallerStrays, SendStrays, ReadStrays, ReadFailsStrays, CancelReaderStrays
  DEF Call, Progress
<1>4. QED BY <1>1, <1>2, <1>3 DEF Next

\* Whatever is cancelled, closed or lost, connections carry no more unclaimed
\* answers than calls were cancelled, and the answer a caller reads for is on its
\* way unless the connection is closed.
THEOREM ClientStraysFromCancels == Spec => []StraysFromCancels
<1>1. Init => StrayInv
  <2>1. ASSUME Init PROVE StrayAnswers = {} /\ Closed
    BY <2>1 DEF Init, StrayAnswers, Closed
  <2>2. QED BY <2>1, FS_EmptySet DEF Init, StrayInv, StraysFromCancels
<1>2. TypeInv /\ StrayInv /\ [Next]_vars => StrayInv'
  BY NextStrays, ClientAssumption
<1>3. StrayInv => StraysFromCancels
  BY DEF StrayInv
<1>4. QED BY <1>1, <1>2, <1>3, TypeInvHolds, PTL DEF Spec
=============================================================================
