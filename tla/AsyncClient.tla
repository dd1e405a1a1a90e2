----------------------------- MODULE AsyncClient -----------------------------
(***************************************************************************)
(* lib/async_client.py: send_request of AsyncImHexClient with its cache, its *)
(* retry loop and the pooled transport, over a pool that keeps PoolPromise   *)
(* and the connections to ImHex, which answers the lines it reads in order.  *)
(***************************************************************************)
EXTENDS Integers, FiniteSets, Sequences

CONSTANTS
    Callers,      \* tasks that call send_request
    Conns,        \* TCP connections
    NoConn,       \* "no connection": conn = None
    Keys,         \* requests: an endpoint with its data
    Writes,       \* the requests that change what ImHex holds
    NoAnswer,     \* "no response"
    UseCache,     \* enable_cache, and use_cache of every call
    MaxAttempts,  \* max_attempts of the retry loop
    MaxRequests,  \* bound: calls of send_request
    MaxCancels    \* bound: calls cancelled

ASSUME ClientAssumption ==
    /\ NoConn \notin Conns /\ Writes \subseteq Keys /\ UseCache \in BOOLEAN
    /\ NoAnswer \notin [key : Keys, seen : Nat]
    /\ MaxAttempts \in Nat \ {0} /\ MaxRequests \in Nat /\ MaxCancels \in Nat

VARIABLES
    stage, grant, shut,   \* the pool, as PoolPromise describes it
    pc,         \* where each caller is suspended, or how its last call ended
    req,        \* the request of its call
    reply,      \* its local variable response
    healthy,    \* its local variable healthy
    attempt,    \* its turn of the retry loop
    open,       \* connections whose socket is open on our side
    gone,       \* open connections that the other end, or close(), has closed
    toServer,   \* toServer[c]: requests written on c and not yet executed
    toClient,   \* toClient[c]: answers on c and not yet read
    cache,      \* cache[k]: the response _cache holds for k
    version,    \* history: writes ImHex has executed
    acked,      \* history: version of the latest write whose call succeeded
    floor,      \* history: acked when each caller's call began
    begun,      \* calls begun
    cancels     \* calls cancelled

poolVars == <<stage, grant, shut>>
callVars == <<pc, req, reply, healthy, attempt>>
wireVars == <<open, gone, toServer, toClient>>
histVars == <<version, acked, floor, begun>>
vars == <<poolVars, callVars, wireVars, cache, histVars, cancels>>

Pool == INSTANCE PoolPromise

Answers == [key : Keys, seen : Nat]
Rest == {"new", "got", "failed", "cancelled"}
PCs == Rest \cup {"calling", "waiting", "reading", "release", "aborting", "store"}

Init ==
    /\ Pool!Init
    /\ pc = [p \in Callers |-> "new"]
    /\ req \in [Callers -> Keys]
    /\ reply = [p \in Callers |-> NoAnswer]
    /\ healthy = [p \in Callers |-> TRUE]
    /\ attempt = [p \in Callers |-> 0]
    /\ open = {} /\ gone = {}
    /\ toServer = [c \in Conns |-> <<>>] /\ toClient = [c \in Conns |-> <<>>]
    /\ cache = [k \in Keys |-> NoAnswer]
    /\ version = 0 /\ acked = 0 /\ floor = [p \in Callers |-> 0]
    /\ begun = 0 /\ cancels = 0

-----------------------------------------------------------------------------
(* Helpers                                                                  *)

\* Sockets leave our hands: what is still on their way is lost.
Drop(cs) ==
    /\ open' = open \ cs /\ gone' = gone \ cs
    /\ toServer' = [c \in Conns |-> IF c \in cs THEN <<>> ELSE toServer[c]]
    /\ toClient' = [c \in Conns |-> IF c \in cs THEN <<>> ELSE toClient[c]]

\* _send_request_pooled wraps whatever went wrong, and the retry loop catches
\* the classes of connection errors only.
Wrapped(error) == "ImHexMCPError"
Retryable(error) == error \in {"ConnectionError", "TimeoutError", "OSError"}

\* The attempt of p failed with error: the loop goes on or the caller is told.
EndAttempt(p, error) ==
    LET again == Retryable(Wrapped(error)) /\ attempt[p] + 1 < MaxAttempts IN
    /\ pc' = [pc EXCEPT ![p] = IF again THEN "calling" ELSE "failed"]
    /\ attempt' = [attempt EXCEPT ![p] = @ + 1]

\* The response is returned to the caller.
Return(p, answer) ==
    /\ pc' = [pc EXCEPT ![p] = "got"]
    /\ acked' = IF req[p] \in Writes /\ answer.seen > acked THEN answer.seen ELSE acked

\* Connections no caller holds.
Resting == {c \in open : \A p \in Callers : grant[p] # c}

-----------------------------------------------------------------------------
(* send_request                                                             *)

\* A response in the cache is returned at once, whatever the request does.
Begin(p) ==
    /\ pc[p] \in Rest /\ begun < MaxRequests
    /\ begun' = begun + 1
    /\ floor' = [floor EXCEPT ![p] = acked]
    /\ healthy' = [healthy EXCEPT ![p] = TRUE]
    /\ attempt' = [attempt EXCEPT ![p] = 0]
    /\ \E k \in Keys :
        LET hit == UseCache /\ cache[k] # NoAnswer IN
        /\ req' = [req EXCEPT ![p] = k]
        /\ reply' = [reply EXCEPT ![p] = IF hit THEN cache[k] ELSE NoAnswer]
        /\ pc' = [pc EXCEPT ![p] = IF hit THEN "got" ELSE "calling"]
    /\ UNCHANGED <<poolVars, wireVars, cache, version, acked, cancels>>

\* The caller enters the pool, or acquire() raises because the pool is closed.
Enter(p) ==
    /\ pc[p] = "calling"
    /\ \/ /\ Pool!Enter(p)
          /\ pc' = [pc EXCEPT ![p] = "waiting"]
          /\ UNCHANGED attempt
       \/ /\ shut
          /\ EndAttempt(p, "RuntimeError")
          /\ UNCHANGED poolVars
    /\ UNCHANGED <<req, reply, healthy, wireVars, cache, histVars, cancels>>

\* acquire() cannot connect.
AcquireFails(p) ==
    /\ pc[p] = "waiting"
    /\ Pool!Leave(p)
    /\ EndAttempt(p, "ConnectionError")
    /\ UNCHANGED <<req, reply, healthy, wireVars, cache, histVars, cancels>>

\* The lines written for a call.  [mutant: the line is written again]
LinesTwice(p) == <<req[p], req[p]>>
Lines(p) == <<req[p]>>

\* acquire() returns a connection, new or used before, and the request is
\* written on it; nobody reads what is written on a connection that is gone.
Send(p) ==
    /\ pc[p] = "waiting"
    /\ Pool!Grant(p)
    /\ LET c == grant'[p] IN
        /\ open' = open \cup {c}
        /\ toServer' = [toServer EXCEPT ![c] =
                           IF c \in gone THEN @ ELSE @ \o Lines(p)]
    /\ pc' = [pc EXCEPT ![p] = "reading"]
    /\ healthy' = [healthy EXCEPT ![p] = TRUE]
    /\ UNCHANGED <<req, reply, attempt, gone, toClient, cache, histVars, cancels>>

\* The chunk read ends with the n-th answer: json.loads takes one line only.
Read(p) ==
    /\ pc[p] = "reading"
    /\ \E n \in 1..Len(toClient[grant[p]]) :
        LET c == grant[p] IN
        /\ toClient' = [toClient EXCEPT ![c] = SubSeq(@, n + 1, Len(@))]
        /\ reply' = [reply EXCEPT ![p] = IF n = 1 THEN toClient[c][1] ELSE NoAnswer]
        /\ healthy' = [healthy EXCEPT ![p] = n = 1]
    /\ pc' = [pc EXCEPT ![p] = "release"]
    /\ UNCHANGED <<poolVars, req, attempt, open, gone, toServer, cache, histVars,
                   cancels>>

\* [mutant: the read loop does not look for the end of the stream]
ReadFailsSpins(p) ==
    /\ pc[p] = "reading" /\ grant[p] \in gone
    /\ UNCHANGED vars

\* End of stream, a reset connection, or drain() failing.
ReadFails(p) ==
    /\ pc[p] = "reading" /\ grant[p] \in gone
    /\ healthy' = [healthy EXCEPT ![p] = FALSE]
    /\ pc' = [pc EXCEPT ![p] = "release"]
    /\ UNCHANGED <<poolVars, req, reply, attempt, wireVars, cache, histVars, cancels>>

\* [mutant: release() is told that every connection is healthy]
ReusableAnyway(p) == ~shut
Reusable(p) == healthy[p] /\ ~shut

\* release(): the pool keeps a reusable connection unless it is too old.
LetGo(p) ==
    /\ Pool!Leave(p)
    /\ \/ Reusable(p) /\ UNCHANGED wireVars
       \/ Drop({grant[p]})

\* The finally clause, after an answer or after an error.
Release(p) ==
    /\ pc[p] = "release"
    /\ LetGo(p)
    /\ IF reply[p] = NoAnswer
       THEN EndAttempt(p, "Exception") /\ UNCHANGED acked
       ELSE /\ IF UseCache
               THEN pc' = [pc EXCEPT ![p] = "store"] /\ UNCHANGED acked
               ELSE Return(p, reply[p])
            /\ UNCHANGED attempt
    /\ UNCHANGED <<req, reply, healthy, cache, version, floor, begun, cancels>>

\* The response is cached if its status is "success", then returned.
Store(p) ==
    /\ pc[p] = "store"
    /\ \/ cache' = [cache EXCEPT ![req[p]] = reply[p]]
       \/ UNCHANGED cache
    /\ Return(p, reply[p])
    /\ UNCHANGED <<poolVars, req, reply, healthy, attempt, wireVars, version,
                   floor, begun, cancels>>

-----------------------------------------------------------------------------
(* Cancellation (asyncio.wait_for, gather, a task group): no clause catches *)
(* it but finally, which releases the connection with healthy as it is.     *)

Cancel(p) ==
    /\ cancels < MaxCancels
    /\ cancels' = cancels + 1
    /\ \/ /\ pc[p] \in {"calling", "store"}
          /\ pc' = [pc EXCEPT ![p] = "cancelled"]
          /\ UNCHANGED <<poolVars, wireVars>>
       \/ /\ pc[p] = "waiting"
          /\ Pool!Leave(p)
          /\ pc' = [pc EXCEPT ![p] = "cancelled"]
          /\ UNCHANGED wireVars
       \/ /\ pc[p] = "reading"
          /\ pc' = [pc EXCEPT ![p] = "aborting"]
          /\ UNCHANGED <<poolVars, wireVars>>
       \/ /\ pc[p] \in {"release", "aborting"}   \* in release(): nobody gets it
          /\ Pool!Leave(p)
          /\ Drop({grant[p]})
          /\ pc' = [pc EXCEPT ![p] = "cancelled"]
    /\ UNCHANGED <<req, reply, healthy, attempt, cache, histVars>>

Abort(p) ==
    /\ pc[p] = "aborting"
    /\ LetGo(p)
    /\ pc' = [pc EXCEPT ![p] = "cancelled"]
    /\ UNCHANGED <<req, reply, healthy, attempt, cache, histVars, cancels>>

\* __aexit__: the pool is shut, and then closes what it knows of: what nobody
\* holds (Retire) and what callers hold (CloseHeld).
Close ==
    /\ ~shut /\ Pool!Shut
    /\ UNCHANGED <<callVars, wireVars, cache, histVars, cancels>>

CloseHeld(c) ==
    /\ shut /\ c \in open \ (gone \cup Resting)
    /\ gone' = gone \cup {c}
    /\ UNCHANGED <<poolVars, callVars, open, toServer, toClient, cache, histVars,
                   cancels>>

-----------------------------------------------------------------------------
(* The pool's health check, the cache's expiry, and ImHex                   *)

Retire(c) ==
    /\ c \in Resting
    /\ Drop({c})
    /\ UNCHANGED <<poolVars, callVars, cache, histVars, cancels>>

Forget(k) ==
    /\ cache[k] # NoAnswer
    /\ cache' = [cache EXCEPT ![k] = NoAnswer]
    /\ UNCHANGED <<poolVars, callVars, wireVars, histVars, cancels>>

Serve(c) ==
    /\ toServer[c] # <<>>
    /\ LET k == Head(toServer[c])
           v == IF k \in Writes THEN version + 1 ELSE version IN
        /\ version' = v
        /\ toServer' = [toServer EXCEPT ![c] = Tail(@)]
        /\ toClient' = [toClient EXCEPT ![c] =
               IF c \in gone THEN @ ELSE Append(@, [key |-> k, seen |-> v])]
    /\ UNCHANGED <<poolVars, callVars, open, gone, cache, acked, floor, begun, cancels>>

PeerClose(c) ==
    /\ c \in open \ gone
    /\ gone' = gone \cup {c}
    /\ toServer' = [toServer EXCEPT ![c] = <<>>]
    /\ UNCHANGED <<poolVars, callVars, open, toClient, cache, histVars, cancels>>

-----------------------------------------------------------------------------
Progress(p) ==
    \/ Enter(p) \/ AcquireFails(p) \/ Send(p) \/ Read(p) \/ ReadFails(p)
    \/ Release(p) \/ Abort(p) \/ Store(p)

Call(p) == Begin(p) \/ Progress(p) \/ Cancel(p)
Environment == Close \/ (\E c \in Conns : Retire(c) \/ CloseHeld(c) \/ Serve(c) \/ PeerClose(c))
                     \/ (\E k \in Keys : Forget(k))
Next == Environment \/ \E p \in Callers : Call(p)

Spec == Init /\ [][Next]_vars

\* The event loop resumes what is ready, and acquire() comes to an end.
CallerFairness ==
    \A p \in Callers :
        /\ WF_vars(Enter(p)) /\ SF_vars(Send(p)) /\ WF_vars(Read(p))
        /\ WF_vars(ReadFails(p)) /\ WF_vars(Release(p)) /\ WF_vars(Abort(p))
        /\ WF_vars(Store(p))

\* ImHex answers every line it has read, unless it closes the connection.
ServedSpec == Spec /\ CallerFairness /\ \A c \in Conns : WF_vars(Serve(c))

-----------------------------------------------------------------------------
TypeOK ==
    /\ stage \in [Callers -> {"out", "waiting", "using"}]
    /\ grant \in [Callers -> Conns \cup {NoConn}] /\ shut \in BOOLEAN
    /\ pc \in [Callers -> PCs] /\ req \in [Callers -> Keys]
    /\ reply \in [Callers -> Answers \cup {NoAnswer}]
    /\ healthy \in [Callers -> BOOLEAN] /\ attempt \in [Callers -> 0..MaxAttempts]
    /\ open \in SUBSET Conns /\ gone \in SUBSET open
    /\ toServer \in [Conns -> Seq(Keys)] /\ toClient \in [Conns -> Seq(Answers)]
    /\ cache \in [Keys -> Answers \cup {NoAnswer}]
    /\ version \in Nat /\ acked \in 0..version /\ floor \in [Callers -> 0..version]
    /\ begun \in Nat /\ cancels \in Nat

Readers(c) == {p \in Callers : pc[p] = "reading" /\ grant[p] = c}

\* Answers and requests under way on c that no caller is reading for.
Strays(c) == Len(toServer[c]) + Len(toClient[c]) - Cardinality(Readers(c))

StrayAnswers == UNION {{c} \X (1..Strays(c)) : c \in open \ gone}

\* Connections carry no more unclaimed answers than calls were cancelled, and
\* none lacks the answer its reader waits for unless it is closed.
StraysFromCancels ==
    /\ \A c \in open \ gone : Strays(c) >= 0
    /\ Cardinality(StrayAnswers) <= cancels

\* As long as no call was cancelled, every call returns the answer to its own
\* request: answers carry no request id, so pairing them rests on one request
\* per connection and on what release() puts back.
OwnAnswer ==
    cancels = 0 => \A p \in Callers : pc[p] = "got" => reply[p].key = req[p]

\* As long as no call was cancelled, the cache holds under each request an
\* answer to that request, so a mispaired answer never outlives its call.
CacheKeyed ==
    cancels = 0 => \A k \in Keys : cache[k] # NoAnswer => cache[k].key = k

\* A call that began after a write had succeeded sees that write; a write that
\* succeeds was executed after the call began.
SeesCompletedWrites ==
    \A p \in Callers : pc[p] = "got" =>
        IF req[p] \in Writes THEN reply[p].seen > floor[p]
        ELSE reply[p].seen >= floor[p]

\* Every call comes to an end.
RequestEnds == \A p \in Callers : pc[p] = "calling" ~> pc[p] \in Rest

-----------------------------------------------------------------------------
(* What the documentation says and the code does not keep                   *)

\* send_request "Returns: Response dictionary" of the endpoint and the data it
\* was given, whatever happened to calls before it.
AnswersItsCall == \A p \in Callers : pc[p] = "got" => reply[p].key = req[p]
=============================================================================
