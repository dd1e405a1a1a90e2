---------------------------- MODULE SocketBatching ----------------------------
(***************************************************************************)
(* lib/batching.py: the three ways to execute a batch.  Sequential and     *)
(* pipelined batches share one socket, on which answers are lines without  *)
(* an id, cut into whatever chunks recv returns; a line is two pieces      *)
(* here.  Concurrent requests have a socket each.                          *)
(***************************************************************************)
EXTENDS Integers, Sequences, FiniteSets, SequencesExt

CONSTANTS
    BatchSize,    \* the number of requests
    RequestIds    \* request ids

ASSUME SocketAssumption == BatchSize \in Nat

VARIABLES
    strategy,    \* the BatchStrategy
    reqId,       \* reqId[r]: the id of request r
    sent,        \* requests sent on the socket
    served,      \* requests of these that ImHex has answered
    inflow,      \* pieces of answers on the socket: [of, last]
    open,        \* ImHex has not closed the socket
    buffer,      \* response: what was received for the request under way
    replies,     \* the responses so far: the request whose answer it is, or Failed
    ended,       \* the concurrent requests that have ended
    responseMap, \* id -> the response of the last request of that id to end
    returned     \* execute_batch has returned

batchVars == <<strategy, reqId, sent, served, inflow, open, buffer, replies, ended, responseMap,
               returned>>

Failed == 0
Places == 1..BatchSize
Shared == strategy \in {"sequential", "pipelined"}

BatchInit ==
    /\ strategy \in {"sequential", "pipelined", "concurrent"}
    /\ reqId \in [Places -> RequestIds]
    /\ sent = 0 /\ served = 0 /\ inflow = <<>> /\ open = TRUE /\ buffer = <<>>
    /\ replies = <<>> /\ returned = FALSE
    /\ ended = {} /\ responseMap = [i \in RequestIds |-> Failed]

\* The request whose answer is awaited.
Current == Len(replies) + 1

AllFailed == replies \o [i \in 1..(BatchSize - Len(replies)) |-> Failed]

\* connect or, in a pipeline, sendall raises: what has no response yet has failed.
FailAll ==
    /\ ~returned /\ Shared
    /\ \/ sent = 0
       \/ strategy = "pipelined" /\ sent < BatchSize /\ ~open
    /\ replies' = AllFailed /\ returned' = TRUE
    /\ UNCHANGED <<strategy, reqId, sent, served, inflow, open, buffer, ended, responseMap>>

\* A pipeline sends all requests first, a sequence each when its turn comes.
Send ==
    /\ ~returned /\ Shared /\ sent < BatchSize
    /\ strategy = "sequential" => sent = Len(replies)
    /\ sent' = sent + 1
    /\ UNCHANGED <<strategy, reqId, served, inflow, open, buffer, replies, ended, responseMap, returned>>

Awaiting ==
    /\ ~returned /\ Shared /\ Current <= BatchSize
    /\ IF strategy = "sequential" THEN sent = Current ELSE sent = BatchSize

\* A response is complete with the first newline, and is parsed as it stands.
Parsed(b) == IF Len(b) = 2 /\ b[1].of = b[2].of THEN b[1].of ELSE Failed

\* [mutant: of two lines in a chunk the last one counts]
RecvKeepsRest(n) ==
    /\ Awaiting /\ n \in 1..Len(inflow)
    /\ LET got == buffer \o SubSeq(inflow, 1, n) IN
       IF \E i \in DOMAIN got : got[i].last
       THEN replies' = Append(replies, got[Len(got)].of) /\ buffer' = <<>>
       ELSE buffer' = got /\ UNCHANGED replies
    /\ inflow' = SubSeq(inflow, n + 1, Len(inflow))
    /\ UNCHANGED <<strategy, reqId, sent, served, open, ended, responseMap, returned>>

\* recv returns n pieces.
Recv(n) ==
    /\ Awaiting /\ n \in 1..Len(inflow)
    /\ LET got == buffer \o SubSeq(inflow, 1, n) IN
       IF \E i \in DOMAIN got : got[i].last
       THEN replies' = Append(replies, Parsed(got)) /\ buffer' = <<>>
       ELSE buffer' = got /\ UNCHANGED replies
    /\ inflow' = SubSeq(inflow, n + 1, Len(inflow))
    /\ UNCHANGED <<strategy, reqId, sent, served, open, ended, responseMap, returned>>

\* recv times out or finds the socket closed, or sendall of a sequence does: the
\* next request goes on with it.
RecvFails ==
    /\ Awaiting
    /\ inflow = <<>> \/ (strategy = "sequential" /\ buffer = <<>> /\ ~open)
    /\ replies' = Append(replies, Failed) /\ buffer' = <<>>
    /\ UNCHANGED <<strategy, reqId, sent, served, inflow, open, ended, responseMap, returned>>

\* One of the pool's threads ends its request; the last of an id to end counts.
EndConcurrent(r) ==
    /\ strategy = "concurrent" /\ ~returned
    /\ r \notin ended /\ ended' = ended \cup {r}
    /\ \E reply \in {r, Failed} : responseMap' = [responseMap EXCEPT ![reqId[r]] = reply]
    /\ UNCHANGED <<strategy, reqId, sent, served, inflow, open, buffer, replies, returned>>

Collect ==
    /\ strategy = "concurrent" /\ ~returned /\ ended = Places
    /\ replies' = [r \in Places |-> responseMap[reqId[r]]]
    /\ returned' = TRUE
    /\ UNCHANGED <<strategy, reqId, sent, served, inflow, open, buffer, ended, responseMap>>

FinishBatch ==
    /\ ~returned /\ Shared /\ Len(replies) = BatchSize
    /\ returned' = TRUE
    /\ UNCHANGED <<strategy, reqId, sent, served, inflow, open, buffer, replies, ended, responseMap>>

\* ImHex answers in order, or closes the socket.
Answer ==
    /\ open /\ served < sent /\ served' = served + 1
    /\ inflow' = inflow \o <<[of |-> served + 1, last |-> FALSE], [of |-> served + 1, last |-> TRUE]>>
    /\ UNCHANGED <<strategy, reqId, sent, open, buffer, replies, ended, responseMap, returned>>

Close ==
    /\ open /\ Shared /\ sent > 0 /\ ~returned /\ open' = FALSE
    /\ UNCHANGED <<strategy, reqId, sent, served, inflow, buffer, replies, ended, responseMap, returned>>

BatchNext ==
    \/ FailAll \/ Send \/ (\E n \in 1..Len(inflow) : Recv(n)) \/ RecvFails
    \/ (\E r \in Places : EndConcurrent(r)) \/ Collect \/ FinishBatch
    \/ Answer \/ Close

BatchSpec == BatchInit /\ [][BatchNext]_batchVars

-----------------------------------------------------------------------------
(* Properties. *)

\* On a shared socket a response belongs to its request as long as every request
\* before it got its own: only a timeout or two lines in one chunk, which fail a
\* request, can shift the answers of those behind it.  Shifted or not, no
\* answer is given twice and none overtakes another.  A concurrent request
\* gets the answer to a request of its id.  A batch returns one response for each.
RepliesPaired ==
    /\ Shared => \A r \in DOMAIN replies : replies[r] # Failed =>
        /\ replies[r] # r => \E q \in 1..(r - 1) : replies[q] = Failed
        /\ \A q \in 1..(r - 1) : replies[q] < replies[r]
    /\ strategy = "concurrent" => \A r \in DOMAIN replies : replies[r] # Failed =>
          reqId[replies[r]] = reqId[r]
    /\ returned => Len(replies) = BatchSize
===============================================================================
