---------------------------- MODULE DirectRequests ----------------------------
(***************************************************************************)
(* A request on a connection of its own, as all clients without a pool     *)
(* send it: the clients that retry (cached_client.py, streaming.py and     *)
(* lazy.py, under retry_with_backoff of error_handling.py), the enhanced    *)
(* client, the command line client, and the executor threads of            *)
(* async_client.py, whose callers are tasks that may be cancelled while    *)
(* the thread goes on.  ImHex may execute a command after the client has   *)
(* given it up.  The MCP server may use the retrying or the enhanced client *)
(* through an adapter, in place of the client of McpServer.                *)
(***************************************************************************)
EXTENDS Integers, Sequences, FiniteSets

CONSTANTS
    Calls,          \* the calls
    MaxAttempts,    \* max_attempts of retry_with_backoff
    MaxConcurrent,  \* max_concurrent of AsyncImHexClient
    MaxThreads      \* the threads of the default executor

ASSUME DirectAssumption ==
    /\ IsFiniteSet(Calls)
    /\ MaxAttempts \in Nat \ {0} /\ MaxConcurrent \in Nat /\ MaxThreads \in Nat

VARIABLES
    sender,  \* the client: "retrying", "enhanced", "cli" or "executor"
    adapted, \* whether it is behind the adapter of the MCP server
    asker,   \* call -> where its caller is: "new", "permit", "waiting" or "back"
    job,     \* call -> where the code that sends is: "none", "queued", "connect", "send",
             \* "recv", "sleep", "spin" or "over"
    conns,   \* call -> its connections, one for each attempt
    ran,     \* call -> the attempts whose command ImHex executed
    outcome  \* call -> what its caller got: "none", "answer", "error", "raised" or "cancelled";
             \* through the adapter "response", "imhex_error" or "connection_error"

directVars == <<sender, adapted, asker, job, conns, ran, outcome>>

Attempt(c) == Len(conns[c])
Conn(c) == conns[c][Attempt(c)]

\* The tasks inside the semaphore, and the threads at work.
Holders == {c \in Calls : sender = "executor" /\ asker[c] = "waiting"}
Running == {c \in Calls : job[c] \in {"connect", "send", "recv", "sleep", "spin"}}

DirectInit ==
    /\ sender \in {"retrying", "enhanced", "cli", "executor"}
    /\ adapted \in BOOLEAN /\ (adapted => sender \in {"retrying", "enhanced"})
    /\ asker = [c \in Calls |-> "new"] /\ job = [c \in Calls |-> "none"]
    /\ conns = [c \in Calls |-> <<>>] /\ ran = [c \in Calls |-> {}]
    /\ outcome = [c \in Calls |-> "none"]

-----------------------------------------------------------------------------
(* The callers. *)

BeginCall(c) ==
    /\ asker[c] = "new"
    /\ IF sender = "executor"
       THEN asker' = [asker EXCEPT ![c] = "permit"] /\ UNCHANGED job
       ELSE asker' = [asker EXCEPT ![c] = "waiting"] /\ job' = [job EXCEPT ![c] = "connect"]
    /\ UNCHANGED <<sender, adapted, conns, ran, outcome>>

\* async with self._semaphore, then run_in_executor.
EnterSemaphore(c) ==
    /\ asker[c] = "permit" /\ Cardinality(Holders) < MaxConcurrent
    /\ asker' = [asker EXCEPT ![c] = "waiting"]
    /\ job' = [job EXCEPT ![c] = "queued"]
    /\ UNCHANGED <<sender, adapted, conns, ran, outcome>>

\* A task is cancelled: what is still queued is never run, a thread goes on.
CancelCall(c) ==
    /\ sender = "executor" /\ asker[c] \in {"permit", "waiting"}
    /\ asker' = [asker EXCEPT ![c] = "back"]
    /\ outcome' = [outcome EXCEPT ![c] = "cancelled"]
    /\ job' = [job EXCEPT ![c] = IF @ = "queued" THEN "none" ELSE @]
    /\ UNCHANGED <<sender, adapted, conns, ran>>

\* The adapter raises an error for an exception and for a response that reports one,
\* and tells by its wording which.
Told(out) ==
    CASE ~adapted -> {out}
      [] adapted /\ out = "answer" -> {"response", "imhex_error", "connection_error"}
      [] adapted /\ out # "answer" -> {"imhex_error", "connection_error"}

\* The sending code is done; nobody learns of it if the caller was cancelled.
EndCall(c, out) ==
    /\ job' = [job EXCEPT ![c] = "over"]
    /\ IF asker[c] = "waiting"
       THEN /\ asker' = [asker EXCEPT ![c] = "back"]
            /\ \E told \in Told(out) : outcome' = [outcome EXCEPT ![c] = told]
       ELSE UNCHANGED <<asker, outcome>>

-----------------------------------------------------------------------------
(* The code that sends. *)

RunThread(c) ==
    /\ job[c] = "queued" /\ Cardinality(Running) < MaxThreads
    /\ job' = [job EXCEPT ![c] = "connect"]
    /\ UNCHANGED <<sender, adapted, asker, conns, ran, outcome>>

\* [mutant: the exception of the enhanced client reaches the retry decorator]
SocketErrorRetries(c) ==
    IF sender \in {"retrying", "enhanced"} /\ Len(conns'[c]) < MaxAttempts
    THEN job' = [job EXCEPT ![c] = "sleep"] /\ UNCHANGED <<asker, outcome>>
    ELSE EndCall(c, IF sender = "cli" THEN "error" ELSE "raised")

\* A socket error or a timeout.  Only the retrying clients let it reach the retry
\* decorator, which gives up after MaxAttempts; the enhanced client and the
\* executor wrap it, the command line client makes it an error response.
SocketError(c) ==
    IF sender = "retrying" /\ Len(conns'[c]) < MaxAttempts
    THEN job' = [job EXCEPT ![c] = "sleep"] /\ UNCHANGED <<asker, outcome>>
    ELSE EndCall(c, IF sender = "cli" THEN "error" ELSE "raised")

Connect(c) ==
    /\ job[c] = "connect"
    /\ \/ /\ conns' = [conns EXCEPT ![c] = Append(@, "open")]
          /\ job' = [job EXCEPT ![c] = "send"]
          /\ UNCHANGED <<asker, outcome>>
       \/ /\ conns' = [conns EXCEPT ![c] = Append(@, "refused")]
          /\ SocketError(c)
    /\ UNCHANGED <<sender, adapted, ran>>

\* sendall: also when it fails, the whole request may have arrived; and when ImHex has
\* closed the connection it may succeed and nothing arrives.
SendRequest(c) ==
    /\ job[c] = "send"
    /\ \/ /\ Conn(c) = "open"
          /\ conns' = [conns EXCEPT ![c][Attempt(c)] = "asked"]
          /\ \/ job' = [job EXCEPT ![c] = "recv"] /\ UNCHANGED <<asker, outcome>>
             \/ SocketError(c)
       \/ /\ Conn(c) = "cut"
          /\ job' = [job EXCEPT ![c] = "recv"] /\ UNCHANGED <<conns, asker, outcome>>
       \/ UNCHANGED conns /\ SocketError(c)
    /\ UNCHANGED <<sender, adapted, ran>>

Received(c) ==
    /\ job[c] = "recv" /\ Conn(c) = "answered"
    /\ EndCall(c, "answer")
    /\ UNCHANGED <<sender, adapted, conns, ran>>

ReadError(c) ==
    /\ job[c] = "recv"
    /\ UNCHANGED conns /\ SocketError(c)
    /\ UNCHANGED <<sender, adapted, ran>>

\* recv returns b"": the clients that do not look at it read on for ever, the
\* others parse what they have, which may lack nothing but the end of the line.
EndOfStream(c) ==
    /\ job[c] = "recv" /\ Conn(c) = "cut"
    /\ IF sender \in {"retrying", "enhanced"}
       THEN job' = [job EXCEPT ![c] = "spin"] /\ UNCHANGED <<asker, outcome>>
       ELSE \/ Attempt(c) \in ran[c] /\ EndCall(c, "answer")
            \/ EndCall(c, "error")
            \/ sender = "executor" /\ Attempt(c) \in ran[c] /\ EndCall(c, "raised")
    /\ UNCHANGED <<sender, adapted, conns, ran>>

\* The backoff is over.
WakeUp(c) ==
    /\ job[c] = "sleep"
    /\ job' = [job EXCEPT ![c] = "connect"]
    /\ UNCHANGED <<sender, adapted, asker, conns, ran, outcome>>

-----------------------------------------------------------------------------
(* ImHex, for which an attempt given up is a connection like any other. *)

Execute(c, k) ==
    /\ conns[c][k] = "asked"
    /\ conns' = [conns EXCEPT ![c][k] = "ran"]
    /\ ran' = [ran EXCEPT ![c] = @ \cup {k}]
    /\ UNCHANGED <<sender, adapted, asker, job, outcome>>

Respond(c, k) ==
    /\ conns[c][k] = "ran"
    /\ conns' = [conns EXCEPT ![c][k] = "answered"]
    /\ UNCHANGED <<sender, adapted, asker, job, ran, outcome>>

Hangup(c, k) ==
    /\ conns[c][k] \in {"open", "asked", "ran"}
    /\ conns' = [conns EXCEPT ![c][k] = "cut"]
    /\ UNCHANGED <<sender, adapted, asker, job, ran, outcome>>

DirectStep(c) ==
    \/ BeginCall(c) \/ EnterSemaphore(c) \/ CancelCall(c) \/ RunThread(c)
    \/ Connect(c) \/ SendRequest(c) \/ Received(c) \/ ReadError(c) \/ EndOfStream(c) \/ WakeUp(c)
    \/ \E k \in DOMAIN conns[c] : Execute(c, k) \/ Respond(c, k) \/ Hangup(c, k)

DirectNext == \E c \in Calls : DirectStep(c)

DirectSpec == DirectInit /\ [][DirectNext]_directVars

-----------------------------------------------------------------------------
(* Properties. *)

\* A command is executed at most once, but by the retrying clients, for which it is
\* executed at most once for each attempt, and an attempt follows another only
\* after a socket error; who gets an answer gets that of its last attempt, through
\* the adapter too, where an error may be an answer or none.  Who reads on for ever
\* does so since ImHex has closed the connection.  No more tasks are let in than
\* max_concurrent; a thread works for one of them, or its caller was cancelled.
RepeatsExplained ==
    /\ \A c \in Calls :
        /\ Attempt(c) <= IF sender = "retrying" THEN MaxAttempts ELSE 1
        /\ \A k \in ran[c] : k \in DOMAIN conns[c] /\ conns[c][k] \in {"ran", "answered", "cut"}
        /\ outcome[c] \in {"answer", "response"} => Attempt(c) \in ran[c]
        /\ job[c] = "spin" => sender \in {"retrying", "enhanced"} /\ Conn(c) = "cut"
    /\ Cardinality(Holders) <= MaxConcurrent
    /\ \A c \in Running : asker[c] = "waiting" \/ outcome[c] = "cancelled"
    /\ sender = "executor" => Cardinality(Running) <= MaxThreads

==============================================================================
