------------------------------ MODULE ImHexPlugin ------------------------------
(***************************************************************************)
(* The plugin inside ImHex (plugin/source/plugin_mcp.cpp).  Every          *)
(* connection has a thread that runs the handler of its request; a handler *)
(* first looks up the providers it needs and then uses them, and the main  *)
(* thread, which alone opens and closes providers, may run in between.     *)
(* "file/open" and "file/close" only leave a task for it.                  *)
(***************************************************************************)
EXTENDS PluginBytes

CONSTANTS
    Conns,        \* connections, a thread of ImHex each
    Requests,     \* [connection -> what its client may ask]
    Files,        \* [path -> bytes] of the files that can be opened
    ReadOnly,     \* the paths that open as not writable
    None,         \* no provider
    MaxIds,       \* bound on the providers ever opened
    MaxTasks,     \* bound on the tasks that wait for the main thread
    Patient       \* whether a client asks to open a path only when no such
                  \* request is still under way, as one that polls the list does

ASSUME PluginAssumption ==
    /\ None \notin 1..MaxIds
    /\ Patient \in BOOLEAN
    /\ \A p \in DOMAIN Files : Files[p] \in Seq(Nat) /\ Len(Files[p]) + MaxBuffer < Word

\* What clients send: numbers that fit the types of the parameters; for batch/search,
\* patterns shorter than its chunks; and never a string of no characters, or none.
ASSUME AskedAssumption ==
    LET Numbers == 0..(Word - 1)
    IN \A c \in Conns : \A r \in Requests[c] :
         /\ r.ep \in {"data/read", "data/read_chunked", "data/strings"} =>
              r.off \in Numbers /\ r.len \in Numbers
         /\ r.ep \in {"hash/calculate", "batch/hash"} =>
              r.off \in Numbers \cup {Absent} /\ r.len \in Numbers \cup {Absent}
         /\ r.ep = "hash/calculate" => r.off # Absent
         /\ r.ep = "batch/hash" => {"off", "len", "algo"} \subseteq DOMAIN r
         /\ r.ep = "data/read_chunked" => r.chunk \in Numbers /\ r.idx \in Numbers
         /\ r.ep = "data/strings" => {r.min, r.max} \subseteq 1..(IntWord - 1)
         /\ r.ep \in {"search/find", "batch/search"} => r.pattern \in Seq(Nat)
         /\ r.ep = "search/multi" => \A k \in DOMAIN r.patterns : r.patterns[k] \in Seq(Nat)
         /\ r.ep = "batch/search" => Len(r.pattern) < BatchChunk /\ r.max \in Numbers
         /\ r.ep = "data/write" => r.off \in Numbers /\ r.bytes \in Seq(Nat)

VARIABLES
    open,     \* the ids of the providers, in the order of getProviders()
    path,     \* id -> its name
    bytes,    \* id -> its data
    current,  \* the provider that ImHex shows
    tasks,    \* what TaskManager::doLater was given, oldest first
    call      \* connection -> its request, what its handler holds, its answer

vars == <<open, path, bytes, current, tasks, call>>
providerVars == <<open, path, bytes, current, tasks>>

NoCall == [st |-> "idle", req |-> [ep |-> "none"], held |-> <<>>, out |-> <<>>,
           seen |-> <<>>, reply |-> Error]

Init ==
    /\ open = <<>> /\ path = <<>> /\ bytes = <<>>
    /\ current = None
    /\ tasks = <<>>
    /\ call = [c \in Conns |-> NoCall]

Open == ToSet(open)
Named(p) == {i \in Open : path[i] = p}
Req(c) == call[c].req

OfCurrent == {"data/read", "data/write", "data/inspect", "bookmark/add", "hash/calculate",
              "search/find", "search/multi", "data/export", "disasm/disassemble",
              "data/read_chunked"}
OfChosen == {"data/entropy", "data/statistics", "data/strings", "data/magic",
             "data/disassemble"}
OfPair == {"file/compare", "diff/analyze"}
OfMany == {"batch/hash", "batch/search"}

---------------------------------------------------------------------------
(* Requests and answers. *)

OpensOf(p) == {k \in DOMAIN tasks : tasks[k].op = "open" /\ tasks[k].path = p}
Asking(p) == {c \in Conns : Req(c).ep = "file/open" /\ Req(c).path = p
                            /\ call[c].st \in {"sent", "held"}}

Send(c, r) ==
    /\ call[c].st = "idle"
    /\ r.ep \in {"file/open", "file/close"} => Len(tasks) + Cardinality(Conns) <= MaxTasks
    /\ Patient /\ r.ep = "file/open" => OpensOf(r.path) = {} /\ Asking(r.path) = {}
    /\ call' = [call EXCEPT ![c] = [NoCall EXCEPT !.st = "sent", !.req = r]]
    /\ UNCHANGED providerVars

\* The client has its answer and may ask again.
Receive(c) ==
    /\ call[c].st = "done"
    /\ call' = [call EXCEPT ![c] = NoCall]
    /\ UNCHANGED providerVars

Reply(c, answer) == call' = [call EXCEPT ![c].st = "done", ![c].reply = answer]

\* A handler that computes answers with the data of the providers it holds;
\* what the use of a provider closed since then gives is undefined.
Finish(c, answer) ==
    LET held == call[c].held
        safe == ToSet(held) \subseteq Open
    IN call' = [call EXCEPT ![c].st = "done",
                            ![c].seen = [k \in DOMAIN held |-> bytes[held[k]]],
                            ![c].reply = IF safe THEN answer ELSE Undefined]

---------------------------------------------------------------------------
(* Looking providers up. *)

Found(i) == IF i \in Open THEN <<i>> ELSE <<>>
Current == IF current = None THEN <<>> ELSE <<current>>

Holds(r) ==
    IF r.ep \in OfCurrent THEN Current
    ELSE IF r.ep \in OfChosen THEN IF r.id = 0 THEN Current ELSE Found(r.id)
    ELSE IF r.ep = "file/switch" THEN Found(r.id)
    ELSE IF {r.id1, r.id2} \subseteq Open THEN <<r.id1, r.id2>> ELSE <<>>

Look(c) ==
    /\ call[c].st = "sent"
    /\ Req(c).ep \in OfCurrent \cup OfChosen \cup OfPair \cup {"file/switch"}
    /\ LET held == Holds(Req(c))
       IN IF held = <<>> THEN Reply(c, Error)
          ELSE call' = [call EXCEPT ![c].st = "held", ![c].held = held]
    /\ UNCHANGED providerVars

Held(c, eps) == call[c].st = "held" /\ Req(c).ep \in eps

Searched(b, r) ==
    IF r.odd \/ r.type \notin {"hex", "text"} \/ r.pattern = <<>> THEN Error
    ELSE SearchFind(b, r.pattern)

\* One result per pattern; the answer is an error as soon as one is.
SearchedAll(b, r) ==
    LET results == [k \in DOMAIN r.patterns |-> SearchFind(b, r.patterns[k])]
    IN IF r.odd THEN Error
       ELSE IF \E k \in DOMAIN results : results[k].st = "undefined" THEN Undefined
       ELSE Ok([k \in DOMAIN results |-> results[k].val])

Computed(r, b) ==
    CASE r.ep = "data/read" -> DataRead(b[1], r)
      [] r.ep = "bookmark/add" -> Ok("added")
      [] r.ep = "data/inspect" -> DataInspect(b[1], r)
      [] r.ep = "hash/calculate" -> HashCalculate(b[1], r)
      [] r.ep = "search/find" -> Searched(b[1], r)
      [] r.ep = "search/multi" -> SearchedAll(b[1], r)
      [] r.ep = "data/export" -> DataExport(b[1], r)
      [] r.ep = "disasm/disassemble" -> Disassemble(b[1], r)
      [] r.ep = "data/read_chunked" -> ReadChunked(b[1], r)
      [] r.ep = "data/entropy" -> DataEntropy(b[1], r)
      [] r.ep = "data/statistics" -> DataStatistics(b[1], r)
      [] r.ep = "data/strings" -> DataStrings(b[1], r)
      [] r.ep = "data/magic" -> DataMagic(b[1], r)
      [] r.ep = "data/disassemble" -> DataDisassemble(b[1], r)
      [] r.ep = "file/compare" -> FileCompare(b[1], b[2])
      [] r.ep = "diff/analyze" -> Ok(DiffAnalyze(b[1], b[2], r.max))

Compute(c) ==
    /\ Held(c, (OfCurrent \ {"data/write"}) \cup OfChosen \cup OfPair)
    /\ Finish(c, Computed(Req(c), [k \in DOMAIN call[c].held |-> bytes[call[c].held[k]]]))
    /\ UNCHANGED providerVars

---------------------------------------------------------------------------
(* Handlers that change something. *)

Write(c) ==
    /\ Held(c, {"data/write"})
    /\ LET i == call[c].held[1]
           r == Req(c)
           refused == path[i] \in ReadOnly \/ r.odd \/ ~WriteFits(bytes[i], r)
       IN /\ Finish(c, IF refused THEN Error ELSE Ok(Len(r.bytes)))
          /\ bytes' = IF refused \/ i \notin Open THEN bytes
                      ELSE [bytes EXCEPT ![i] = Written(@, r)]
    /\ UNCHANGED <<open, path, current, tasks>>

Switch(c) ==
    /\ Held(c, {"file/switch"})
    /\ current' = IF call[c].held[1] \in Open THEN call[c].held[1] ELSE current
    /\ Finish(c, Ok(call[c].held[1]))
    /\ UNCHANGED <<open, path, bytes, tasks>>

\* Mutant: the check for a provider of that name is left out.
CheckOpenUnchecked(c) ==
    /\ call[c].st = "sent" /\ Req(c).ep = "file/open"
    /\ call' = [call EXCEPT ![c].st = "held"]
    /\ UNCHANGED providerVars

\* The check for a provider of that name, and the task if there is none.
CheckOpen(c) ==
    /\ call[c].st = "sent" /\ Req(c).ep = "file/open"
    /\ IF Named(Req(c).path) # {} THEN Reply(c, Ok("already_open"))
       ELSE call' = [call EXCEPT ![c].st = "held"]
    /\ UNCHANGED providerVars

RequestOpen(c) ==
    /\ Held(c, {"file/open"})
    /\ tasks' = Append(tasks, [op |-> "open", path |-> Req(c).path])
    /\ Reply(c, Ok("requested"))
    /\ UNCHANGED <<open, path, bytes, current>>

RequestClose(c) ==
    /\ call[c].st = "sent" /\ Req(c).ep = "file/close"
    /\ tasks' = Append(tasks, [op |-> "close", id |-> Req(c).id])
    /\ Reply(c, Ok("async"))
    /\ UNCHANGED <<open, path, bytes, current>>

---------------------------------------------------------------------------
(* Handlers over many providers look each one up when its turn comes. *)

StartBatch(c) ==
    /\ call[c].st = "sent" /\ Req(c).ep \in OfMany
    /\ IF Req(c).ep = "batch/search" /\ Req(c).odd THEN Reply(c, Error)
       ELSE call' = [call EXCEPT ![c].st = "held",
                                 ![c].held = IF Req(c).all THEN open ELSE Req(c).ids]
    /\ UNCHANGED providerVars

NotFound(i) == [id |-> i, answer |-> Error, seen |-> <<>>]
BatchAnswer(r, i) ==
    [id |-> i, seen |-> bytes[i],
     answer |-> IF r.ep = "batch/hash" THEN BatchHash(bytes[i], r)
                ELSE BatchSearch(bytes[i], r.pattern, AsInt(r.max))]

BatchNext(c) ==
    /\ Held(c, OfMany)
    /\ call[c].held # <<>>
    /\ LET i == Head(call[c].held)
           result == IF i \in Open THEN <<BatchAnswer(Req(c), i)>>
                     ELSE IF Req(c).ep = "batch/hash" THEN <<NotFound(i)>> ELSE <<>>
       IN call' = [call EXCEPT ![c].held = Tail(@), ![c].out = @ \o result]
    /\ UNCHANGED providerVars

EndBatch(c) ==
    /\ Held(c, OfMany)
    /\ call[c].held = <<>>
    /\ Reply(c, Ok(Len(call[c].out)))
    /\ UNCHANGED providerVars

---------------------------------------------------------------------------
(* Handlers that look up no provider to use. *)

Listing == [k \in DOMAIN open |-> [id |-> open[k], name |-> path[open[k]],
                                   size |-> Len(bytes[open[k]]),
                                   active |-> open[k] = current]]

Plain(r) ==
    CASE r.ep = "file/list" -> Ok(Listing)
      [] r.ep = "list/providers" -> Ok(Listing)
      [] r.ep = "provider/info" -> Ok(Current)
      [] r.ep = "bookmark/remove" -> Ok("removed")
      [] r.ep = "data/decode" -> IF r.odd \/ r.enc = "unknown" THEN Error ELSE Ok(r.bytes)
      [] r.ep = "search/export" -> IF r.unwritable THEN Error ELSE Ok(Len(r.matches))

Tell(c) ==
    /\ call[c].st = "sent"
    /\ Req(c).ep \in {"file/list", "list/providers", "provider/info", "data/decode",
                      "search/export", "bookmark/remove"}
    /\ Reply(c, Plain(Req(c)))
    /\ UNCHANGED providerVars

---------------------------------------------------------------------------
(* The main thread. *)

RunOpen ==
    /\ tasks # <<>> /\ Head(tasks).op = "open"
    /\ tasks' = Tail(tasks)
    /\ LET p == Head(tasks).path
           i == Len(path) + 1
       IN IF p \notin DOMAIN Files THEN UNCHANGED <<open, path, bytes, current>>
          ELSE /\ i <= MaxIds
               /\ open' = Append(open, i)
               /\ path' = Append(path, p)
               /\ bytes' = Append(bytes, Files[p])
               /\ current' = i
    /\ UNCHANGED call

RunClose ==
    /\ tasks # <<>> /\ Head(tasks).op = "close"
    /\ tasks' = Tail(tasks)
    /\ LET i == Head(tasks).id
       IN /\ open' = RemoveFirst(open, i)
          /\ current' \in IF current # i \/ i \notin Open THEN {current}
                          ELSE IF Open = {i} THEN {None} ELSE Open \ {i}
    /\ UNCHANGED <<path, bytes, call>>

Handler(c) ==
    \/ Look(c) \/ Compute(c) \/ Write(c)
    \/ Switch(c) \/ CheckOpen(c) \/ RequestOpen(c) \/ RequestClose(c)
    \/ StartBatch(c) \/ BatchNext(c) \/ EndBatch(c) \/ Tell(c)

Next ==
    \/ \E c \in Conns : (\E r \in Requests[c] : Send(c, r)) \/ Handler(c) \/ Receive(c)
    \/ RunOpen \/ RunClose

Spec == Init /\ [][Next]_vars

---------------------------------------------------------------------------
(* Properties. *)

\* The types of the variables: ids are never reused, current is an open provider.
TypeOK ==
    /\ Open \subseteq DOMAIN path
    /\ DOMAIN path = 1..Len(path) /\ DOMAIN bytes = DOMAIN path
    /\ \A i \in DOMAIN path : Len(bytes[i]) = Len(Files[path[i]])
    /\ current \in Open \cup {None} /\ (current = None <=> open = <<>>)
    /\ Len(tasks) <= MaxTasks
    /\ \A c \in Conns : call[c].st \in {"idle", "sent", "held", "done"}

Slice(b, from, n) == SubSeq(b, from + 1, Least(from + n, Len(b)))

Told(c, ep) == call[c].st = "done" /\ Req(c).ep = ep /\ call[c].reply.st = "ok"

\* Numbers that an int holds.
FitsInt(x) == 2 * x < IntWord

ReadRight(c) ==
    LET r == Req(c)
        b == call[c].seen[1]
        v == call[c].reply.val
    IN /\ Told(c, "data/read") => v = Slice(b, r.off, r.len) /\ r.off < Len(b)
       /\ Told(c, "hash/calculate") /\ FitsInt(r.off) =>
            v[2] = Slice(b, r.off, IF r.len = Absent THEN Len(b) ELSE r.len)
       /\ Told(c, "data/read_chunked") /\ FitsInt(r.idx) /\ FitsInt(r.chunk)
          /\ r.off + r.len <= Len(b) /\ r.idx * r.chunk < r.len =>
            /\ v.data = Slice(Slice(b, r.off, r.len), r.idx * r.chunk, r.chunk)
            /\ v.more <=> (r.idx + 1) * r.chunk < r.len
            /\ v.more => v.remaining = r.len - (r.idx + 1) * r.chunk

BatchHashRight(c) ==
    \A k \in DOMAIN call[c].out :
        LET result == call[c].out[k]
            asked == IF Req(c).len = Absent THEN Len(result.seen) ELSE Req(c).len
        IN Req(c).ep = "batch/hash" /\ Req(c).off \in {Absent, 0} /\ Req(c).algo \in Algorithms
           => \/ result.answer = HashCalculate(result.seen, [Req(c) EXCEPT !.off = 0])
              \/ result.answer = Error /\ Least(Len(result.seen), asked) > MaxScan
              \/ result.seen = <<>>

StringsRight(c) ==
    Told(c, "data/strings") /\ FitsInt(Req(c).off) /\ FitsInt(Req(c).len) =>
        LET b == call[c].seen[1]
            At(i) == i \in DOMAIN b /\ b[i] \in Printable
        IN \A k \in DOMAIN call[c].reply.val :
             LET s == call[c].reply.val[k]
             IN /\ \A i \in 1..s.len : (i - 1) % s.width = 0 => At(s.at + i)
                /\ s.width = 1 => ~At(s.at + s.len + 1) \/ s.at + s.len = Req(c).off + Req(c).len

\* What an answer says of a file is true of the bytes of the file: a read or a
\* hash covers the part of the range that lies in the file and nothing else, also
\* where offset + length wraps; the chunks of a range inside the file tile it, and
\* only the last one has no more; batch/hash from the first byte on agrees with
\* hash/calculate for an algorithm in lower case, unless it refuses so many bytes or
\* the file is empty; an extracted string is printable throughout and is not cut
\* short.  Where the code reads a number as an int (the offset of a hash, the size and
\* the number of a chunk, the range of a search for strings), that is so for those
\* an int holds: beyond 2 GB another part of the file is read.
AnswersExact == \A c \in Conns : ReadRight(c) /\ BatchHashRight(c) /\ StringsRight(c)

\* No loop looks at an empty file, in which only an empty pattern would occur.
Complete(b, pat, found, limit) ==
    /\ ToSet(found) \subseteq Occurrences(b, pat)
    /\ Len(found) < limit /\ b # <<>> => ToSet(found) = Occurrences(b, pat)

\* Searching chunk by chunk misses no occurrence that lies across a boundary and
\* reports none that is not there, in search/find, search/multi and batch/search;
\* search/find reports one twice only where a chunk begins.  The limit of batch/search
\* is one that an int holds.
SearchesComplete ==
    \A c \in Conns :
        LET r == Req(c)
            b == call[c].seen[1]
            v == call[c].reply.val
        IN /\ Told(c, "search/find") =>
                /\ Complete(b, r.pattern, v, MatchLimit)
                /\ \A i, j \in DOMAIN v : i < j /\ v[i] = v[j] => v[i] % SearchChunk = 0
           /\ Told(c, "search/multi") =>
                \A k \in DOMAIN v : Complete(b, r.patterns[k], v[k], MatchLimit)
           /\ r.ep = "batch/search" /\ FitsInt(r.max) =>
                \A k \in DOMAIN call[c].out :
                    call[c].out[k].answer.st = "ok" =>
                        Complete(call[c].out[k].seen, r.pattern, call[c].out[k].answer.val, r.max)

\* A path has one provider, if whoever asks to open it first waits until an
\* earlier request for it has been carried out: "Check if file is already open -
\* prevents issues with duplicate opens" (plugin_mcp.cpp:187).
OneProviderPerPath == \A p \in DOMAIN Files : Cardinality(Named(p)) <= 1

==============================================================================
