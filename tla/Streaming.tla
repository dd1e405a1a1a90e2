------------------------------ MODULE Streaming ------------------------------
(***************************************************************************)
(* lib/streaming.py: the generators of StreamingClient, which ask for a    *)
(* file piece by piece while others may change it.  stream_read of the     *)
(* asynchronous client is the same loop; stream_hash and stream_entropy    *)
(* are one.  An answer may be shorter than asked for.                      *)
(***************************************************************************)
EXTENDS Integers, Sequences, FiniteSets, SequencesExt

CONSTANTS
    Contents,     \* contents the file may have: sequences of bytes
    Bytes,        \* bytes another client may write
    Sought,       \* the pattern of a search
    ChunkSizes,   \* chunk_size
    Overlaps,     \* overlap_size
    MaxRounds     \* bound on the rounds of a loop that may not end

ASSUME StreamAssumption ==
    /\ \A c \in Contents : c \in Seq(ToSet(c))
    /\ Len(Sought) \in Nat \ {0}
    /\ ChunkSizes \subseteq Nat \ {0} /\ Overlaps \subseteq Nat

VARIABLES
    generator,   \* "read", "search" or "hash"
    chunk, overlap,
    file,        \* the contents of the file
    fileSize,    \* file/info's size: total_size, file_size
    pos,         \* current_offset
    yielded,     \* what was yielded: [off, size, data, last]
    whole,       \* nothing changed the file, was cut short or failed so far
    loop         \* "ask" or how the generator ended: "done", "raised"

streamVars == <<generator, chunk, overlap, file, fileSize, pos, yielded, whole, loop>>

StreamInit ==
    /\ generator \in {"read", "search", "hash"}
    /\ chunk \in ChunkSizes /\ overlap \in Overlaps
    /\ file \in Contents /\ fileSize = Len(file)
    /\ pos = 0 /\ yielded = <<>> /\ whole = TRUE /\ loop = "ask"

Part(from, n) == SubSeq(file, from + 1, from + n)
AtMost(m, n) == IF m < n THEN m ELSE n
Rounds == Len(yielded)
Yield(entry) == yielded' = Append(yielded, entry)

\* stream_read: an answer may be short, but is_last goes by what was asked for.
ReadChunk(n) ==
    /\ generator = "read" /\ loop = "ask" /\ pos < fileSize /\ Rounds < MaxRounds
    /\ LET size == AtMost(chunk, fileSize - pos) IN
       /\ n \in 0..size /\ pos + n <= Len(file)
       /\ Yield([off |-> pos, size |-> n, data |-> Part(pos, n), last |-> fileSize - pos <= size])
       /\ pos' = pos + n
       /\ whole' = (whole /\ n = size)
    /\ UNCHANGED <<generator, chunk, overlap, file, fileSize, loop>>

ReadFails ==
    /\ generator = "read" /\ loop = "ask" /\ pos < fileSize
    /\ loop' = "raised" /\ whole' = FALSE
    /\ UNCHANGED <<generator, chunk, overlap, file, fileSize, pos, yielded>>

Occurrences(from, n) ==
    {o \in from..(from + n - Len(Sought)) :
        o >= 0 /\ o + Len(Sought) <= Len(file) /\ Part(o, Len(Sought)) = Sought}

\* [mutant: no overlap]
SearchChunkApart(ok) ==
    /\ generator = "search" /\ loop = "ask" /\ pos < fileSize /\ Rounds < MaxRounds
    /\ LET size == AtMost(chunk, fileSize - pos) IN
       /\ Yield([off |-> pos, size |-> size, data |-> IF ok THEN Occurrences(pos, size) ELSE {},
                 last |-> FALSE])
       /\ pos' = pos + size
       /\ loop' = IF pos' >= fileSize THEN "done" ELSE "ask"
    /\ whole' = (whole /\ ok)
    /\ UNCHANGED <<generator, chunk, overlap, file, fileSize>>

\* stream_search: a chunk that fails is passed over in silence.
SearchChunk(ok) ==
    /\ generator = "search" /\ loop = "ask" /\ pos < fileSize /\ Rounds < MaxRounds
    /\ LET size == AtMost(chunk, fileSize - pos) IN
       /\ Yield([off |-> pos, size |-> size, data |-> IF ok THEN Occurrences(pos, size) ELSE {},
                 last |-> FALSE])
       /\ pos' = pos + size - overlap
       /\ loop' = IF pos' + overlap >= fileSize THEN "done" ELSE "ask"
    /\ whole' = (whole /\ ok)
    /\ UNCHANGED <<generator, chunk, overlap, file, fileSize>>

\* stream_hash and stream_entropy: of a region that fails nothing is yielded.
HashChunk(ok) ==
    /\ generator = "hash" /\ loop = "ask" /\ pos < fileSize
    /\ LET size == AtMost(chunk, fileSize - pos) IN
       /\ IF ok THEN Yield([off |-> pos, size |-> size, data |-> Part(pos, size), last |-> FALSE])
          ELSE UNCHANGED yielded
       /\ pos' = pos + size
    /\ whole' = (whole /\ ok)
    /\ UNCHANGED <<generator, chunk, overlap, file, fileSize, loop>>

EndStream ==
    /\ loop = "ask" /\ pos >= fileSize
    /\ loop' = "done"
    /\ UNCHANGED <<generator, chunk, overlap, file, fileSize, pos, yielded, whole>>

\* Another client writes to the file.
Overwrite ==
    /\ loop = "ask"
    /\ \E i \in DOMAIN file, b \in Bytes : file[i] # b /\ file' = [file EXCEPT ![i] = b]
    /\ whole' = FALSE
    /\ UNCHANGED <<generator, chunk, overlap, fileSize, pos, yielded, loop>>

StreamNext ==
    \/ (\E n \in 0..chunk : ReadChunk(n)) \/ ReadFails
    \/ (\E ok \in BOOLEAN : SearchChunk(ok) \/ HashChunk(ok))
    \/ EndStream \/ Overwrite

StreamSpec == StreamInit /\ [][StreamNext]_streamVars

-----------------------------------------------------------------------------
(* Properties. *)

\* What the chunks are together.
Joined(chunks) ==
    LET joined[n \in 0..Len(chunks)] == IF n = 0 THEN <<>> ELSE joined[n - 1] \o chunks[n].data
    IN joined[Len(chunks)]

Matches == UNION {yielded[i].data : i \in DOMAIN yielded}
AllMatches == {o \in 0..Len(file) : o + Len(Sought) <= Len(file) /\ Part(o, Len(Sought)) = Sought}

\* Chunks are consecutive, however short; a stream that ran to its end over a file
\* left alone is the file, its last chunk and no other marked as such; a search
\* whose overlap holds all but a byte of the pattern finds every occurrence; and no
\* generator asks more often than its size allows, unless ImHex answers
\* with nothing or the chunks of a search do not exceed their overlap.
StreamExact ==
    /\ generator = "read" =>
         \A i \in 2..Rounds : yielded[i].off = yielded[i - 1].off + yielded[i - 1].size
    /\ loop = "done" /\ whole =>
         CASE generator = "search" -> (Len(Sought) <= overlap + 1 => Matches = AllMatches)
           [] generator = "read" -> /\ Joined(yielded) = file
                                    /\ \A i \in DOMAIN yielded : yielded[i].last <=> i = Len(yielded)
           [] generator = "hash" -> Joined(yielded) = file
    /\ Rounds > fileSize => \/ generator = "search" /\ chunk <= overlap
                            \/ generator = "read" /\ \E i \in DOMAIN yielded : yielded[i].size = 0
==============================================================================
