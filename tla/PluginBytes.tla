------------------------------ MODULE PluginBytes ------------------------------
(***************************************************************************)
(* What the endpoints of the ImHex plugin compute on the bytes of a        *)
(* provider (plugin/source/plugin_mcp.cpp), as operators from the bytes    *)
(* and the request to the answer.  The size limits of the code are         *)
(* constants, and u64 arithmetic is arithmetic modulo Word.  A number the  *)
(* code gives an int as default for is read as an int.  Byte 0 is the      *)
(* value a std::vector is filled with before a provider is read into it.   *)
(***************************************************************************)
EXTENDS Integers, Sequences, SequencesExt, FiniteSetsExt

CONSTANTS
    Word,         \* 2^64
    IntWord,      \* 2^32
    MaxBuffer,    \* the largest vector an allocation delivers
    MaxRead,      \* 10 MB: data/read, data/entropy, data/statistics
    MaxScan,      \* 100 MB: data/export, data/strings, batch/hash
    MaxCode,      \* 4 KB and 64 KB: the disassembly endpoints
    SearchChunk,  \* 1 MB: search/find and search/multi
    BatchChunk,   \* 10 MB: batch/search
    MatchLimit,   \* 10000 matches of search/find, 1000 of search/multi
    InspectBytes, \* 16
    CompareBytes, \* 1 MB of file/compare
    Algorithms,   \* the hashes the plugin knows, in lower case
    LowerCase,    \* [name -> name in lower case]
    Printable,    \* the bytes between 32 and 126
    Magics        \* the signatures of data/magic, [at, bytes]

ASSUME WordAssumption ==
    /\ Word \in Nat /\ MaxRead \in Nat /\ MaxScan \in Nat /\ MaxBuffer \in Nat
    /\ 0 < MaxRead /\ MaxRead < MaxBuffer /\ MaxBuffer < Word
    /\ IntWord \in Nat \ {0} /\ IntWord <= Word
    /\ \A a \in Algorithms : LowerCase[a] = a

\* Chunks and limits are numbers, and the byte a buffer is filled with is not printable.
ASSUME ChunkAssumption ==
    /\ SearchChunk \in Nat \ {0} /\ BatchChunk \in Nat \ {0} /\ MatchLimit \in Nat
    /\ 0 \notin Printable

Absent == -1   \* a parameter the request does not carry
U64(x) == x % Word

\* data.value(key, 0) is an int: what does not fit is cut off, and a negative one is
\* extended to 64 bits.
AsInt(x) ==
    LET low == x % IntWord
    IN IF 2 * low < IntWord THEN low ELSE Word - IntWord + low

Least(a, b) == IF a < b THEN a ELSE b

Ok(val) == [st |-> "ok", val |-> val]
Error == [st |-> "error", val |-> <<>>]
Undefined == [st |-> "undefined", val |-> <<>>]

\* What is gathered piece by piece.
Joined(pieces) ==
    LET upTo[n \in 0..Len(pieces)] == IF n = 0 THEN <<>> ELSE upTo[n - 1] \o pieces[n]
    IN upTo[Len(pieces)]

\* n bytes from off: what lies behind the end of the provider stays 0.
ReadAt(b, off, n) == [i \in 1..n |-> IF off + i <= Len(b) THEN b[off + i] ELSE 0]

\* A buffer that cannot be allocated throws, and the handler answers an error.
WithBuffer(b, off, n, Answer(_)) ==
    IF n > MaxBuffer THEN Error ELSE Answer(ReadAt(b, off, n))

\* Mutant: the length is not cut to the file.
Unclamped(b, off, len) == len

\* The length that data/read and hash/calculate keep of a requested one.
Clamped(b, off, len) == IF U64(off + len) > Len(b) THEN Len(b) - off ELSE len

DataRead(b, r) ==
    LET n == Clamped(b, r.off, r.len)
    IN IF r.off >= Len(b) \/ n > MaxRead THEN Error
       ELSE WithBuffer(b, r.off, n, Ok)

WriteFits(b, r) == r.off < Len(b) /\ U64(r.off + Len(r.bytes)) <= Len(b)

Written(b, r) ==
    [i \in DOMAIN b |-> IF i - r.off \in DOMAIN r.bytes THEN r.bytes[i - r.off] ELSE b[i]]

\* The widths of the integers that data/inspect finds room for.
DataInspect(b, r) ==
    LET n == Least(InspectBytes, Len(b) - r.off)
    IN IF r.off >= Len(b) THEN Error
       ELSE Ok([bytes |-> ReadAt(b, r.off, n), widths |-> {w \in {1, 2, 4, 8} : w <= n}])

HashCalculate(b, r) ==
    LET off == AsInt(r.off)
        len == IF r.len = Absent THEN U64(Len(b) - off) ELSE r.len
    IN IF off >= Len(b) THEN Error
       ELSE WithBuffer(b, off, Clamped(b, off, len),
                       LAMBDA x : IF LowerCase[r.algo] \in Algorithms THEN Ok(<<LowerCase[r.algo], x>>) ELSE Error)

\* The name of the algorithm is taken as it is, and an unknown one gives an empty hash.
BatchHash(b, r) ==
    LET off == IF r.off = Absent THEN 0 ELSE r.off
        n == IF r.len = Absent THEN Len(b) ELSE Least(Len(b), r.len)
    IN IF n > MaxScan THEN Error
       ELSE WithBuffer(b, off, n,
                       LAMBDA x : Ok(IF r.algo \in Algorithms THEN <<r.algo, x>> ELSE <<>>))

DataExport(b, r) == IF r.len > MaxScan THEN Error ELSE WithBuffer(b, r.off, r.len, Ok)

---------------------------------------------------------------------------
(* Searching. *)

Occurs(b, pat, p) == p + Len(pat) <= Len(b) /\ SubSeq(b, p + 1, p + Len(pat)) = pat

\* The occurrences among the n positions from s on, in order.
Hits(b, pat, s, n) ==
    Joined([i \in 1..n |-> IF Occurs(b, pat, s + i - 1) THEN <<s + i - 1>> ELSE <<>>])

\* What the loops over the chunks that begin at starts find in the first k of them:
\* each looks at up to window bytes.
Rest(b, s, window) == Least(window, Len(b) - s)
HitsUpTo(b, pat, starts, window, k) ==
    Joined([i \in 1..k |-> Hits(b, pat, starts[i], Rest(b, starts[i], window) - Len(pat) + 1)])

\* A rest shorter than the pattern makes the unsigned bound of the inner loop wrap,
\* and the loop leaves the buffer.
Scan(b, pat, starts, window, limit) ==
    LET found == HitsUpTo(b, pat, starts, window, Len(starts))
    IN IF \E k \in DOMAIN starts :
              /\ Rest(b, starts[k], window) < Len(pat)
              /\ Len(HitsUpTo(b, pat, starts, window, k - 1)) < limit
       THEN Undefined
       ELSE Ok(SubSeq(found, 1, Least(limit, Len(found))))

SearchFind(b, pat) ==
    LET chunks == (Len(b) + SearchChunk - 1) \div SearchChunk
    IN Scan(b, pat, [k \in 1..chunks |-> (k - 1) * SearchChunk],
            SearchChunk + Len(pat), MatchLimit)

\* Mutant: the chunks do not overlap.
BatchSearchApart(b, pat, limit) ==
    LET window == Least(Len(b), BatchChunk)
    IN Scan(b, pat, [k \in 1..(IF b = <<>> THEN 0 ELSE (Len(b) - 1) \div window + 1)
                       |-> (k - 1) * window], window, limit)

\* For patterns shorter than a chunk: the next one begins a pattern's length before
\* the end of the last.
BatchSearch(b, pat, limit) ==
    LET window == Least(Len(b), BatchChunk)
        step == window - Len(pat)
        passes == IF b = <<>> THEN 0
                  ELSE IF Len(b) = window THEN 1
                  ELSE (Len(b) - window + step - 1) \div step + 1
    IN Scan(b, pat, [k \in 1..passes |-> (k - 1) * step], window, limit)

\* What every search is for.
Occurrences(b, pat) == {p \in 0..Len(b) : Occurs(b, pat, p)}

---------------------------------------------------------------------------
(* Chunked reads. *)

ReadChunked(b, r) ==
    LET chunk == AsInt(r.chunk)
        idx == AsInt(r.idx)
        chunkOffset == U64(r.off + U64(idx * chunk))
        n == Least(chunk, U64(r.len - idx * chunk))
        chunks == U64(r.len + chunk - 1) \div chunk
    IN IF chunkOffset >= Len(b) \/ n = 0 \/ r.enc \notin {"hex", "base64"} THEN Error
       ELSE WithBuffer(b, chunkOffset, n, LAMBDA x :
                Ok([data |-> x, total |-> chunks, more |-> idx + 1 < chunks,
                    remaining |-> U64(r.len - (idx + 1) * chunk)]))

---------------------------------------------------------------------------
(* Analysis: frequencies, strings, signatures, instructions, differences. *)

Frequency(x) == [v \in ToSet(x) |-> Cardinality({i \in DOMAIN x : x[i] = v})]

DataEntropy(b, r) ==
    IF AsInt(r.len) > MaxRead THEN Error
    ELSE WithBuffer(b, AsInt(r.off), AsInt(r.len), LAMBDA x : Ok(Frequency(x)))

\* The most common byte is the smallest of the most frequent ones.
DataStatistics(b, r) ==
    LET Count(x, B) == Cardinality({i \in DOMAIN x : x[i] \in B})
        Common(x) == IF x = <<>> THEN 0
                     ELSE Min({v \in ToSet(x) : \A w \in ToSet(x) : Count(x, {w}) <= Count(x, {v})})
    IN IF AsInt(r.len) > MaxRead THEN Error
       ELSE WithBuffer(b, AsInt(r.off), AsInt(r.len), LAMBDA x :
                Ok([unique |-> Cardinality(ToSet(x)), common |-> Common(x),
                    nulls |-> Count(x, {0}), printable |-> Count(x, Printable)]))

\* The runs of a sequence f: the largest intervals on which it has one value, those
\* with a value in W, in order.
Begins(f, i) == i = 1 \/ f[i - 1] # f[i]
EndOf(f, i) ==
    CHOOSE j \in i..Len(f) :
        (\A k \in i..j : f[k] = f[i]) /\ (j = Len(f) \/ f[j + 1] # f[i])
Runs(f, W) ==
    Joined([i \in 1..Len(f) |-> IF Begins(f, i) /\ f[i] \in W THEN <<<<i, EndOf(f, i)>>>> ELSE <<>>])

\* What the characters of a buffer are that are width bytes apart,
Chars(x, width) ==
    [k \in 1..(Len(x) \div width) |->
        IF x[(k - 1) * width + 1] \in Printable /\ (width = 2 => x[2 * k] = 0)
        THEN "text" ELSE "other"]

\* and the strings they make.
StringsOf(x, off, width, min) ==
    LET runs == Runs(Chars(x, width), {"text"})
        String(s) == [at |-> off + (s[1] - 1) * width, len |-> (s[2] - s[1] + 1) * width, width |-> width]
    IN Joined([k \in 1..Len(runs) |->
                  IF runs[k][2] - runs[k][1] + 1 >= min THEN <<String(runs[k])>> ELSE <<>>])

DataStrings(b, r) ==
    LET off == AsInt(r.off)
        n == IF AsInt(r.len) = 0 THEN U64(Len(b) - off) ELSE AsInt(r.len)
        found(x) == (IF r.type \in {"ascii", "all"} THEN StringsOf(x, off, 1, r.min) ELSE <<>>)
                    \o (IF r.type \in {"utf16le", "all"} THEN StringsOf(x, off, 2, r.min) ELSE <<>>)
    IN IF n > MaxScan THEN Error
       ELSE WithBuffer(b, off, n,
                       LAMBDA x : Ok(SubSeq(found(x), 1, Least(r.max, Len(found(x))))))

DataMagic(b, r) ==
    LET match(x, s) == s.at + Len(s.bytes) <= Len(x)
                       /\ SubSeq(x, s.at + 1, s.at + Len(s.bytes)) = s.bytes
    IN WithBuffer(b, AsInt(r.off), Least(AsInt(r.len), U64(Len(b) - AsInt(r.off))),
                  LAMBDA x : Ok({s \in Magics : match(x, s)}))

\* A decoder for which a byte says how long its instruction is; it finds none
\* in byte 0 and none that does not fit.
Instructions(x, limit) ==
    LET from[p \in 1..(Len(x) + 1)] ==
            IF p > Len(x) \/ ReadAt(x, p - 1, 1)[1] = 0 \/ p + x[p] > Len(x) + 1 THEN <<>>
            ELSE <<p>> \o from[p + x[p]]
    IN SubSeq(from[1], 1, Least(limit, Len(from[1])))

Disassemble(b, r) ==
    IF AsInt(r.len) > MaxCode \/ r.arch = "unknown" THEN Error
    ELSE WithBuffer(b, r.off, AsInt(r.len), LAMBDA x : Ok(Instructions(x, r.max)))

DataDisassemble(b, r) ==
    WithBuffer(b, AsInt(r.off), Least(AsInt(r.len), MaxCode),
               LAMBDA x : Ok(IF r.arch = "unknown" THEN <<>> ELSE Instructions(x, r.max)))

FileCompare(b1, b2) ==
    LET n == Least(Least(Len(b1), Len(b2)), CompareBytes)
    IN Ok([compared |-> n, differences |-> Cardinality({i \in 1..n : b1[i] # b2[i]})])

\* The regions of a diffing algorithm: where both files match, where they
\* differ, and where only one has bytes.
Kind(b1, b2, i) ==
    IF i > Len(b1) THEN "insertion"
    ELSE IF i > Len(b2) THEN "deletion"
    ELSE IF b1[i] = b2[i] THEN "match" ELSE "mismatch"

DiffAnalyze(b1, b2, limit) ==
    LET n == IF Len(b1) > Len(b2) THEN Len(b1) ELSE Len(b2)
        runs == Runs([i \in 1..n |-> Kind(b1, b2, i)], {"match", "mismatch", "insertion", "deletion"})
    IN [k \in 1..Least(limit, Len(runs)) |->
          [from |-> runs[k][1] - 1, to |-> runs[k][2] - 1,
           type |-> Kind(b1, b2, runs[k][1])]]

==============================================================================
