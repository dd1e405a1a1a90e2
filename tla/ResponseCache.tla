---------------------------- MODULE ResponseCache ----------------------------
(***************************************************************************)
(* lib/cache.py: what the operations of ResponseCache ("sync") and of      *)
(* AsyncResponseCache ("async") do to a cache.  Each runs under a lock and *)
(* is one step.  A cache is a record of its entries, the least recently    *)
(* used first, and the memory account of the async cache.                     *)
(***************************************************************************)
EXTENDS KeyedLists, SequencesExt, FiniteSetsExt

CONSTANTS
    MaxEntries,   \* max_size
    MaxMemory,    \* max_memory_bytes
    SizeOf(_),    \* _estimate_size of the answers to a key
    NoData        \* the data of a request without parameters

ASSUME CacheLimits == MaxEntries \in Nat \ {0} /\ MaxMemory \in Nat

EmptyCache == [entries |-> <<>>, memory |-> 0]

Keys(c) == {e.key : e \in ToSet(c.entries)}
EntryOf(c, key) == CHOOSE e \in ToSet(c.entries) : e.key = key
IsExpired(e, now) == now - e.born > e.ttl

Sizes(entries) == Total([i \in DOMAIN entries |-> SizeOf(entries[i].key)])

\* The entries of some keys are deleted, the account follows.
Delete(c, gone) ==
    LET out == Without(c.entries, Keys(c) \ gone) IN
    [c EXCEPT !.entries = Without(@, gone), !.memory = @ - Sizes(out)]

\* get: the cache after it; a hit makes the entry the most recently used one.
Hit(c, key, now) == key \in Keys(c) /\ ~IsExpired(EntryOf(c, key), now)
Get(c, key, now) ==
    IF Hit(c, key, now)
    THEN [c EXCEPT !.entries = Append(Without(@, {key}), EntryOf(c, key))]
    ELSE Delete(c, {key})

\* _evict_one, n times.
Evict(c, n) == Delete(c, {c.entries[i].key : i \in 1..n})

Placed(c, e) ==
    IF e.key \in Keys(c)
    THEN [c EXCEPT !.entries = [i \in DOMAIN @ |-> IF @[i].key = e.key THEN e ELSE @[i]]]
    ELSE [c EXCEPT !.entries = Append(@, e), !.memory = @ + SizeOf(e.key)]

\* set of ResponseCache: room is made for a new key; an old one keeps its place.
SetSync(c, e) ==
    Placed(IF e.key \notin Keys(c) /\ Len(c.entries) >= MaxEntries THEN Evict(c, 1) ELSE c, e)

\* The dictionary of AsyncEnhancedImHexClient: once it is full the first entry
\* goes, whatever is stored.
SetPlain(c, e) == Placed(IF Len(c.entries) >= MaxEntries THEN Evict(c, 1) ELSE c, e)

\* set of AsyncResponseCache evicts until both limits leave room, also for a key
\* that is there, which is then deleted and set anew.  For an answer larger than
\* all memory the loop, which never suspends, does not end.
Enough(c, e, n) ==
    LET room == Evict(c, n) IN
    Len(room.entries) < MaxEntries /\ room.memory + SizeOf(e.key) <= MaxMemory

Endless(c, e) == ~\E n \in 0..Len(c.entries) : Enough(c, e, n)

\* [mutant: what is replaced stays in the account]
SetAsyncCountsTwice(c, e) ==
    LET room == Evict(c, Min({n \in 0..Len(c.entries) : Enough(c, e, n)}))
    IN [room EXCEPT !.entries = Append(Without(@, {e.key}), e),
                    !.memory = @ + SizeOf(e.key)]

SetAsync(c, e) ==
    LET room == Evict(c, Min({n \in 0..Len(c.entries) : Enough(c, e, n)})) IN
    [Delete(room, {e.key}) EXCEPT !.entries = Append(@, e), !.memory = @ + SizeOf(e.key)]

\* [mutant: the requests without data are kept]
InvalidateParameters(c, endpoint) ==
    Delete(c, {key \in Keys(c) : key.ep = endpoint /\ key.data # NoData})

\* invalidate(endpoint): a prefix of the hash of the endpoint alone matches the key
\* of the request without data and, as hashes go, no other.
Invalidate(c, endpoint) == Delete(c, {key \in Keys(c) : key.ep = endpoint /\ key.data = NoData})
InvalidateKey(c, key) == Delete(c, {key})
Clear(c) == [c EXCEPT !.entries = <<>>, !.memory = 0]

CleanupExpired(c, now) == Delete(c, {e.key : e \in {f \in ToSet(c.entries) : IsExpired(f, now)}})
==============================================================================
