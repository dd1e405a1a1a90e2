----------------------------- MODULE TieredCache -----------------------------
(***************************************************************************)
(* lib/advanced_cache.py: MultiTierCache.  Its locks are never held over a *)
(* suspension, so only the data loader takes time: a get that misses, a    *)
(* prefetch and a warming are a step before their load and one after it.   *)
(***************************************************************************)
EXTENDS KeyedLists, SequencesExt, FiniteSetsExt

CONSTANTS
    Names,        \* cache keys
    Ahead(_),     \* the keys a steady pattern leads to from a key, in order
    WeightOf(_),  \* key -> the size of its value
    Limits,       \* tier -> [size, bytes], max_size and max_bytes
    Threshold,    \* promotion_threshold of L2
    MaxCalls      \* bound on the calls

ASSUME TierAssumption ==
    /\ \A k \in Names : WeightOf(k) \in Nat /\ Ahead(k) \in Seq(Names)
    /\ \A t \in {"L1", "L2"} : Limits[t].size \in Nat \ {0} /\ Limits[t].bytes \in Nat
    /\ Threshold \in Nat

VARIABLES
    tiers,        \* "L1", "L2" -> [entries, bytes, lost]
    prefetching,  \* _prefetch_tasks: key -> the number of the load it runs
    inflight,     \* loads: [id, key, by, epoch]
    epoch,        \* the calls of clear()
    calls         \* the calls, which number the loads

tierVars == <<tiers, prefetching, inflight, epoch, calls>>

EmptyTier == [entries |-> <<>>, bytes |-> 0, lost |-> 0]

TierInit ==
    /\ tiers = [t \in {"L1", "L2"} |-> EmptyTier]
    /\ prefetching = <<>> /\ inflight = {} /\ epoch = 0 /\ calls = 0

KeysOf(tier) == {e.key : e \in ToSet(tier.entries)}
EntryIn(tier, k) == CHOOSE e \in ToSet(tier.entries) : e.key = k
Weight(entries) == Total([i \in DOMAIN entries |-> WeightOf(entries[i].key)])

\* _evict. An entry that is being replaced has its size taken off a second time.
EvictAll(tier, K, replacing) ==
    LET Those(S) == Without(tier.entries, KeysOf(tier) \ S) IN
    [entries |-> Without(tier.entries, K),
     bytes |-> tier.bytes - Weight(Those(K)),
     lost |-> tier.lost + Weight(Those(K \cap replacing))]

\* put takes off what it replaces, evicts the keys K and adds the entry e, which
\* keeps the place of the one it replaces unless that was evicted.
TakenOff(tier, k) == IF k \in KeysOf(tier) THEN [tier EXCEPT !.bytes = @ - WeightOf(k)] ELSE tier

Added(tier, e, K) ==
    LET room == EvictAll(TakenOff(tier, e.key), K, {e.key}) IN
    [room EXCEPT !.entries = IF e.key \in KeysOf(room)
                             THEN [i \in DOMAIN @ |-> IF @[i].key = e.key THEN e ELSE @[i]]
                             ELSE Append(@, e),
                 !.bytes = @ + WeightOf(e.key)]

HasRoom(t, tier, e, K) ==
    LET room == EvictAll(TakenOff(tier, e.key), K, {e.key}) IN
    \/ room.entries = <<>>
    \/ Len(room.entries) < Limits[t].size /\ room.bytes + WeightOf(e.key) <= Limits[t].bytes

\* The keys _evict_one may take: in turn from the front in L1 (LRU), and by age
\* and use, which is left open, in L2 (adaptive).
Victims(t, tier, e) ==
    LET First(n) == {tier.entries[i].key : i \in 1..n}
        Sets == IF t = "L1" THEN {First(n) : n \in 0..Len(tier.entries)}
                ELSE SUBSET KeysOf(tier)
    IN {K \in Sets : /\ HasRoom(t, tier, e, K)
                     /\ K = {} \/ \E k \in K : (K \ {k}) \in Sets /\ ~HasRoom(t, tier, e, K \ {k})}

Entry(k, by, since) == [key |-> k, count |-> 0, by |-> by, since |-> since]

PutIn(t, e) == \E K \in Victims(t, tiers[t], e) : tiers' = [tiers EXCEPT ![t] = Added(@, e, K)]

\* get of a tier: a hit is touched and, in L1, moved to the end.
Touched(tier, t, k) ==
    LET e == EntryIn(tier, k)
        more == [e EXCEPT !.count = IF @ < Threshold THEN @ + 1 ELSE @]
    IN [tier EXCEPT !.entries =
          IF t = "L1" THEN Append(Without(@, {k}), more)
          ELSE [i \in DOMAIN @ |-> IF @[i].key = k THEN more ELSE @[i]]]

\* The look-up of k in both tiers; in the tiers old the time of its entry is over.
LookedUp(ts, k, old) ==
    LET aged == [t \in DOMAIN ts |-> IF t \in old THEN EvictAll(ts[t], {k}, {}) ELSE ts[t]]
    IN CASE k \in KeysOf(aged["L1"]) -> [ts EXCEPT !["L1"] = Touched(aged["L1"], "L1", k)]
         [] k \notin KeysOf(aged["L1"]) /\ k \in KeysOf(aged["L2"]) ->
              [aged EXCEPT !["L2"] = Touched(@, "L2", k)]
         [] OTHER -> aged

\* The look-ups of the keys ks one after the other.
AllLookedUp(ts, ks, old) ==
    LET after[n \in 0..Len(ks)] ==
            IF n = 0 THEN ts ELSE LookedUp(after[n - 1], ks[n], old[ks[n]])
    IN after[Len(ks)]

NewLoad(k, by) == [id |-> calls + 1, key |-> k, by |-> by, epoch |-> epoch]
Call == calls < MaxCalls /\ calls' = calls + 1

\* _maybe_prefetch, if the pattern is steady, once the tiers are ts: what comes next
\* is looked up, and loaded where it is neither cached nor under way.
HitThenPrefetch(k, ts) ==
    \/ tiers' = ts /\ UNCHANGED <<prefetching, inflight>>
    \/ \E old \in [ToSet(Ahead(k)) -> SUBSET DOMAIN ts] :
         LET after == AllLookedUp(ts, Ahead(k), old)
             wanted == {j \in ToSet(Ahead(k)) : \A t \in DOMAIN after : j \notin KeysOf(after[t])}
                       \ DOMAIN prefetching
         IN /\ tiers' = after
            /\ inflight' = inflight \cup {NewLoad(j, "prefetch") : j \in wanted}
            /\ prefetching' = [j \in DOMAIN prefetching \cup wanted |->
                                 IF j \in wanted THEN calls + 1 ELSE prefetching[j]]

HitL1(k, ts) == k \in KeysOf(ts["L1"]) /\ HitThenPrefetch(k, ts)

\* A hit in L2 is copied into L1 once it has been used often enough.
HitL2(k, ts) ==
    /\ k \notin KeysOf(ts["L1"]) /\ k \in KeysOf(ts["L2"])
    /\ LET e == EntryIn(ts["L2"], k) IN
       \/ e.count < Threshold /\ HitThenPrefetch(k, ts)
       \/ /\ e.count >= Threshold
          /\ \E K \in Victims("L1", ts["L1"], e) :
                HitThenPrefetch(k, [ts EXCEPT !["L1"] = Added(@, [e EXCEPT !.count = 0], K)])

\* A miss waits for a load that is in no table of tasks.
Miss(k, ts) ==
    /\ \A t \in DOMAIN ts : k \notin KeysOf(ts[t])
    /\ tiers' = ts
    /\ inflight' = inflight \cup {NewLoad(k, "get")}
    /\ UNCHANGED prefetching

GetTiered(k) ==
    /\ Call
    /\ \E old \in SUBSET DOMAIN tiers : LET ts == LookedUp(tiers, k, old) IN
         HitL1(k, ts) \/ HitL2(k, ts) \/ Miss(k, ts)
    /\ UNCHANGED epoch

\* warm of one key, a load that is in no table either.
Warm(k) ==
    /\ Call
    /\ inflight' = inflight \cup {NewLoad(k, "warm")}
    /\ UNCHANGED <<tiers, prefetching, epoch>>

PutCall(k, t) ==
    /\ Call /\ PutIn(t, Entry(k, "put", epoch))
    /\ UNCHANGED <<prefetching, inflight, epoch>>

\* A load is over: its value, if any, goes to L2, and a prefetch or a warming takes
\* its key out of the table, whatever load the table has for it by now: that one
\* is then in no table (orphan).
Over(job) ==
    /\ prefetching' = [k \in DOMAIN prefetching \ {job.key} |-> prefetching[k]]
    /\ inflight' = {IF i.by = "prefetch" /\ i.key = job.key THEN [i EXCEPT !.by = "orphan"] ELSE i :
                       i \in inflight \ {job}}

LoadOver(job) ==
    /\ job \in inflight /\ job.by # "cancelled"
    /\ PutIn("L2", Entry(job.key, job.by, job.epoch)) \/ UNCHANGED tiers
    /\ IF job.by = "get" THEN inflight' = inflight \ {job} /\ UNCHANGED prefetching ELSE Over(job)
    /\ UNCHANGED <<epoch, calls>>

\* A cancelled prefetch does so too when it next runs, unless it never began to.
LoadCancelled(job) ==
    /\ job \in inflight /\ job.by = "cancelled"
    /\ Over(job) \/ (inflight' = inflight \ {job} /\ UNCHANGED prefetching)
    /\ UNCHANGED <<tiers, epoch, calls>>

\* [mutant: clear() forgets the prefetches without cancelling them]
ClearForgets ==
    /\ Call /\ epoch' = epoch + 1
    /\ tiers' = [t \in DOMAIN tiers |-> EmptyTier]
    /\ prefetching' = <<>> /\ UNCHANGED inflight

\* clear() cancels the prefetches in the table.
ClearTiers ==
    /\ Call /\ epoch' = epoch + 1
    /\ tiers' = [t \in DOMAIN tiers |-> EmptyTier]
    /\ prefetching' = <<>>
    /\ inflight' = {IF \E k \in DOMAIN prefetching : prefetching[k] = job.id /\ job.key = k
                    THEN [job EXCEPT !.by = "cancelled"] ELSE job : job \in inflight}

TierNext ==
    \/ \E k \in Names : GetTiered(k) \/ Warm(k) \/ \E t \in DOMAIN tiers : PutCall(k, t)
    \/ (\E job \in inflight : LoadOver(job) \/ LoadCancelled(job)) \/ ClearTiers

TierSpec == TierInit /\ [][TierNext]_tierVars

-----------------------------------------------------------------------------
(* Properties. *)

\* The account of a tier is the sum of its sizes but for what was evicted while it
\* was being replaced, whose size is taken off twice (so that the account falls
\* behind and the tier outgrows its limit). The number of entries keeps to its
\* limit.  After clear() no prefetch begun before it comes back, except one
\* whose place in the table was taken away; what a get or a warming loads does.
TiersExact ==
    /\ \A t \in DOMAIN tiers :
        /\ Cardinality(KeysOf(tiers[t])) = Len(tiers[t].entries)
        /\ Len(tiers[t].entries) <= Limits[t].size
        /\ tiers[t].bytes = Weight(tiers[t].entries) - tiers[t].lost
        /\ tiers[t].lost = 0 /\ Len(tiers[t].entries) > 1 => tiers[t].bytes <= Limits[t].bytes
        /\ \A i \in DOMAIN tiers[t].entries : tiers[t].entries[i].by = "prefetch" =>
              tiers[t].entries[i].since = epoch
================================================================================
