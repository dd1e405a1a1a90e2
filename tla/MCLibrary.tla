------------------------------ MODULE MCLibrary ------------------------------
(***************************************************************************)
(* The parts of the library that live in one process and share nothing     *)
(* with each other: a behaviour is one of them, said by part, on a small    *)
(* instance of its own.                                                    *)
(***************************************************************************)
EXTENDS PriorityScheduler, RateLimiter, ThreadedPool, ThreadedBreaker, LazyLoading,
        CachedClient, TieredCache, SocketBatching, Streaming,
        DirectRequests, HealthMonitor, TLC

CONSTANTS FirstBorn,     \* the workers of the first start of the scheduler
          c1, c2, c3     \* the clients of the rate limiter

VARIABLE part

-----------------------------------------------------------------------------
(* The instances.                                                           *)

\* The workers that a start() makes are interchangeable (the first start makes
\* FirstBorn), and so are the two callers every part has.
Symmetry == Permutations(FirstBorn) \cup Permutations(Workers \ FirstBorn) \cup Permutations(Askers)

\* Three clients of three addresses, the last of which is on the blacklist.
MCAddress == c1 :> "a" @@ c2 :> "b" @@ c3 :> "c"

\* A list that a change invalidates, a read that one does, and both changes.
CacheRequests == {[ep |-> "file/list", data |-> 0], [ep |-> "data/read", data |-> 1],
                  [ep |-> "data/write", data |-> 1], [ep |-> "file/open", data |-> 1]}
CacheChanges  == "file/open" :> <<"file/list">> @@ "data/write" :> <<"data/read", "data/hash">>
MCSizeOf(k)   == IF k.ep = "data/read" THEN 2 ELSE 1
LivesFor(ep)  == IF ep = "data/read" THEN 0 ELSE 1

\* Files with an occurrence over a chunk boundary; what is sought overlaps nothing.
Files == {<<1>>, <<1, 2, 1, 1, 2>>}
Search == <<1, 2>>

\* Keys that follow each other, the last of which is twice as large.
NextKeys(k)  == IF k = 3 THEN <<1>> ELSE <<k + 1>>
KeyWeight(k) == IF k = 3 THEN 2 ELSE 1
TierLimits   == [L1 |-> [size |-> 1, bytes |-> 2], L2 |-> [size |-> 2, bytes |-> 2]]

TierNames    == 1..3

-----------------------------------------------------------------------------
(* One part moves, the others rest in one of their initial states.          *)

LibraryInit ==
    /\ part \in {"scheduler", "rate", "pool", "breaker", "lazy", "cached", "sockbat", "stream",
                 "tiered", "direct", "health"}
    /\ Init /\ RateInit /\ PoolInit /\ BreakerInit /\ TierInit
    /\ LazyInit /\ (part # "lazy" => kind = "once")
    /\ CacheInit /\ (part # "cached" => client = "sync")
    /\ HealthInit /\ DirectInit /\ (part # "direct" => sender = "cli")
    /\ BatchInit
    /\ part # "sockbat" => strategy = "concurrent" /\ \A i, j \in DOMAIN reqId : reqId[i] = reqId[j]
    /\ part # "sockbat" => reqId[1] = CHOOSE i \in RequestIds : TRUE
    /\ StreamInit
    /\ part # "stream" => generator = "read" /\ file = <<1>> /\ overlap = 0
                          /\ chunk = CHOOSE n \in ChunkSizes : TRUE

OfScheduler ==
    /\ part = "scheduler" /\ Next
    /\ starts' = 1 => \A w \in Workers \ FirstBorn : worker'[w] = "unborn"
    /\ UNCHANGED <<rateVars, poolVars, breakerVars, lazyVars, cacheVars, batchVars, streamVars, tierVars,
                   directVars, healthVars>>

OfRate ==
    /\ part = "rate" /\ RateNext
    /\ UNCHANGED <<vars, poolVars, breakerVars, lazyVars, cacheVars, batchVars, streamVars, tierVars,
                   directVars, healthVars>>

OfPool ==
    /\ part = "pool" /\ PoolNext
    /\ UNCHANGED <<vars, rateVars, breakerVars, lazyVars, cacheVars, batchVars, streamVars, tierVars,
                   directVars, healthVars>>

OfBreaker ==
    /\ part = "breaker" /\ BreakerNext
    /\ UNCHANGED <<vars, rateVars, poolVars, lazyVars, cacheVars, batchVars, streamVars, tierVars,
                   directVars, healthVars>>

OfLazy ==
    /\ part = "lazy" /\ LazyNext
    /\ UNCHANGED <<vars, rateVars, poolVars, breakerVars, cacheVars, batchVars, streamVars, tierVars,
                   directVars, healthVars>>

OfCached ==
    /\ part = "cached" /\ CacheNext
    /\ UNCHANGED <<vars, rateVars, poolVars, breakerVars, lazyVars, batchVars, streamVars, tierVars,
                   directVars, healthVars>>

OfSockbat ==
    /\ part = "sockbat" /\ BatchNext
    /\ UNCHANGED <<vars, rateVars, poolVars, breakerVars, lazyVars, cacheVars, streamVars, tierVars,
                   directVars, healthVars>>

OfStream ==
    /\ part = "stream" /\ StreamNext
    /\ UNCHANGED <<vars, rateVars, poolVars, breakerVars, lazyVars, cacheVars, batchVars, tierVars,
                   directVars, healthVars>>

OfTiered ==
    /\ part = "tiered" /\ TierNext
    /\ UNCHANGED <<vars, rateVars, poolVars, breakerVars, lazyVars, cacheVars, batchVars, streamVars,
                   directVars, healthVars>>

OfDirect ==
    /\ part = "direct" /\ DirectNext
    /\ UNCHANGED <<vars, rateVars, poolVars, breakerVars, lazyVars, cacheVars, batchVars, streamVars,
                   tierVars, healthVars>>

OfHealth ==
    /\ part = "health" /\ HealthNext
    /\ UNCHANGED <<vars, rateVars, poolVars, breakerVars, lazyVars, cacheVars, batchVars, streamVars,
                   tierVars, directVars>>

LibraryNext ==
    /\ UNCHANGED part
    /\ \/ OfScheduler \/ OfRate \/ OfPool \/ OfBreaker \/ OfLazy
       \/ OfCached \/ OfSockbat \/ OfStream \/ OfTiered
       \/ OfDirect \/ OfHealth

LibrarySpec == LibraryInit /\ [][LibraryNext]_<<part, vars, rateVars, poolVars, breakerVars, lazyVars,
                                               cacheVars, batchVars, streamVars, tierVars,
                                               directVars, healthVars>>

=============================================================================
