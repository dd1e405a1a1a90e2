----------------------------- MODULE CachedClient -----------------------------
(***************************************************************************)
(* lib/cached_client.py: send_request of CachedImHexClient ("sync"), whose *)
(* callers are threads, and, whose callers are tasks, of AsyncImHexClient  *)
(* with its cache ("async") and of AsyncEnhancedImHexClient, which puts a  *)
(* dictionary before that ("enhanced"): look up, ask ImHex, invalidate,    *)
(* store.  Each is a step, so an answer may be stored long after it was    *)
(* given.                                                                  *)
(***************************************************************************)
EXTENDS ResponseCache

CONSTANTS
    Askers,          \* threads or tasks that send requests
    RequestKeys,        \* the keys: [ep |-> endpoint, data |-> parameters]
    Cacheable,       \* cacheable_endpoints
    Changes,         \* invalidating_endpoints: endpoint -> sequence of endpoints
    TTL(_),          \* get_ttl_for_endpoint
    MaxTries,        \* max_attempts of the retry
    MaxAsked,        \* bound on the requests
    MaxNow           \* bound on the time

ASSUME RequestAssumption ==
    /\ RequestKeys # {}
    /\ \A r \in RequestKeys : SizeOf(r) \in Nat /\ TTL(r.ep) \in Nat
    /\ \A ep \in DOMAIN Changes : Changes[ep] \in Seq(ToSet(Changes[ep]))

VARIABLES
    client,    \* "sync", "async" or "enhanced"
    cache,     \* the cache
    now,       \* time.time()
    truth,     \* endpoint -> how often its answer has changed
    known,     \* endpoint -> the changes there were once the requests that have returned were done
    step,      \* step[p]: what p does next
    key,       \* key[p]: p's request
    answer,    \* answer[p]: [from, ver, floor, late, age, made], what p's request came to;
               \* made: the endpoints it changed -> how often they had changed then
    tries,     \* tries[p]: attempts of p's request
    left,      \* left[p]: the endpoints p has yet to invalidate
    asked      \* requests so far

cacheVars == <<client, cache, now, truth, known, step, key, answer, tries, left, asked>>

NoAnswer == [from |-> "none", ver |-> 0, floor |-> 0, late |-> FALSE, age |-> 0,
             made |-> <<>>]

CacheInit ==
    /\ client \in {"sync", "async", "enhanced"}
    /\ cache = EmptyCache /\ now = 0
    /\ truth = [k \in {r.ep : r \in RequestKeys} |-> 0] /\ known = truth
    /\ step = [p \in Askers |-> "idle"]
    /\ key = [p \in Askers |-> CHOOSE r \in RequestKeys : TRUE]
    /\ answer = [p \in Askers |-> NoAnswer]
    /\ tries = [p \in Askers |-> 0] /\ left = [p \in Askers |-> <<>>]
    /\ asked = 0

Stays(ep) == client # "sync" \/ ep \in Cacheable
Turn(p, s) == step' = [step EXCEPT ![p] = s]

Found(r) == IF client = "enhanced" THEN r \in Keys(cache) ELSE Hit(cache, r, now)

\* cache.get: a hit returns, anything else goes to ImHex.
Ask(p, r) ==
    /\ step[p] = "idle" /\ asked < MaxAsked
    /\ asked' = asked + 1
    /\ key' = [key EXCEPT ![p] = r]
    /\ tries' = [tries EXCEPT ![p] = 0]
    /\ \/ /\ Stays(r.ep)
          /\ cache' = IF client = "enhanced" THEN cache ELSE Get(cache, r, now)
          /\ IF Found(r)
             THEN LET e == EntryOf(cache, r) IN
                  /\ answer' = [answer EXCEPT ![p] = [from |-> "cache", ver |-> e.ver,
                                  floor |-> known[r.ep], late |-> e.late, age |-> now - e.born,
                                  made |-> <<>>]]
                  /\ UNCHANGED step
             ELSE /\ Turn(p, "ask")
                  /\ answer' = [answer EXCEPT ![p] = [NoAnswer EXCEPT !.floor = known[r.ep]]]
       \/ /\ UNCHANGED cache
          /\ Turn(p, "ask")
          /\ answer' = [answer EXCEPT ![p] = [NoAnswer EXCEPT !.floor = known[r.ep]]]
    /\ UNCHANGED <<client, now, truth, known, left>>

DependentsOf(ep) == IF client = "sync" /\ ep \in DOMAIN Changes THEN Changes[ep] ELSE <<>>
Affected(ep) == IF ep \in DOMAIN Changes THEN ToSet(Changes[ep]) \cap DOMAIN truth ELSE {}

\* ImHex carries the request out and answers; the answer is lost and the request
\* repeated, which may carry it out again; or the attempts are used up.
Serve(p) ==
    /\ step[p] = "ask"
    /\ truth' = [e \in DOMAIN truth |-> IF e \in Affected(key[p].ep) THEN truth[e] + 1 ELSE truth[e]]
    /\ \/ /\ answer' = [answer EXCEPT ![p].from = "imhex", ![p].ver = truth[key[p].ep],
                               ![p].made = [e \in Affected(key[p].ep) |-> truth[e] + 1]]
          /\ Turn(p, "invalidate") /\ left' = [left EXCEPT ![p] = DependentsOf(key[p].ep)]
          /\ UNCHANGED tries
       \/ /\ tries[p] + 1 < MaxTries
          /\ tries' = [tries EXCEPT ![p] = @ + 1] /\ UNCHANGED <<answer, step, left>>
    /\ UNCHANGED <<client, cache, now, known, key, asked>>

\* AsyncEnhancedImHexClient asks the client it extends, whose cache may answer.
InnerHit(p) ==
    /\ client = "enhanced" /\ step[p] = "ask"
    /\ \E ver \in 0..truth[key[p].ep] :
          answer' = [answer EXCEPT ![p].from = "imhex", ![p].ver = ver]
    /\ Turn(p, "store")
    /\ UNCHANGED <<client, cache, now, truth, known, key, tries, left, asked>>

\* ImHex answers with an error, or the client raises; then nothing is stored.
Fail(p) ==
    /\ step[p] = "ask"
    /\ answer' = [answer EXCEPT ![p].from = "error"]
    /\ \/ Turn(p, "idle") /\ UNCHANGED left
       \/ Turn(p, "invalidate") /\ left' = [left EXCEPT ![p] = DependentsOf(key[p].ep)]
    /\ UNCHANGED <<client, cache, now, truth, known, key, tries, asked>>

\* Answers to be stored later miss this invalidation.
MarkLate(ep) ==
    [q \in Askers |-> IF key[q].ep = ep /\ step[q] \in {"ask", "invalidate", "store"}
                      THEN [answer[q] EXCEPT !.late = TRUE] ELSE answer[q]]

InvalidateNext(p) ==
    /\ step[p] = "invalidate" /\ left[p] # <<>>
    /\ cache' = Invalidate(cache, Head(left[p]))
    /\ answer' = MarkLate(Head(left[p]))
    /\ left' = [left EXCEPT ![p] = Tail(@)]
    /\ UNCHANGED <<client, now, truth, known, step, key, tries, asked>>

Invalidated(p) ==
    /\ step[p] = "invalidate" /\ left[p] = <<>>
    /\ Turn(p, "store")
    /\ UNCHANGED <<client, cache, now, truth, known, key, answer, tries, left, asked>>

\* cache.set for a success, which the asynchronous clients may be told to leave out
\* (use_cache), then the request returns.
Store(p) ==
    /\ step[p] = "store"
    /\ Turn(p, "idle")
    /\ LET e == [key |-> key[p], ver |-> answer[p].ver, born |-> now, ttl |-> TTL(key[p].ep),
                 late |-> answer[p].late] IN
       \/ answer[p].from = "imhex" /\ Stays(key[p].ep)
          /\ (client = "async" => ~Endless(cache, e))
          /\ cache' = (CASE client = "sync" -> SetSync(cache, e)
                          [] client = "async" -> SetAsync(cache, e)
                          [] client = "enhanced" -> SetPlain(cache, e))
       \/ client # "sync" /\ UNCHANGED cache
       \/ ~(answer[p].from = "imhex" /\ Stays(key[p].ep)) /\ UNCHANGED cache
    /\ known' = [e \in DOMAIN known |-> IF e \in DOMAIN answer[p].made
                                        THEN Max({known[e], answer[p].made[e]}) ELSE known[e]]
    /\ answer' = [answer EXCEPT ![p].made = <<>>]
    /\ UNCHANGED <<client, now, truth, key, tries, left, asked>>

\* clear_cache, invalidate_endpoint and cleanup_expired, called or by the cleanup
\* loop; clear_cache of AsyncEnhancedImHexClient does not reach its dictionary.
Maintain ==
    /\ client # "enhanced"
    /\ cache' \in {Clear(cache), CleanupExpired(cache, now)}
                  \cup {Invalidate(cache, r.ep) : r \in RequestKeys}
                  \cup {InvalidateKey(cache, r) : r \in RequestKeys}
    /\ cache' # cache
    /\ UNCHANGED <<client, now, truth, known, step, key, answer, tries, left, asked>>

Pass == now < MaxNow /\ now' = now + 1
        /\ UNCHANGED <<client, cache, truth, known, step, key, answer, tries, left, asked>>

CacheNext ==
    \/ \E p \in Askers : \/ \E r \in RequestKeys : Ask(p, r)
                         \/ Serve(p) \/ InnerHit(p) \/ Fail(p) \/ InvalidateNext(p) \/ Invalidated(p) \/ Store(p)
    \/ Maintain \/ Pass

CacheSpec == CacheInit /\ [][CacheNext]_cacheVars

-----------------------------------------------------------------------------
(* Properties. *)

\* The limits and the account hold whatever is replaced, evicted, expired and
\* invalidated in whatever order: no key twice, no more entries than the limit, the
\* memory that of the entries, which in the async cache fits.
CacheExact ==
    /\ Cardinality(Keys(cache)) = Len(cache.entries) /\ Len(cache.entries) <= MaxEntries
    /\ cache.memory = Sizes(cache.entries)
    /\ client = "async" => cache.memory <= MaxMemory

\* What the cache of CachedImHexClient may hide from a caller: a request without
\* parameters never gets from it what a change had made obsolete that returned
\* before the request began, unless the answer was under way over the invalidation
\* (late); with parameters no invalidation reaches it. Nothing is served beyond
\* its time to live but by the dictionary of AsyncEnhancedImHexClient, which has none.
HitsFresh ==
    \A p \in Askers : answer[p].from = "cache" =>
        /\ answer[p].ver < answer[p].floor =>
              client # "sync" \/ answer[p].late \/ key[p].data # NoData
        /\ client # "enhanced" => answer[p].age <= TTL(key[p].ep)
===============================================================================
