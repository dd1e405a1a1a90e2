----------------------------- MODULE RateLimiter -----------------------------
(***************************************************************************)
(* lib/security.py: SecurityManager.check_request, with the token buckets  *)
(* of everybody and of each client, and the task that forgets old clients. *)
(* No step of a check suspends, so a check is one action.  Tokens are      *)
(* counted in parts of which Share make one, time in ticks.                *)
(***************************************************************************)
EXTENDS Integers, Sequences, FiniteSets, SequencesExt, FiniteSetsExt

CONSTANTS
    Clients,         \* client ids
    Address,         \* client -> its IP address
    Blacklist, Whitelist, WhitelistMode,    \* config.ip_filter, networks as sets of addresses
    Rate,            \* requests_per_second
    Burst,           \* burst_size
    Share,           \* a client has one part in Share of the rate and of the burst
    MaxAge,          \* max_age
    MaxTime,         \* bound on the time
    MaxChecks        \* bound on the checks

\* The forgotten bucket of a client is full again.
ASSUME RateAssumption ==
    /\ Rate \in Nat /\ Burst \in Nat /\ Share \in Nat \ {0} /\ MaxAge \in Nat
    /\ MaxAge * Rate >= Burst

VARIABLES
    time,      \* time.monotonic()
    everyone,  \* global_bucket: [tokens, last]
    buckets,   \* client_buckets: client -> [tokens, last]
    log        \* the checks so far: [at, who, came]

rateVars == <<time, everyone, buckets, log>>

Full(capacity) == [tokens |-> capacity, last |-> time]

RateInit ==
    /\ time = 0 /\ everyone = [tokens |-> Burst * Share, last |-> 0]
    /\ buckets = <<>> /\ log = <<>>

\* [mutant: a long pause earns more than the capacity]
RefillUncapped(b, rate, capacity) ==
    [tokens |-> b.tokens + (time - b.last) * rate, last |-> time]

\* acquire: the bucket with the tokens of the time since it was last asked,
Refill(b, rate, capacity) ==
    [tokens |-> Min({capacity, b.tokens + (time - b.last) * rate}), last |-> time]

\* and what is left of it.
Acquired(b) == b.tokens >= Share
TakeFrom(b) == IF Acquired(b) THEN [b EXCEPT !.tokens = @ - Share] ELSE b

GlobalNow == Refill(everyone, Rate * Share, Burst * Share)

ClientCapacity == (Burst \div Share) * Share
ClientNow(c) ==
    Refill(IF c \in DOMAIN buckets THEN buckets[c] ELSE Full(ClientCapacity), Rate, ClientCapacity)

Allowed(c) ==
    /\ Address[c] \notin Blacklist
    /\ WhitelistMode => Address[c] \in Whitelist

Note(who, came) == log' = Append(log, [at |-> time, who |-> who, came |-> came])

\* The address, everybody's rate, the client's rate, then the payload, in this
\* order: a client that is refused has taken a token of everybody.
CheckRequest(c) ==
    /\ Len(log) < MaxChecks
    /\ \/ ~Allowed(c) /\ Note(c, "denied") /\ UNCHANGED <<everyone, buckets>>
       \/ /\ Allowed(c)
          /\ everyone' = TakeFrom(GlobalNow)
          /\ \/ ~Acquired(GlobalNow) /\ Note(c, "global") /\ UNCHANGED buckets
             \/ /\ Acquired(GlobalNow)
                /\ buckets' = [d \in DOMAIN buckets \cup {c} |->
                                 IF d = c THEN TakeFrom(ClientNow(c)) ELSE buckets[d]]
                /\ IF Acquired(ClientNow(c)) THEN \E came \in {"passed", "invalid"} : Note(c, came)
                   ELSE Note(c, "client")
    /\ UNCHANGED time

\* One turn of cleanup_old_clients.
Cleanup ==
    /\ \E c \in DOMAIN buckets : time - buckets[c].last > MaxAge
    /\ buckets' = [c \in {d \in DOMAIN buckets : time - buckets[d].last <= MaxAge} |-> buckets[c]]
    /\ UNCHANGED <<time, everyone, log>>

Tick == time < MaxTime /\ time' = time + 1 /\ UNCHANGED <<everyone, buckets, log>>

RateNext == (\E c \in Clients : CheckRequest(c)) \/ Cleanup \/ Tick

RateSpec == RateInit /\ [][RateNext]_rateVars

-----------------------------------------------------------------------------
(* Properties. *)

Took(from, to, C, outcomes) ==
    Cardinality({k \in from..to : log[k].who \in C /\ log[k].came \in outcomes})

\* What a bucket would hold at check n had it been full at check m.
Left(m, n, C, outcomes, rate, capacity) ==
    capacity + rate * (log[n].at - log[m].at) - Share * Took(m, n - 1, C, outcomes)

Tokens(n, C, outcomes, rate, capacity) ==
    Min({Left(m, n, C, outcomes, rate, capacity) : m \in 1..n})

\* The limits are those of a sliding window, exactly: at every check everybody and
\* the client have what the worst window that ends there has left of burst and rate,
\* whatever was refused, forgotten or reached in another order before; so nobody
\* ever gets more than burst plus rate times time, and nobody is refused who has
\* a token.  A check that a client's rate or a payload refuses still costs everybody
\* one.
RateExact ==
    \A n \in DOMAIN log : log[n].came # "denied" =>
        LET all == Tokens(n, Clients, {"passed", "invalid", "client"}, Rate * Share, Burst * Share)
            own == Tokens(n, {log[n].who}, {"passed", "invalid"}, Rate, ClientCapacity)
        IN log[n].came = (IF all < Share THEN "global"
                          ELSE IF own < Share THEN "client"
                          ELSE IF log[n].came = "invalid" THEN "invalid" ELSE "passed")
=============================================================================
