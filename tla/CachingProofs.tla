---------------------------- MODULE CachingProofs ----------------------------
(***************************************************************************)
(* What is kept of earlier answers, for any number of threads, requests    *)
(* and loads: the caches keep to their limits (CacheExact) and serve       *)
(* nothing a change has made obsolete (HitsFresh), the accounts of the     *)
(* tiers are right (TiersExact) and a lazily loaded cell is loaded once    *)
(* (LazyRight).                                                            *)
(***************************************************************************)
EXTENDS LazyLoading, CachedClient, TieredCache, ListProofs

-----------------------------------------------------------------------------
(* The operations of a cache.                                               *)

Entries == [key : RequestKeys, ver : Nat, born : Nat, ttl : Nat, late : BOOLEAN]

\* What is in a cache and its account.
Sound(c) ==
    /\ c \in [entries : Seq(Entries), memory : Int]
    /\ Distinct(c.entries)
    /\ c.memory = Sizes(c.entries)

\* Every entry of d is one of c.
Within(d, c) == \A i \in 1..Len(d.entries) : \E j \in 1..Len(c.entries) : d.entries[i] = c.entries[j]

SizesOf == [k \in RequestKeys |-> SizeOf(k)]

LEMMA SizesOfKeys ==
    /\ Weighting(SizesOf, Entries)
    /\ \A e \in Entries : e.key \in RequestKeys /\ SizesOf[e.key] = SizeOf(e.key) /\ SizeOf(e.key) \in Nat
BY RequestAssumption DEF SizesOf, Entries, Weighting

LEMMA SizesWeighed ==
    ASSUME NEW s \in Seq(Entries)
    PROVE  Sizes(s) = Weighed(s, SizesOf)
<1>1. \A i \in DOMAIN s : SizeOf(s[i].key) = SizesOf[s[i].key]
  BY SizesOfKeys, ElementOfSeq, LenProperties
<1>2. QED BY <1>1 DEF Sizes, Weighed, Weights

LEMMA SizesNat ==
    ASSUME NEW s \in Seq(Entries)
    PROVE  Sizes(s) \in Nat
BY SizesWeighed, SizesOfKeys, WeighedNat

LEMMA SizesStep ==
    ASSUME NEW s \in Seq(Entries), NEW e \in Entries
    PROVE  Sizes(Append(s, e)) = Sizes(s) + SizeOf(e.key)
<1>1. Append(s, e) \in Seq(Entries)
  BY AppendProperties
<1>2. Weighed(Append(s, e), SizesOf) = Weighed(s, SizesOf) + SizesOf[e.key]
  BY SizesOfKeys, WeighedStep
<1>3. QED BY <1>1, <1>2, SizesWeighed, SizesOfKeys

LEMMA SizesEmpty == Sizes(<<>>) = 0
BY EmptySeq, SizesWeighed, WeighedEmpty

LEMMA SizesSame ==
    ASSUME NEW s \in Seq(Entries), NEW t \in Seq(Entries), Len(s) = Len(t),
           \A i \in 1..Len(s) : s[i].key = t[i].key
    PROVE  Sizes(s) = Sizes(t)
<1>1. Weighed(s, SizesOf) = Weighed(t, SizesOf)
  BY WeighedSame
<1>2. QED BY <1>1, SizesWeighed

LEMMA SizesSplit ==
    ASSUME NEW L, NEW K, NEW s \in Seq(Entries), \A i \in 1..Len(s) : s[i].key \in L
    PROVE  Sizes(Without(s, K)) + Sizes(Without(s, L \ K)) = Sizes(s)
<1>1. Without(s, K) \in Seq(Entries) /\ Without(s, L \ K) \in Seq(Entries)
  BY WithoutLeft DEF LeftOf
<1>2. Weighed(Without(s, K), SizesOf) + Weighed(Without(s, L \ K), SizesOf) = Weighed(s, SizesOf)
  BY SizesOfKeys, WeighedSplit
<1>3. QED BY <1>1, <1>2, SizesWeighed

LEMMA KeysOfSound ==
    ASSUME NEW c, Sound(c)
    PROVE  /\ Keys(c) = KeysIn(c.entries) /\ Listed(c.entries, Entries)
           /\ IsFiniteSet(Keys(c)) /\ Cardinality(Keys(c)) = Len(c.entries)
           /\ Keys(c) \subseteq RequestKeys
           /\ Len(c.entries) \in Nat /\ c.memory \in Nat
           /\ \A i \in 1..Len(c.entries) : c.entries[i] \in Entries
<1>1. Listed(c.entries, Entries)
  BY DEF Sound, Listed
<1>2. Keys(c) = KeysIn(c.entries)
  BY <1>1, ListedKeys DEF Keys
<1>3. c.memory \in Nat
  BY SizesNat DEF Sound
<1>4. \A i \in 1..Len(c.entries) : c.entries[i] \in Entries
  BY <1>1, ListedKeys
<1>5. Keys(c) \subseteq RequestKeys
  BY <1>2, <1>4 DEF KeysIn, Entries
<1>6. QED BY <1>1, <1>2, <1>3, <1>4, <1>5, ListedKeys

LEMMA DeleteSound ==
    ASSUME NEW c, Sound(c), NEW K
    PROVE  /\ Sound(Delete(c, K)) /\ Within(Delete(c, K), c)
           /\ Keys(Delete(c, K)) = Keys(c) \ K
           /\ Delete(c, K).memory <= c.memory
           /\ Len(Delete(c, K).entries) <= Len(c.entries)
           /\ Keys(c) \cap K # {} => Len(Delete(c, K).entries) < Len(c.entries)
<1> DEFINE s == c.entries
           d == Delete(c, K)
           w == Without(s, K)
           out == Without(s, Keys(c) \ K)
<1>1. Keys(c) = KeysIn(s) /\ Listed(s, Entries) /\ c.memory \in Nat
  BY KeysOfSound
<1>2. c \in [entries : Seq(Entries), memory : Int] /\ c.memory = Sizes(s)
  BY DEF Sound
<1>3. /\ Listed(w, Entries) /\ From(w, s) /\ KeysIn(w) = KeysIn(s) \ K /\ Len(w) <= Len(s)
      /\ KeysIn(s) \cap K # {} => Len(w) < Len(s)
  BY <1>1, ListedWithout
<1>4. w \in Seq(Entries) /\ out \in Seq(Entries)
  BY <1>1, <1>3, ListedWithout DEF Listed
<1>5. Sizes(w) + Sizes(out) = Sizes(s)
  <2>1. s \in Seq(Entries) /\ \A i \in 1..Len(s) : s[i].key \in Keys(c)
    BY <1>1 DEF KeysIn, Listed
  <2>2. QED BY <2>1, SizesSplit
<1>6. Sizes(w) \in Nat /\ Sizes(out) \in Nat
  BY <1>4, SizesNat
<1>7. d.entries = w /\ d.memory = c.memory - Sizes(out) /\ d \in [entries : Seq(Entries), memory : Int]
  <2>1. d = [c EXCEPT !.entries = w, !.memory = c.memory - Sizes(out)]
    BY DEF Delete
  <2>2. c.memory - Sizes(out) \in Int
    BY <1>1, <1>6
  <2> HIDE DEF s, d, w, out
  <2>3. QED BY <1>2, <1>4, <2>1, <2>2
<1> HIDE DEF s, d, w, out
<1>8. d.memory = Sizes(w) /\ d.memory <= c.memory
  BY <1>1, <1>2, <1>5, <1>6, <1>7
<1>9. Sound(d)
  BY <1>3, <1>7, <1>8 DEF Sound, Listed
<1>10. Within(d, c)
  BY <1>3, <1>7 DEF Within, From, s
<1>11. Keys(d) = Keys(c) \ K
  BY <1>1, <1>3, <1>7, <1>9, KeysOfSound
<1>12. QED BY <1>1, <1>3, <1>7, <1>8, <1>9, <1>10, <1>11 DEF d, s

LEMMA EvictSound ==
    ASSUME NEW c, Sound(c), NEW n
    PROVE  /\ Sound(Evict(c, n)) /\ Within(Evict(c, n), c)
           /\ Keys(Evict(c, n)) \subseteq Keys(c)
           /\ Len(Evict(c, n).entries) <= Len(c.entries)
           /\ n = 1 /\ c.entries # <<>> => Len(Evict(c, n).entries) < Len(c.entries)
<1> DEFINE K == {c.entries[i].key : i \in 1..n}
<1>1. Evict(c, n) = Delete(c, K)
  BY DEF Evict
<1>2. ASSUME n = 1, c.entries # <<>> PROVE Keys(c) \cap K # {}
  <2>1. c.entries \in Seq(Entries)
    BY DEF Sound
  <2>2. Len(c.entries) \in Nat \ {0}
    BY <1>2, <2>1, EmptySeq
  <2>3. 1 \in 1..n /\ 1 \in 1..Len(c.entries)
    BY <1>2, <2>2
  <2>4. c.entries[1].key \in Keys(c)
    BY <2>3, KeysOfSound DEF KeysIn
  <2>5. QED BY <2>3, <2>4
<1> HIDE DEF K
<1>3. QED BY <1>1, <1>2, DeleteSound

\* A new entry at the end.
Grown(c, e) == [c EXCEPT !.entries = Append(@, e), !.memory = @ + SizeOf(e.key)]

\* Every entry of d is e or one of c.
WithinOr(d, c, e) ==
    \A i \in 1..Len(d.entries) : \/ d.entries[i] = e
                                 \/ \E j \in 1..Len(c.entries) : d.entries[i] = c.entries[j]

LEMMA AppendSound ==
    ASSUME NEW c, Sound(c), NEW e \in Entries, e.key \notin Keys(c)
    PROVE  LET d == Grown(c, e)
           IN  /\ Sound(d) /\ Len(d.entries) = Len(c.entries) + 1
               /\ d.memory = c.memory + SizeOf(e.key)
               /\ WithinOr(d, c, e)
<1> DEFINE s == c.entries
           d == Grown(c, e)
           a == Append(s, e)
<1>1. Keys(c) = KeysIn(s) /\ Listed(s, Entries) /\ c.memory \in Nat
  BY KeysOfSound
<1>2. c \in [entries : Seq(Entries), memory : Int] /\ c.memory = Sizes(s)
  BY DEF Sound
<1>3. /\ Listed(a, Entries) /\ Len(a) = Len(s) + 1
      /\ \A i \in 1..Len(a) : a[i] = e \/ \E j \in 1..Len(s) : a[i] = s[j]
  BY <1>1, ListedAppend
<1>4. Sizes(a) = Sizes(s) + SizeOf(e.key) /\ SizeOf(e.key) \in Nat
  BY <1>1, SizesStep, SizesOfKeys DEF Listed
<1>5. d.entries = a /\ d.memory = c.memory + SizeOf(e.key) /\ d \in [entries : Seq(Entries), memory : Int]
  <2>1. d = [c EXCEPT !.entries = a, !.memory = c.memory + SizeOf(e.key)]
    BY DEF Grown
  <2>2. c.memory + SizeOf(e.key) \in Int /\ a \in Seq(Entries)
    BY <1>1, <1>3, <1>4 DEF Listed
  <2> HIDE DEF s, a, d
  <2>3. QED BY <1>2, <2>1, <2>2
<1> HIDE DEF s, a, d
<1>6. Sound(d)
  BY <1>2, <1>3, <1>4, <1>5 DEF Sound, Listed
<1>7. WithinOr(d, c, e)
  BY <1>3, <1>5 DEF WithinOr, s
<1>8. QED BY <1>3, <1>5, <1>6, <1>7 DEF s, d

LEMMA PlacedSound ==
    ASSUME NEW c, Sound(c), NEW e \in Entries
    PROVE  /\ Sound(Placed(c, e))
           /\ e.key \in Keys(c) => Len(Placed(c, e).entries) = Len(c.entries)
           /\ e.key \notin Keys(c) => Len(Placed(c, e).entries) = Len(c.entries) + 1
           /\ WithinOr(Placed(c, e), c, e)
<1> DEFINE s == c.entries
           d == Placed(c, e)
           t == Replaced(s, e)
<1>1. CASE e.key \notin Keys(c)
  <2>1. d = Grown(c, e)
    BY <1>1 DEF Placed, Grown
  <2>2. QED BY <1>1, <2>1, AppendSound
<1>2. CASE e.key \in Keys(c)
  <2>1. d = [c EXCEPT !.entries = t]
    BY <1>2 DEF Placed, Replaced
  <2>2. Listed(s, Entries) /\ c \in [entries : Seq(Entries), memory : Int] /\ c.memory = Sizes(s)
    BY KeysOfSound DEF Sound
  <2>3. /\ Listed(t, Entries) /\ Len(t) = Len(s)
        /\ \A i \in 1..Len(s) : t[i].key = s[i].key /\ (t[i] = e \/ t[i] = s[i])
    <3> HIDE DEF s
    <3>1. QED BY <2>2, ListedReplaced
  <2> HIDE DEF t, s, d
  <2>4. Sizes(t) = Sizes(s)
    BY <2>2, <2>3, SizesSame DEF Listed
  <2>5. d.entries = t /\ d.memory = c.memory /\ d \in [entries : Seq(Entries), memory : Int]
    BY <2>1, <2>2, <2>3 DEF Listed
  <2>6. Sound(d)
    BY <2>2, <2>3, <2>4, <2>5 DEF Sound, Listed
  <2>7. WithinOr(d, c, e)
    BY <2>3, <2>5 DEF WithinOr, s
  <2>8. QED BY <1>2, <2>3, <2>5, <2>6, <2>7 DEF s, d
<1>3. QED BY <1>1, <1>2

LEMMA EmptySound ==
    Sound(EmptyCache) /\ Len(EmptyCache.entries) = 0 /\ EmptyCache.memory = 0
<1>1. <<>> \in Seq(Entries) /\ Len(<<>>) = 0
  BY EmptySeq
<1>2. Sizes(<<>>) = 0
  BY SizesEmpty
<1>3. Distinct(<<>>)
  BY <1>1 DEF Distinct
<1>4. QED BY <1>1, <1>2, <1>3 DEF Sound, EmptyCache

-----------------------------------------------------------------------------
(* get, set and the rest.                                                   *)

EntryFound(c, e, k) == e.key = k /\ \E i \in 1..Len(c.entries) : e = c.entries[i]

LEMMA FoundEntry ==
    ASSUME NEW c, Sound(c), NEW k \in Keys(c)
    PROVE  EntryFound(c, EntryOf(c, k), k) /\ EntryOf(c, k) \in Entries
<1>1. c.entries \in Seq(Entries) /\ DOMAIN c.entries = 1..Len(c.entries)
  BY LenProperties DEF Sound
<1>2. PICK i \in 1..Len(c.entries) : c.entries[i].key = k
  BY KeysOfSound DEF KeysIn
<1>3. \E e \in ToSet(c.entries) : e.key = k
  BY <1>1, <1>2 DEF ToSet
<1>4. EntryOf(c, k) \in ToSet(c.entries) /\ EntryOf(c, k).key = k
  BY <1>3 DEF EntryOf
<1>5. PICK j \in 1..Len(c.entries) : EntryOf(c, k) = c.entries[j]
  BY <1>1, <1>4 DEF ToSet
<1>6. c.entries[j] \in Entries
  BY KeysOfSound
<1>7. QED BY <1>4, <1>5, <1>6 DEF EntryFound

\* A hit moves the entry to the end, a miss drops what has expired.
LEMMA GetSound ==
    ASSUME NEW c, Sound(c), NEW k, NEW t
    PROVE  /\ Sound(Get(c, k, t)) /\ Within(Get(c, k, t), c)
           /\ Len(Get(c, k, t).entries) <= Len(c.entries) /\ Get(c, k, t).memory <= c.memory
<1> DEFINE g == Get(c, k, t)
           d == Delete(c, {k})
           e == EntryOf(c, k)
<1>1. /\ Sound(d) /\ Within(d, c) /\ Keys(d) = Keys(c) \ {k} /\ d.memory <= c.memory
      /\ Len(d.entries) <= Len(c.entries)
      /\ Keys(c) \cap {k} # {} => Len(d.entries) < Len(c.entries)
  BY DeleteSound
<1>2. CASE ~Hit(c, k, t)
  BY <1>1, <1>2 DEF Get
<1>3. CASE Hit(c, k, t)
  <2>1. k \in Keys(c) /\ EntryFound(c, e, k) /\ e \in Entries
    BY <1>3, FoundEntry DEF Hit
  <2> DEFINE h == Grown(d, e)
  <2>2. e.key \notin Keys(d)
    BY <1>1, <2>1 DEF EntryFound
  <2>3. /\ Sound(h) /\ Len(h.entries) = Len(d.entries) + 1 /\ h.memory = d.memory + SizeOf(e.key)
        /\ WithinOr(h, d, e)
    BY <1>1, <2>1, <2>2, AppendSound
  <2>4. c \in [entries : Seq(Entries), memory : Int] /\ d \in [entries : Seq(Entries), memory : Int]
    BY <1>1 DEF Sound
  <2>5. d.entries = Without(c.entries, {k})
    BY <2>4 DEF Delete
  <2>6. g.entries = h.entries /\ g.memory = c.memory /\ g \in [entries : Seq(Entries), memory : Int]
    <3>1. g = [c EXCEPT !.entries = Append(Without(@, {k}), e)]
      BY <1>3 DEF Get
    <3>2. h \in [entries : Seq(Entries), memory : Int] /\ h.entries = Append(Without(c.entries, {k}), e)
      BY <2>3, <2>4, <2>5 DEF Sound, Grown
    <3> HIDE DEF d, e, h, g
    <3>3. QED BY <2>4, <3>1, <3>2
  <2> HIDE DEF h, d, e, g
  <2>7. Len(h.entries) = Len(c.entries)
    <3>1. Len(d.entries) = Len(c.entries) - 1 /\ Len(c.entries) \in Nat
      BY <2>1, <2>5, ListedWithoutOne, KeysOfSound
    <3>2. QED BY <2>3, <3>1
  <2>8. Sizes(h.entries) = c.memory
    <3> DEFINE o == Without(c.entries, Keys(c) \ {k})
    <3>1. Listed(c.entries, Entries) /\ Keys(c) = KeysIn(c.entries) /\ c.memory = Sizes(c.entries)
      BY KeysOfSound DEF Sound
    <3>2. o \in Seq(Entries) /\ Sizes(o) = SizeOf(k)
      <4>1. Weighed(o, SizesOf) = SizesOf[k]
        BY <2>1, <3>1, SizesOfKeys, WeighedOne
      <4>2. o \in Seq(Entries)
        BY <3>1, ListedWithout DEF Listed
      <4>3. SizesOf[e.key] = SizeOf(e.key) /\ e.key = k
        BY <2>1, SizesOfKeys DEF EntryFound
      <4>4. QED BY <4>1, <4>2, <4>3, SizesWeighed
    <3>3. Sizes(d.entries) + Sizes(o) = Sizes(c.entries)
      <4>1. c.entries \in Seq(Entries) /\ \A i \in 1..Len(c.entries) : c.entries[i].key \in Keys(c)
        BY <3>1 DEF Listed, KeysIn
      <4>2. Sizes(Without(c.entries, {k})) + Sizes(o) = Sizes(c.entries)
        BY <4>1, SizesSplit
      <4>3. QED BY <2>5, <4>2
    <3>4. Sizes(h.entries) = h.memory /\ h.memory = d.memory + SizeOf(k) /\ d.memory = Sizes(d.entries)
      BY <1>1, <2>1, <2>3 DEF Sound, EntryFound
    <3> HIDE DEF o
    <3>5. QED BY <3>1, <3>2, <3>3, <3>4
  <2>9. Sound(g)
    BY <2>3, <2>6, <2>8 DEF Sound
  <2>10. Within(g, c)
    <3>1. \A i \in 1..Len(h.entries) : \E j \in 1..Len(c.entries) : h.entries[i] = c.entries[j]
      BY <1>1, <2>1, <2>3 DEF Within, WithinOr, EntryFound
    <3>2. QED BY <2>6, <3>1 DEF Within
  <2>11. Len(g.entries) <= Len(c.entries) /\ g.memory <= c.memory
    <3>1. Len(c.entries) \in Nat /\ c.memory \in Nat
      BY KeysOfSound
    <3>2. QED BY <2>6, <2>7, <3>1
  <2>12. QED BY <2>9, <2>10, <2>11 DEF g
<1>4. QED BY <1>2, <1>3

LEMMA WithinWithinOr ==
    ASSUME NEW c, NEW d, NEW f, NEW e, Within(d, c), WithinOr(f, d, e)
    PROVE  WithinOr(f, c, e)
BY DEF Within, WithinOr

\* set, for each of the clients, keeps to the number of entries.
LEMMA SetSyncSound ==
    ASSUME NEW c, Sound(c), NEW e \in Entries, Len(c.entries) <= MaxEntries
    PROVE  /\ Sound(SetSync(c, e)) /\ WithinOr(SetSync(c, e), c, e)
           /\ Len(SetSync(c, e).entries) <= MaxEntries
<1> DEFINE full == e.key \notin Keys(c) /\ Len(c.entries) >= MaxEntries
           d == IF full THEN Evict(c, 1) ELSE c
<1>0. MaxEntries \in Nat \ {0} /\ Len(c.entries) \in Nat
  BY CacheLimits, KeysOfSound
<1>1. /\ Sound(Evict(c, 1)) /\ Within(Evict(c, 1), c) /\ Keys(Evict(c, 1)) \subseteq Keys(c)
      /\ c.entries # <<>> => Len(Evict(c, 1).entries) < Len(c.entries)
  BY EvictSound
<1>2. Within(c, c)
  BY DEF Within
<1>3. full => c.entries # <<>>
  BY <1>0, EmptySeq DEF Sound
<1>4. Sound(d) /\ Within(d, c) /\ Len(d.entries) \in Nat
  BY <1>1, <1>2, KeysOfSound
<1>5. full => e.key \notin Keys(d) /\ Len(d.entries) < Len(c.entries)
  BY <1>1, <1>3
<1>6. ~full => d = c
  OBVIOUS
<1>7. SetSync(c, e) = Placed(d, e)
  BY DEF SetSync
<1> HIDE DEF d
<1>8. /\ Sound(Placed(d, e)) /\ WithinOr(Placed(d, e), d, e)
      /\ e.key \in Keys(d) => Len(Placed(d, e).entries) = Len(d.entries)
      /\ e.key \notin Keys(d) => Len(Placed(d, e).entries) = Len(d.entries) + 1
  BY <1>4, PlacedSound
<1>9. WithinOr(Placed(d, e), c, e)
  BY <1>4, <1>8, WithinWithinOr
<1>10. Len(Placed(d, e).entries) <= MaxEntries
  <2>1. CASE full
    BY <1>0, <1>4, <1>5, <1>8, <2>1
  <2>2. CASE ~full
    <3>1. e.key \in Keys(c) \/ Len(c.entries) < MaxEntries
      BY <1>0, <2>2
    <3>2. QED BY <1>0, <1>6, <1>8, <2>2, <3>1
  <2>3. QED BY <2>1, <2>2
<1>11. QED BY <1>7, <1>8, <1>9, <1>10

LEMMA SetPlainSound ==
    ASSUME NEW c, Sound(c), NEW e \in Entries, Len(c.entries) <= MaxEntries
    PROVE  /\ Sound(SetPlain(c, e)) /\ WithinOr(SetPlain(c, e), c, e)
           /\ Len(SetPlain(c, e).entries) <= MaxEntries
<1> DEFINE full == Len(c.entries) >= MaxEntries
           d == IF full THEN Evict(c, 1) ELSE c
<1>0. MaxEntries \in Nat \ {0} /\ Len(c.entries) \in Nat
  BY CacheLimits, KeysOfSound
<1>1. /\ Sound(Evict(c, 1)) /\ Within(Evict(c, 1), c)
      /\ c.entries # <<>> => Len(Evict(c, 1).entries) < Len(c.entries)
  BY EvictSound
<1>2. Within(c, c)
  BY DEF Within
<1>3. full => c.entries # <<>>
  BY <1>0, EmptySeq DEF Sound
<1>4. Sound(d) /\ Within(d, c) /\ Len(d.entries) \in Nat
  BY <1>1, <1>2, KeysOfSound
<1>5. Len(d.entries) < MaxEntries
  <2>1. CASE full
    <3>1. Len(Evict(c, 1).entries) < Len(c.entries) /\ d = Evict(c, 1)
      BY <1>1, <1>3, <2>1
    <3>2. QED BY <1>0, <1>4, <3>1
  <2>2. CASE ~full
    BY <1>0, <2>2
  <2>3. QED BY <2>1, <2>2
<1>7. SetPlain(c, e) = Placed(d, e)
  BY DEF SetPlain
<1> HIDE DEF d
<1>8. /\ Sound(Placed(d, e)) /\ WithinOr(Placed(d, e), d, e)
      /\ e.key \in Keys(d) => Len(Placed(d, e).entries) = Len(d.entries)
      /\ e.key \notin Keys(d) => Len(Placed(d, e).entries) = Len(d.entries) + 1
  BY <1>4, PlacedSound
<1>9. WithinOr(Placed(d, e), c, e)
  BY <1>4, <1>8, WithinWithinOr
<1>10. Len(Placed(d, e).entries) <= MaxEntries
  BY <1>0, <1>4, <1>5, <1>8
<1>11. QED BY <1>7, <1>8, <1>9, <1>10

\* The asynchronous set ends with room for the entry, also in memory.
LEMMA SetAsyncSound ==
    ASSUME NEW c, Sound(c), NEW e \in Entries, ~Endless(c, e)
    PROVE  /\ Sound(SetAsync(c, e)) /\ WithinOr(SetAsync(c, e), c, e)
           /\ Len(SetAsync(c, e).entries) <= MaxEntries /\ SetAsync(c, e).memory <= MaxMemory
<1> DEFINE T == {n \in 0..Len(c.entries) : Enough(c, e, n)}
           m == Min(T)
           d == Evict(c, m)
           f == Delete(d, {e.key})
<1>0. MaxEntries \in Nat \ {0} /\ MaxMemory \in Nat /\ Len(c.entries) \in Nat
         /\ SizeOf(e.key) \in Nat
  BY CacheLimits, KeysOfSound, RequestAssumption DEF Entries
<1>1. m \in T
  <2>1. T # {} /\ T \subseteq Nat
    BY <1>0 DEF Endless
  <2> HIDE DEF T
  <2>2. \E x \in T : \A y \in T : x <= y
    BY <2>1, SmallestNat
  <2>3. QED BY <2>2 DEF Min
<1>2. Len(d.entries) < MaxEntries /\ d.memory + SizeOf(e.key) <= MaxMemory
  <2> HIDE DEF m
  <2>1. Enough(c, e, m)
    BY <1>1
  <2>2. QED BY <2>1 DEF Enough
<1>3. SetAsync(c, e) = Grown(f, e)
  BY DEF SetAsync, Grown
<1> HIDE DEF m, T
<1>4. Sound(d) /\ Within(d, c)
  BY EvictSound
<1> HIDE DEF d
<1>5. /\ Sound(f) /\ Within(f, d) /\ Keys(f) = Keys(d) \ {e.key} /\ f.memory <= d.memory
      /\ Len(f.entries) <= Len(d.entries)
  BY <1>4, DeleteSound
<1> HIDE DEF f
<1>6. /\ Sound(Grown(f, e)) /\ Len(Grown(f, e).entries) = Len(f.entries) + 1
      /\ Grown(f, e).memory = f.memory + SizeOf(e.key) /\ WithinOr(Grown(f, e), f, e)
  BY <1>5, AppendSound
<1>7. Len(f.entries) \in Nat /\ Len(d.entries) \in Nat /\ f.memory \in Nat /\ d.memory \in Nat
  BY <1>4, <1>5, KeysOfSound
<1>8. WithinOr(Grown(f, e), d, e)
  BY <1>5, <1>6, WithinWithinOr
<1>9. WithinOr(Grown(f, e), c, e)
  BY <1>4, <1>8, WithinWithinOr
<1>10. Len(Grown(f, e).entries) <= MaxEntries /\ Grown(f, e).memory <= MaxMemory
  BY <1>0, <1>2, <1>5, <1>6, <1>7
<1>11. QED BY <1>3, <1>6, <1>9, <1>10

-----------------------------------------------------------------------------
(* The cache keeps to its limits.                                           *)

Fits(cl, c) ==
    /\ Sound(c)
    /\ Len(c.entries) <= MaxEntries
    /\ cl = "async" => c.memory <= MaxMemory
    /\ \A i \in 1..Len(c.entries) : c.entries[i].ttl = TTL(c.entries[i].key.ep)

LEMMA FitsShrunk ==
    ASSUME NEW cl, NEW c, NEW d, Fits(cl, c), Sound(d), Within(d, c),
           Len(d.entries) <= Len(c.entries), d.memory <= c.memory
    PROVE  Fits(cl, d)
<1>1. /\ Len(c.entries) \in Nat /\ c.memory \in Nat /\ Len(d.entries) \in Nat /\ d.memory \in Nat
      /\ MaxEntries \in Nat /\ MaxMemory \in Nat
  BY KeysOfSound, CacheLimits DEF Fits
<1>2. Len(d.entries) <= MaxEntries /\ (cl = "async" => d.memory <= MaxMemory)
  BY <1>1 DEF Fits
<1>3. \A i \in 1..Len(d.entries) : d.entries[i].ttl = TTL(d.entries[i].key.ep)
  BY DEF Fits, Within
<1>4. QED BY <1>2, <1>3 DEF Fits

LEMMA FitsDeleted ==
    ASSUME NEW cl, NEW c, Fits(cl, c), NEW K
    PROVE  Fits(cl, Delete(c, K)) /\ Within(Delete(c, K), c)
<1>1. Sound(c)
  BY DEF Fits
<1>2. QED BY <1>1, DeleteSound, FitsShrunk

LEMMA FitsMaintained ==
    ASSUME NEW cl, NEW c, Fits(cl, c), NEW ep, NEW r, NEW t
    PROVE  /\ Fits(cl, Clear(c)) /\ Within(Clear(c), c)
           /\ Fits(cl, CleanupExpired(c, t)) /\ Within(CleanupExpired(c, t), c)
           /\ Fits(cl, Invalidate(c, ep)) /\ Within(Invalidate(c, ep), c)
           /\ Fits(cl, InvalidateKey(c, r)) /\ Within(InvalidateKey(c, r), c)
<1>1. c \in [entries : Seq(Entries), memory : Int]
  BY DEF Fits, Sound
<1>2. Clear(c).entries = <<>> /\ Clear(c).memory = 0 /\ Clear(c) \in [entries : Seq(Entries), memory : Int]
  <2> DEFINE none == <<>>
             zero == 0
             d == Clear(c)
  <2>1. none \in Seq(Entries) /\ zero \in Int
    BY EmptySeq
  <2>2. d = [c EXCEPT !.entries = none, !.memory = zero]
    BY DEF Clear
  <2> HIDE DEF none, zero, d
  <2>3. d.entries = none /\ d.memory = zero /\ d \in [entries : Seq(Entries), memory : Int]
    BY <1>1, <2>1, <2>2
  <2>4. QED BY <2>3 DEF none, zero, d
<1>3. Fits(cl, Clear(c)) /\ Within(Clear(c), c)
  <2>1. Sound(EmptyCache) /\ Len(<<>>) = 0 /\ EmptyCache.entries = <<>> /\ EmptyCache.memory = 0
    BY EmptySound DEF EmptyCache
  <2>2. MaxEntries \in Nat /\ MaxMemory \in Nat
    BY CacheLimits
  <2>3. Sound(Clear(c))
    BY <1>2, <2>1 DEF Sound
  <2>4. QED BY <1>2, <2>1, <2>2, <2>3 DEF Fits, Within
<1>4. Fits(cl, CleanupExpired(c, t)) /\ Within(CleanupExpired(c, t), c)
  BY FitsDeleted DEF CleanupExpired
<1>5. Fits(cl, Invalidate(c, ep)) /\ Within(Invalidate(c, ep), c)
  BY FitsDeleted DEF Invalidate
<1>6. Fits(cl, InvalidateKey(c, r)) /\ Within(InvalidateKey(c, r), c)
  BY FitsDeleted DEF InvalidateKey
<1>7. QED BY <1>3, <1>4, <1>5, <1>6

-----------------------------------------------------------------------------
(* The values the variables take.                                           *)

Ends == {r.ep : r \in RequestKeys}
Places == UNION {ToSet(Changes[ep]) : ep \in DOMAIN Changes}
Counts == UNION {[D -> Nat] : D \in SUBSET Ends}
Answers == [from : {"none", "cache", "imhex", "error"}, ver : Nat, floor : Nat,
            late : BOOLEAN, age : Int, made : Counts]

Typed ==
    /\ client \in {"sync", "async", "enhanced"}
    /\ now \in Nat
    /\ truth \in [Ends -> Nat]
    /\ known \in [Ends -> Nat]
    /\ step \in [Askers -> {"idle", "ask", "invalidate", "store"}]
    /\ key \in [Askers -> RequestKeys]
    /\ answer \in [Askers -> Answers]
    /\ left \in [Askers -> Seq(Places)]

LEMMA NothingMade == <<>> \in Counts /\ DOMAIN <<>> = {}
<1>1. <<>> \in Seq(Nat) /\ Len(<<>>) = 0
  BY EmptySeq
<1>2. DOMAIN <<>> = {} /\ <<>> \in [1..0 -> Nat]
  <2>1. DOMAIN <<>> = 1..0 /\ <<>> \in [1..0 -> Nat]
    BY <1>1, LenProperties
  <2>2. QED BY <2>1
<1>3. 1..0 \in SUBSET Ends
  OBVIOUS
<1>4. QED BY <1>2, <1>3 DEF Counts

LEMMA LargerOfTwo ==
    ASSUME NEW x \in Nat, NEW y \in Nat
    PROVE  Max({x, y}) \in {x, y} /\ x <= Max({x, y}) /\ y <= Max({x, y})
<1>1. \E z \in {x, y} : \A w \in {x, y} : z >= w
  OBVIOUS
<1>2. Max({x, y}) \in {x, y} /\ \A w \in {x, y} : Max({x, y}) >= w
  BY <1>1 DEF Max
<1>3. QED BY <1>2

LEMMA PlacesOf ==
    ASSUME NEW ep
    PROVE  DependentsOf(ep) \in Seq(Places)
<1>1. CASE client = "sync" /\ ep \in DOMAIN Changes
  <2>1. Changes[ep] \in Seq(ToSet(Changes[ep])) /\ ToSet(Changes[ep]) \subseteq Places
    BY <1>1, RequestAssumption DEF Places
  <2>2. QED BY <1>1, <2>1 DEF DependentsOf
<1>2. CASE ~(client = "sync" /\ ep \in DOMAIN Changes)
  BY <1>2, EmptySeq DEF DependentsOf
<1>3. QED BY <1>1, <1>2

Fitting == Typed /\ Fits(client, cache)

LEMMA BlankAnswer ==
    /\ NoAnswer \in Answers
    /\ \A f \in Nat : [NoAnswer EXCEPT !.floor = f] \in Answers
<1> DEFINE none == <<>>
           blank == NoAnswer
<1>1. none \in Counts
  BY NothingMade
<1>2. blank = [from |-> "none", ver |-> 0, floor |-> 0, late |-> FALSE, age |-> 0, made |-> none]
  BY DEF NoAnswer
<1> HIDE DEF none, blank
<1>3. blank \in Answers
  BY <1>1, <1>2 DEF Answers
<1>4. \A f \in Nat : [blank EXCEPT !.floor = f] \in Answers
  BY <1>3 DEF Answers
<1>5. QED BY <1>3, <1>4 DEF blank

LEMMA InitFits == CacheInit => Fitting
<1>1. SUFFICES ASSUME CacheInit PROVE Fitting
  OBVIOUS
<1>2. NoAnswer \in Answers
  BY BlankAnswer
<1>3. (CHOOSE r \in RequestKeys : TRUE) \in RequestKeys
  BY RequestAssumption
<1>4. Typed
  <2>1. <<>> \in Seq(Places)
    BY EmptySeq
  <2>2. answer \in [Askers -> Answers]
    BY <1>1, <1>2 DEF CacheInit
  <2>3. key \in [Askers -> RequestKeys] /\ left \in [Askers -> Seq(Places)]
    BY <1>1, <1>3, <2>1 DEF CacheInit
  <2>4. QED BY <1>1, <2>2, <2>3 DEF CacheInit, Typed, Ends
<1>5. Fits(client, cache)
  <2>1. Sound(cache) /\ Len(cache.entries) = 0 /\ cache.memory = 0
    BY <1>1, EmptySound DEF CacheInit
  <2>2. QED BY <2>1, CacheLimits DEF Fits
<1>6. QED BY <1>4, <1>5 DEF Fitting

HitAnswer(r) ==
    LET e == EntryOf(cache, r) IN
    [from |-> "cache", ver |-> e.ver, floor |-> known[r.ep], late |-> e.late,
     age |-> now - e.born, made |-> <<>>]
BlankAnswerOf(r) == [NoAnswer EXCEPT !.floor = known[r.ep]]

\* The cache answers, or ImHex is to be asked.
LEMMA AskCases ==
    ASSUME Fitting, NEW p \in Askers, NEW r \in RequestKeys, Ask(p, r)
    PROVE  /\ UNCHANGED <<client, now, truth, known, left>> /\ key' = [key EXCEPT ![p] = r]
           /\ step[p] = "idle"
           /\ Fits(client, cache') /\ Within(cache', cache)
           /\ BlankAnswerOf(r) \in Answers
           /\ \/ /\ answer' = [answer EXCEPT ![p] = BlankAnswerOf(r)]
                 /\ step' = [step EXCEPT ![p] = "ask"]
              \/ /\ Found(r) /\ answer' = [answer EXCEPT ![p] = HitAnswer(r)] /\ step' = step
                 /\ HitAnswer(r) \in Answers
<1>1. /\ UNCHANGED <<client, now, truth, known, left>> /\ key' = [key EXCEPT ![p] = r]
      /\ step[p] = "idle"
  BY DEF Ask
<1>2. r.ep \in Ends /\ known[r.ep] \in Nat
  BY DEF Ends, Fitting, Typed
<1>3. BlankAnswerOf(r) \in Answers
  BY <1>2, BlankAnswer DEF BlankAnswerOf
<1>4. Fits(client, Get(cache, r, now)) /\ Within(Get(cache, r, now), cache) /\ Within(cache, cache)
  <2>1. Sound(cache)
    BY DEF Fitting, Fits
  <2>2. QED BY <2>1, GetSound, FitsShrunk DEF Fitting, Within
<1>5. Fits(client, cache') /\ Within(cache', cache)
  BY <1>4 DEF Ask, Fitting
<1>6. CASE answer' = [answer EXCEPT ![p] = BlankAnswerOf(r)] /\ Turn(p, "ask")
  BY <1>1, <1>3, <1>5, <1>6 DEF Turn
<1>7. CASE Found(r) /\ answer' = [answer EXCEPT ![p] = HitAnswer(r)] /\ step' = step
  <2> DEFINE e == EntryOf(cache, r)
  <2>1. r \in Keys(cache) /\ Sound(cache)
    BY <1>7 DEF Found, Hit, Fitting, Fits
  <2>2. e \in Entries
    BY <2>1, FoundEntry
  <2>3. now - e.born \in Int
    BY <2>2 DEF Fitting, Typed, Entries
  <2>4. HitAnswer(r) \in Answers
    <3> HIDE DEF e
    <3>1. HitAnswer(r) = [from |-> "cache", ver |-> e.ver, floor |-> known[r.ep], late |-> e.late,
                          age |-> now - e.born, made |-> <<>>]
      BY DEF HitAnswer, e
    <3>2. QED BY <1>2, <2>2, <2>3, <3>1, NothingMade DEF Answers, Entries
  <2>5. QED BY <1>1, <1>3, <1>5, <1>7, <2>4
<1>8. \/ answer' = [answer EXCEPT ![p] = BlankAnswerOf(r)] /\ Turn(p, "ask")
      \/ Found(r) /\ answer' = [answer EXCEPT ![p] = HitAnswer(r)] /\ step' = step
  <2>1. Ask(p, r)
    OBVIOUS
  <2>2. QED BY <2>1, Zenon DEF Ask, BlankAnswerOf, HitAnswer
<1>9. QED BY <1>6, <1>7, <1>8

LEMMA AskFits ==
    ASSUME Fitting, NEW p \in Askers, NEW r \in RequestKeys, Ask(p, r)
    PROVE  Fitting'
<1>1. answer' \in [Askers -> Answers] /\ step' \in [Askers -> {"idle", "ask", "invalidate", "store"}]
  BY AskCases DEF Fitting, Typed
<1>2. UNCHANGED <<client, now, truth, known, left>> /\ key' = [key EXCEPT ![p] = r] /\ Fits(client, cache')
  BY AskCases
<1>3. QED BY <1>1, <1>2 DEF Fitting, Typed

LEMMA ServeFits ==
    ASSUME Fitting, NEW p \in Askers, Serve(p)
    PROVE  Fitting'
<1>1. UNCHANGED <<client, cache, now, known, key>>
  BY DEF Serve
<1>2. truth' \in [Ends -> Nat]
  <2>1. \A e \in Ends : truth[e] \in Nat /\ truth[e] + 1 \in Nat
    BY DEF Fitting, Typed
  <2>2. DOMAIN truth = Ends
    BY DEF Fitting, Typed
  <2>3. QED BY <2>1, <2>2 DEF Serve
<1> DEFINE ep == key[p].ep
           D == Affected(ep)
           made == [e \in D |-> truth[e] + 1]
<1>3. ep \in Ends
  BY DEF Fitting, Typed, Ends
<1>4. made \in Counts
  <2>1. D \in SUBSET Ends
    BY DEF Affected, Fitting, Typed
  <2>2. \A e \in D : truth[e] + 1 \in Nat
    BY <2>1 DEF Fitting, Typed
  <2> HIDE DEF D
  <2>3. made \in [D -> Nat]
    BY <2>2
  <2>4. QED BY <2>1, <2>3 DEF Counts
<1>5. truth[ep] \in Nat
  BY <1>3 DEF Fitting, Typed
<1>6. CASE answer' = [answer EXCEPT ![p].from = "imhex", ![p].ver = truth[ep], ![p].made = made]
             /\ Turn(p, "invalidate") /\ left' = [left EXCEPT ![p] = DependentsOf(ep)]
  <2> DEFINE new == [answer[p] EXCEPT !.from = "imhex", !.ver = truth[ep], !.made = made]
  <2>1. answer' \in [Askers -> Answers]
    <3>1. answer' = [answer EXCEPT ![p] = new]
      BY <1>6 DEF Fitting, Typed
    <3> HIDE DEF made
    <3>2. new \in Answers
      BY <1>4, <1>5 DEF Fitting, Typed, Answers
    <3> HIDE DEF new
    <3>3. QED BY <3>1, <3>2 DEF Fitting, Typed
  <2>2. left' \in [Askers -> Seq(Places)]
    BY <1>6, PlacesOf DEF Fitting, Typed
  <2>3. QED BY <1>1, <1>2, <1>6, <2>1, <2>2 DEF Fitting, Typed, Turn
<1>7. CASE UNCHANGED <<answer, step, left>>
  BY <1>1, <1>2, <1>7 DEF Fitting, Typed
<1>8. QED BY <1>6, <1>7, Zenon DEF Serve

LEMMA InnerHitFits ==
    ASSUME Fitting, NEW p \in Askers, InnerHit(p)
    PROVE  Fitting'
<1>1. UNCHANGED <<client, cache, now, truth, known, key, left>>
  BY DEF InnerHit
<1>2. PICK ver \in 0..truth[key[p].ep] : answer' = [answer EXCEPT ![p].from = "imhex", ![p].ver = ver]
  BY DEF InnerHit
<1>3. ver \in Nat
  <2>1. truth[key[p].ep] \in Nat
    BY DEF Fitting, Typed, Ends
  <2>2. QED BY <2>1
<1>4. answer' \in [Askers -> Answers]
  BY <1>2, <1>3 DEF Fitting, Typed, Answers
<1>5. QED BY <1>1, <1>4 DEF InnerHit, Fitting, Typed, Turn

LEMMA FailFits ==
    ASSUME Fitting, NEW p \in Askers, Fail(p)
    PROVE  Fitting'
<1>1. UNCHANGED <<client, cache, now, truth, known, key>>
        /\ answer' = [answer EXCEPT ![p].from = "error"]
  BY DEF Fail
<1>2. answer' \in [Askers -> Answers]
  BY <1>1 DEF Fitting, Typed, Answers
<1>3. left' \in [Askers -> Seq(Places)] /\ step' \in [Askers -> {"idle", "ask", "invalidate", "store"}]
  <2>1. DependentsOf(key[p].ep) \in Seq(Places)
    BY PlacesOf
  <2>2. CASE Turn(p, "idle") /\ UNCHANGED left
    BY <2>2 DEF Fitting, Typed, Turn
  <2>3. CASE Turn(p, "invalidate") /\ left' = [left EXCEPT ![p] = DependentsOf(key[p].ep)]
    BY <2>1, <2>3 DEF Fitting, Typed, Turn
  <2>4. QED BY <2>2, <2>3 DEF Fail
<1>4. QED BY <1>1, <1>2, <1>3 DEF Fitting, Typed

LEMMA InvalidateNextFits ==
    ASSUME Fitting, NEW p \in Askers, InvalidateNext(p)
    PROVE  Fitting'
<1>1. UNCHANGED <<client, now, truth, known, step, key>>
        /\ cache' = Invalidate(cache, Head(left[p])) /\ answer' = MarkLate(Head(left[p]))
        /\ left' = [left EXCEPT ![p] = Tail(left[p])] /\ left[p] # <<>>
  BY DEF InvalidateNext
<1>2. answer' \in [Askers -> Answers]
  BY <1>1 DEF MarkLate, Fitting, Typed, Answers
<1>3. left' \in [Askers -> Seq(Places)]
  <2>1. left[p] \in Seq(Places)
    BY DEF Fitting, Typed
  <2>2. Tail(left[p]) \in Seq(Places)
    BY <1>1, <2>1, HeadTailProperties
  <2>3. QED BY <1>1, <2>2 DEF Fitting, Typed
<1>4. Fits(client, cache')
  BY <1>1, FitsMaintained DEF Fitting
<1>5. QED BY <1>1, <1>2, <1>3, <1>4 DEF Fitting, Typed

\* What Store puts into the cache.
Stored(p) == [key |-> key[p], ver |-> answer[p].ver, born |-> now, ttl |-> TTL(key[p].ep),
              late |-> answer[p].late]

LEMMA StoredEntry ==
    ASSUME Typed, NEW p \in Askers
    PROVE  Stored(p) \in Entries /\ Stored(p).ttl = TTL(Stored(p).key.ep)
<1>1. answer[p] \in Answers /\ key[p] \in RequestKeys /\ now \in Nat
  BY DEF Typed
<1>2. TTL(key[p].ep) \in Nat
  BY <1>1, RequestAssumption
<1>3. answer[p].ver \in Nat /\ answer[p].late \in BOOLEAN
  BY <1>1 DEF Answers
<1>4. QED BY <1>1, <1>2, <1>3 DEF Stored, Entries

\* Store leaves the cache as it is or puts the answer into it.
LEMMA StoreCases ==
    ASSUME Fitting, NEW p \in Askers, Store(p)
    PROVE  /\ Fits(client, cache') /\ WithinOr(cache', cache, Stored(p))
           /\ cache' = cache \/ answer[p].from = "imhex"
<1> DEFINE e == Stored(p)
<1>1. Sound(cache) /\ Len(cache.entries) <= MaxEntries /\ e \in Entries /\ e.ttl = TTL(e.key.ep)
        /\ Fits(client, cache) /\ client \in {"sync", "async", "enhanced"}
  BY StoredEntry DEF Fitting, Typed, Fits
<1>2. CASE cache' = cache
  BY <1>1, <1>2 DEF WithinOr
<1>3. CASE /\ answer[p].from = "imhex" /\ (client = "async" => ~Endless(cache, e))
           /\ cache' = (CASE client = "sync" -> SetSync(cache, e)
                           [] client = "async" -> SetAsync(cache, e)
                           [] client = "enhanced" -> SetPlain(cache, e))
  <2> HIDE DEF e
  <2>1. CASE client = "sync"
    <3>1. cache' = SetSync(cache, e)
      BY <1>3, <2>1
    <3>2. /\ Sound(SetSync(cache, e)) /\ WithinOr(SetSync(cache, e), cache, e)
          /\ Len(SetSync(cache, e).entries) <= MaxEntries
      BY <1>1, SetSyncSound
    <3>3. Sound(cache') /\ WithinOr(cache', cache, e) /\ Len(cache'.entries) <= MaxEntries
      BY <3>1, <3>2
    <3>4. QED BY <1>1, <1>3, <2>1, <3>3 DEF Fits, WithinOr, e
  <2>2. CASE client = "async"
    <3>1. cache' = SetAsync(cache, e)
      BY <1>3, <2>2
    <3>2. /\ Sound(SetAsync(cache, e)) /\ WithinOr(SetAsync(cache, e), cache, e)
          /\ Len(SetAsync(cache, e).entries) <= MaxEntries /\ SetAsync(cache, e).memory <= MaxMemory
      BY <1>1, <1>3, <2>2, SetAsyncSound
    <3>3. Sound(cache') /\ WithinOr(cache', cache, e) /\ Len(cache'.entries) <= MaxEntries
             /\ cache'.memory <= MaxMemory
      BY <3>1, <3>2
    <3>4. QED BY <1>1, <1>3, <2>2, <3>3 DEF Fits, WithinOr, e
  <2>3. CASE client = "enhanced"
    <3>1. cache' = SetPlain(cache, e)
      BY <1>3, <2>3
    <3>2. /\ Sound(SetPlain(cache, e)) /\ WithinOr(SetPlain(cache, e), cache, e)
          /\ Len(SetPlain(cache, e).entries) <= MaxEntries
      BY <1>1, SetPlainSound
    <3>3. Sound(cache') /\ WithinOr(cache', cache, e) /\ Len(cache'.entries) <= MaxEntries
      BY <3>1, <3>2
    <3>4. QED BY <1>1, <1>3, <2>3, <3>3 DEF Fits, WithinOr, e
  <2>4. QED BY <1>1, <2>1, <2>2, <2>3
<1>4. QED BY <1>2, <1>3 DEF Store, Stored

LEMMA StoreFits ==
    ASSUME Fitting, NEW p \in Askers, Store(p)
    PROVE  Fitting'
<1>1. UNCHANGED <<client, now, truth, key, left>> /\ step' = [step EXCEPT ![p] = "idle"]
        /\ answer' = [answer EXCEPT ![p].made = <<>>]
  BY DEF Store, Turn
<1>2. answer' \in [Askers -> Answers]
  <2> DEFINE new == [answer[p] EXCEPT !.made = <<>>]
  <2>1. new \in Answers
    BY NothingMade DEF Fitting, Typed, Answers
  <2>2. answer' = [answer EXCEPT ![p] = new]
    BY <1>1 DEF Fitting, Typed
  <2> HIDE DEF new
  <2>3. QED BY <2>1, <2>2 DEF Fitting, Typed
<1>3. known' \in [Ends -> Nat]
  <2> DEFINE m == answer[p].made
             new(x) == IF x \in DOMAIN m THEN Max({known[x], m[x]}) ELSE known[x]
  <2>1. m \in Counts
    BY DEF Fitting, Typed, Answers
  <2>2. PICK D \in SUBSET Ends : m \in [D -> Nat]
    BY <2>1 DEF Counts
  <2>3. \A x \in Ends : new(x) \in Nat
    <3>1. SUFFICES ASSUME NEW x \in Ends PROVE new(x) \in Nat
      OBVIOUS
    <3>2. known[x] \in Nat
      BY DEF Fitting, Typed
    <3>3. CASE x \in DOMAIN m
      <4>1. m[x] \in Nat
        BY <2>2, <3>3
      <4>2. Max({known[x], m[x]}) \in {known[x], m[x]}
        BY <3>2, <4>1, LargerOfTwo
      <4>3. QED BY <3>2, <3>3, <4>1, <4>2
    <3>4. QED BY <3>2, <3>3
  <2>4. DOMAIN known = Ends
    BY DEF Fitting, Typed
  <2>5. known' = [x \in DOMAIN known |-> new(x)]
    BY DEF Store
  <2> HIDE DEF new
  <2>6. QED BY <2>3, <2>4, <2>5
<1>4. Fits(client, cache')
  BY StoreCases
<1>5. QED BY <1>1, <1>2, <1>3, <1>4 DEF Fitting, Typed

LEMMA MaintainFits ==
    ASSUME Fitting, Maintain
    PROVE  Fitting' /\ Within(cache', cache)
<1>1. UNCHANGED <<client, now, truth, known, step, key, answer, left>>
  BY DEF Maintain
<1>2. \/ cache' = Clear(cache) \/ cache' = CleanupExpired(cache, now)
      \/ \E r \in RequestKeys : cache' = Invalidate(cache, r.ep) \/ cache' = InvalidateKey(cache, r)
  BY DEF Maintain
<1>3. Fits(client, cache') /\ Within(cache', cache)
  BY <1>2, FitsMaintained DEF Fitting
<1>4. QED BY <1>1, <1>3 DEF Fitting, Typed

LEMMA FittingSteps == Fitting /\ [CacheNext]_cacheVars => Fitting'
<1>1. SUFFICES ASSUME Fitting, [CacheNext]_cacheVars PROVE Fitting'
  OBVIOUS
<1>2. CASE \E p \in Askers : \/ \E r \in RequestKeys : Ask(p, r)
                             \/ Serve(p) \/ InnerHit(p) \/ Fail(p) \/ InvalidateNext(p) \/ Store(p)
  BY <1>1, <1>2, AskFits, ServeFits, InnerHitFits, FailFits, InvalidateNextFits, StoreFits
<1>3. ASSUME NEW p \in Askers, Invalidated(p) PROVE Fitting'
  BY <1>1, <1>3 DEF Invalidated, Turn, Fitting, Typed
<1>4. CASE Maintain
  BY <1>1, <1>4, MaintainFits
<1>5. CASE Pass
  <2>1. now' \in Nat
    BY <1>1, <1>5 DEF Pass, Fitting, Typed
  <2>2. UNCHANGED <<client, cache, truth, known, step, key, answer, left>>
    BY <1>5 DEF Pass
  <2>3. QED BY <1>1, <2>1, <2>2 DEF Fitting, Typed
<1>6. CASE UNCHANGED cacheVars
  BY <1>1, <1>6 DEF cacheVars, Fitting, Typed
<1>7. QED BY <1>1, <1>2, <1>3, <1>4, <1>5, <1>6, Zenon DEF CacheNext

\* Whatever the clients do, no key is in a cache twice, none holds more entries than
\* its limit, and the memory account is that of the entries and within its limit.
THEOREM CachesExact == CacheSpec => []CacheExact
<1>1. Fitting => CacheExact
  <2>1. ASSUME Fitting PROVE CacheExact
    <3>1. Sound(cache)
      BY <2>1 DEF Fitting, Fits
    <3>2. Cardinality(Keys(cache)) = Len(cache.entries)
      BY <3>1, KeysOfSound
    <3>3. QED BY <2>1, <3>1, <3>2 DEF CacheExact, Fitting, Fits, Sound
  <2>2. QED BY <2>1
<1>2. QED BY <1>1, InitFits, FittingSteps, PTL DEF CacheSpec

-----------------------------------------------------------------------------
(* Freshness, of the synchronous client.  After a change of an endpoint has *)
(* returned, every entry for it and every answer under way is as new as the *)
(* change or marked as having been under way over the invalidation.         *)

NewEnough(x, v) == x.late \/ v <= x.ver

\* The answers that have been given and may still be stored.
Under(st, an, q) == st[q] \in {"invalidate", "store"} /\ an[q].from = "imhex"

\* In a cache and among the answers under way, nothing for ep is older than v.
InCache(c, ep, v) ==
    \A i \in 1..Len(c.entries) :
        c.entries[i].key.ep = ep /\ c.entries[i].key.data = NoData => NewEnough(c.entries[i], v)
UnderWay(st, ky, an, ep, v) ==
    \A q \in Askers : Under(st, an, q) /\ ky[q].ep = ep => NewEnough(an[q], v)
After(c, st, ky, an, ep, v) == InCache(c, ep, v) /\ UnderWay(st, ky, an, ep, v)

\* What the changes a request made may still leave behind.
Cleared(c, tr, st, ky, an, lf, p) ==
    \A ep \in DOMAIN an[p].made :
        /\ an[p].made[ep] <= tr[ep]
        /\ ep \notin ToSet(lf[p]) => After(c, st, ky, an, ep, an[p].made[ep])

InOrder(st, an, lf, p) ==
    /\ st[p] = "ask" => DOMAIN an[p].made = {}
    /\ st[p] = "store" => lf[p] = <<>>

Fresh ==
    client = "sync" =>
    /\ \A ep \in Ends : known[ep] <= truth[ep] /\ After(cache, step, key, answer, ep, known[ep])
    /\ \A p \in Askers : Cleared(cache, truth, step, key, answer, left, p) /\ InOrder(step, answer, left, p)

FreshInv == Fitting /\ Fresh /\ HitsFresh

LEMMA MadeTyped ==
    ASSUME Typed, NEW p \in Askers
    PROVE  /\ DOMAIN answer[p].made \subseteq Ends
           /\ \A ep \in DOMAIN answer[p].made : answer[p].made[ep] \in Nat
<1>1. answer[p].made \in Counts
  BY DEF Typed, Answers
<1>2. PICK D \in SUBSET Ends : answer[p].made \in [D -> Nat]
  BY <1>1 DEF Counts
<1>3. QED BY <1>2

LEMMA InCacheWithin ==
    ASSUME NEW c, NEW d, Within(d, c), NEW ep, NEW v, InCache(c, ep, v)
    PROVE  InCache(d, ep, v)
BY DEF Within, InCache

LEMMA InitFresh == CacheInit => FreshInv
<1>1. SUFFICES ASSUME CacheInit PROVE FreshInv
  OBVIOUS
<1>2. Fitting
  BY <1>1, InitFits
<1>3. ASSUME NEW p \in Askers
      PROVE answer[p].from = "none" /\ DOMAIN answer[p].made = {} /\ step[p] = "idle"
  BY <1>1, NothingMade DEF CacheInit, NoAnswer
<1>4. HitsFresh
  BY <1>3 DEF HitsFresh
<1>5. \A p \in Askers : Cleared(cache, truth, step, key, answer, left, p) /\ InOrder(step, answer, left, p)
  BY <1>3 DEF Cleared, InOrder
<1>6. \A ep \in Ends : known[ep] <= truth[ep] /\ After(cache, step, key, answer, ep, known[ep])
  <2>1. Len(cache.entries) = 0
    BY <1>1, EmptySound DEF CacheInit
  <2>2. \A ep \in Ends : known[ep] = 0 /\ truth[ep] = 0
    BY <1>1 DEF CacheInit, Ends
  <2>3. QED BY <1>3, <2>1, <2>2 DEF After, InCache, UnderWay, Under
<1>7. QED BY <1>2, <1>4, <1>5, <1>6 DEF FreshInv, Fresh

\* A step that adds neither an entry nor an answer under way and makes no change.
LEMMA QuietFresh ==
    ASSUME FreshInv, UNCHANGED <<client, truth, known>>, Within(cache', cache),
           \A ep, v : UnderWay(step, key, answer, ep, v) => UnderWay(step', key', answer', ep, v),
           client = "sync" =>
               \A p \in Askers : /\ InOrder(step', answer', left', p)
                                /\ \/ answer'[p].made = answer[p].made /\ left'[p] = left[p]
                                   \/ DOMAIN answer'[p].made = {}
    PROVE  Fresh'
<1>1. SUFFICES ASSUME client = "sync" PROVE Fresh'
  BY DEF Fresh
<1>2. ASSUME NEW ep, NEW v, After(cache, step, key, answer, ep, v)
      PROVE  After(cache', step', key', answer', ep, v)
  BY <1>2, InCacheWithin DEF After
<1>3. ASSUME NEW p \in Askers
      PROVE  Cleared(cache', truth', step', key', answer', left', p)
  <2>1. Cleared(cache, truth, step, key, answer, left, p)
    BY <1>1 DEF FreshInv, Fresh
  <2>2. CASE answer'[p].made = answer[p].made /\ left'[p] = left[p]
    BY <1>2, <2>1, <2>2 DEF Cleared
  <2>3. CASE DOMAIN answer'[p].made = {}
    BY <2>3 DEF Cleared
  <2>4. QED BY <1>1, <2>2, <2>3
<1>4. QED BY <1>1, <1>2, <1>3 DEF FreshInv, Fresh

LEMMA AskFresh ==
    ASSUME FreshInv, NEW p \in Askers, NEW r \in RequestKeys, Ask(p, r)
    PROVE  Fresh' /\ HitsFresh'
<1>0. Fitting
  BY DEF FreshInv
<1>1. /\ UNCHANGED <<client, now, truth, known, left>> /\ key' = [key EXCEPT ![p] = r]
      /\ step[p] = "idle" /\ Within(cache', cache)
  BY <1>0, AskCases
<1>2. \A q \in Askers : q # p => answer'[q] = answer[q] /\ step'[q] = step[q] /\ key'[q] = key[q]
  <2> DEFINE hit == HitAnswer(r)
             blank == BlankAnswerOf(r)
  <2>1. \/ answer' = [answer EXCEPT ![p] = hit] /\ step' = step
        \/ answer' = [answer EXCEPT ![p] = blank] /\ step' = [step EXCEPT ![p] = "ask"]
    BY <1>0, AskCases
  <2>2. /\ answer \in [Askers -> Answers] /\ key \in [Askers -> RequestKeys]
        /\ step \in [Askers -> {"idle", "ask", "invalidate", "store"}]
    BY <1>0 DEF Fitting, Typed
  <2> HIDE DEF hit, blank
  <2>3. QED BY <1>1, <2>1, <2>2
<1>3. /\ step'[p] \in {"ask", "idle"} /\ key'[p] = r
      /\ \/ answer'[p] = BlankAnswerOf(r)
         \/ answer'[p] = HitAnswer(r) /\ Found(r)
  BY <1>0, <1>1, AskCases DEF Fitting, Typed
<1>4. answer'[p].made = <<>>
  BY <1>3 DEF BlankAnswerOf, HitAnswer, NoAnswer
<1>5. Fresh'
  <2>1. ASSUME NEW ep, NEW v, UnderWay(step, key, answer, ep, v)
        PROVE  UnderWay(step', key', answer', ep, v)
    BY <1>2, <1>3, <2>1 DEF UnderWay, Under
  <2>2. ASSUME NEW q \in Askers
        PROVE  /\ client = "sync" => InOrder(step', answer', left', q)
               /\ \/ answer'[q].made = answer[q].made /\ left'[q] = left[q]
                  \/ DOMAIN answer'[q].made = {}
    <3>1. CASE q = p
      BY <1>3, <1>4, <3>1, NothingMade DEF InOrder
    <3>2. CASE q # p
      BY <1>1, <1>2, <3>2 DEF InOrder, FreshInv, Fresh
    <3>3. QED BY <3>1, <3>2
  <2>3. QED BY <1>1, <2>1, <2>2, QuietFresh
<1>6. HitsFresh'
  <2>1. ASSUME NEW q \in Askers, q # p
        PROVE  answer'[q].from = "cache" =>
                 /\ answer'[q].ver < answer'[q].floor =>
                       client' # "sync" \/ answer'[q].late \/ key'[q].data # NoData
                 /\ client' # "enhanced" => answer'[q].age <= TTL(key'[q].ep)
    BY <1>1, <1>2, <2>1 DEF FreshInv, HitsFresh
  <2>2. CASE answer'[p] = BlankAnswerOf(r)
    <3>1. answer'[p].from = "none"
      BY <2>2 DEF BlankAnswerOf, NoAnswer
    <3>2. QED BY <2>1, <3>1 DEF HitsFresh
  <2>3. CASE answer'[p] = HitAnswer(r) /\ Found(r)
    <3> DEFINE e == EntryOf(cache, r)
    <3>1. Sound(cache) /\ r \in Keys(cache)
      BY <1>0, <2>3 DEF Fitting, Fits, Found, Hit
    <3>2. e.key = r /\ e \in Entries /\ \E i \in 1..Len(cache.entries) : e = cache.entries[i]
      BY <3>1, FoundEntry DEF EntryFound
    <3>3. e.ttl = TTL(r.ep)
      BY <1>0, <3>2 DEF Fitting, Fits
    <3>4. client # "enhanced" => ~(now - e.born > e.ttl)
      BY <2>3 DEF Found, Hit, IsExpired
    <3>5. r.ep \in Ends /\ known[r.ep] \in Nat
      BY <1>0 DEF Ends, Fitting, Typed
    <3>6. client = "sync" /\ r.data = NoData => e.late \/ known[r.ep] <= e.ver
      BY <3>2, <3>5 DEF FreshInv, Fresh, After, InCache, NewEnough
    <3> HIDE DEF e
    <3>7. answer'[p] = [from |-> "cache", ver |-> e.ver, floor |-> known[r.ep], late |-> e.late,
                        age |-> now - e.born, made |-> <<>>]
      BY <2>3 DEF HitAnswer, e
    <3>8. e.ver < known[r.ep] => client # "sync" \/ e.late \/ r.data # NoData
      BY <3>2, <3>5, <3>6 DEF Entries
    <3>9. client # "enhanced" => now - e.born <= TTL(r.ep)
      <4>1. now \in Nat /\ e.born \in Nat /\ TTL(r.ep) \in Nat
        BY <1>0, <3>2, RequestAssumption DEF Fitting, Typed, Entries
      <4>2. QED BY <3>3, <3>4, <4>1
    <3>10. answer'[p].ver < answer'[p].floor =>
              client' # "sync" \/ answer'[p].late \/ key'[p].data # NoData
      BY <1>1, <1>3, <3>7, <3>8
    <3>11. client' # "enhanced" => answer'[p].age <= TTL(key'[p].ep)
      BY <1>1, <1>3, <3>7, <3>9
    <3>12. QED BY <2>1, <3>10, <3>11 DEF HitsFresh
  <2>4. QED BY <1>3, <2>2, <2>3
<1>7. QED BY <1>5, <1>6

\* A hit stays as fresh as it was.
LEMMA HitsKept ==
    ASSUME HitsFresh, UNCHANGED <<client, key>>,
           \A q \in Askers : answer'[q].from = "cache" =>
               /\ answer[q].from = "cache" /\ answer'[q].ver = answer[q].ver
               /\ answer'[q].floor = answer[q].floor /\ answer'[q].age = answer[q].age
               /\ answer[q].late => answer'[q].late
    PROVE  HitsFresh'
<1>1. SUFFICES ASSUME NEW q \in Askers, answer'[q].from = "cache"
               PROVE  /\ answer'[q].ver < answer'[q].floor =>
                            client' # "sync" \/ answer'[q].late \/ key'[q].data # NoData
                      /\ client' # "enhanced" => answer'[q].age <= TTL(key'[q].ep)
  BY DEF HitsFresh
<1>2. /\ answer[q].ver < answer[q].floor => client # "sync" \/ answer[q].late \/ key[q].data # NoData
      /\ client # "enhanced" => answer[q].age <= TTL(key[q].ep)
  BY <1>1 DEF HitsFresh
<1>3. QED BY <1>1, <1>2

LEMMA ServeFresh ==
    ASSUME FreshInv, NEW p \in Askers, Serve(p)
    PROVE  Fresh' /\ HitsFresh'
<1> DEFINE ep0 == key[p].ep
           D == Affected(ep0)
           more == [e \in Ends |-> IF e \in D THEN truth[e] + 1 ELSE truth[e]]
           made == [e \in D |-> truth[e] + 1]
           new == [answer[p] EXCEPT !.from = "imhex", !.ver = truth[ep0], !.made = made]
<1>0. Fitting /\ Typed
  BY DEF FreshInv, Fitting
<1>1. UNCHANGED <<client, cache, now, known, key>> /\ step[p] = "ask" /\ truth' = more
  BY <1>0 DEF Serve, Typed
<1>2. /\ \A e \in Ends : truth[e] \in Nat /\ more[e] \in Nat /\ truth[e] <= more[e]
      /\ \A e \in D : more[e] = made[e] /\ e \in Ends
  BY <1>0 DEF Typed, Affected
<1>3. ep0 \in Ends /\ truth[ep0] \in Nat
  BY <1>0 DEF Typed, Ends
<1>4. ASSUME NEW q \in Askers
      PROVE  DOMAIN answer[q].made \subseteq Ends /\ \A e \in DOMAIN answer[q].made : answer[q].made[e] \in Nat
  BY <1>0, MadeTyped
<1>5. CASE UNCHANGED <<answer, step, left>>
  <2>1. HitsFresh'
    BY <1>1, <1>5, HitsKept DEF FreshInv
  <2>2. ASSUME client = "sync" PROVE Fresh'
    <3> HIDE DEF more
    <3>1. \A ep \in Ends : known[ep] <= more[ep]
      <4>1. \A ep \in Ends : known[ep] <= truth[ep] /\ known[ep] \in Nat
        BY <1>0, <2>2 DEF FreshInv, Fresh, Typed
      <4>2. QED BY <1>2, <4>1
    <3>2. ASSUME NEW q \in Askers
          PROVE Cleared(cache, more, step, key, answer, left, q)
      <4>1. Cleared(cache, truth, step, key, answer, left, q)
        BY <2>2 DEF FreshInv, Fresh
      <4>2. \A e \in DOMAIN answer[q].made : answer[q].made[e] <= more[e]
        BY <1>2, <1>4, <4>1 DEF Cleared
      <4>3. QED BY <4>1, <4>2 DEF Cleared
    <3>3. QED BY <1>1, <1>5, <2>2, <3>1, <3>2 DEF FreshInv, Fresh
  <2>3. QED BY <1>1, <2>1, <2>2 DEF Fresh
<1>6. CASE answer' = [answer EXCEPT ![p] = new] /\ step' = [step EXCEPT ![p] = "invalidate"]
             /\ left' = [left EXCEPT ![p] = DependentsOf(ep0)]
  <2>1. /\ answer'[p].from = "imhex" /\ answer'[p].ver = truth[ep0] /\ answer'[p].made = made
        /\ answer'[p].late = answer[p].late
        /\ step'[p] = "invalidate" /\ left'[p] = DependentsOf(ep0)
    <3> HIDE DEF made
    <3>1. answer[p] \in Answers
      BY <1>0 DEF Typed
    <3>2. new.from = "imhex" /\ new.ver = truth[ep0] /\ new.made = made /\ new.late = answer[p].late
      BY <3>1 DEF Answers
    <3> HIDE DEF new
    <3>3. QED BY <1>0, <1>6, <3>2 DEF Typed
  <2>2. \A q \in Askers : q # p => answer'[q] = answer[q] /\ step'[q] = step[q] /\ left'[q] = left[q]
    <3> HIDE DEF new
    <3>1. QED BY <1>0, <1>6 DEF Typed
  <2> HIDE DEF new, more
  <2>3. HitsFresh'
    BY <1>1, <2>1, <2>2, HitsKept DEF FreshInv
  <2>4. ASSUME client = "sync" PROVE Fresh'
    <3>1. ASSUME NEW ep \in Ends, NEW v \in Nat, v <= truth[ep],
                 After(cache, step, key, answer, ep, v)
          PROVE  After(cache, step', key, answer', ep, v)
      <4>1. ASSUME NEW q \in Askers, Under(step', answer', q), key[q].ep = ep
            PROVE  NewEnough(answer'[q], v)
        <5>1. CASE q = p
          BY <2>1, <3>1, <4>1, <5>1 DEF NewEnough
        <5>2. CASE q # p
          BY <2>2, <3>1, <4>1, <5>2 DEF After, UnderWay, Under
        <5>3. QED BY <5>1, <5>2
      <4>2. QED BY <3>1, <4>1 DEF After, UnderWay
    <3>2. \A ep \in Ends : known[ep] <= more[ep] /\ After(cache, step', key, answer', ep, known[ep])
      <4>1. \A ep \in Ends : known[ep] <= truth[ep] /\ known[ep] \in Nat
                /\ After(cache, step, key, answer, ep, known[ep])
        BY <1>0, <2>4 DEF FreshInv, Fresh, Typed
      <4>2. \A ep \in Ends : known[ep] <= more[ep]
        BY <1>2, <4>1
      <4>3. QED BY <3>1, <4>1, <4>2
    <3>3. ASSUME NEW q \in Askers, q # p
          PROVE Cleared(cache, more, step', key, answer', left', q) /\ InOrder(step', answer', left', q)
      <4>1. Cleared(cache, truth, step, key, answer, left, q) /\ InOrder(step, answer, left, q)
        BY <2>4 DEF FreshInv, Fresh
      <4>2. ASSUME NEW e \in DOMAIN answer[q].made
            PROVE  /\ answer[q].made[e] <= more[e]
                   /\ e \notin ToSet(left[q]) => After(cache, step', key, answer', e, answer[q].made[e])
        <5>1. answer[q].made[e] <= truth[e] /\ e \in Ends /\ answer[q].made[e] \in Nat
          BY <1>4, <4>1 DEF Cleared
        <5>2. answer[q].made[e] <= more[e]
          BY <1>2, <5>1
        <5>3. QED BY <3>1, <4>1, <5>1, <5>2 DEF Cleared
      <4>3. QED BY <2>2, <3>3, <4>1, <4>2 DEF Cleared, InOrder
    <3>4. Cleared(cache, more, step', key, answer', left', p) /\ InOrder(step', answer', left', p)
      <4>1. D \subseteq ToSet(DependentsOf(ep0))
        BY <2>4 DEF Affected, DependentsOf
      <4>2. \A e \in D : made[e] <= more[e]
        BY <1>2
      <4>3. DOMAIN made = D
        OBVIOUS
      <4> HIDE DEF made, D
      <4>4. QED BY <2>1, <4>1, <4>2, <4>3 DEF Cleared, InOrder
    <3>5. QED BY <1>1, <2>4, <3>2, <3>3, <3>4 DEF Fresh
  <2>5. QED BY <1>1, <2>3, <2>4 DEF Fresh
<1>7. QED
  <2>1. \/ UNCHANGED <<answer, step, left>>
        \/ /\ answer' = [answer EXCEPT ![p].from = "imhex", ![p].ver = truth[ep0], ![p].made = made]
           /\ Turn(p, "invalidate") /\ left' = [left EXCEPT ![p] = DependentsOf(ep0)]
    BY Zenon DEF Serve
  <2>2. [answer EXCEPT ![p].from = "imhex", ![p].ver = truth[ep0], ![p].made = made]
           = [answer EXCEPT ![p] = new]
    BY <1>0 DEF Typed
  <2>3. QED BY <1>5, <1>6, <2>1, <2>2, Zenon DEF Turn

LEMMA FailFresh ==
    ASSUME FreshInv, NEW p \in Askers, Fail(p)
    PROVE  Fresh' /\ HitsFresh'
<1>1. /\ UNCHANGED <<client, cache, now, truth, known, key>> /\ step[p] = "ask"
      /\ answer' = [answer EXCEPT ![p].from = "error"]
  BY DEF Fail
<1>2. Typed
  BY DEF FreshInv, Fitting
<1>3. /\ \A q \in Askers : q # p => answer'[q] = answer[q]
      /\ answer'[p].from = "error" /\ answer'[p].made = answer[p].made
  BY <1>1, <1>2 DEF Typed, Answers
<1>4. step'[p] \in {"idle", "invalidate"} /\ \A q \in Askers : q # p => step'[q] = step[q] /\ left'[q] = left[q]
  <2>1. \/ step' = [step EXCEPT ![p] = "idle"] /\ UNCHANGED left
        \/ step' = [step EXCEPT ![p] = "invalidate"] /\ left' = [left EXCEPT ![p] = DependentsOf(key[p].ep)]
    BY Zenon DEF Fail, Turn
  <2>2. QED BY <1>2, <2>1 DEF Typed
<1>5. HitsFresh'
  BY <1>1, <1>3, HitsKept DEF FreshInv
<1>6. Within(cache', cache)
  BY <1>1 DEF Within
<1>7. ASSUME NEW ep, NEW v, UnderWay(step, key, answer, ep, v)
      PROVE  UnderWay(step', key', answer', ep, v)
  BY <1>1, <1>3, <1>4, <1>7 DEF UnderWay, Under
<1>8. ASSUME client = "sync", NEW q \in Askers
      PROVE  /\ InOrder(step', answer', left', q)
             /\ \/ answer'[q].made = answer[q].made /\ left'[q] = left[q]
                \/ DOMAIN answer'[q].made = {}
  <2>1. InOrder(step, answer, left, q)
    BY <1>8 DEF FreshInv, Fresh
  <2>2. CASE q = p
    BY <1>1, <1>3, <1>4, <2>1, <2>2 DEF InOrder
  <2>3. CASE q # p
    BY <1>3, <1>4, <2>1, <2>3 DEF InOrder
  <2>4. QED BY <2>2, <2>3
<1>9. QED BY <1>1, <1>5, <1>6, <1>7, <1>8, QuietFresh

\* Nothing but the cache, which shrinks, and the time changes.
LEMMA ElsewhereFresh ==
    ASSUME FreshInv, Within(cache', cache), UNCHANGED <<client, truth, known, step, key, answer, left>>
    PROVE  Fresh' /\ HitsFresh'
<1>1. HitsFresh'
  BY HitsKept DEF FreshInv
<1>2. ASSUME NEW ep, NEW v, UnderWay(step, key, answer, ep, v)
      PROVE  UnderWay(step', key', answer', ep, v)
  BY <1>2
<1>3. ASSUME client = "sync", NEW q \in Askers
      PROVE  InOrder(step', answer', left', q)
  BY <1>3 DEF FreshInv, Fresh
<1>4. QED BY <1>1, <1>2, <1>3, QuietFresh

LEMMA InvalidatedFresh ==
    ASSUME FreshInv, NEW p \in Askers, Invalidated(p)
    PROVE  Fresh' /\ HitsFresh'
<1>1. /\ UNCHANGED <<client, cache, now, truth, known, key, answer, left>>
      /\ step[p] = "invalidate" /\ left[p] = <<>> /\ step' = [step EXCEPT ![p] = "store"]
  BY DEF Invalidated, Turn
<1>2. step'[p] = "store" /\ \A q \in Askers : q # p => step'[q] = step[q]
  BY <1>1 DEF FreshInv, Fitting, Typed
<1>3. HitsFresh'
  BY <1>1, HitsKept DEF FreshInv
<1>4. Within(cache', cache)
  BY <1>1 DEF Within
<1>5. ASSUME NEW ep, NEW v, UnderWay(step, key, answer, ep, v)
      PROVE  UnderWay(step', key', answer', ep, v)
  BY <1>1, <1>2, <1>5 DEF UnderWay, Under
<1>6. ASSUME client = "sync", NEW q \in Askers
      PROVE  InOrder(step', answer', left', q)
  BY <1>1, <1>2, <1>6 DEF InOrder, FreshInv, Fresh
<1>7. QED BY <1>1, <1>3, <1>4, <1>5, <1>6, QuietFresh

\* After an invalidation of ep nothing for it is left that is not late.
LEMMA InvalidateNextFresh ==
    ASSUME FreshInv, NEW p \in Askers, InvalidateNext(p)
    PROVE  Fresh' /\ HitsFresh'
<1> DEFINE ep0 == Head(left[p])
           gone == {k \in Keys(cache) : k.ep = ep0 /\ k.data = NoData}
<1>0. Fitting /\ Typed /\ Sound(cache)
  BY DEF FreshInv, Fitting, Fits
<1>1. /\ UNCHANGED <<client, now, truth, known, step, key>>
      /\ cache' = Delete(cache, gone) /\ answer' = MarkLate(ep0)
      /\ left' = [left EXCEPT ![p] = Tail(left[p])] /\ left[p] # <<>> /\ step[p] = "invalidate"
  BY DEF InvalidateNext, Invalidate
<1>2. ASSUME NEW q \in Askers
      PROVE  /\ answer'[q].from = answer[q].from /\ answer'[q].ver = answer[q].ver
             /\ answer'[q].floor = answer[q].floor /\ answer'[q].age = answer[q].age
             /\ answer'[q].made = answer[q].made
             /\ answer[q].late => answer'[q].late
             /\ key[q].ep = ep0 /\ step[q] \in {"ask", "invalidate", "store"} => answer'[q].late
  <2> HIDE DEF ep0, gone
  <2>1. answer[q] \in Answers
    BY <1>0 DEF Typed
  <2>2. answer'[q] = IF key[q].ep = ep0 /\ step[q] \in {"ask", "invalidate", "store"}
                     THEN [answer[q] EXCEPT !.late = TRUE] ELSE answer[q]
    BY <1>1 DEF MarkLate
  <2>3. QED BY <2>1, <2>2 DEF Answers
<1>3. /\ \A q \in Askers : q # p => left'[q] = left[q]
      /\ left'[p] = Tail(left[p])
  BY <1>0, <1>1 DEF Typed
<1>4. Within(cache', cache) /\ Sound(cache') /\ Keys(cache') = Keys(cache) \ gone
  BY <1>0, <1>1, DeleteSound
<1>5. ASSUME NEW ep, NEW v, After(cache, step, key, answer, ep, v)
      PROVE  After(cache', step, key, answer', ep, v)
  <2>1. InCache(cache', ep, v)
    BY <1>4, <1>5, InCacheWithin DEF After
  <2>2. UnderWay(step, key, answer', ep, v)
    BY <1>2, <1>5 DEF After, UnderWay, Under, NewEnough
  <2>3. QED BY <2>1, <2>2 DEF After
<1>6. ASSUME NEW v
      PROVE  After(cache', step, key, answer', ep0, v)
  <2>1. \A i \in 1..Len(cache'.entries) :
            ~(cache'.entries[i].key.ep = ep0 /\ cache'.entries[i].key.data = NoData)
    <3>1. \A i \in 1..Len(cache'.entries) : cache'.entries[i].key \in Keys(cache) \ gone
      <4>1. Keys(cache') = {cache'.entries[i].key : i \in 1..Len(cache'.entries)}
        BY <1>4, KeysOfSound DEF KeysIn
      <4>2. QED BY <1>4, <4>1
    <3>2. QED BY <3>1
  <2>2. UnderWay(step, key, answer', ep0, v)
    BY <1>2 DEF UnderWay, Under, NewEnough
  <2>3. QED BY <2>1, <2>2 DEF After, InCache
<1>7. ToSet(left[p]) \subseteq {ep0} \cup ToSet(Tail(left[p]))
  <2> DEFINE s == left[p]
             t == Tail(s)
  <2>1. s \in Seq(Places) /\ s # <<>>
    BY <1>0, <1>1 DEF Typed
  <2>2. Len(s) \in Nat \ {0} /\ t \in Seq(Places) /\ Len(t) = Len(s) - 1
           /\ (\A i \in 1..Len(t) : t[i] = s[i + 1]) /\ Head(s) = s[1]
    BY <2>1, HeadTailProperties, EmptySeq
  <2>3. DOMAIN s = 1..Len(s) /\ DOMAIN t = 1..Len(t)
    BY <2>1, <2>2, LenProperties
  <2> HIDE DEF s, t
  <2>4. ASSUME NEW i \in 1..Len(s), i # 1 PROVE \E j \in 1..Len(t) : s[i] = t[j]
    <3>1. i - 1 \in 1..Len(t) /\ (i - 1) + 1 = i
      BY <2>2, <2>4
    <3>2. QED BY <2>2, <3>1
  <2>5. ToSet(s) \subseteq {Head(s)} \cup ToSet(t)
    <3>1. ASSUME NEW i \in 1..Len(s) PROVE s[i] \in {Head(s)} \cup {t[j] : j \in 1..Len(t)}
      <4>1. CASE i = 1
        BY <2>2, <4>1
      <4>2. CASE i # 1
        BY <2>4, <4>2
      <4>3. QED BY <4>1, <4>2
    <3>2. ToSet(s) = {s[i] : i \in 1..Len(s)} /\ ToSet(t) = {t[j] : j \in 1..Len(t)}
      BY <2>3 DEF ToSet
    <3>3. QED BY <3>1, <3>2
  <2>6. QED BY <2>5 DEF s, t
<1> HIDE DEF ep0, gone
<1>8. HitsFresh'
  BY <1>1, <1>2, HitsKept DEF FreshInv
<1>9. ASSUME client = "sync" PROVE Fresh'
  <2>1. ASSUME NEW q \in Askers
        PROVE Cleared(cache', truth, step, key, answer', left', q) /\ InOrder(step, answer', left', q)
    <3>1. Cleared(cache, truth, step, key, answer, left, q) /\ InOrder(step, answer, left, q)
      BY <1>9 DEF FreshInv, Fresh
    <3>2. answer'[q].made = answer[q].made
      BY <1>2
    <3>3. ASSUME NEW ep \in DOMAIN answer[q].made, ep \notin ToSet(left'[q])
          PROVE  After(cache', step, key, answer', ep, answer[q].made[ep])
      <4>1. ep \notin ToSet(left[q]) \/ ep = ep0
        BY <1>3, <1>7, <3>3
      <4>2. QED BY <1>5, <1>6, <3>1, <4>1 DEF Cleared
    <3>4. InOrder(step, answer', left', q)
      BY <1>1, <1>3, <3>1, <3>2 DEF InOrder
    <3>5. QED BY <3>1, <3>2, <3>3, <3>4 DEF Cleared
  <2>2. \A ep \in Ends : known[ep] <= truth[ep] /\ After(cache', step, key, answer', ep, known[ep])
    BY <1>5, <1>9 DEF FreshInv, Fresh
  <2>3. QED BY <1>1, <1>9, <2>1, <2>2 DEF Fresh
<1>10. QED BY <1>1, <1>8, <1>9 DEF Fresh

\* What is stored is as new as all that has been cleared away; the request returns
\* with everything it had to invalidate invalidated.
LEMMA StoreFresh ==
    ASSUME FreshInv, NEW p \in Askers, Store(p)
    PROVE  Fresh' /\ HitsFresh'
<1> DEFINE m == answer[p].made
           new == [answer[p] EXCEPT !.made = <<>>]
           later == [e \in Ends |-> IF e \in DOMAIN m THEN Max({known[e], m[e]}) ELSE known[e]]
<1>0. Fitting /\ Typed /\ Sound(cache)
  BY DEF FreshInv, Fitting, Fits
<1>1. /\ UNCHANGED <<client, now, truth, key, left>> /\ step[p] = "store"
      /\ step' = [step EXCEPT ![p] = "idle"] /\ known' = later
      /\ answer' = [answer EXCEPT ![p] = new]
  BY <1>0 DEF Store, Turn, Typed
<1>2. /\ answer'[p].from = answer[p].from /\ answer'[p].ver = answer[p].ver
      /\ answer'[p].floor = answer[p].floor /\ answer'[p].age = answer[p].age
      /\ answer'[p].late = answer[p].late /\ DOMAIN answer'[p].made = {}
  <2>1. new.from = answer[p].from /\ new.ver = answer[p].ver /\ new.floor = answer[p].floor
          /\ new.age = answer[p].age /\ new.late = answer[p].late /\ new.made = <<>>
    BY <1>0 DEF Typed, Answers
  <2> HIDE DEF new
  <2>2. answer'[p] = new
    BY <1>0, <1>1 DEF Typed
  <2>3. QED BY <2>1, <2>2, NothingMade
<1>3. \A q \in Askers : q # p => answer'[q] = answer[q] /\ step'[q] = step[q]
  <2> HIDE DEF new
  <2>1. QED BY <1>0, <1>1 DEF Typed
<1>4. step'[p] = "idle"
  BY <1>0, <1>1 DEF Typed
<1> HIDE DEF new, later
<1>5. HitsFresh'
  BY <1>1, <1>2, <1>3, HitsKept DEF FreshInv
<1>6. WithinOr(cache', cache, Stored(p)) /\ (cache' = cache \/ answer[p].from = "imhex")
  BY <1>0, StoreCases
<1>7. ASSUME NEW ep, NEW v, After(cache, step, key, answer, ep, v)
      PROVE  After(cache', step', key, answer', ep, v)
  <2>1. UnderWay(step', key, answer', ep, v)
    BY <1>3, <1>4, <1>7 DEF After, UnderWay, Under
  <2>2. CASE cache' = cache
    BY <1>7, <2>1, <2>2 DEF After
  <2>3. CASE answer[p].from = "imhex"
    <3>1. key[p].ep = ep => NewEnough(answer[p], v)
      BY <1>1, <1>7, <2>3 DEF After, UnderWay, Under
    <3>2. Stored(p).key.ep = ep => NewEnough(Stored(p), v)
      BY <3>1 DEF Stored, NewEnough
    <3> DEFINE e == Stored(p)
    <3> HIDE DEF e
    <3>3. InCache(cache', ep, v)
      BY <1>6, <1>7, <3>2 DEF After, InCache, WithinOr, e
    <3>4. QED BY <2>1, <3>3 DEF After
  <2>4. QED BY <1>6, <2>2, <2>3
<1>8. ASSUME client = "sync" PROVE Fresh'
  <2>1. Cleared(cache, truth, step, key, answer, left, p) /\ left[p] = <<>>
    BY <1>1, <1>8 DEF FreshInv, Fresh, InOrder
  <2>2. ToSet(left[p]) = {}
    BY <2>1, NothingMade DEF ToSet
  <2>3. ASSUME NEW ep \in Ends
        PROVE  later[ep] <= truth[ep] /\ After(cache', step', key, answer', ep, later[ep])
    <3>1. known[ep] <= truth[ep] /\ After(cache, step, key, answer, ep, known[ep]) /\ known[ep] \in Nat
             /\ truth[ep] \in Nat
      BY <1>0, <1>8 DEF FreshInv, Fresh, Typed
    <3>2. CASE ep \in DOMAIN m
      <4>1. m[ep] <= truth[ep] /\ After(cache, step, key, answer, ep, m[ep]) /\ m[ep] \in Nat
        BY <1>0, <2>1, <2>2, <3>2, MadeTyped DEF Cleared
      <4>2. later[ep] \in {known[ep], m[ep]}
        BY <3>1, <3>2, <4>1, LargerOfTwo DEF later
      <4>3. QED BY <1>7, <3>1, <4>1, <4>2
    <3>3. CASE ep \notin DOMAIN m
      BY <1>7, <3>1, <3>3 DEF later
    <3>4. QED BY <3>2, <3>3
  <2>4. ASSUME NEW q \in Askers
        PROVE  Cleared(cache', truth, step', key, answer', left, q) /\ InOrder(step', answer', left, q)
    <3>1. CASE q = p
      BY <1>2, <1>4, <3>1 DEF Cleared, InOrder
    <3>2. CASE q # p
      <4>1. Cleared(cache, truth, step, key, answer, left, q) /\ InOrder(step, answer, left, q)
        BY <1>8 DEF FreshInv, Fresh
      <4>2. QED BY <1>3, <1>7, <3>2, <4>1 DEF Cleared, InOrder
    <3>3. QED BY <3>1, <3>2
  <2>5. QED BY <1>1, <1>8, <2>3, <2>4 DEF Fresh
<1>9. QED BY <1>1, <1>5, <1>8 DEF Fresh

LEMMA FreshSteps == FreshInv /\ [CacheNext]_cacheVars => FreshInv'
<1>1. SUFFICES ASSUME FreshInv, [CacheNext]_cacheVars PROVE Fresh' /\ HitsFresh'
  BY FittingSteps DEF FreshInv
<1>2. CASE \E p \in Askers : \/ \E r \in RequestKeys : Ask(p, r)
                             \/ Serve(p) \/ Fail(p) \/ InvalidateNext(p) \/ Invalidated(p) \/ Store(p)
  BY <1>1, <1>2, AskFresh, ServeFresh, FailFresh, InvalidateNextFresh, InvalidatedFresh, StoreFresh
<1>3. ASSUME NEW p \in Askers, InnerHit(p) PROVE Fresh' /\ HitsFresh'
  <2>1. UNCHANGED <<client, key>> /\ client = "enhanced"
    BY <1>3 DEF InnerHit
  <2>2. /\ \A q \in Askers : q # p => answer'[q] = answer[q]
        /\ answer'[p].from = "imhex"
    BY <1>1, <1>3 DEF InnerHit, FreshInv, Fitting, Typed, Answers
  <2>3. HitsFresh'
    BY <1>1, <2>1, <2>2, HitsKept DEF FreshInv
  <2>4. QED BY <2>1, <2>3 DEF Fresh
<1>4. CASE Maintain
  <2>1. Within(cache', cache)
    BY <1>1, <1>4, MaintainFits DEF FreshInv
  <2>2. UNCHANGED <<client, truth, known, step, key, answer, left>>
    BY <1>4 DEF Maintain
  <2>3. QED BY <1>1, <2>1, <2>2, ElsewhereFresh
<1>5. CASE UNCHANGED <<client, cache, truth, known, step, key, answer, left>>
  <2>1. Within(cache', cache)
    BY <1>5 DEF Within
  <2>2. QED BY <1>1, <1>5, <2>1, ElsewhereFresh
<1>6. Pass \/ UNCHANGED cacheVars => UNCHANGED <<client, cache, truth, known, step, key, answer, left>>
  BY DEF Pass, cacheVars
<1>7. QED BY <1>1, <1>2, <1>3, <1>4, <1>5, <1>6, Zenon DEF CacheNext

\* A request without parameters never gets from the cache of CachedImHexClient what a
\* change that had returned before made obsolete, but for answers that were under way
\* over the invalidation; and no cache but the dictionary of the enhanced client serves
\* anything beyond its time to live.
THEOREM CacheHitsFresh == CacheSpec => []HitsFresh
<1>1. FreshInv => HitsFresh
  BY DEF FreshInv
<1>2. QED BY <1>1, InitFresh, FreshSteps, PTL DEF CacheSpec

-----------------------------------------------------------------------------
(* The tiers of MultiTierCache.                                             *)

Loaders == {"put", "get", "warm", "prefetch", "orphan"}
TierEntries == [key : Names, count : Nat, by : Loaders, since : Nat]
Tiers == [entries : Seq(TierEntries), bytes : Int, lost : Nat]

\* What one tier is like; ep is the epoch, that is, how often clear() was called.
TierSound(T, ep) ==
    /\ T \in Tiers /\ Distinct(T.entries)
    /\ T.bytes = Weight(T.entries) - T.lost
    /\ \A i \in 1..Len(T.entries) : T.entries[i].by = "prefetch" => T.entries[i].since = ep
TierFits(t, T) ==
    /\ Len(T.entries) <= Limits[t].size
    /\ T.lost = 0 /\ Len(T.entries) > 1 => T.bytes <= Limits[t].bytes
Good(t, T, ep) == TierSound(T, ep) /\ TierFits(t, T)
AllGood(ts, ep) == ts \in [{"L1", "L2"} -> Tiers] /\ \A t \in {"L1", "L2"} : Good(t, ts[t], ep)

WeightsOf == [k \in Names |-> WeightOf(k)]

LEMMA WeightsOfKeys ==
    /\ Weighting(WeightsOf, TierEntries)
    /\ \A e \in TierEntries : e.key \in Names
    /\ \A k \in Names : WeightsOf[k] = WeightOf(k) /\ WeightOf(k) \in Nat
BY TierAssumption DEF WeightsOf, TierEntries, Weighting

LEMMA WeightWeighed ==
    ASSUME NEW s \in Seq(TierEntries)
    PROVE  Weight(s) = Weighed(s, WeightsOf) /\ Weight(s) \in Nat
<1>1. \A i \in DOMAIN s : WeightOf(s[i].key) = WeightsOf[s[i].key]
  BY WeightsOfKeys, ElementOfSeq, LenProperties
<1>2. Weight(s) = Weighed(s, WeightsOf)
  BY <1>1 DEF Weight, Weighed, Weights
<1>3. QED BY <1>2, WeightsOfKeys, WeighedNat

\* What the entries with some keys weigh, those that stay and those that go.
LEMMA WeightParts ==
    ASSUME NEW s, Listed(s, TierEntries), NEW K
    PROVE  /\ Weight(Without(s, K)) + Weight(Without(s, KeysIn(s) \ K)) = Weight(s)
           /\ Weight(Without(s, K)) \in Nat /\ Weight(Without(s, KeysIn(s) \ K)) \in Nat /\ Weight(s) \in Nat
           /\ \A k \in KeysIn(s) : KeysIn(s) \cap K = {k} =>
                 k \in Names /\ Weight(Without(s, KeysIn(s) \ K)) = WeightOf(k)
           /\ KeysIn(s) \cap K = {} => Weight(Without(s, KeysIn(s) \ K)) = 0
<1> DEFINE out == Without(s, KeysIn(s) \ K)
           w == Without(s, K)
<1>1. w \in Seq(TierEntries) /\ out \in Seq(TierEntries) /\ s \in Seq(TierEntries)
  BY ListedWithout DEF Listed
<1>2. Weighed(w, WeightsOf) + Weighed(out, WeightsOf) = Weighed(s, WeightsOf)
  <2>1. \A i \in 1..Len(s) : s[i].key \in KeysIn(s)
    BY DEF KeysIn
  <2>2. QED BY <1>1, <2>1, WeightsOfKeys, WeighedSplit
<1>3. ASSUME NEW k \in KeysIn(s), KeysIn(s) \cap K = {k}
      PROVE  k \in Names /\ Weighed(out, WeightsOf) = WeightOf(k)
  <2>1. k \in Names
    BY WeightsOfKeys, ListedKeys DEF KeysIn
  <2>2. KeysIn(s) \cap {k} = KeysIn(s) \ (KeysIn(s) \ K)
    BY <1>3
  <2>3. Weighed(out, WeightsOf) = WeightsOf[k]
    BY <2>2, WeightsOfKeys, WeighedOne
  <2>4. QED BY <2>1, <2>3, WeightsOfKeys
<1>4. ASSUME KeysIn(s) \cap K = {} PROVE Weighed(out, WeightsOf) = 0
  <2>1. KeysIn(s) \subseteq KeysIn(s) \ K
    BY <1>4
  <2>2. QED BY <2>1, WeighedNone
<1> HIDE DEF w, out
<1>5. Weight(w) = Weighed(w, WeightsOf) /\ Weight(out) = Weighed(out, WeightsOf)
         /\ Weight(s) = Weighed(s, WeightsOf) /\ Weight(w) \in Nat /\ Weight(out) \in Nat /\ Weight(s) \in Nat
  BY <1>1, WeightWeighed
<1>6. QED BY <1>2, <1>3, <1>4, <1>5 DEF w, out

LEMMA TierKeys ==
    ASSUME NEW T, T \in Tiers, Distinct(T.entries)
    PROVE  /\ Listed(T.entries, TierEntries) /\ KeysOf(T) = KeysIn(T.entries)
           /\ Cardinality(KeysOf(T)) = Len(T.entries) /\ Len(T.entries) \in Nat
           /\ T.bytes \in Int /\ T.lost \in Nat
           /\ \A i \in 1..Len(T.entries) : T.entries[i] \in TierEntries
<1>1. Listed(T.entries, TierEntries) /\ T.bytes \in Int /\ T.lost \in Nat
  BY DEF Listed, Tiers
<1>2. QED BY <1>1, ListedKeys DEF KeysOf

\* Without a replacement an eviction keeps a tier as it should be.
LEMMA EvictGood ==
    ASSUME NEW t \in {"L1", "L2"}, NEW T, NEW ep, Good(t, T, ep), NEW K
    PROVE  Good(t, EvictAll(T, K, {}), ep) /\ KeysOf(EvictAll(T, K, {})) = KeysOf(T) \ K
<1> DEFINE s == T.entries
           w == Without(s, K)
           gone == Weight(Without(s, KeysIn(s) \ K))
           d == EvictAll(T, K, {})
<1>1. T \in Tiers /\ Distinct(s) /\ T.bytes = Weight(s) - T.lost
  BY DEF Good, TierSound
<1>2. /\ Listed(s, TierEntries) /\ KeysOf(T) = KeysIn(s) /\ Len(s) \in Nat
      /\ T.bytes \in Int /\ T.lost \in Nat
  BY <1>1, TierKeys
<1>3. /\ Listed(w, TierEntries) /\ From(w, s) /\ KeysIn(w) = KeysIn(s) \ K /\ Len(w) <= Len(s)
  BY <1>2, ListedWithout
<1>4. Weight(w) + gone = Weight(s) /\ Weight(w) \in Nat /\ gone \in Nat /\ Weight(s) \in Nat
  BY <1>2, WeightParts
<1>5. Weight(Without(s, KeysIn(s) \ {})) = 0
  BY <1>2, WeightParts
<1>6. d = [entries |-> w, bytes |-> T.bytes - gone, lost |-> T.lost]
  <2>1. K \cap {} = {}
    OBVIOUS
  <2>2. d = [entries |-> w, bytes |-> T.bytes - gone, lost |-> T.lost + Weight(Without(s, KeysIn(s) \ {}))]
    BY <1>2, <2>1 DEF EvictAll
  <2>3. T.lost + 0 = T.lost
    BY <1>2
  <2>4. QED BY <1>5, <2>2, <2>3
<1> HIDE DEF w, s, d, gone
<1>7. d.entries = w /\ d.bytes = T.bytes - gone /\ d.lost = T.lost
  BY <1>6
<1>8. d \in Tiers
  BY <1>2, <1>3, <1>4, <1>6 DEF Tiers, Listed
<1>9. TierSound(d, ep)
  <2>1. d.bytes = Weight(w) - T.lost
    BY <1>1, <1>2, <1>4, <1>7
  <2>2. \A i \in 1..Len(w) : w[i].by = "prefetch" => w[i].since = ep
    BY <1>3 DEF From, Good, TierSound, s
  <2>3. QED BY <1>3, <1>7, <1>8, <2>1, <2>2 DEF TierSound, Listed
<1>10. TierFits(t, d)
  <2>1. Len(w) \in Nat
    BY <1>3, ListedKeys
  <2>2. Limits[t].size \in Nat /\ Limits[t].bytes \in Nat
    BY TierAssumption
  <2>3. Len(w) <= Limits[t].size
    BY <1>2, <1>3, <2>1, <2>2 DEF Good, TierFits, s
  <2>4. T.lost = 0 /\ Len(w) > 1 => T.bytes - gone <= Limits[t].bytes
    BY <1>2, <1>3, <1>4, <2>1, <2>2 DEF Good, TierFits, s
  <2>5. QED BY <1>7, <2>3, <2>4 DEF TierFits
<1>11. KeysOf(d) = KeysOf(T) \ K
  BY <1>2, <1>3, <1>7, <1>8, TierKeys DEF Listed
<1>12. QED BY <1>9, <1>10, <1>11 DEF Good, d

\* put: whatever of the replaced entry is taken off twice is what lost counts.
LEMMA AddedGood ==
    ASSUME NEW t \in {"L1", "L2"}, NEW T, NEW ep, Good(t, T, ep),
           NEW e \in TierEntries, e.by = "prefetch" => e.since = ep,
           NEW f, f.key = e.key, NEW K, HasRoom(t, T, f, K)
    PROVE  Good(t, Added(T, e, K), ep)
<1> DEFINE s == T.entries
           k == e.key
           w == Without(s, K)
           gone == Weight(Without(s, KeysIn(s) \ K))
           twice == Weight(Without(s, KeysIn(s) \ (K \cap {k})))
           off == IF k \in KeysIn(s) THEN WeightOf(k) ELSE 0
           room == EvictAll(TakenOff(T, k), K, {k})
           d == Added(T, e, K)
<1>1. T \in Tiers /\ Distinct(s) /\ T.bytes = Weight(s) - T.lost
  BY DEF Good, TierSound
<1>2. /\ Listed(s, TierEntries) /\ KeysOf(T) = KeysIn(s) /\ Len(s) \in Nat
      /\ T.bytes \in Int /\ T.lost \in Nat
  BY <1>1, TierKeys
<1>3. Listed(w, TierEntries) /\ From(w, s) /\ KeysIn(w) = KeysIn(s) \ K /\ Len(w) <= Len(s)
         /\ Len(w) \in Nat
  BY <1>2, ListedWithout, ListedKeys
<1>4. Weight(w) + gone = Weight(s) /\ Weight(w) \in Nat /\ gone \in Nat /\ Weight(s) \in Nat
  BY <1>2, WeightParts
<1>5. WeightOf(k) \in Nat /\ off \in Nat
  BY WeightsOfKeys
<1>6. twice = (IF k \in KeysIn(s) \cap K THEN WeightOf(k) ELSE 0)
  <2>1. CASE k \in KeysIn(s) \cap K
    <3>1. KeysIn(s) \cap (K \cap {k}) = {k} /\ k \in KeysIn(s)
      BY <2>1
    <3>2. twice = WeightOf(k)
      BY <1>2, <3>1, WeightParts
    <3>3. QED BY <2>1, <3>2
  <2>2. CASE k \notin KeysIn(s) \cap K
    <3>1. KeysIn(s) \cap (K \cap {k}) = {}
      BY <2>2
    <3>2. twice = 0
      BY <1>2, <3>1, WeightParts
    <3>3. QED BY <2>2, <3>2
  <2>3. QED BY <2>1, <2>2
<1>7. room = [entries |-> w, bytes |-> (T.bytes - off) - gone, lost |-> T.lost + twice]
  <2> DEFINE U == TakenOff(T, k)
  <2>1. U.entries = s /\ U.bytes = T.bytes - off /\ U.lost = T.lost
    BY <1>1, <1>2 DEF TakenOff, Tiers
  <2>2. KeysOf(U) = KeysIn(s)
    BY <1>2, <2>1 DEF KeysOf
  <2>3. room = [entries |-> Without(U.entries, K),
                bytes |-> U.bytes - Weight(Without(U.entries, KeysOf(U) \ K)),
                lost |-> U.lost + Weight(Without(U.entries, KeysOf(U) \ (K \cap {k})))]
    BY DEF EvictAll
  <2> HIDE DEF room, U, s
  <2>4. QED BY <2>1, <2>2, <2>3
<1>8. /\ d = [room EXCEPT !.entries = IF k \in KeysOf(room) THEN Replaced(room.entries, e)
                                     ELSE Append(room.entries, e),
                         !.bytes = room.bytes + WeightOf(k)]
      /\ room.entries = <<>> \/ (Len(room.entries) < Limits[t].size /\ room.bytes + WeightOf(k) <= Limits[t].bytes)
  <2>1. d = [room EXCEPT !.entries = IF k \in KeysOf(room) THEN Replaced(room.entries, e)
                                     ELSE Append(room.entries, e),
                         !.bytes = room.bytes + WeightOf(k)]
    BY DEF Added, Replaced
  <2>2. QED BY <2>1 DEF HasRoom
<1> HIDE DEF w, s, gone, twice, off, room, d, k
<1> DEFINE v == IF k \in KeysIn(w) THEN Replaced(w, e) ELSE Append(w, e)
           rest == T.bytes - off - gone
<1>9. KeysOf(room) = KeysIn(w) /\ room.entries = w /\ room.bytes = rest /\ room.lost = T.lost + twice
  BY <1>3, <1>7, ListedKeys DEF KeysOf
<1>10. /\ Listed(v, TierEntries) /\ Len(v) <= Len(w) + 1 /\ Len(v) \in Nat
       /\ \A i \in 1..Len(v) : v[i] = e \/ \E j \in 1..Len(w) : v[i] = w[j]
       /\ Weight(v) = IF k \in KeysIn(w) THEN Weight(w) ELSE Weight(w) + WeightOf(k)
  <2>1. CASE k \in KeysIn(w)
    <3> DEFINE r == Replaced(w, e)
    <3>1. /\ Listed(r, TierEntries) /\ Len(r) = Len(w)
          /\ \A i \in 1..Len(w) : r[i].key = w[i].key /\ (r[i] = e \/ r[i] = w[i])
      BY <1>3, ListedReplaced
    <3> HIDE DEF r
    <3>2. Weight(r) = Weight(w)
      BY <1>3, <3>1, WeighedSame, WeightWeighed DEF Listed
    <3>3. v = r
      BY <2>1 DEF r
    <3> HIDE DEF v
    <3>4. QED BY <1>3, <2>1, <3>1, <3>2, <3>3
  <2>2. CASE k \notin KeysIn(w)
    <3> DEFINE r == Append(w, e)
    <3>1. /\ Listed(r, TierEntries) /\ Len(r) = Len(w) + 1
          /\ \A i \in 1..Len(r) : r[i] = e \/ \E j \in 1..Len(w) : r[i] = w[j]
      BY <1>3, <2>2, ListedAppend DEF k
    <3>2. Weight(r) = Weight(w) + WeightOf(k)
      <4>1. Weighed(r, WeightsOf) = Weighed(w, WeightsOf) + WeightsOf[e.key] /\ WeightsOf[e.key] = WeightOf(k)
        BY <1>3, WeightsOfKeys, WeighedStep DEF Listed, k
      <4>2. QED BY <1>3, <3>1, <4>1, WeightWeighed DEF Listed
    <3> HIDE DEF r
    <3>3. v = r
      BY <2>2 DEF r
    <3> HIDE DEF v
    <3>4. QED BY <1>3, <2>2, <3>1, <3>2, <3>3
  <2>3. QED BY <2>1, <2>2
<1>11. rest \in Int
  BY <1>2, <1>4, <1>5
<1>12. T.lost + twice \in Nat /\ twice \in Nat
  BY <1>2, <1>5, <1>6
<1> HIDE DEF v, rest
<1>13. d.entries = v /\ d.bytes = rest + WeightOf(k) /\ d.lost = T.lost + twice /\ d \in Tiers
  <2>1. d = [room EXCEPT !.entries = v, !.bytes = rest + WeightOf(k)]
    BY <1>8, <1>9 DEF v
  <2>2. room \in Tiers
    BY <1>3, <1>7, <1>9, <1>11, <1>12 DEF Tiers, Listed
  <2>3. rest + WeightOf(k) \in Int /\ v \in Seq(TierEntries)
    BY <1>5, <1>10, <1>11 DEF Listed
  <2>4. QED BY <1>9, <2>1, <2>2, <2>3 DEF Tiers
<1>14. rest + WeightOf(k) = Weight(v) - (T.lost + twice)
  <2>1. rest = T.bytes - off - gone
    BY DEF rest
  <2>2. off = IF k \in KeysIn(s) THEN WeightOf(k) ELSE 0
    BY DEF off
  <2> DEFINE x == WeightOf(k)
             all == Weight(s)
             stay == Weight(w)
             lost == T.lost
  <2>3. T.bytes = all - lost /\ stay + gone = all /\ x \in Nat /\ all \in Nat /\ stay \in Nat
          /\ gone \in Nat /\ lost \in Nat /\ off \in Nat /\ twice \in Nat
    BY <1>1, <1>2, <1>4, <1>5, <1>12
  <2>4. Weight(v) = IF k \in KeysIn(w) THEN stay ELSE stay + x
    BY <1>10
  <2> HIDE DEF x, all, stay, lost
  <2>5. CASE k \in KeysIn(w)
    <3>1. k \in KeysIn(s) /\ k \notin K
      BY <1>3, <2>5
    <3>2. off = x /\ twice = 0 /\ Weight(v) = stay
      BY <1>6, <2>2, <2>4, <2>5, <3>1 DEF x
    <3>3. QED BY <2>1, <2>3, <3>2 DEF x, lost
  <2>6. CASE k \notin KeysIn(s)
    <3>1. off = 0 /\ twice = 0 /\ Weight(v) = stay + x
      BY <1>3, <1>6, <2>2, <2>4, <2>6
    <3>2. QED BY <2>1, <2>3, <3>1 DEF x, lost
  <2>7. CASE k \in KeysIn(s) /\ k \in K
    <3>1. off = x /\ twice = x /\ Weight(v) = stay + x
      BY <1>3, <1>6, <2>2, <2>4, <2>7 DEF x
    <3>2. QED BY <2>1, <2>3, <3>1 DEF x, lost
  <2>8. QED BY <1>3, <2>5, <2>6, <2>7
<1>15. TierSound(d, ep)
  <2>1. \A i \in 1..Len(v) : v[i].by = "prefetch" => v[i].since = ep
    <3>1. SUFFICES ASSUME NEW i \in 1..Len(v), v[i].by = "prefetch" PROVE v[i].since = ep
      OBVIOUS
    <3>2. CASE v[i] = e
      BY <3>1, <3>2
    <3>3. CASE \E j \in 1..Len(w) : v[i] = w[j]
      <4>1. PICK j \in 1..Len(s) : v[i] = s[j]
        BY <1>3, <3>3 DEF From
      <4>2. \A m \in 1..Len(s) : s[m].by = "prefetch" => s[m].since = ep
        BY DEF Good, TierSound, s
      <4>3. QED BY <3>1, <4>1, <4>2
    <3>4. QED BY <1>10, <3>2, <3>3
  <2>2. QED BY <1>10, <1>13, <1>14, <2>1 DEF TierSound, Listed
<1>16. TierFits(t, d)
  <2>1. Limits[t].size \in Nat \ {0} /\ Limits[t].bytes \in Nat
    BY TierAssumption
  <2>2. CASE w = <<>>
    <3>1. Len(w) = 0
      BY <2>2, EmptySeq
    <3>2. Len(v) <= 1
      BY <1>10, <3>1
    <3>3. QED BY <1>10, <1>13, <2>1, <3>2 DEF TierFits
  <2>3. CASE Len(w) < Limits[t].size /\ rest + WeightOf(k) <= Limits[t].bytes
    <3>1. Len(v) <= Limits[t].size
      BY <1>3, <1>10, <2>1, <2>3
    <3>2. QED BY <1>13, <2>3, <3>1 DEF TierFits
  <2>4. QED BY <1>8, <1>9, <2>2, <2>3
<1>17. QED BY <1>15, <1>16 DEF Good, d

\* get: the entry that is touched keeps its weight.
LEMMA TouchedGood ==
    ASSUME NEW t \in {"L1", "L2"}, NEW T, NEW ep, Good(t, T, ep), NEW n, NEW k \in KeysOf(T)
    PROVE  Good(t, Touched(T, n, k), ep)
<1> DEFINE s == T.entries
           e == EntryIn(T, k)
           more == [e EXCEPT !.count = IF @ < Threshold THEN @ + 1 ELSE @]
           v == IF n = "L1" THEN Append(Without(s, {k}), more)
                ELSE [i \in DOMAIN s |-> IF s[i].key = k THEN more ELSE s[i]]
           d == Touched(T, n, k)
<1>1. T \in Tiers /\ Distinct(s) /\ T.bytes = Weight(s) - T.lost
        /\ \A i \in 1..Len(s) : s[i].by = "prefetch" => s[i].since = ep
  BY DEF Good, TierSound
<1>2. /\ Listed(s, TierEntries) /\ KeysOf(T) = KeysIn(s) /\ Len(s) \in Nat
      /\ T.bytes \in Int /\ T.lost \in Nat
      /\ \A i \in 1..Len(s) : s[i] \in TierEntries
  BY <1>1, TierKeys
<1>3. e.key = k /\ e \in TierEntries /\ (e.by = "prefetch" => e.since = ep)
  <2>1. PICK i \in 1..Len(s) : s[i].key = k
    BY <1>2 DEF KeysIn
  <2>2. DOMAIN s = 1..Len(s)
    BY <1>2, ListedKeys
  <2>3. \E x \in ToSet(s) : x.key = k
    BY <2>1, <2>2 DEF ToSet
  <2>4. e \in ToSet(s) /\ e.key = k
    BY <2>3 DEF EntryIn
  <2>5. \E j \in 1..Len(s) : e = s[j]
    BY <2>2, <2>4 DEF ToSet
  <2>6. QED BY <1>1, <1>2, <2>4, <2>5
<1> HIDE DEF e
<1>4. more \in TierEntries /\ more.key = k /\ (more.by = "prefetch" => more.since = ep)
  <2> DEFINE c == IF e.count < Threshold THEN e.count + 1 ELSE e.count
  <2>1. c \in Nat
    BY <1>3 DEF TierEntries
  <2> HIDE DEF c
  <2>2. more = [e EXCEPT !.count = c]
    BY DEF c
  <2>3. QED BY <1>3, <2>1, <2>2 DEF TierEntries
<1>5. d = [T EXCEPT !.entries = v]
  BY DEF Touched, e
<1> HIDE DEF more, d
<1>6. /\ Listed(v, TierEntries) /\ Len(v) = Len(s) /\ Weight(v) = Weight(s)
      /\ \A i \in 1..Len(v) : v[i] = more \/ \E j \in 1..Len(s) : v[i] = s[j]
  <2>1. CASE n = "L1"
    <3> DEFINE w == Without(s, {k})
               a == Append(w, more)
    <3>1. Listed(w, TierEntries) /\ From(w, s) /\ KeysIn(w) = KeysIn(s) \ {k}
      BY <1>2, ListedWithout
    <3>2. Len(w) = Len(s) - 1
      BY <1>2, ListedWithoutOne
    <3>3. Weight(w) + WeightOf(k) = Weight(s)
      <4>1. KeysIn(s) \cap {k} = {k} /\ k \in KeysIn(s)
        BY <1>2
      <4>2. QED BY <1>2, <4>1, WeightParts
    <3> HIDE DEF w
    <3>4. more.key \notin KeysIn(w)
      BY <1>4, <3>1
    <3>5. /\ Listed(a, TierEntries) /\ Len(a) = Len(w) + 1
          /\ \A i \in 1..Len(a) : a[i] = more \/ \E j \in 1..Len(w) : a[i] = w[j]
      BY <1>4, <3>1, <3>4, ListedAppend
    <3>6. Weight(a) = Weight(w) + WeightOf(k)
      <4>1. w \in Seq(TierEntries) /\ a \in Seq(TierEntries) /\ k \in Names
        BY <1>3, <3>1, <3>5, WeightsOfKeys DEF Listed
      <4>2. Weighed(a, WeightsOf) = Weighed(w, WeightsOf) + WeightsOf[more.key]
        BY <1>4, <4>1, WeightsOfKeys, WeighedStep
      <4>3. QED BY <1>4, <4>1, <4>2, WeightsOfKeys, WeightWeighed
    <3> HIDE DEF a
    <3>7. v = a
      BY <2>1 DEF a, w
    <3> HIDE DEF v
    <3>8. Len(a) = Len(s)
      BY <1>2, <3>2, <3>5
    <3>9. \A i \in 1..Len(a) : a[i] = more \/ \E j \in 1..Len(s) : a[i] = s[j]
      BY <3>1, <3>5 DEF From
    <3>10. QED BY <3>3, <3>5, <3>6, <3>7, <3>8, <3>9
  <2>2. CASE n # "L1"
    <3> DEFINE r == Replaced(s, more)
    <3>1. v = r
      BY <1>4, <2>2 DEF Replaced
    <3>2. /\ Listed(r, TierEntries) /\ Len(r) = Len(s)
          /\ \A i \in 1..Len(s) : r[i].key = s[i].key /\ (r[i] = more \/ r[i] = s[i])
      <4> HIDE DEF s
      <4>1. QED BY <1>2, <1>4, ListedReplaced
    <3> HIDE DEF r, v, s
    <3>3. Weight(r) = Weight(s)
      BY <1>2, <3>2, WeighedSame, WeightWeighed DEF Listed
    <3>4. QED BY <3>1, <3>2, <3>3
  <2>3. QED BY <2>1, <2>2
<1> HIDE DEF v, s
<1>7. d.entries = v /\ d.bytes = T.bytes /\ d.lost = T.lost /\ d \in Tiers
  BY <1>1, <1>5, <1>6 DEF Tiers, Listed
<1>8. TierSound(d, ep)
  <2>1. \A i \in 1..Len(v) : v[i].by = "prefetch" => v[i].since = ep
    <3>1. SUFFICES ASSUME NEW i \in 1..Len(v), v[i].by = "prefetch" PROVE v[i].since = ep
      OBVIOUS
    <3>2. CASE v[i] = more
      BY <1>4, <3>1, <3>2
    <3>3. CASE \E j \in 1..Len(s) : v[i] = s[j]
      BY <1>1, <3>1, <3>3
    <3>4. QED BY <1>6, <3>2, <3>3
  <2>2. QED BY <1>1, <1>6, <1>7, <2>1 DEF TierSound, Listed
<1>9. TierFits(t, d)
  BY <1>6, <1>7 DEF Good, TierFits, s
<1>10. QED BY <1>8, <1>9 DEF Good, d


\* Two good tiers make a good pair.
LEMMA GoodBoth ==
    ASSUME NEW d, NEW ep, d = [t \in {"L1", "L2"} |-> d[t]], Good("L1", d["L1"], ep), Good("L2", d["L2"], ep)
    PROVE  AllGood(d, ep)
<1>1. d["L1"] \in Tiers /\ d["L2"] \in Tiers
  BY DEF Good, TierSound
<1>2. QED BY <1>1 DEF AllGood

\* The look-up in both tiers, which times out or touches entries and adds none.
LEMMA LookedUpGood ==
    ASSUME NEW ts, NEW ep, AllGood(ts, ep), NEW k, NEW old
    PROVE  AllGood(LookedUp(ts, k, old), ep)
<1> DEFINE aged == [t \in DOMAIN ts |-> IF t \in old THEN EvictAll(ts[t], {k}, {}) ELSE ts[t]]
           d == LookedUp(ts, k, old)
<1>1. DOMAIN ts = {"L1", "L2"} /\ ts \in [{"L1", "L2"} -> Tiers] /\ \A t \in {"L1", "L2"} : Good(t, ts[t], ep)
  BY DEF AllGood
<1>2. \A t \in {"L1", "L2"} : Good(t, aged[t], ep)
  BY <1>1, EvictGood
<1>3. DOMAIN aged = {"L1", "L2"} /\ aged = [t \in {"L1", "L2"} |-> aged[t]]
  BY <1>1
<1>4. \/ k \in KeysOf(aged["L1"]) /\ d = [ts EXCEPT !["L1"] = Touched(aged["L1"], "L1", k)]
      \/ k \in KeysOf(aged["L2"]) /\ d = [aged EXCEPT !["L2"] = Touched(aged["L2"], "L2", k)]
      \/ d = aged
  BY DEF LookedUp
<1>5. SUFFICES AllGood(d, ep)
  OBVIOUS
<1> HIDE DEF aged, d
<1>6. CASE k \in KeysOf(aged["L1"]) /\ d = [ts EXCEPT !["L1"] = Touched(aged["L1"], "L1", k)]
  <2> DEFINE T == Touched(aged["L1"], "L1", k)
  <2>1. Good("L1", T, ep)
    BY <1>2, <1>6, TouchedGood
  <2> HIDE DEF T
  <2>2. d["L1"] = T /\ d["L2"] = ts["L2"] /\ DOMAIN d = {"L1", "L2"} /\ d = [t \in {"L1", "L2"} |-> d[t]]
    BY <1>1, <1>6 DEF T
  <2>3. Good("L1", d["L1"], ep) /\ Good("L2", d["L2"], ep)
    BY <1>1, <2>1, <2>2
  <2> HIDE DEF T
  <2>4. QED BY <2>2, <2>3, GoodBoth
<1>7. CASE k \in KeysOf(aged["L2"]) /\ d = [aged EXCEPT !["L2"] = Touched(aged["L2"], "L2", k)]
  <2> DEFINE T == Touched(aged["L2"], "L2", k)
  <2>1. Good("L2", T, ep)
    BY <1>2, <1>7, TouchedGood
  <2> HIDE DEF T
  <2>2. d["L2"] = T /\ d["L1"] = aged["L1"] /\ DOMAIN d = {"L1", "L2"} /\ d = [t \in {"L1", "L2"} |-> d[t]]
    BY <1>3, <1>7 DEF T
  <2>3. Good("L1", d["L1"], ep) /\ Good("L2", d["L2"], ep)
    BY <1>2, <2>1, <2>2
  <2>4. QED BY <2>2, <2>3, GoodBoth
<1>8. CASE d = aged
  <2>1. d = [t \in {"L1", "L2"} |-> d[t]] /\ Good("L1", d["L1"], ep) /\ Good("L2", d["L2"], ep)
    BY <1>2, <1>3, <1>8
  <2>2. QED BY <2>1, GoodBoth
<1>9. QED BY <1>4, <1>6, <1>7, <1>8

\* The recursion of AllLookedUp has a solution.
LookUps(f, ts, ks, old, m) ==
    f = [n \in 0..m |-> IF n = 0 THEN ts ELSE LookedUp(f[n - 1], ks[n], old[ks[n]])]

LEMMA LookUpsExist ==
    ASSUME NEW ts, NEW ks, NEW old, NEW m \in Nat
    PROVE  \E f : LookUps(f, ts, ks, old, m)
<1> DEFINE T == {n \in Nat : \E f : LookUps(f, ts, ks, old, n)}
<1>1. 0 \in T
  <2>1. LookUps([n \in 0..0 |-> ts], ts, ks, old, 0)
    BY DEF LookUps
  <2>2. QED BY <2>1
<1>2. ASSUME NEW j \in Nat, j \in T PROVE j + 1 \in T
  <2>1. PICK f : LookUps(f, ts, ks, old, j)
    BY <1>2
  <2> DEFINE G(h, n) == IF n = 0 THEN ts ELSE LookedUp(h[n - 1], ks[n], old[ks[n]])
             g == [n \in 0..(j + 1) |-> IF n = j + 1 THEN G(f, n) ELSE f[n]]
  <2>2. \A n \in 0..j : f[n] = G(f, n)
    BY <2>1 DEF LookUps
  <2>3. ASSUME NEW n \in 0..(j + 1) PROVE g[n] = G(g, n)
    <3>1. n = j + 1 \/ n \in 0..j
      OBVIOUS
    <3>2. n # 0 => n - 1 \in 0..j /\ n - 1 # j + 1
      BY <3>1
    <3>3. n # 0 => g[n - 1] = f[n - 1]
      BY <3>2
    <3>4. g[n] = G(f, n)
      BY <2>2, <3>1
    <3>5. QED BY <3>3, <3>4
  <2>4. g = [n \in 0..(j + 1) |-> G(g, n)]
    BY <2>3
  <2> HIDE DEF g
  <2>5. LookUps(g, ts, ks, old, j + 1)
    BY <2>4 DEF LookUps
  <2>6. QED BY <2>5
<1> HIDE DEF T
<1>3. m \in T
  BY <1>1, <1>2, NatSteps
<1>4. QED BY <1>3 DEF T

LEMMA AllLookedUpGood ==
    ASSUME NEW ts, NEW ep, AllGood(ts, ep), NEW ks, Len(ks) \in Nat, NEW old
    PROVE  AllGood(AllLookedUp(ts, ks, old), ep)
<1>1. \E f : LookUps(f, ts, ks, old, Len(ks))
  BY LookUpsExist
<1>2. PICK f : LookUps(f, ts, ks, old, Len(ks)) /\ AllLookedUp(ts, ks, old) = f[Len(ks)]
  BY <1>1, Zenon DEF AllLookedUp, LookUps
<1>3. \A n \in 0..Len(ks) : f[n] = IF n = 0 THEN ts ELSE LookedUp(f[n - 1], ks[n], old[ks[n]])
  BY <1>2 DEF LookUps
<1> DEFINE T == {n \in Nat : n <= Len(ks) => AllGood(f[n], ep)}
<1>4. 0 \in T
  BY <1>3
<1>5. ASSUME NEW n \in Nat, n \in T PROVE n + 1 \in T
  <2>1. SUFFICES ASSUME n + 1 <= Len(ks) PROVE AllGood(f[n + 1], ep)
    BY DEF T
  <2>2. AllGood(f[n], ep) /\ n + 1 \in 0..Len(ks) /\ (n + 1) - 1 = n /\ n + 1 # 0
    BY <1>5, <2>1
  <2> DEFINE m == n + 1
  <2>3. f[m] = LookedUp(f[m - 1], ks[m], old[ks[m]]) /\ m - 1 = n
    BY <1>3, <2>2
  <2> HIDE DEF m
  <2>4. AllGood(f[m], ep)
    BY <2>2, <2>3, LookedUpGood
  <2>5. QED BY <2>4 DEF m
<1> HIDE DEF T
<1>6. Len(ks) \in T
  BY <1>4, <1>5, NatSteps
<1>7. QED BY <1>2, <1>6 DEF T

\* Jobs: a prefetch that is still in the table belongs to the present epoch.
Jobs == [id : Nat, key : Names, by : {"get", "warm", "prefetch", "orphan", "cancelled"}, epoch : Nat]

JobsRight(jobs, table, ep) ==
    /\ jobs \subseteq Jobs
    /\ \A i \in jobs : i.by = "prefetch" =>
          i.key \in DOMAIN table /\ table[i.key] = i.id /\ i.epoch = ep

TierInv ==
    AllGood(tiers, epoch) /\ epoch \in Nat /\ calls \in Nat /\ JobsRight(inflight, prefetching, epoch)

LEMMA EmptyTierGood == \A ep : AllGood([t \in {"L1", "L2"} |-> EmptyTier], ep)
<1> SUFFICES ASSUME NEW ep PROVE AllGood([t \in {"L1", "L2"} |-> EmptyTier], ep)
  OBVIOUS
<1>1. <<>> \in Seq(TierEntries) /\ Len(<<>>) = 0
  BY EmptySeq
<1> DEFINE s == <<>>
<1>2. Weight(s) = 0 /\ Distinct(s)
  <2>1. Weighed(s, WeightsOf) = 0
    BY WeighedEmpty
  <2>2. Distinct(s)
    BY <1>1 DEF Distinct
  <2>3. QED BY <1>1, <2>1, <2>2, WeightWeighed
<1> HIDE DEF s
<1> DEFINE T == [entries |-> s, bytes |-> 0, lost |-> 0]
<1>3. T.entries = s /\ T.bytes = 0 /\ T.lost = 0 /\ T \in Tiers
  BY <1>1 DEF Tiers, s
<1>4. ASSUME NEW t \in {"L1", "L2"} PROVE Good(t, T, ep)
  <2>1. Len(s) = 0 /\ Limits[t].size \in Nat \ {0}
    BY <1>1, TierAssumption DEF s
  <2>2. TierSound(T, ep)
    BY <1>2, <1>3, <2>1 DEF TierSound
  <2>3. TierFits(t, T)
    BY <1>3, <2>1 DEF TierFits
  <2>4. QED BY <2>2, <2>3 DEF Good
<1>5. T = EmptyTier
  BY DEF T, s, EmptyTier
<1> HIDE DEF T
<1>6. QED BY <1>4, <1>5, GoodBoth

LEMMA TierStarts == TierInit => TierInv
<1>1. AllGood([t \in {"L1", "L2"} |-> EmptyTier], 0)
  BY EmptyTierGood
<1>2. QED BY <1>1 DEF TierInit, TierInv, JobsRight

LEMMA PutGood ==
    ASSUME NEW ts, NEW ep, AllGood(ts, ep), NEW t \in {"L1", "L2"},
           NEW e \in TierEntries, e.by = "prefetch" => e.since = ep,
           NEW f, f.key = e.key, NEW K \in Victims(t, ts[t], f)
    PROVE  AllGood([ts EXCEPT ![t] = Added(@, e, K)], ep)
<1> DEFINE T == Added(ts[t], e, K)
           d == [ts EXCEPT ![t] = Added(@, e, K)]
<1>1. DOMAIN ts = {"L1", "L2"} /\ \A u \in {"L1", "L2"} : Good(u, ts[u], ep)
  BY DEF AllGood
<1>2. HasRoom(t, ts[t], f, K)
  BY DEF Victims
<1>3. Good(t, ts[t], ep)
  BY <1>1
<1>4. Good(t, T, ep)
  BY <1>2, <1>3, AddedGood
<1>5. d = [ts EXCEPT ![t] = T]
  OBVIOUS
<1>6. SUFFICES AllGood(d, ep)
  OBVIOUS
<1> HIDE DEF T, d
<1>7. d = [u \in {"L1", "L2"} |-> d[u]] /\ \A u \in {"L1", "L2"} : d[u] = IF u = t THEN T ELSE ts[u]
  BY <1>1, <1>5
<1>8. Good("L1", d["L1"], ep) /\ Good("L2", d["L2"], ep)
  BY <1>1, <1>4, <1>7
<1>9. QED BY <1>7, <1>8, GoodBoth

\* An entry of a good tier is one that may be put elsewhere, with a count of 0.
LEMMA EntryGood ==
    ASSUME NEW t, NEW T, NEW ep, Good(t, T, ep), NEW k \in KeysOf(T)
    PROVE  /\ EntryIn(T, k) \in TierEntries /\ EntryIn(T, k).key = k
           /\ EntryIn(T, k).by = "prefetch" => EntryIn(T, k).since = ep
<1> DEFINE e == EntryIn(T, k)
           s == T.entries
<1>1. T \in Tiers /\ Distinct(s) /\ \A i \in 1..Len(s) : s[i].by = "prefetch" => s[i].since = ep
  BY DEF Good, TierSound
<1>2. Listed(s, TierEntries) /\ KeysOf(T) = KeysIn(s) /\ \A i \in 1..Len(s) : s[i] \in TierEntries
  BY <1>1, TierKeys
<1>3. \E x \in ToSet(s) : x.key = k
  BY DEF KeysOf
<1>4. e \in ToSet(s) /\ e.key = k
  BY <1>3 DEF EntryIn
<1>5. DOMAIN s = 1..Len(s)
  BY <1>2, ListedKeys
<1> HIDE DEF e, s
<1>6. PICK j \in 1..Len(s) : e = s[j]
  BY <1>4, <1>5 DEF ToSet
<1>7. e \in TierEntries /\ e.key = k /\ (e.by = "prefetch" => e.since = ep)
  BY <1>1, <1>2, <1>4, <1>6
<1>8. QED BY <1>7 DEF e

LEMMA PrefetchKeeps ==
    ASSUME TierInv, NEW k \in Names, NEW ts, AllGood(ts, epoch), HitThenPrefetch(k, ts)
    PROVE  AllGood(tiers', epoch) /\ JobsRight(inflight', prefetching', epoch)
<1>1. CASE tiers' = ts /\ UNCHANGED <<prefetching, inflight>>
  BY <1>1 DEF TierInv
<1>2. ASSUME NEW old \in [ToSet(Ahead(k)) -> SUBSET DOMAIN ts], NEW W,
             tiers' = AllLookedUp(ts, Ahead(k), old),
             W \subseteq ToSet(Ahead(k)) \ DOMAIN prefetching,
             inflight' = inflight \cup {NewLoad(j, "prefetch") : j \in W},
             prefetching' = [j \in DOMAIN prefetching \cup W |->
                               IF j \in W THEN calls + 1 ELSE prefetching[j]]
      PROVE  AllGood(tiers', epoch) /\ JobsRight(inflight', prefetching', epoch)
  <2>1. Ahead(k) \in Seq(Names)
    BY TierAssumption
  <2>2. Len(Ahead(k)) \in Nat /\ ToSet(Ahead(k)) \subseteq Names
    BY <2>1, ElementOfSeq, LenProperties DEF ToSet
  <2>3. AllGood(tiers', epoch)
    BY <1>2, <2>2, AllLookedUpGood
  <2> DEFINE n == calls + 1
             new == [id |-> n, key |-> W, by |-> "prefetch", epoch |-> epoch]
             jobs == inflight'
             table == prefetching'
  <2>4. n \in Nat /\ epoch \in Nat /\ JobsRight(inflight, prefetching, epoch)
    BY DEF TierInv
  <2>5. jobs = inflight \cup {[id |-> n, key |-> j, by |-> "prefetch", epoch |-> epoch] : j \in W}
    BY <1>2 DEF NewLoad
  <2>6. table = [j \in DOMAIN prefetching \cup W |-> IF j \in W THEN n ELSE prefetching[j]]
    BY <1>2
  <2> HIDE DEF n, jobs, table
  <2>7. ASSUME NEW i \in jobs
        PROVE  i \in Jobs /\ (i.by = "prefetch" =>
                  i.key \in DOMAIN table /\ table[i.key] = i.id /\ i.epoch = epoch)
    <3>1. CASE i \in inflight
      <4>1. i \in Jobs
        BY <2>4, <3>1 DEF JobsRight
      <4>2. ASSUME i.by = "prefetch"
            PROVE  i.key \in DOMAIN table /\ table[i.key] = i.id /\ i.epoch = epoch
        <5>1. i.key \in DOMAIN prefetching /\ prefetching[i.key] = i.id /\ i.epoch = epoch
          BY <2>4, <3>1, <4>2 DEF JobsRight
        <5>2. i.key \notin W
          BY <1>2, <5>1
        <5>3. QED BY <2>6, <5>1, <5>2
      <4>3. QED BY <4>1, <4>2
    <3>2. CASE i \notin inflight
      <4>1. PICK j \in W : i = [id |-> n, key |-> j, by |-> "prefetch", epoch |-> epoch]
        BY <2>5, <3>2
      <4>2. j \in Names /\ i.key = j /\ i.id = n /\ i.epoch = epoch
        BY <1>2, <2>2, <4>1
      <4>3. i \in Jobs
        BY <2>4, <4>1, <4>2 DEF Jobs
      <4>4. j \in DOMAIN table /\ table[j] = n
        BY <2>6
      <4>5. QED BY <4>2, <4>3, <4>4
    <3>3. QED BY <3>1, <3>2
  <2>8. JobsRight(jobs, table, epoch)
    BY <2>7 DEF JobsRight
  <2>9. QED BY <2>3, <2>8 DEF jobs, table
<1>3. CASE \E old \in [ToSet(Ahead(k)) -> SUBSET DOMAIN ts] :
         LET after == AllLookedUp(ts, Ahead(k), old)
             wanted == {j \in ToSet(Ahead(k)) : \A t \in DOMAIN after : j \notin KeysOf(after[t])}
                       \ DOMAIN prefetching
         IN /\ tiers' = after
            /\ inflight' = inflight \cup {NewLoad(j, "prefetch") : j \in wanted}
            /\ prefetching' = [j \in DOMAIN prefetching \cup wanted |->
                                 IF j \in wanted THEN calls + 1 ELSE prefetching[j]]
  <2>1. PICK old \in [ToSet(Ahead(k)) -> SUBSET DOMAIN ts] :
         LET after == AllLookedUp(ts, Ahead(k), old)
             wanted == {j \in ToSet(Ahead(k)) : \A t \in DOMAIN after : j \notin KeysOf(after[t])}
                       \ DOMAIN prefetching
         IN /\ tiers' = after
            /\ inflight' = inflight \cup {NewLoad(j, "prefetch") : j \in wanted}
            /\ prefetching' = [j \in DOMAIN prefetching \cup wanted |->
                                 IF j \in wanted THEN calls + 1 ELSE prefetching[j]]
    BY <1>3
  <2> DEFINE after == AllLookedUp(ts, Ahead(k), old)
             W == {j \in ToSet(Ahead(k)) : \A t \in DOMAIN after : j \notin KeysOf(after[t])}
                       \ DOMAIN prefetching
  <2>2. W \subseteq ToSet(Ahead(k)) \ DOMAIN prefetching
    OBVIOUS
  <2>3. /\ tiers' = after
        /\ inflight' = inflight \cup {NewLoad(j, "prefetch") : j \in W}
        /\ prefetching' = [j \in DOMAIN prefetching \cup W |->
                              IF j \in W THEN calls + 1 ELSE prefetching[j]]
    BY <2>1
  <2> HIDE DEF W
  <2>4. QED BY <1>2, <2>2, <2>3
<1>4. QED BY <1>1, <1>3, Zenon DEF HitThenPrefetch

\* A load added outside the table.
LEMMA LoadAdded ==
    ASSUME TierInv, NEW k \in Names, NEW b \in {"get", "warm"},
           inflight' = inflight \cup {NewLoad(k, b)}
    PROVE  JobsRight(inflight', prefetching, epoch)
<1> DEFINE n == calls + 1
           new == [id |-> n, key |-> k, by |-> b, epoch |-> epoch]
           jobs == inflight'
<1>1. n \in Nat /\ epoch \in Nat /\ JobsRight(inflight, prefetching, epoch)
  BY DEF TierInv
<1>2. jobs = inflight \cup {new}
  BY DEF NewLoad
<1>3. new \in Jobs /\ new.by # "prefetch"
  BY <1>1 DEF Jobs
<1> HIDE DEF new, jobs
<1>4. JobsRight(jobs, prefetching, epoch)
  BY <1>1, <1>2, <1>3 DEF JobsRight
<1>5. QED BY <1>4 DEF jobs

LEMMA GetKeepsTiers ==
    ASSUME TierInv, NEW k \in Names, GetTiered(k)
    PROVE  TierInv'
<1>1. calls' = calls + 1 /\ epoch' = epoch
  BY DEF GetTiered, Call
<1>2. PICK old \in SUBSET DOMAIN tiers :
         LET ts == LookedUp(tiers, k, old) IN HitL1(k, ts) \/ HitL2(k, ts) \/ Miss(k, ts)
  BY DEF GetTiered
<1> DEFINE ts == LookedUp(tiers, k, old)
<1>3. AllGood(ts, epoch)
  BY LookedUpGood DEF TierInv
<1>4. HitL1(k, ts) \/ HitL2(k, ts) \/ Miss(k, ts)
  BY <1>2
<1> HIDE DEF ts
<1>5. AllGood(tiers', epoch) /\ JobsRight(inflight', prefetching', epoch)
  <2>1. CASE HitL1(k, ts)
    BY <1>3, <2>1, PrefetchKeeps DEF HitL1
  <2>2. CASE HitL2(k, ts) /\ HitThenPrefetch(k, ts)
    BY <1>3, <2>2, PrefetchKeeps
  <2>3. CASE \E K \in Victims("L1", ts["L1"], EntryIn(ts["L2"], k)) :
               HitThenPrefetch(k, [ts EXCEPT !["L1"] = Added(@, [EntryIn(ts["L2"], k) EXCEPT !.count = 0], K)])
             /\ k \in KeysOf(ts["L2"])
    <3> DEFINE f == EntryIn(ts["L2"], k)
               e == [f EXCEPT !.count = 0]
    <3>1. PICK K \in Victims("L1", ts["L1"], f) :
               HitThenPrefetch(k, [ts EXCEPT !["L1"] = Added(@, e, K)])
      BY <2>3
    <3>2. Good("L2", ts["L2"], epoch) /\ k \in KeysOf(ts["L2"])
      BY <1>3, <2>3 DEF AllGood
    <3>3. f \in TierEntries /\ f.key = k /\ (f.by = "prefetch" => f.since = epoch)
      BY <3>2, EntryGood
    <3> HIDE DEF f
    <3>4. e \in TierEntries /\ e.key = k /\ (e.by = "prefetch" => e.since = epoch)
      BY <3>3 DEF TierEntries
    <3> HIDE DEF e
    <3>5. AllGood([ts EXCEPT !["L1"] = Added(@, e, K)], epoch)
      BY <1>3, <3>3, <3>4, PutGood
    <3>6. QED BY <3>1, <3>5, PrefetchKeeps
  <2>4. CASE Miss(k, ts)
    <3>1. tiers' = ts /\ prefetching' = prefetching
      BY <2>4 DEF Miss
    <3>2. JobsRight(inflight', prefetching, epoch)
      BY <2>4, LoadAdded DEF Miss
    <3>3. QED BY <1>3, <3>1, <3>2
  <2>5. QED BY <1>4, <2>1, <2>2, <2>3, <2>4 DEF HitL2
<1>6. QED BY <1>1, <1>5 DEF TierInv

LEMMA WarmKeepsTiers ==
    ASSUME TierInv, NEW k \in Names, Warm(k)
    PROVE  TierInv'
<1>1. calls' = calls + 1 /\ epoch' = epoch /\ tiers' = tiers /\ prefetching' = prefetching
  BY DEF Warm, Call
<1>2. JobsRight(inflight', prefetching, epoch)
  BY LoadAdded DEF Warm
<1>3. QED BY <1>1, <1>2 DEF TierInv

\* What a put leaves.
LEMMA PutInKeeps ==
    ASSUME TierInv, NEW k \in Names, NEW b \in Loaders, NEW ep \in Nat, b = "prefetch" => ep = epoch,
           NEW t \in {"L1", "L2"}, PutIn(t, Entry(k, b, ep))
    PROVE  AllGood(tiers', epoch)
<1> DEFINE e == Entry(k, b, ep)
<1>1. e \in TierEntries /\ (e.by = "prefetch" => e.since = epoch)
  BY DEF Entry, TierEntries
<1>2. PICK K \in Victims(t, tiers[t], e) : tiers' = [tiers EXCEPT ![t] = Added(@, e, K)]
  BY DEF PutIn
<1> HIDE DEF e
<1>3. AllGood([tiers EXCEPT ![t] = Added(@, e, K)], epoch)
  BY <1>1, PutGood DEF TierInv
<1>4. QED BY <1>2, <1>3

LEMMA PutKeepsTiers ==
    ASSUME TierInv, NEW k \in Names, NEW t \in {"L1", "L2"}, PutCall(k, t)
    PROVE  TierInv'
<1>1. calls' = calls + 1 /\ epoch' = epoch /\ inflight' = inflight /\ prefetching' = prefetching
  BY DEF PutCall, Call
<1>2. AllGood(tiers', epoch)
  BY PutInKeeps DEF PutCall, Loaders, TierInv
<1>3. QED BY <1>1, <1>2 DEF TierInv

\* Whoever takes a key out of the table makes its prefetch an orphan.
LEMMA OverKeeps ==
    ASSUME TierInv, NEW job \in inflight, Over(job)
    PROVE  JobsRight(inflight', prefetching', epoch)
<1> DEFINE jobs == inflight'
           table == prefetching'
           Now(i) == IF i.by = "prefetch" /\ i.key = job.key THEN [i EXCEPT !.by = "orphan"] ELSE i
<1>1. JobsRight(inflight, prefetching, epoch)
  BY DEF TierInv
<1>2. jobs = {Now(i) : i \in inflight \ {job}} /\ table = [k \in DOMAIN prefetching \ {job.key} |-> prefetching[k]]
  BY DEF Over
<1> HIDE DEF jobs, table, Now
<1>3. ASSUME NEW j \in jobs
      PROVE  j \in Jobs /\ (j.by = "prefetch" =>
                j.key \in DOMAIN table /\ table[j.key] = j.id /\ j.epoch = epoch)
  <2>1. PICK i \in inflight : j = Now(i)
    BY <1>2
  <2>2. i \in Jobs
    BY <1>1 DEF JobsRight
  <2>3. CASE i.by = "prefetch" /\ i.key = job.key
    <3>1. j = [i EXCEPT !.by = "orphan"]
      BY <2>1, <2>3 DEF Now
    <3>2. QED BY <2>2, <3>1 DEF Jobs
  <2>4. CASE ~(i.by = "prefetch" /\ i.key = job.key)
    <3>1. j = i
      BY <2>1, <2>4, Zenon DEF Now
    <3>2. QED BY <1>1, <1>2, <2>2, <2>4, <3>1 DEF JobsRight
  <2>5. QED BY <2>3, <2>4
<1>4. JobsRight(jobs, table, epoch)
  BY <1>3 DEF JobsRight
<1>5. QED BY <1>4 DEF jobs, table

\* A load that leaves the set leaves nothing wrong behind.
LEMMA LeaveKeeps ==
    ASSUME TierInv, NEW job, inflight' = inflight \ {job}
    PROVE  JobsRight(inflight', prefetching, epoch)
<1>1. JobsRight(inflight, prefetching, epoch)
  BY DEF TierInv
<1>2. QED BY <1>1 DEF JobsRight

LEMMA LoadOverKeepsTiers ==
    ASSUME TierInv, NEW job \in inflight, LoadOver(job)
    PROVE  TierInv'
<1>1. calls' = calls /\ epoch' = epoch /\ job.by # "cancelled"
  BY DEF LoadOver
<1>2. job \in Jobs /\ (job.by = "prefetch" => job.epoch = epoch)
  BY DEF TierInv, JobsRight
<1>3. job.key \in Names /\ job.by \in Loaders /\ job.epoch \in Nat
  BY <1>1, <1>2 DEF Jobs, Loaders
<1>4. AllGood(tiers', epoch)
  <2>1. CASE PutIn("L2", Entry(job.key, job.by, job.epoch))
    BY <1>2, <1>3, <2>1, PutInKeeps
  <2>2. CASE tiers' = tiers
    BY <2>2 DEF TierInv
  <2>3. QED BY <2>1, <2>2 DEF LoadOver
<1>5. JobsRight(inflight', prefetching', epoch)
  <2>1. CASE job.by = "get"
    <3>1. inflight' = inflight \ {job} /\ prefetching' = prefetching
      BY <2>1 DEF LoadOver
    <3>2. QED BY <3>1, LeaveKeeps
  <2>2. CASE job.by # "get"
    BY <2>2, OverKeeps DEF LoadOver
  <2>3. QED BY <2>1, <2>2
<1>6. QED BY <1>1, <1>4, <1>5 DEF TierInv

LEMMA LoadCancelledKeepsTiers ==
    ASSUME TierInv, NEW job \in inflight, LoadCancelled(job)
    PROVE  TierInv'
<1>1. calls' = calls /\ epoch' = epoch /\ tiers' = tiers
  BY DEF LoadCancelled
<1>2. JobsRight(inflight', prefetching', epoch)
  <2>1. CASE Over(job)
    BY <2>1, OverKeeps
  <2>2. CASE inflight' = inflight \ {job} /\ prefetching' = prefetching
    BY <2>2, LeaveKeeps
  <2>3. QED BY <2>1, <2>2 DEF LoadCancelled
<1>3. QED BY <1>1, <1>2 DEF TierInv

\* clear() cancels every prefetch in the table, and they all are in it.
LEMMA ClearKeepsTiers ==
    ASSUME TierInv, ClearTiers
    PROVE  TierInv'
<1> DEFINE ep == epoch + 1
           jobs == inflight'
           Now(i) == IF \E k \in DOMAIN prefetching : prefetching[k] = i.id /\ i.key = k
                     THEN [i EXCEPT !.by = "cancelled"] ELSE i
<1>1. calls' = calls + 1 /\ epoch' = ep /\ ep \in Nat /\ prefetching' = <<>>
  BY DEF ClearTiers, Call, TierInv
<1>2. DOMAIN tiers = {"L1", "L2"} /\ JobsRight(inflight, prefetching, epoch)
  BY DEF TierInv, AllGood
<1>3. AllGood(tiers', ep)
  <2>1. tiers' = [t \in {"L1", "L2"} |-> EmptyTier]
    BY <1>2 DEF ClearTiers
  <2>2. QED BY <2>1, EmptyTierGood
<1>4. jobs = {Now(i) : i \in inflight}
  BY DEF ClearTiers
<1> HIDE DEF jobs, Now, ep
<1>5. ASSUME NEW j \in jobs PROVE j \in Jobs /\ j.by # "prefetch"
  <2>1. PICK i \in inflight : j = Now(i)
    BY <1>4
  <2>2. i \in Jobs
    BY <1>2 DEF JobsRight
  <2>3. CASE \E k \in DOMAIN prefetching : prefetching[k] = i.id /\ i.key = k
    <3>1. j = [i EXCEPT !.by = "cancelled"]
      BY <2>1, <2>3 DEF Now
    <3>2. QED BY <2>2, <3>1 DEF Jobs
  <2>4. CASE ~\E k \in DOMAIN prefetching : prefetching[k] = i.id /\ i.key = k
    <3>1. j = i
      BY <2>1, <2>4, Zenon DEF Now
    <3>2. i.by # "prefetch"
      BY <1>2, <2>4 DEF JobsRight
    <3>3. QED BY <2>2, <3>1, <3>2
  <2>5. QED BY <2>3, <2>4
<1>6. JobsRight(jobs, prefetching', ep)
  BY <1>5 DEF JobsRight
<1>7. calls' \in Nat
  BY <1>1 DEF TierInv
<1>8. QED BY <1>1, <1>3, <1>6, <1>7 DEF TierInv, jobs

LEMMA TierSteps == TierInv /\ [TierNext]_tierVars => TierInv'
<1> SUFFICES ASSUME TierInv, [TierNext]_tierVars PROVE TierInv'
  OBVIOUS
<1>1. DOMAIN tiers = {"L1", "L2"}
  BY DEF TierInv, AllGood
<1>2. CASE UNCHANGED tierVars
  BY <1>2 DEF tierVars, TierInv
<1>3. ASSUME NEW k \in Names, GetTiered(k) \/ Warm(k) \/ \E t \in DOMAIN tiers : PutCall(k, t)
      PROVE  TierInv'
  BY <1>1, <1>3, GetKeepsTiers, WarmKeepsTiers, PutKeepsTiers
<1>4. ASSUME NEW job \in inflight, LoadOver(job) \/ LoadCancelled(job)
      PROVE  TierInv'
  BY <1>4, LoadOverKeepsTiers, LoadCancelledKeepsTiers
<1>5. QED BY <1>2, <1>3, <1>4, ClearKeepsTiers, Zenon DEF TierNext

\* The accounts of both tiers are right but for what was evicted while it was being
\* replaced, the tiers keep to their limits, and no value that a cancelled prefetch
\* loads gets back into a tier that clear() has emptied.
THEOREM TiersKeptExact == TierSpec => []TiersExact
<1>1. TierInv => TiersExact
  <2> SUFFICES ASSUME TierInv PROVE TiersExact
    OBVIOUS
  <2>1. DOMAIN tiers = {"L1", "L2"}
    BY DEF TierInv, AllGood
  <2>2. ASSUME NEW t \in {"L1", "L2"}
        PROVE  /\ Cardinality(KeysOf(tiers[t])) = Len(tiers[t].entries)
               /\ Len(tiers[t].entries) <= Limits[t].size
               /\ tiers[t].bytes = Weight(tiers[t].entries) - tiers[t].lost
               /\ tiers[t].lost = 0 /\ Len(tiers[t].entries) > 1 => tiers[t].bytes <= Limits[t].bytes
               /\ \A i \in DOMAIN tiers[t].entries : tiers[t].entries[i].by = "prefetch" =>
                     tiers[t].entries[i].since = epoch
    <3>1. Good(t, tiers[t], epoch)
      BY DEF TierInv, AllGood
    <3> DEFINE T == tiers[t]
    <3> HIDE DEF T
    <3>2. T \in Tiers /\ Distinct(T.entries)
      BY <3>1 DEF Good, TierSound, T
    <3>3. Listed(T.entries, TierEntries) /\ Cardinality(KeysOf(T)) = Len(T.entries)
      BY <3>2, TierKeys
    <3>4. DOMAIN T.entries = 1..Len(T.entries)
      BY <3>3, ListedKeys
    <3>5. QED BY <3>1, <3>3, <3>4 DEF Good, TierSound, TierFits, T
  <2>3. QED BY <2>1, <2>2 DEF TiersExact
<1>2. QED BY <1>1, TierStarts, TierSteps, PTL DEF TierSpec

-----------------------------------------------------------------------------
(* Lazy loading.  What a get may rely on between two of its steps is who    *)
(* holds the lock, which load the cell comes from and how many resets are   *)
(* over.                                                                    *)

Threads == Getters \cup {Resetter}

Clearing == at[Resetter] = "clear"
Holding == {"reread", "load", "finish", "blank"}
Gifts == {"nothing", "none", "value"}
Steps == {"idle", "test", "read", "lock"} \cup Holding

Types ==
    /\ kind \in Kinds /\ flag \in BOOLEAN
    /\ cell \in Int /\ cell >= Module /\ cell # Broken
    /\ at \in [Threads -> Steps \cup {"clear"}]
    /\ began \in [Getters -> Nat] /\ result \in [Getters -> Int]
    /\ loads \in Seq([since : Nat, gave : Gifts])
    /\ resets \in Nat

\* Whoever is in the locked part has the lock, and one thread has it.
Lock ==
    /\ \A p \in Getters : at[p] # "clear" /\ (at[p] \in Holding <=> lock = p)
    /\ at[Resetter] \in {"idle", "clear"} /\ (Clearing <=> lock = Resetter)

\* Loads begin in order; one that went well since the last reset is still there.
Order ==
    /\ \A n \in DOMAIN loads : loads[n].since <= resets
    /\ \A m, n \in DOMAIN loads :
          m < n => loads[m].since <= loads[n].since /\ (Settles(m) => loads[m].since < loads[n].since)
    /\ \A n \in DOMAIN loads : Settles(n) /\ loads[n].since = resets => Loaded \/ Clearing

\* The load under way is the last one, and no reset but cache_clear overtakes it.
Current ==
    \A p \in Getters :
        /\ at[p] \in {"load", "finish", "blank"} =>
              /\ Len(loads) > 0 /\ loads[Len(loads)].gave = "nothing"
              /\ kind # "memoize" => loads[Len(loads)].since = resets
        /\ at[p] = "load" => cell = Empty
        /\ at[p] = "blank" => cell = Empty /\ kind \in Blanks \ {"lazy_import"}
        /\ at[p] = "finish" /\ cell = Empty => kind = "memoize" /\ loads[Len(loads)].since < resets

\* What is in the cell was loaded after the last reset.
Cell ==
    /\ cell > 0 => cell \in DOMAIN loads /\ (kind # "memoize" => loads[cell].since = resets)
    /\ cell = Module => kind = "lazy_import"
    /\ Clearing => cell = Empty
    /\ kind \in Flagged /\ flag => cell # Empty \/ Clearing \/ Nulled
    /\ kind \in Flagged /\ ~flag => cell = Empty \/ \E p \in Getters : at[p] = "finish"

\* A thread that has passed the test finds the cell full, unless a reset came.
Passed ==
    \A p \in Getters :
        /\ began[p] <= resets
        /\ at[p] = "read" => cell # Empty \/ Clearing \/ resets > began[p] \/ Nulled
        /\ at[p] = "reread" => cell # Empty \/ resets > began[p] \/ Nulled

Results ==
    \A p \in Getters :
        /\ result[p] > 0 =>
              result[p] \in DOMAIN loads /\ (kind # "memoize" => loads[result[p]].since >= began[p])
        /\ result[p] = Broken => Clearing \/ resets > began[p] \/ Nulled
        /\ result[p] = Null => kind \in Blanks
        /\ result[p] = Module => kind = "lazy_import"

LazyInv == Types /\ Lock /\ Order /\ Current /\ Cell /\ Passed /\ Results

-----------------------------------------------------------------------------

LEMMA LazyStarts == ASSUME GettersAssumption PROVE LazyInit => LazyInv
<1> SUFFICES ASSUME LazyInit PROVE LazyInv
  OBVIOUS
<1>1. loads = <<>> /\ Len(loads) = 0 /\ DOMAIN loads = {} /\ loads \in Seq([since : Nat, gave : Gifts])
  BY EmptySeq DEF LazyInit
<1>2. kind \in Kinds /\ flag \in BOOLEAN /\ cell = 0 /\ resets = 0
  BY DEF LazyInit, Empty
<1>3. at \in [Threads -> Steps \cup {"clear"}] /\ began \in [Getters -> Nat] /\ result \in [Getters -> Int]
  BY DEF LazyInit, Threads, Steps, Empty
<1>4. Types
  BY <1>1, <1>2, <1>3 DEF Types, Module, Broken
<1>5. Lock
  BY DEF LazyInit, Lock, Threads, Holding, Clearing, GettersAssumption
<1>6. Order /\ Current /\ Cell /\ Passed /\ Results
  BY <1>1, SMT DEF LazyInit, Order, Current, Cell, Passed, Results, Threads, Empty, Module, Broken,
                   Clearing, Settles, Null
<1> QED
  BY <1>4, <1>5, <1>6 DEF LazyInv

LEMMA LoadTypes ==
    ASSUME Types
    PROVE  /\ DOMAIN loads = 1..Len(loads) /\ Len(loads) \in Nat
           /\ \A n \in DOMAIN loads : loads[n].since \in Nat /\ loads[n].gave \in Gifts
<1>1. loads \in Seq([since : Nat, gave : Gifts])
  BY DEF Types
<1>2. DOMAIN loads = 1..Len(loads) /\ Len(loads) \in Nat
  BY <1>1, LenProperties
<1>3. \A n \in DOMAIN loads : loads[n] \in [since : Nat, gave : Gifts]
  BY <1>1, <1>2, ElementOfSeq
<1> QED
  BY <1>2, <1>3

LEMMA GetKeeps ==
    ASSUME GettersAssumption, LazyInv, NEW p \in Getters, BeginGet(p)
    PROVE  LazyInv'
<1> p \in Threads /\ p # Resetter /\ p # "free" /\ Resetter \in Threads /\ Resetter # "free"
  BY DEF GettersAssumption, Threads
<1> USE DEF LazyInv, Empty, Broken, Module, Raised, Null, Goto, EndGet
<1>0. Nulled' = Nulled
  BY DEF BeginGet, Nulled
<1>1. Types'
  BY DEF BeginGet, Types, Loaded, Steps, Holding
<1>2. Lock'
  BY DEF BeginGet, Types, Lock, Loaded, Holding, Clearing, Steps
<1>3. Order'
  BY DEF BeginGet, Types, Order, Lock, Loaded, Clearing, Holding, Settles
<1>4. Current'
  BY DEF BeginGet, Types, Current, Lock, Order, Loaded, Holding, Clearing
<1>5. Cell'
  BY <1>0 DEF BeginGet, Types, Cell, Lock, Current, Loaded, Holding, Clearing
<1>6. Passed'
  BY <1>0 DEF BeginGet, Types, Passed, Cell, Lock, Loaded, Flagged, Holding, Clearing
<1>7. Results'
  BY <1>0 DEF BeginGet, Types, Results, Passed, Cell, Order, Current, Lock, Loaded, Holding, Clearing
<1> QED
  BY <1>1, <1>2, <1>3, <1>4, <1>5, <1>6, <1>7

LEMMA TestKeeps ==
    ASSUME GettersAssumption, LazyInv, NEW p \in Getters, Test(p)
    PROVE  LazyInv'
<1> p \in Threads /\ p # Resetter /\ p # "free" /\ Resetter \in Threads /\ Resetter # "free"
  BY DEF GettersAssumption, Threads
<1> USE DEF LazyInv, Empty, Broken, Module, Raised, Null, Goto, EndGet
<1>0. Nulled' = Nulled
  BY DEF Test, Nulled
<1>1. Types'
  BY DEF Test, Types, Loaded, Steps, Holding
<1>2. Lock'
  BY DEF Test, Types, Lock, Loaded, Holding, Clearing, Steps
<1>3. Order'
  BY DEF Test, Types, Order, Lock, Loaded, Clearing, Holding, Settles
<1>4. Current'
  BY DEF Test, Types, Current, Lock, Order, Loaded, Holding, Clearing
<1>5. Cell'
  BY <1>0 DEF Test, Types, Cell, Lock, Current, Loaded, Holding, Clearing
<1>6. Passed'
  BY <1>0 DEF Test, Types, Passed, Cell, Lock, Loaded, Flagged, Holding, Clearing
<1>7. Results'
  BY <1>0 DEF Test, Types, Results, Passed, Cell, Order, Current, Lock, Loaded, Holding, Clearing
<1> QED
  BY <1>1, <1>2, <1>3, <1>4, <1>5, <1>6, <1>7

LEMMA ReadKeeps ==
    ASSUME GettersAssumption, LazyInv, NEW p \in Getters, Read(p)
    PROVE  LazyInv'
<1> p \in Threads /\ p # Resetter /\ p # "free" /\ Resetter \in Threads /\ Resetter # "free"
  BY DEF GettersAssumption, Threads
<1> USE DEF LazyInv, Empty, Broken, Module, Raised, Null, Goto, EndGet
<1>0. Nulled' = Nulled
  BY DEF Read, Nulled
<1>1. Types'
  BY DEF Read, Types, Loaded, Steps, Holding
<1>2. Lock'
  BY DEF Read, Types, Lock, Loaded, Holding, Clearing, Steps
<1>3. Order'
  BY DEF Read, Types, Order, Lock, Loaded, Clearing, Holding, Settles
<1>4. Current'
  BY DEF Read, Types, Current, Lock, Order, Loaded, Holding, Clearing
<1>5. Cell'
  BY <1>0 DEF Read, Types, Cell, Lock, Current, Loaded, Holding, Clearing
<1>6. Passed'
  BY <1>0 DEF Read, Types, Passed, Cell, Lock, Loaded, Flagged, Holding, Clearing
<1>7. Results'
  BY <1>0 DEF Read, Types, Results, Passed, Cell, Order, Current, Lock, Loaded, Holding, Clearing
<1> QED
  BY <1>1, <1>2, <1>3, <1>4, <1>5, <1>6, <1>7

LEMMA ReadLockedKeeps ==
    ASSUME GettersAssumption, LazyInv, NEW p \in Getters, ReadLocked(p)
    PROVE  LazyInv'
<1> p \in Threads /\ p # Resetter /\ p # "free" /\ Resetter \in Threads /\ Resetter # "free"
  BY DEF GettersAssumption, Threads
<1> USE DEF LazyInv, Empty, Broken, Module, Raised, Null, Goto, EndGet
<1>0. Nulled' = Nulled
  BY DEF ReadLocked, Nulled
<1>1. Types'
  BY DEF ReadLocked, Types, Loaded, Steps, Holding
<1>2. Lock'
  <2>1. \A q \in Getters : at'[q] # "clear" /\ (at'[q] \in Holding <=> lock' = q)
    BY DEF ReadLocked, Types, Lock, Holding, GettersAssumption, Threads
  <2>2. at'[Resetter] \in {"idle", "clear"} /\ (Clearing' <=> lock' = Resetter)
    BY DEF ReadLocked, Types, Lock, Clearing, Holding
  <2> QED
    BY <2>1, <2>2 DEF Lock
<1>3. Order'
  BY DEF ReadLocked, Types, Order, Lock, Loaded, Clearing, Holding, Settles
<1>4. Current'
  BY DEF ReadLocked, Types, Current, Lock, Order, Loaded, Holding, Clearing
<1>5. Cell'
  BY <1>0 DEF ReadLocked, Types, Cell, Lock, Current, Loaded, Holding, Clearing
<1>6. Passed'
  BY <1>0 DEF ReadLocked, Types, Passed, Cell, Lock, Loaded, Flagged, Holding, Clearing
<1>7. Results'
  BY <1>0 DEF ReadLocked, Types, Results, Passed, Cell, Order, Current, Lock, Loaded, Holding, Clearing
<1> QED
  BY <1>1, <1>2, <1>3, <1>4, <1>5, <1>6, <1>7

LEMMA FindsLoaded ==
    ASSUME GettersAssumption, LazyInv, NEW p \in Getters,
           at[p] = "lock" /\ lock = "free" /\ Loaded,
           lock' = p /\ at' = [at EXCEPT ![p] = "reread"],
           UNCHANGED <<kind, flag, cell, began, result, loads, resets>>
    PROVE  LazyInv'
<1> p \in Threads /\ p # Resetter /\ p # "free" /\ Resetter \in Threads /\ Resetter # "free"
  BY DEF GettersAssumption, Threads
<1> USE DEF LazyInv, Empty, Broken, Module, Raised, Null
<1>0. Nulled' = Nulled
  BY DEF Nulled
<1>1. ~Clearing /\ (cell # Empty \/ Nulled)
  BY DEF Types, Lock, Cell, Clearing, Loaded
<1>2. Types'
  BY <1>1 DEF Types, Loaded, Steps, Holding
<1>3. Lock'
  <2>1. \A q \in Getters : at'[q] # "clear" /\ (at'[q] \in Holding <=> lock' = q)
    BY <1>1 DEF Types, Lock, Holding, GettersAssumption, Threads
  <2>2. at'[Resetter] \in {"idle", "clear"} /\ (Clearing' <=> lock' = Resetter)
    BY <1>1 DEF Types, Lock, Clearing, Holding
  <2> QED
    BY <2>1, <2>2 DEF Lock
<1>4. Order'
  BY <1>1 DEF Types, Order, Lock, Loaded, Clearing, Holding, Settles
<1>5. Current'
  BY <1>1 DEF Types, Current, Lock, Order, Loaded, Holding, Clearing
<1>6. Cell'
  BY <1>0, <1>1 DEF Types, Cell, Lock, Current, Loaded, Holding, Clearing
<1>7. Passed'
  BY <1>0, <1>1 DEF Types, Passed, Cell, Lock, Loaded, Flagged, Holding, Clearing
<1>8. Results'
  BY <1>0, <1>1 DEF Types, Results, Passed, Cell, Order, Current, Lock, Loaded, Holding, Clearing
<1> QED
  BY <1>2, <1>3, <1>4, <1>5, <1>6, <1>7, <1>8

LEMMA BeginsLoad ==
    ASSUME GettersAssumption, LazyInv, NEW p \in Getters,
           at[p] = "lock" /\ lock = "free" /\ ~Loaded,
           lock' = p /\ at' = [at EXCEPT ![p] = "load"],
           loads' = Append(loads, [since |-> resets, gave |-> "nothing"]),
           UNCHANGED <<kind, flag, cell, began, result, resets>>
    PROVE  LazyInv'
<1> p \in Threads /\ p # Resetter /\ p # "free" /\ Resetter \in Threads /\ Resetter # "free"
  BY DEF GettersAssumption, Threads
<1> USE DEF LazyInv, Empty, Broken, Module, Raised, Null
<1>1. DOMAIN loads = 1..Len(loads) /\ Len(loads) \in Nat /\ \A n \in DOMAIN loads : loads[n].since \in Nat
  BY LoadTypes
<1>2. /\ loads' \in Seq([since : Nat, gave : Gifts])
      /\ Len(loads') = Len(loads) + 1 /\ DOMAIN loads' = 1..(Len(loads) + 1)
      /\ loads'[Len(loads) + 1] = [since |-> resets, gave |-> "nothing"]
      /\ \A n \in DOMAIN loads : loads'[n] = loads[n]
  BY <1>1, AppendProperties, LenProperties DEF Types, Gifts
<1>0. Nulled' = Nulled
  <2>1. ASSUME NEW n \in DOMAIN loads', loads'[n].gave = "none" PROVE n \in DOMAIN loads /\ loads'[n] = loads[n]
    BY <1>1, <1>2, <2>1
  <2>2. \A n \in DOMAIN loads : n \in DOMAIN loads' /\ loads'[n] = loads[n]
    BY <1>1, <1>2
  <2> QED
    BY <2>1, <2>2 DEF Nulled
<1>3. ~Clearing /\ ~Clearing' /\ ~Loaded' /\ cell = Empty /\ \A q \in Getters : at[q] \notin Holding
  <2>1. ~Clearing /\ \A q \in Getters : at[q] \notin Holding
    BY DEF Lock, GettersAssumption, Threads
  <2>2. ~Clearing'
    BY <2>1 DEF Types, Clearing
  <2>3. ~Loaded'
    BY DEF Loaded
  <2>4. cell = Empty
    BY <2>1 DEF Loaded, Cell, Holding, Types
  <2> QED
    BY <2>1, <2>2, <2>3, <2>4
<1>4. Types'
  BY <1>2 DEF Types, Steps, Holding
<1>5. Lock'
  BY <1>3 DEF Types, Lock, Holding, Clearing, Steps
<1>6. Order'
  BY <1>3, <1>1, <1>2 DEF Types, Order, Lock, Loaded, Clearing, Holding, Settles
<1>7. Current'
  BY <1>3, <1>1, <1>2 DEF Types, Current, Lock, Order, Loaded, Holding, Clearing
<1>8. Cell'
  BY <1>0, <1>3, <1>1, <1>2 DEF Types, Cell, Lock, Current, Loaded, Holding, Clearing
<1>9. Passed'
  BY <1>0, <1>3, <1>1, <1>2 DEF Types, Passed, Cell, Lock, Loaded, Flagged, Holding, Clearing
<1>10. Results'
  BY <1>0, <1>3, <1>1, <1>2 DEF Types, Results, Passed, Cell, Order, Current, Lock, Loaded, Holding, Clearing
<1> QED
  BY <1>4, <1>5, <1>6, <1>7, <1>8, <1>9, <1>10

LEMMA TestLockedKeeps ==
    ASSUME GettersAssumption, LazyInv, NEW p \in Getters, TestLocked(p)
    PROVE  LazyInv'
  BY FindsLoaded, BeginsLoad DEF TestLocked, Goto

LEMMA Loads ==
    ASSUME GettersAssumption, LazyInv, NEW p \in Getters,
           at[p] = "load",
           cell' = IF kind = "lazy_import" THEN Module ELSE Len(loads),
           at' = [at EXCEPT ![p] = "finish"],
           UNCHANGED <<kind, flag, lock, began, result, loads, resets>>
    PROVE  LazyInv'
<1> p \in Threads /\ p # Resetter /\ p # "free" /\ Resetter \in Threads /\ Resetter # "free"
  BY DEF GettersAssumption, Threads
<1> USE DEF LazyInv, Empty, Broken, Module, Raised, Null
<1>0. Nulled' = Nulled
  BY DEF Nulled
<1>1. DOMAIN loads = 1..Len(loads) /\ Len(loads) \in Nat /\ \A n \in DOMAIN loads : loads[n].since \in Nat
  BY LoadTypes
<1>2. /\ ~Clearing /\ ~Clearing' /\ cell' # Empty /\ \A q \in Getters : q # p => at[q] \notin Holding
      /\ Len(loads) > 0 /\ (kind # "memoize" => loads[Len(loads)].since = resets)
  BY <1>1 DEF Lock, Types, Clearing, Current, Holding
<1>3. Types'
  BY <1>1, <1>2 DEF Types, Loaded, Steps, Holding
<1>4. Lock'
  BY <1>1, <1>2 DEF Types, Lock, Loaded, Holding, Clearing, Steps
<1>5. Order'
  BY <1>1, <1>2 DEF Types, Order, Lock, Loaded, Clearing, Holding, Settles
<1>6. Current'
  BY <1>1, <1>2 DEF Types, Current, Lock, Order, Loaded, Holding, Clearing
<1>7. Cell'
  BY <1>0, <1>1, <1>2 DEF Types, Cell, Lock, Current, Loaded, Holding, Clearing
<1>8. Passed'
  BY <1>0, <1>1, <1>2 DEF Types, Passed, Cell, Lock, Loaded, Flagged, Holding, Clearing
<1>9. Results'
  BY <1>0, <1>1, <1>2 DEF Types, Results, Passed, Cell, Order, Current, Lock, Loaded, Holding, Clearing
<1> QED
  BY <1>3, <1>4, <1>5, <1>6, <1>7, <1>8, <1>9

LEMMA LoadRaises ==
    ASSUME GettersAssumption, LazyInv, NEW p \in Getters,
           at[p] = "load",
           lock' = "free" /\ at' = [at EXCEPT ![p] = "idle"],
           result' = [result EXCEPT ![p] = Raised],
           UNCHANGED <<kind, flag, cell, began, loads, resets>>
    PROVE  LazyInv'
<1> p \in Threads /\ p # Resetter /\ p # "free" /\ Resetter \in Threads /\ Resetter # "free"
  BY DEF GettersAssumption, Threads
<1> USE DEF LazyInv, Empty, Broken, Module, Raised, Null
<1>0. Nulled' = Nulled
  BY DEF Nulled
<1>1. ~Clearing /\ ~Clearing' /\ \A q \in Getters : q # p => at[q] \notin Holding
  BY DEF Lock, Types, Clearing, Holding
<1>2. Types'
  BY <1>1 DEF Types, Loaded, Steps, Holding
<1>3. Lock'
  <2>1. \A q \in Getters : at'[q] # "clear" /\ (at'[q] \in Holding <=> lock' = q)
    BY <1>1 DEF Types, Lock, Holding, GettersAssumption, Threads
  <2>2. at'[Resetter] \in {"idle", "clear"} /\ (Clearing' <=> lock' = Resetter)
    BY <1>1 DEF Types, Lock, Clearing, Holding
  <2> QED
    BY <2>1, <2>2 DEF Lock
<1>4. Order'
  BY <1>1 DEF Types, Order, Lock, Loaded, Clearing, Holding, Settles
<1>5. Current'
  BY <1>1 DEF Types, Current, Lock, Order, Loaded, Holding, Clearing
<1>6. Cell'
  BY <1>0, <1>1 DEF Types, Cell, Lock, Current, Loaded, Holding, Clearing
<1>7. Passed'
  BY <1>0, <1>1 DEF Types, Passed, Cell, Lock, Loaded, Flagged, Holding, Clearing
<1>8. Results'
  BY <1>0, <1>1 DEF Types, Results, Passed, Cell, Order, Current, Lock, Loaded, Holding, Clearing
<1> QED
  BY <1>2, <1>3, <1>4, <1>5, <1>6, <1>7, <1>8

\* The factory gives None.
LEMMA LoadsNone ==
    ASSUME GettersAssumption, LazyInv, NEW p \in Getters,
           at[p] = "load",
           kind \in Blanks \ {"lazy_import"}, cell' = Empty,
           at' = [at EXCEPT ![p] = "blank"],
           UNCHANGED <<kind, flag, lock, began, result, loads, resets>>
    PROVE  LazyInv'
<1> p \in Threads /\ p # Resetter /\ p # "free" /\ Resetter \in Threads /\ Resetter # "free"
  BY DEF GettersAssumption, Threads
<1> USE DEF LazyInv, Empty, Broken, Module, Raised, Null
<1>0. Nulled' = Nulled
  BY DEF Nulled
<1>1. DOMAIN loads = 1..Len(loads) /\ Len(loads) \in Nat /\ \A n \in DOMAIN loads : loads[n].since \in Nat
  BY LoadTypes
<1>2. /\ ~Clearing /\ ~Clearing' /\ cell' = cell /\ \A q \in Getters : q # p => at[q] \notin Holding
      /\ Len(loads) > 0 /\ (kind # "memoize" => loads[Len(loads)].since = resets)
  BY <1>1 DEF Lock, Types, Clearing, Current, Holding
<1>3. Types'
  BY <1>1, <1>2 DEF Types, Loaded, Steps, Holding
<1>4. Lock'
  BY <1>1, <1>2 DEF Types, Lock, Loaded, Holding, Clearing, Steps
<1>5. Order'
  BY <1>1, <1>2 DEF Types, Order, Lock, Loaded, Clearing, Holding, Settles
<1>6. Current'
  BY <1>1, <1>2 DEF Types, Current, Lock, Order, Loaded, Holding, Clearing
<1>7. Cell'
  BY <1>0, <1>1, <1>2 DEF Types, Cell, Lock, Current, Loaded, Holding, Clearing
<1>8. Passed'
  BY <1>0, <1>1, <1>2 DEF Types, Passed, Cell, Lock, Loaded, Flagged, Holding, Clearing
<1>9. Results'
  BY <1>0, <1>1, <1>2 DEF Types, Results, Passed, Cell, Order, Current, Lock, Loaded, Holding, Clearing
<1> QED
  BY <1>3, <1>4, <1>5, <1>6, <1>7, <1>8, <1>9

\* The module lacks the attribute.
LEMMA Lacks ==
    ASSUME GettersAssumption, LazyInv, NEW p \in Getters,
           at[p] = "finish" /\ kind = "lazy_import",
           lock' = "free" /\ at' = [at EXCEPT ![p] = "idle"],
           result' = [result EXCEPT ![p] = Raised],
           UNCHANGED <<kind, flag, cell, began, loads, resets>>
    PROVE  LazyInv'
<1> p \in Threads /\ p # Resetter /\ p # "free" /\ Resetter \in Threads /\ Resetter # "free"
  BY DEF GettersAssumption, Threads
<1> USE DEF LazyInv, Empty, Broken, Module, Raised, Null
<1>0. Nulled' = Nulled
  BY DEF Nulled
<1>1. kind \notin Flagged /\ ~Clearing /\ ~Clearing' /\ \A q \in Getters : q # p => at[q] \notin Holding
  BY DEF Lock, Types, Clearing, Holding, Flagged
<1>2. Types'
  BY <1>1 DEF Types, Loaded, Steps, Holding
<1>3. Lock'
  <2>1. \A q \in Getters : at'[q] # "clear" /\ (at'[q] \in Holding <=> lock' = q)
    BY <1>1 DEF Types, Lock, Holding, GettersAssumption, Threads
  <2>2. at'[Resetter] \in {"idle", "clear"} /\ (Clearing' <=> lock' = Resetter)
    BY <1>1 DEF Types, Lock, Clearing, Holding
  <2> QED
    BY <2>1, <2>2 DEF Lock
<1>4. Order'
  BY <1>1 DEF Types, Order, Lock, Loaded, Clearing, Holding, Settles
<1>5. Current'
  BY <1>1 DEF Types, Current, Lock, Order, Loaded, Holding, Clearing
<1>6. Cell'
  BY <1>0, <1>1 DEF Types, Cell, Lock, Current, Loaded, Holding, Clearing
<1>7. Passed'
  BY <1>0, <1>1 DEF Types, Passed, Cell, Lock, Loaded, Flagged, Holding, Clearing
<1>8. Results'
  BY <1>0, <1>1 DEF Types, Results, Passed, Cell, Order, Current, Lock, Loaded, Holding, Clearing
<1> QED
  BY <1>2, <1>3, <1>4, <1>5, <1>6, <1>7, <1>8

LEMMA LoadKeeps ==
    ASSUME GettersAssumption, LazyInv, NEW p \in Getters, Load(p)
    PROVE  LazyInv'
<1>1. at[p] = "load" /\ UNCHANGED <<kind, flag, began, loads, resets>>
  BY DEF Load
<1>2. CASE /\ cell' = IF kind = "lazy_import" THEN Module ELSE Len(loads)
           /\ Goto(p, "finish") /\ UNCHANGED <<lock, result>>
  BY <1>1, <1>2, Loads DEF Goto
<1>3. CASE /\ kind \in Blanks \ {"lazy_import"}
           /\ cell' = Empty /\ Goto(p, "blank") /\ UNCHANGED <<lock, result>>
  BY <1>1, <1>3, LoadsNone DEF Goto
<1>4. CASE EndGet(p, Raised) /\ lock' = "free" /\ UNCHANGED cell
  BY <1>1, <1>4, LoadRaises DEF Goto, EndGet
<1> QED
  BY <1>2, <1>3, <1>4 DEF Load

LEMMA LacksKeeps ==
    ASSUME GettersAssumption, LazyInv, NEW p \in Getters, LacksAttribute(p)
    PROVE  LazyInv'
  BY Lacks DEF LacksAttribute, Goto, EndGet

\* What was loaded is stored, a value or None.
LEMMA Finishes ==
    ASSUME GettersAssumption, LazyInv, NEW p \in Getters, NEW what \in {"value", "none"},
           at[p] \in {"finish", "blank"},
           what = "value" => at[p] = "finish",
           what = "none" => at[p] = "blank" \/ kind = "lazy_import",
           flag' = (kind \in Flagged), lock' = "free",
           cell' = IF what = "none" THEN Empty ELSE IF kind = "lazy_import" THEN Len(loads) ELSE cell,
           at' = [at EXCEPT ![p] = "idle"],
           result' = [result EXCEPT ![p] = IF what = "none" THEN Null ELSE Len(loads)],
           Gives(what),
           UNCHANGED <<kind, began, resets>>
    PROVE  LazyInv'
<1> p \in Threads /\ p # Resetter /\ p # "free" /\ Resetter \in Threads /\ Resetter # "free"
  BY DEF GettersAssumption, Threads
<1> USE DEF LazyInv, Empty, Broken, Module, Raised, Null
<1>1. DOMAIN loads = 1..Len(loads) /\ Len(loads) \in Nat /\ \A n \in DOMAIN loads : loads[n].since \in Nat
  BY LoadTypes
<1>2. /\ ~Clearing /\ \A q \in Getters : q # p => at[q] \notin Holding
      /\ Len(loads) > 0 /\ (kind # "memoize" => loads[Len(loads)].since = resets)
      /\ loads[Len(loads)].gave = "nothing"
  BY DEF Lock, Types, Clearing, Current, Holding
<1>3. what = "none" => kind \in Blanks /\ kind # "memoize"
  BY DEF Current, Blanks, Flagged
<1>4. /\ loads' \in Seq([since : Nat, gave : Gifts])
      /\ Len(loads') = Len(loads) /\ DOMAIN loads' = DOMAIN loads
      /\ \A n \in DOMAIN loads : loads'[n].since = loads[n].since /\ (n # Len(loads) => loads'[n].gave = loads[n].gave)
      /\ loads'[Len(loads)].gave = what
  <2> DEFINE last == [loads[Len(loads)] EXCEPT !.gave = what]
  <2>1. loads \in Seq([since : Nat, gave : Gifts]) /\ Len(loads) \in 1..Len(loads)
    BY <1>1, <1>2 DEF Types
  <2>2. loads[Len(loads)] \in [since : Nat, gave : Gifts]
    BY <2>1, ElementOfSeq
  <2>3. last \in [since : Nat, gave : Gifts] /\ last.since = loads[Len(loads)].since /\ last.gave = what
    BY <2>2 DEF Gifts
  <2>4. loads' = [loads EXCEPT ![Len(loads)] = last]
    BY DEF Gives
  <2> HIDE DEF last
  <2>5. \A n \in DOMAIN loads : loads'[n] = IF n = Len(loads) THEN last ELSE loads[n]
    BY <1>1, <2>4
  <2>6. loads' \in Seq([since : Nat, gave : Gifts]) /\ Len(loads') = Len(loads)
    BY <2>1, <2>3, <2>4, ExceptSeq
  <2>7. DOMAIN loads' = DOMAIN loads
    BY <2>4
  <2>8. \A n \in DOMAIN loads : loads'[n].since = loads[n].since /\ (n # Len(loads) => loads'[n].gave = loads[n].gave)
    BY <2>3, <2>5
  <2>9. loads'[Len(loads)].gave = what
    BY <1>1, <2>1, <2>3, <2>5
  <2> QED
    BY <2>6, <2>7, <2>8, <2>9
<1>5. ~Clearing' /\ (what = "value" /\ cell' = Empty => kind = "memoize" /\ loads[Len(loads)].since < resets)
  BY <1>1, <1>2 DEF Types, Clearing, Current
<1>6. /\ Nulled => Nulled'
      /\ what = "none" /\ kind # "LazyProvider" => Nulled'
  <2>1. \A n \in DOMAIN loads : loads[n].gave = "none" => loads'[n].gave = "none"
    BY <1>2, <1>4
  <2>2. what = "none" => loads[Len(loads)].since = resets
    BY <1>2, <1>3
  <2>3. Len(loads) \in DOMAIN loads
    BY <1>1, <1>2
  <2>4. Nulled => Nulled'
    BY <1>4, <2>1 DEF Nulled
  <2>5. what = "none" /\ kind # "LazyProvider" => Nulled'
    BY <1>4, <2>2, <2>3 DEF Nulled
  <2> QED
    BY <2>4, <2>5
<1>7. Types'
  BY <1>1, <1>2, <1>4, <1>5 DEF Types, Loaded, Steps, Holding
<1>8. Lock'
  <2>1. \A q \in Getters : at'[q] # "clear" /\ (at'[q] \in Holding <=> lock' = q)
    BY <1>2, <1>5 DEF Types, Lock, Holding, GettersAssumption, Threads
  <2>2. at'[Resetter] \in {"idle", "clear"} /\ (Clearing' <=> lock' = Resetter)
    BY <1>2, <1>5 DEF Types, Lock, Clearing, Holding
  <2> QED
    BY <2>1, <2>2 DEF Lock
<1>9. Order'
  <2>1. kind \in Flagged => Loaded'
    BY DEF Loaded
  <2>2. \A m, n \in DOMAIN loads : m < n =>
           loads[m].since <= loads[n].since /\ (Settles(m) => loads[m].since < loads[n].since)
    BY DEF Order
  <2>3. ASSUME NEW n \in DOMAIN loads, Settles(n)', loads[n].since = resets, kind \notin Flagged PROVE Loaded'
    <3>1. n = Len(loads) \/ n < Len(loads)
      BY <1>1
    <3>2. CASE what = "value"
      <4>1. cell' # Empty
        BY <1>1, <1>2, <1>5, <2>2, <2>3, <3>1, <3>2 DEF Types
      <4> QED
        BY <2>3, <4>1 DEF Loaded
    <3>3. CASE what = "none"
      <4>1. loads[Len(loads)].since = resets
        BY <1>2, <1>3, <3>3
      <4>2. n < Len(loads)
        BY <1>4, <2>3, <3>1, <3>3 DEF Settles
      <4>3. Settles(n)
        BY <1>1, <1>4, <2>3, <4>2 DEF Settles
      <4>4. loads[n].since < loads[Len(loads)].since
        BY <1>1, <1>2, <2>2, <4>2, <4>3
      <4> QED
        BY <1>1, <2>3, <4>1, <4>4
    <3> QED
      BY <3>2, <3>3
  <2>4. \A n \in DOMAIN loads' : loads'[n].since <= resets'
    BY <1>4 DEF Order
  <2>5. ASSUME NEW m \in DOMAIN loads, NEW n \in DOMAIN loads, m < n
        PROVE  loads'[m].since <= loads'[n].since /\ (Settles(m)' => loads'[m].since < loads'[n].since)
    <3>1. m # Len(loads)
      BY <1>1, <2>5
    <3>2. Settles(m)' => Settles(m)
      BY <1>4, <3>1 DEF Settles
    <3> QED
      BY <1>4, <2>2, <2>5, <3>2
  <2>6. ASSUME NEW n \in DOMAIN loads', Settles(n)', loads'[n].since = resets' PROVE Loaded'
    <3>1. n \in DOMAIN loads /\ loads[n].since = resets
      BY <1>4, <2>6
    <3> QED
      BY <2>1, <2>3, <2>6, <3>1
  <2> QED
    BY <1>4, <2>4, <2>5, <2>6 DEF Order
<1>10. Current'
  BY <1>1, <1>2, <1>4, <1>5 DEF Types, Current, Lock, Order, Loaded, Holding, Clearing
<1>11. Cell'
  <2>1. cell' > 0 => cell' \in DOMAIN loads /\ (kind # "memoize" => loads[cell'].since = resets)
    BY <1>1, <1>2 DEF Cell
  <2>2. cell' = Module => kind = "lazy_import"
    BY <1>1 DEF Cell
  <2>3. kind \in Flagged => cell' # Empty \/ Nulled'
    BY <1>5, <1>6 DEF Flagged
  <2> QED
    BY <1>1, <1>4, <1>5, <2>1, <2>2, <2>3 DEF Cell
<1>12. Passed'
  <2> SUFFICES ASSUME NEW q \in Getters
               PROVE  /\ began'[q] <= resets'
                      /\ at'[q] = "read" => cell' # Empty \/ Clearing' \/ resets' > began'[q] \/ Nulled'
                      /\ at'[q] = "reread" => cell' # Empty \/ resets' > began'[q] \/ Nulled'
    BY DEF Passed
  <2>1. began[q] <= resets
    BY DEF Passed
  <2>2. at'[q] # "reread"
    BY <1>2 DEF Types, Holding
  <2>3. ASSUME at'[q] = "read" PROVE cell' # Empty \/ Clearing' \/ resets' > began'[q] \/ Nulled'
    <3>1. at[q] = "read"
      BY <2>3 DEF Types
    <3>2. cell # Empty \/ resets > began[q] \/ Nulled
      BY <1>2, <3>1 DEF Passed
    <3>3. cell # Empty => cell' # Empty \/ Nulled'
      BY <1>1, <1>2, <1>6 DEF Current
    <3> QED
      BY <1>6, <3>2, <3>3
  <2> QED
    BY <2>1, <2>2, <2>3
<1>13. Results'
  <2> SUFFICES ASSUME NEW q \in Getters
               PROVE  (/\ result[q] > 0 => result[q] \in DOMAIN loads
                                            /\ (kind # "memoize" => loads[result[q]].since >= began[q])
                       /\ result[q] = Broken => Clearing \/ resets > began[q] \/ Nulled
                       /\ result[q] = Null => kind \in Blanks
                       /\ result[q] = Module => kind = "lazy_import")'
    BY DEF Results
  <2>1. CASE q = p
    <3>1. result'[p] = IF what = "none" THEN Null ELSE Len(loads)
      BY DEF Types
    <3>2. kind # "memoize" => loads[Len(loads)].since >= began[p]
      BY <1>1, <1>2 DEF Passed, Types
    <3> QED
      BY <1>1, <1>2, <1>3, <1>4, <2>1, <3>1, <3>2
  <2>2. CASE q # p
    <3>1. result'[q] = result[q]
      BY <2>2 DEF Types
    <3>2. result[q] > 0 => result[q] \in DOMAIN loads /\ loads'[result[q]].since = loads[result[q]].since
      BY <1>4 DEF Results
    <3> QED
      BY <1>2, <1>4, <1>6, <3>1, <3>2 DEF Results
  <2> QED
    BY <2>1, <2>2
<1> QED
  BY <1>7, <1>8, <1>9, <1>10, <1>11, <1>12, <1>13

LEMMA FinishKeeps ==
    ASSUME GettersAssumption, LazyInv, NEW p \in Getters, FinishLoad(p)
    PROVE  LazyInv'
  BY Finishes DEF FinishLoad, EndGet, Goto

LEMMA NoneKeeps ==
    ASSUME GettersAssumption, LazyInv, NEW p \in Getters, FinishNone(p)
    PROVE  LazyInv'
  BY Finishes DEF FinishNone, EndGet, Goto

LEMMA ResetKeeps ==
    ASSUME GettersAssumption, LazyInv, BeginReset
    PROVE  LazyInv'
<1> Resetter \in Threads /\ Resetter # "free" /\ \A p \in Getters : p # Resetter /\ p \in Threads /\ p # "free"
  BY DEF GettersAssumption, Threads
<1> USE DEF LazyInv, Empty, Broken, Module, Raised, Null, Goto, EndGet
<1>1. DOMAIN loads = 1..Len(loads) /\ Len(loads) \in Nat /\ \A n \in DOMAIN loads : loads[n].since \in Nat
  BY LoadTypes
<1>2. kind \notin Forever /\ cell' = Empty /\ UNCHANGED <<kind, flag, began, result, loads>>
  BY DEF BeginReset
<1>3. \/ kind = "memoize" /\ resets' = resets + 1 /\ UNCHANGED <<lock, at>>
      \/ /\ kind # "memoize" /\ lock = "free" /\ UNCHANGED resets
         /\ lock' = Resetter /\ at' = [at EXCEPT ![Resetter] = "clear"]
  BY DEF BeginReset
<1>4. Types'
  BY DEF BeginReset, Types, Loaded, Steps, Holding
<1>5. Lock'
  BY DEF BeginReset, Types, Lock, Loaded, Holding, Clearing, Steps
<1>6. Order'
  <2>1. CASE kind = "memoize"
    <3>1. resets' = resets + 1
      BY <1>3, <2>1
    <3>2. \A n \in DOMAIN loads : loads[n].since <= resets
      BY DEF Order
    <3>3. \A n \in DOMAIN loads' : loads'[n].since <= resets' /\ loads'[n].since # resets'
      BY <1>1, <1>2, <3>1, <3>2 DEF Types
    <3> QED
      BY <1>2, <3>3 DEF Order, Settles
  <2>2. CASE kind # "memoize"
    <3>1. Clearing' /\ resets' = resets
      BY <1>3, <2>2 DEF Types, Clearing
    <3> QED
      BY <1>2, <3>1 DEF Order, Settles
  <2> QED
    BY <2>1, <2>2
<1>7. Current'
  <2>1. CASE kind = "memoize"
    BY <1>3, <1>1, <1>2, <2>1 DEF Current, Order, Types, Blanks, Flagged
  <2>2. CASE kind # "memoize"
    <3>1. \A q \in Getters : at'[q] = at[q] /\ at[q] \notin Holding
      BY <1>3, <2>2 DEF Types, Lock, GettersAssumption, Threads
    <3> QED
      BY <1>2, <3>1 DEF Current, Holding
  <2> QED
    BY <2>1, <2>2
<1>8. Cell'
  <2>1. kind \in Flagged /\ flag => Clearing'
    BY <1>3 DEF Flagged, Types, Clearing
  <2> QED
    BY <1>2, <2>1 DEF Cell
<1>9. Passed'
  BY DEF BeginReset, Types, Passed, Cell, Lock, Loaded, Flagged, Holding, Clearing
<1>10. Results'
  BY DEF BeginReset, Types, Results, Passed, Cell, Order, Current, Lock, Loaded, Holding, Clearing
<1> QED
  BY <1>4, <1>5, <1>6, <1>7, <1>8, <1>9, <1>10

LEMMA EndResetKeeps ==
    ASSUME GettersAssumption, LazyInv, EndReset
    PROVE  LazyInv'
<1> Resetter \in Threads /\ Resetter # "free" /\ \A p \in Getters : p # Resetter /\ p \in Threads /\ p # "free"
  BY DEF GettersAssumption, Threads
<1> USE DEF LazyInv, Empty, Broken, Module, Raised, Null, Goto, EndGet
<1>1. DOMAIN loads = 1..Len(loads) /\ Len(loads) \in Nat /\ \A n \in DOMAIN loads : loads[n].since \in Nat
  BY LoadTypes
<1>2. Types'
  <2>1. at' \in [Threads -> Steps \cup {"clear"}]
    BY DEF EndReset, Types, Steps
  <2>2. flag' \in BOOLEAN
    BY DEF EndReset
  <2>3. resets' \in Nat
    BY DEF EndReset, Types
  <2> QED
    BY <2>1, <2>2, <2>3 DEF EndReset, Types
<1>3. Lock'
  BY DEF EndReset, Types, Lock, Loaded, Holding, Clearing, Steps
<1>4. Order'
  <2>1. resets' = resets + 1 /\ loads' = loads
    BY DEF EndReset
  <2>2. \A n \in DOMAIN loads : loads[n].since <= resets
    BY DEF Order
  <2>3. \A n \in DOMAIN loads' : loads'[n].since <= resets' /\ loads'[n].since # resets'
    BY <1>1, <2>1, <2>2 DEF Types
  <2> QED
    BY <2>1, <2>3 DEF Order, Settles, EndReset
<1>5. Current'
  BY DEF EndReset, Types, Current, Lock, Order, Loaded, Holding, Clearing
<1>6. Cell'
  BY DEF EndReset, Types, Cell, Lock, Current, Loaded, Holding, Clearing
<1>7. Passed'
  BY DEF EndReset, Types, Passed, Cell, Lock, Loaded, Flagged, Holding, Clearing
<1>8. Results'
  BY DEF EndReset, Types, Results, Passed, Cell, Order, Current, Lock, Loaded, Holding, Clearing
<1> QED
  BY <1>2, <1>3, <1>4, <1>5, <1>6, <1>7, <1>8

LEMMA LazySteps == ASSUME GettersAssumption PROVE LazyInv /\ [LazyNext]_lazyVars => LazyInv'
<1> SUFFICES ASSUME LazyInv, [LazyNext]_lazyVars PROVE LazyInv'
  OBVIOUS
<1>1. CASE \E p \in Getters : BeginGet(p) \/ Test(p) \/ Read(p) \/ TestLocked(p) \/ ReadLocked(p)
                              \/ Load(p) \/ FinishLoad(p) \/ FinishNone(p) \/ LacksAttribute(p)
  BY <1>1, GetKeeps, TestKeeps, ReadKeeps, TestLockedKeeps, ReadLockedKeeps, LoadKeeps, FinishKeeps,
     NoneKeeps, LacksKeeps
<1>2. CASE BeginReset
  BY <1>2, ResetKeeps
<1>3. CASE EndReset
  BY <1>3, EndResetKeeps
<1>4. CASE UNCHANGED lazyVars
  BY <1>4 DEF lazyVars, LazyInv, Types, Lock, Order, Current, Cell, Passed, Results, Loaded, Clearing,
             Settles, Nulled
<1> QED
  BY <1>1, <1>2, <1>3, <1>4 DEF LazyNext

-----------------------------------------------------------------------------
(* The theorem. *)

\* Double-checked locking in every class of lib/lazy.py, for any number of threads,
\* loads and resets: one load between two resets that gives something, no get that
\* returns what a reset before it had thrown away, except by memoize, and none that
\* finds nothing unless a reset overtook it or the factory itself gave None.
THEOREM LazyLoadsOnce == LazySpec => []LazyRight
<1>1. LazyInit => LazyInv
  BY LazyStarts, GettersAssumption
<1>2. LazyInv /\ [LazyNext]_lazyVars => LazyInv'
  BY LazySteps, GettersAssumption
<1>3. LazyInv => LazyRight
  BY LoadTypes DEF LazyInv, Order, Results, Clearing, LazyRight
<1> QED
  BY <1>1, <1>2, <1>3, PTL DEF LazySpec
==============================================================================
