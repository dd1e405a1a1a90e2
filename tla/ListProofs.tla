------------------------------ MODULE ListProofs ------------------------------
(***************************************************************************)
(* Lemmas on the lists of KeyedLists: what is left of a list when some keys *)
(* are deleted, the sum of its weights, lists without two entries of one    *)
(* key.  Each is by induction over a set: the numbers, or the sequences, a  *)
(* fact holds of contain 0, or <<>>, and with each its successors.          *)
(***************************************************************************)
EXTENDS KeyedLists, SequencesExt, FiniteSetTheorems, SequenceTheorems, WellFoundedInduction, TLAPS

-----------------------------------------------------------------------------
(* Induction, over a set: the values a fact holds of.                       *)

LEMMA SmallestNat ==
    ASSUME NEW T, T \subseteq Nat, T # {}
    PROVE  \E x \in T : \A y \in T : x <= y
<1>1. PICK x \in T : \A y \in T : ~(<<y, x>> \in OpToRel(<, Nat))
  BY NatLessThanWellFounded, WFMin
<1>2. \A y \in T : ~(y < x)
  BY <1>1 DEF OpToRel
<1>3. QED BY <1>2

LEMMA NatSteps ==
    ASSUME NEW T, 0 \in T, \A n \in Nat : n \in T => n + 1 \in T
    PROVE  Nat \subseteq T
<1> DEFINE U == Nat \ T
<1>1. SUFFICES ASSUME U # {} PROVE FALSE
  OBVIOUS
<1>2. PICK n \in U : \A k \in U : n <= k
  BY <1>1, SmallestNat
<1>3. n \in Nat /\ n # 0
  BY <1>2
<1>4. n - 1 \in Nat /\ n - 1 \notin U
  <2>1. n - 1 \in Nat /\ ~(n <= n - 1)
    BY <1>3
  <2>2. QED BY <1>2, <2>1
<1>5. n - 1 \in T /\ (n - 1) + 1 = n
  BY <1>3, <1>4
<1>6. QED BY <1>2, <1>4, <1>5

LEMMA SeqSteps ==
    ASSUME NEW S, NEW T, <<>> \in T, \A s \in Seq(S), e \in S : s \in T => Append(s, e) \in T
    PROVE  Seq(S) \subseteq T
<1> DEFINE U == {n \in Nat : \A s \in Seq(S) : Len(s) = n => s \in T}
<1>1. 0 \in U
  BY EmptySeq
<1>2. ASSUME NEW n \in Nat, n \in U PROVE n + 1 \in U
  <2>1. SUFFICES ASSUME NEW s \in Seq(S), Len(s) = n + 1 PROVE s \in T
    BY DEF U
  <2>2. s # <<>>
    BY <2>1, EmptySeq
  <2>3. PICK t \in Seq(S), e \in S : s = Append(t, e)
    BY <2>2, SequenceEmptyOrAppend
  <2>4. Len(t) \in Nat /\ Len(s) = Len(t) + 1
    BY <2>3, AppendProperties, LenProperties
  <2>5. Len(t) = n
    BY <2>1, <2>4
  <2>6. QED BY <1>2, <2>3, <2>5
<1> HIDE DEF U
<1>3. Nat \subseteq U
  BY <1>1, <1>2, NatSteps
<1>4. QED BY <1>3, LenProperties DEF U

-----------------------------------------------------------------------------
(* What is left of a list, and its total.                                   *)

\* f is the recursive function of Without, up to m.
Leaves(f, s, K, m) ==
    f = [n \in 0..m |-> IF n = 0 THEN <<>>
                        ELSE IF s[n].key \in K THEN f[n - 1] ELSE Append(f[n - 1], s[n])]

LEMMA LeavesExists ==
    ASSUME NEW s, NEW K, NEW m \in Nat
    PROVE  \E f : Leaves(f, s, K, m)
<1> DEFINE T == {k \in Nat : \E f : Leaves(f, s, K, k)}
<1>1. 0 \in T
  <2>1. Leaves([n \in 0..0 |-> <<>>], s, K, 0)
    BY DEF Leaves
  <2>2. QED BY <2>1
<1>2. ASSUME NEW k \in Nat, k \in T PROVE k + 1 \in T
  <2>1. PICK f : Leaves(f, s, K, k)
    BY <1>2
  <2> DEFINE G(h, n) == IF n = 0 THEN <<>>
                        ELSE IF s[n].key \in K THEN h[n - 1] ELSE Append(h[n - 1], s[n])
             g == [n \in 0..(k + 1) |-> IF n = k + 1 THEN G(f, n) ELSE f[n]]
  <2>2. \A n \in 0..k : f[n] = G(f, n)
    BY <2>1 DEF Leaves
  <2>3. ASSUME NEW n \in 0..(k + 1) PROVE g[n] = G(g, n)
    <3>1. n = k + 1 \/ n \in 0..k
      OBVIOUS
    <3>2. n # 0 => n - 1 \in 0..k /\ n - 1 # k + 1
      BY <3>1
    <3>3. n # 0 => g[n - 1] = f[n - 1]
      BY <3>2
    <3>4. g[n] = G(f, n)
      BY <2>2, <3>1
    <3>5. QED BY <3>3, <3>4
  <2>4. g = [n \in 0..(k + 1) |-> G(g, n)]
    BY <2>3
  <2> HIDE DEF g
  <2>5. Leaves(g, s, K, k + 1)
    BY <2>4 DEF Leaves
  <2>6. QED BY <2>5
<1> HIDE DEF T
<1>3. m \in T
  BY <1>1, <1>2, NatSteps
<1>4. QED BY <1>3 DEF T

LEMMA WithoutLeaves ==
    ASSUME NEW S, NEW s \in Seq(S), NEW K
    PROVE  \E f : Leaves(f, s, K, Len(s)) /\ Without(s, K) = f[Len(s)]
<1>1. Len(s) \in Nat
  BY LenProperties
<1>2. \E f : Leaves(f, s, K, Len(s))
  BY <1>1, LeavesExists
<1>3. QED BY <1>2, Zenon DEF Without, Leaves

LEMMA WithoutEmpty ==
    ASSUME NEW K
    PROVE  Without(<<>>, K) = <<>>
<1>1. <<>> \in Seq({}) /\ Len(<<>>) = 0
  BY EmptySeq
<1>2. PICK f : Leaves(f, <<>>, K, Len(<<>>)) /\ Without(<<>>, K) = f[Len(<<>>)]
  BY <1>1, WithoutLeaves
<1>3. QED BY <1>1, <1>2 DEF Leaves

LEMMA WithoutStep ==
    ASSUME NEW S, NEW s \in Seq(S), NEW e \in S, NEW K
    PROVE  Without(Append(s, e), K) = IF e.key \in K THEN Without(s, K) ELSE Append(Without(s, K), e)
<1> DEFINE a == Append(s, e)
<1>2. a \in Seq(S) /\ Len(a) = Len(s) + 1 /\ Len(s) \in Nat /\ a[Len(s) + 1] = e
        /\ \A k \in 1..Len(s) : a[k] = s[k]
  BY AppendProperties, LenProperties
<1> HIDE DEF a
<1>3. PICK f : Leaves(f, s, K, Len(s)) /\ Without(s, K) = f[Len(s)]
  BY WithoutLeaves
<1>4. PICK g : Leaves(g, a, K, Len(a)) /\ Without(a, K) = g[Len(a)]
  BY <1>2, WithoutLeaves
<1> DEFINE F(n) == IF n = 0 THEN <<>> ELSE IF s[n].key \in K THEN f[n - 1] ELSE Append(f[n - 1], s[n])
           G(n) == IF n = 0 THEN <<>> ELSE IF a[n].key \in K THEN g[n - 1] ELSE Append(g[n - 1], a[n])
<1>5. \A n \in 0..Len(s) : f[n] = F(n)
  BY <1>3 DEF Leaves
<1>6. \A n \in 0..Len(a) : g[n] = G(n)
  BY <1>4 DEF Leaves
<1> DEFINE T == {n \in Nat : n <= Len(s) => g[n] = f[n]}
<1>7. 0 \in T
  BY <1>2, <1>5, <1>6
<1>8. ASSUME NEW n \in Nat, n \in T PROVE n + 1 \in T
  <2>1. SUFFICES ASSUME n + 1 <= Len(s) PROVE g[n + 1] = f[n + 1]
    BY DEF T
  <2>2. g[n] = f[n] /\ n + 1 \in 1..Len(s) /\ n + 1 \in 0..Len(s) /\ n + 1 \in 0..Len(a)
          /\ (n + 1) - 1 = n /\ n + 1 # 0
    BY <1>2, <1>8, <2>1
  <2>3. a[n + 1] = s[n + 1]
    BY <1>2, <2>2
  <2>4. f[n + 1] = F(n + 1) /\ g[n + 1] = G(n + 1)
    BY <1>5, <1>6, <2>2
  <2>5. QED BY <2>2, <2>3, <2>4
<1> HIDE DEF T
<1>9. Len(s) \in T
  BY <1>2, <1>7, <1>8, NatSteps
<1>10. g[Len(s)] = f[Len(s)]
  BY <1>2, <1>9 DEF T
<1>11. g[Len(s) + 1] = IF e.key \in K THEN g[Len(s)] ELSE Append(g[Len(s)], e)
  <2>1. Len(s) + 1 \in 0..Len(a) /\ Len(s) + 1 # 0 /\ (Len(s) + 1) - 1 = Len(s)
    BY <1>2
  <2>2. QED BY <1>2, <1>6, <2>1
<1>12. QED BY <1>2, <1>3, <1>4, <1>10, <1>11 DEF a

\* No two entries have one key.
Distinct(s) == \A i, j \in 1..Len(s) : s[i].key = s[j].key => i = j

\* The entries of w are those of s whose key is not in K, in the same order as to keys.
LeftOf(w, s, S, K) ==
    /\ w \in Seq(S) /\ Len(w) <= Len(s)
    /\ \A i \in 1..Len(w) : w[i].key \notin K /\ \E j \in 1..Len(s) : w[i] = s[j]
    /\ \A j \in 1..Len(s) : s[j].key \notin K => \E i \in 1..Len(w) : w[i] = s[j]
    /\ Distinct(s) => Distinct(w)

LEMMA WithoutLeft ==
    ASSUME NEW S, NEW s \in Seq(S), NEW K
    PROVE  LeftOf(Without(s, K), s, S, K)
<1> DEFINE T == {t \in Seq(S) : LeftOf(Without(t, K), t, S, K)}
<1>1. <<>> \in T
  <2>1. <<>> \in Seq(S) /\ Len(<<>>) = 0 /\ S = S
    BY EmptySeq
  <2>2. Without(<<>>, K) = <<>>
    BY WithoutEmpty
  <2>3. LeftOf(<<>>, <<>>, S, K)
    BY <2>1 DEF LeftOf, Distinct
  <2>4. QED BY <2>1, <2>2, <2>3
<1>2. ASSUME NEW t \in Seq(S), NEW e \in S, t \in T PROVE Append(t, e) \in T
  <2> DEFINE a == Append(t, e)
             w == Without(t, K)
             v == Without(a, K)
  <2>1. /\ a \in Seq(S) /\ Len(a) = Len(t) + 1 /\ Len(t) \in Nat /\ a[Len(t) + 1] = e
        /\ \A k \in 1..Len(t) : a[k] = t[k]
    BY AppendProperties, LenProperties
  <2>2. LeftOf(w, t, S, K)
    BY <1>2
  <2>3. v = IF e.key \in K THEN w ELSE Append(w, e)
    BY WithoutStep
  <2>4. Len(w) \in Nat /\ w \in Seq(S)
    BY <2>2, LenProperties DEF LeftOf
  <2> HIDE DEF a, w, v
  <2>5. CASE e.key \in K
    <3>1. v = w
      BY <2>3, <2>5
    <3>2. w \in Seq(S) /\ Len(w) <= Len(a)
      BY <2>1, <2>2, <2>4 DEF LeftOf
    <3>3. \A i \in 1..Len(w) : w[i].key \notin K /\ \E j \in 1..Len(a) : w[i] = a[j]
      <4>1. \A j \in 1..Len(t) : j \in 1..Len(a)
        BY <2>1
      <4>2. QED BY <2>1, <2>2, <4>1 DEF LeftOf
    <3>4. \A j \in 1..Len(a) : a[j].key \notin K => \E i \in 1..Len(w) : w[i] = a[j]
      <4>1. \A j \in 1..Len(a) : j \in 1..Len(t) \/ j = Len(t) + 1
        BY <2>1
      <4>2. QED BY <2>1, <2>2, <2>5, <4>1 DEF LeftOf
    <3>5. Distinct(a) => Distinct(w)
      <4>1. Distinct(a) => Distinct(t)
        <5>1. \A j \in 1..Len(t) : j \in 1..Len(a)
          BY <2>1
        <5>2. QED BY <2>1, <5>1 DEF Distinct
      <4>2. QED BY <2>2, <4>1 DEF LeftOf
    <3>6. QED BY <3>1, <3>2, <3>3, <3>4, <3>5, <2>1 DEF LeftOf, a, v
  <2>6. CASE e.key \notin K
    <3>1. /\ v \in Seq(S) /\ Len(v) = Len(w) + 1 /\ v[Len(w) + 1] = e
          /\ \A k \in 1..Len(w) : v[k] = w[k]
      <4>1. v = Append(w, e)
        BY <2>3, <2>6
      <4>2. QED BY <2>4, <4>1, AppendProperties
    <3>2. \A i \in 1..Len(v) : i \in 1..Len(w) \/ i = Len(w) + 1
      BY <2>4, <3>1
    <3>3. \A j \in 1..Len(a) : j \in 1..Len(t) \/ j = Len(t) + 1
      BY <2>1
    <3>4. Len(t) + 1 \in 1..Len(a) /\ Len(w) + 1 \in 1..Len(v)
            /\ (\A j \in 1..Len(t) : j \in 1..Len(a)) /\ (\A i \in 1..Len(w) : i \in 1..Len(v))
      BY <2>1, <2>4, <3>1
    <3>5. Len(v) <= Len(a)
      BY <2>1, <2>2, <2>4, <3>1 DEF LeftOf
    <3>6. \A i \in 1..Len(v) : v[i].key \notin K /\ \E j \in 1..Len(a) : v[i] = a[j]
      <4>1. ASSUME NEW i \in 1..Len(w) PROVE v[i].key \notin K /\ \E j \in 1..Len(a) : v[i] = a[j]
        BY <2>1, <2>2, <3>1, <3>4 DEF LeftOf
      <4>2. v[Len(w) + 1].key \notin K /\ v[Len(w) + 1] = a[Len(t) + 1]
        BY <2>1, <2>6, <3>1
      <4>3. QED BY <3>2, <3>4, <4>1, <4>2
    <3>7. \A j \in 1..Len(a) : a[j].key \notin K => \E i \in 1..Len(v) : v[i] = a[j]
      <4>1. ASSUME NEW j \in 1..Len(t), a[j].key \notin K PROVE \E i \in 1..Len(v) : v[i] = a[j]
        BY <2>1, <2>2, <3>1, <3>4, <4>1 DEF LeftOf
      <4>2. v[Len(w) + 1] = a[Len(t) + 1]
        BY <2>1, <3>1
      <4>3. QED BY <3>3, <3>4, <4>1, <4>2
    <3>8. Distinct(a) => Distinct(v)
      <4>1. SUFFICES ASSUME Distinct(a) PROVE Distinct(v)
        OBVIOUS
      <4>2. Distinct(t)
        BY <2>1, <3>4, <4>1 DEF Distinct
      <4>3. Distinct(w)
        BY <2>2, <4>2 DEF LeftOf
      <4>4. \A i \in 1..Len(w) : v[i].key # e.key
        <5>1. SUFFICES ASSUME NEW i \in 1..Len(w), v[i].key = e.key PROVE FALSE
          OBVIOUS
        <5>2. PICK j \in 1..Len(t) : w[i] = t[j]
          BY <2>2 DEF LeftOf
        <5>3. a[j].key = a[Len(t) + 1].key /\ j \in 1..Len(a)
          BY <2>1, <3>1, <3>4, <5>1, <5>2
        <5>4. j = Len(t) + 1
          BY <3>4, <4>1, <5>3 DEF Distinct
        <5>5. QED BY <2>1, <5>2, <5>4
      <4>5. QED BY <3>1, <3>2, <4>3, <4>4 DEF Distinct
    <3>9. QED BY <2>1, <3>1, <3>5, <3>6, <3>7, <3>8 DEF LeftOf, a, v
  <2>7. QED BY <2>5, <2>6
<1> HIDE DEF T
<1>3. s \in T
  BY <1>1, <1>2, SeqSteps
<1>4. QED BY <1>3 DEF T

-----------------------------------------------------------------------------
(* Totals.                                                                  *)

Sums(f, w, m) == f = [n \in 0..m |-> IF n = 0 THEN 0 ELSE f[n - 1] + w[n]]

LEMMA SumsExists ==
    ASSUME NEW w, NEW m \in Nat
    PROVE  \E f : Sums(f, w, m)
<1> DEFINE T == {k \in Nat : \E f : Sums(f, w, k)}
<1>1. 0 \in T
  <2>1. Sums([n \in 0..0 |-> 0], w, 0)
    BY DEF Sums
  <2>2. QED BY <2>1
<1>2. ASSUME NEW k \in Nat, k \in T PROVE k + 1 \in T
  <2>1. PICK f : Sums(f, w, k)
    BY <1>2
  <2> DEFINE G(h, n) == IF n = 0 THEN 0 ELSE h[n - 1] + w[n]
             g == [n \in 0..(k + 1) |-> IF n = k + 1 THEN G(f, n) ELSE f[n]]
  <2>2. \A n \in 0..k : f[n] = G(f, n)
    BY <2>1 DEF Sums
  <2>3. ASSUME NEW n \in 0..(k + 1) PROVE g[n] = G(g, n)
    <3>1. n = k + 1 \/ n \in 0..k
      OBVIOUS
    <3>2. n # 0 => n - 1 \in 0..k /\ n - 1 # k + 1
      BY <3>1
    <3>3. n # 0 => g[n - 1] = f[n - 1]
      BY <3>2
    <3>4. g[n] = G(f, n)
      BY <2>2, <3>1
    <3>5. QED BY <3>3, <3>4
  <2>4. g = [n \in 0..(k + 1) |-> G(g, n)]
    BY <2>3
  <2> HIDE DEF g
  <2>5. Sums(g, w, k + 1)
    BY <2>4 DEF Sums
  <2>6. QED BY <2>5
<1> HIDE DEF T
<1>3. m \in T
  BY <1>1, <1>2, NatSteps
<1>4. QED BY <1>3 DEF T

LEMMA TotalSums ==
    ASSUME NEW S, NEW w \in Seq(S)
    PROVE  \E f : Sums(f, w, Len(w)) /\ Total(w) = f[Len(w)]
<1>1. Len(w) \in Nat
  BY LenProperties
<1>2. \E f : Sums(f, w, Len(w))
  BY <1>1, SumsExists
<1>3. QED BY <1>2, Zenon DEF Total, Sums

LEMMA TotalStep ==
    ASSUME NEW w \in Seq(Nat), NEW x \in Nat
    PROVE  Total(<<>>) = 0 /\ Total(Append(w, x)) = Total(w) + x
<1>1. Total(<<>>) = 0
  <2>1. <<>> \in Seq(Nat) /\ Len(<<>>) = 0
    BY EmptySeq
  <2>2. PICK f : Sums(f, <<>>, Len(<<>>)) /\ Total(<<>>) = f[Len(<<>>)]
    BY <2>1, TotalSums
  <2>3. QED BY <2>1, <2>2 DEF Sums
<1> DEFINE a == Append(w, x)
<1>2. a \in Seq(Nat) /\ Len(a) = Len(w) + 1 /\ Len(w) \in Nat /\ a[Len(w) + 1] = x
        /\ \A k \in 1..Len(w) : a[k] = w[k]
  BY AppendProperties, LenProperties
<1> HIDE DEF a
<1>3. PICK f : Sums(f, w, Len(w)) /\ Total(w) = f[Len(w)]
  BY TotalSums
<1>4. PICK g : Sums(g, a, Len(a)) /\ Total(a) = g[Len(a)]
  BY <1>2, TotalSums
<1>5. \A n \in 0..Len(w) : f[n] = IF n = 0 THEN 0 ELSE f[n - 1] + w[n]
  BY <1>3 DEF Sums
<1>6. \A n \in 0..Len(a) : g[n] = IF n = 0 THEN 0 ELSE g[n - 1] + a[n]
  BY <1>4 DEF Sums
<1> DEFINE T == {n \in Nat : n <= Len(w) => g[n] = f[n]}
<1>7. 0 \in T
  BY <1>2, <1>5, <1>6
<1>8. ASSUME NEW n \in Nat, n \in T PROVE n + 1 \in T
  <2>1. SUFFICES ASSUME n + 1 <= Len(w) PROVE g[n + 1] = f[n + 1]
    BY DEF T
  <2>2. g[n] = f[n] /\ n + 1 \in 1..Len(w) /\ n + 1 \in 0..Len(w) /\ n + 1 \in 0..Len(a)
          /\ (n + 1) - 1 = n /\ n + 1 # 0
    BY <1>2, <1>8, <2>1
  <2>3. a[n + 1] = w[n + 1]
    BY <1>2, <2>2
  <2>4. f[n + 1] = f[n] + w[n + 1] /\ g[n + 1] = g[n] + a[n + 1]
    BY <1>5, <1>6, <2>2
  <2>5. QED BY <2>2, <2>3, <2>4
<1> HIDE DEF T
<1>9. Len(w) \in T
  BY <1>2, <1>7, <1>8, NatSteps
<1>10. g[Len(w)] = f[Len(w)]
  BY <1>2, <1>9 DEF T
<1>11. g[Len(w) + 1] = g[Len(w)] + x
  <2>1. Len(w) + 1 \in 0..Len(a) /\ Len(w) + 1 # 0 /\ (Len(w) + 1) - 1 = Len(w)
    BY <1>2
  <2>2. QED BY <1>2, <1>6, <2>1
<1>12. QED BY <1>1, <1>2, <1>3, <1>4, <1>10, <1>11 DEF a

LEMMA TotalNat ==
    ASSUME NEW w \in Seq(Nat)
    PROVE  Total(w) \in Nat
<1> DEFINE T == {v \in Seq(Nat) : Total(v) \in Nat}
<1>1. <<>> \in T
  BY EmptySeq, TotalStep
<1>2. ASSUME NEW v \in Seq(Nat), NEW x \in Nat, v \in T PROVE Append(v, x) \in T
  BY <1>2, AppendProperties, TotalStep
<1> HIDE DEF T
<1>3. w \in T
  BY <1>1, <1>2, SeqSteps
<1>4. QED BY <1>3 DEF T

-----------------------------------------------------------------------------
(* The sum of the weights of the keys of a list.                            *)

Weights(s, w) == [i \in DOMAIN s |-> w[s[i].key]]
Weighed(s, w) == Total(Weights(s, w))

\* w gives every key of the entries S a weight.
Weighting(w, S) == \A e \in S : w[e.key] \in Nat

LEMMA WeighedNat ==
    ASSUME NEW w, NEW S, Weighting(w, S), NEW s \in Seq(S)
    PROVE  Weights(s, w) \in Seq(Nat) /\ Len(Weights(s, w)) = Len(s) /\ Weighed(s, w) \in Nat
<1>1. Len(s) \in Nat /\ DOMAIN s = 1..Len(s)
  BY LenProperties
<1>2. \A i \in 1..Len(s) : w[s[i].key] \in Nat
  BY ElementOfSeq DEF Weighting
<1>3. Weights(s, w) \in [1..Len(s) -> Nat]
  BY <1>1, <1>2 DEF Weights
<1>4. Weights(s, w) \in Seq(Nat) /\ Len(Weights(s, w)) = Len(s)
  <2>1. Weights(s, w) \in Seq(Nat)
    BY <1>1, <1>3, SeqDef
  <2>2. QED BY <1>1, <1>3, <2>1, LenProperties
<1>5. QED BY <1>4, TotalNat DEF Weighed

LEMMA WeighedEmpty ==
    ASSUME NEW w
    PROVE  Weighed(<<>>, w) = 0
<1>1. Weights(<<>>, w) = <<>>
  BY DEF Weights
<1>2. 0 \in Nat /\ <<>> \in Seq(Nat)
  BY EmptySeq
<1>3. QED BY <1>1, <1>2, TotalStep DEF Weighed

LEMMA WeighedStep ==
    ASSUME NEW w, NEW S, Weighting(w, S),
           NEW s \in Seq(S), NEW e \in S
    PROVE  Weighed(Append(s, e), w) = Weighed(s, w) + w[e.key]
<1> DEFINE a == Append(s, e)
           x == w[e.key]
<1>1. /\ a \in Seq(S) /\ Len(a) = Len(s) + 1 /\ a[Len(s) + 1] = e /\ Len(s) \in Nat
      /\ \A k \in 1..Len(s) : a[k] = s[k]
  BY AppendProperties, LenProperties
<1>2. x \in Nat
  BY DEF Weighting
<1>3. Weights(s, w) \in Seq(Nat) /\ Len(Weights(s, w)) = Len(s) /\ Weights(a, w) \in Seq(Nat)
        /\ Len(Weights(a, w)) = Len(s) + 1
  BY <1>1, WeighedNat
<1> HIDE DEF a
<1>4. Weights(a, w) = Append(Weights(s, w), x)
  <2> DEFINE u == Weights(a, w)
             v == Append(Weights(s, w), x)
  <2>1. v \in Seq(Nat) /\ Len(v) = Len(s) + 1 /\ v[Len(s) + 1] = x
          /\ \A k \in 1..Len(s) : v[k] = Weights(s, w)[k]
    BY <1>2, <1>3, AppendProperties
  <2>2. \A k \in 1..Len(s) : Weights(s, w)[k] = w[s[k].key]
    BY LenProperties DEF Weights
  <2>3. \A k \in 1..(Len(s) + 1) : u[k] = w[a[k].key]
    <3>1. DOMAIN a = 1..(Len(s) + 1)
      BY <1>1, LenProperties
    <3>2. QED BY <3>1 DEF Weights
  <2> HIDE DEF v, u
  <2>4. ASSUME NEW k \in 1..(Len(s) + 1) PROVE u[k] = v[k]
    <3>1. k \in 1..Len(s) \/ k = Len(s) + 1
      BY <1>1
    <3>2. k \in 1..Len(s) => u[k] = v[k]
      BY <1>1, <2>1, <2>2, <2>3
    <3>3. k = Len(s) + 1 => u[k] = v[k]
      BY <1>1, <2>1, <2>3
    <3>4. QED BY <3>1, <3>2, <3>3
  <2>5. QED BY <1>3, <2>1, <2>4, SeqEqual DEF u, v
<1>5. QED BY <1>2, <1>3, <1>4, TotalStep DEF Weighed, a

\* Two lists with the same keys in the same order weigh the same.
LEMMA WeighedSame ==
    ASSUME NEW S, NEW s \in Seq(S), NEW t \in Seq(S), Len(s) = Len(t), NEW w,
           \A i \in 1..Len(s) : s[i].key = t[i].key
    PROVE  Weighed(s, w) = Weighed(t, w)
<1>1. DOMAIN s = 1..Len(s) /\ DOMAIN t = 1..Len(t)
  BY LenProperties
<1>2. Weights(s, w) = Weights(t, w)
  BY <1>1 DEF Weights
<1>3. QED BY <1>2 DEF Weighed

\* What is deleted and what is left make up the whole.
LEMMA WeighedSplit ==
    ASSUME NEW w, NEW S, Weighting(w, S),
           NEW s \in Seq(S), NEW L, NEW K, \A i \in 1..Len(s) : s[i].key \in L
    PROVE  Weighed(Without(s, K), w) + Weighed(Without(s, L \ K), w) = Weighed(s, w)
<1>0. ASSUME NEW t \in Seq(S), NEW e \in S
      PROVE  Weighed(Append(t, e), w) = Weighed(t, w) + w[e.key]
  BY WeighedStep
<1> DEFINE E == {e \in S : e.key \in L}
           T == {t \in Seq(S) : Weighed(Without(t, K), w) + Weighed(Without(t, L \ K), w) = Weighed(t, w)}
<1>1. s \in Seq(E)
  <2>1. Len(s) \in Nat /\ s \in [1..Len(s) -> S]
    BY LenProperties
  <2>2. s \in [1..Len(s) -> E]
    BY <2>1
  <2>3. QED BY <2>1, <2>2, SeqDef
<1>2. <<>> \in T
  BY EmptySeq, WeighedEmpty, WithoutEmpty
<1>3. ASSUME NEW t \in Seq(E), NEW e \in E, t \in T PROVE Append(t, e) \in T
  <2>1. t \in Seq(S) /\ e \in S /\ Append(t, e) \in Seq(S) /\ e.key \in L
    BY <1>3, AppendProperties
  <2>2. /\ Without(Append(t, e), K) = IF e.key \in K THEN Without(t, K) ELSE Append(Without(t, K), e)
        /\ Without(Append(t, e), L \ K)
              = IF e.key \in L \ K THEN Without(t, L \ K) ELSE Append(Without(t, L \ K), e)
    BY <2>1, WithoutStep
  <2>3. Without(t, K) \in Seq(S) /\ Without(t, L \ K) \in Seq(S)
    BY <2>1, WithoutLeft DEF LeftOf
  <2>4. /\ Weighed(Append(t, e), w) = Weighed(t, w) + w[e.key]
        /\ Weighed(Append(Without(t, K), e), w) = Weighed(Without(t, K), w) + w[e.key]
        /\ Weighed(Append(Without(t, L \ K), e), w) = Weighed(Without(t, L \ K), w) + w[e.key]
    BY <1>0, <2>1, <2>3, Zenon
  <2>5. Weighed(t, w) \in Nat /\ Weighed(Without(t, K), w) \in Nat /\ Weighed(Without(t, L \ K), w) \in Nat
    BY <2>1, <2>3, WeighedNat
  <2>6. w[e.key] \in Nat
    BY <2>1 DEF Weighting
  <2>7. Weighed(Without(t, K), w) + Weighed(Without(t, L \ K), w) = Weighed(t, w)
    BY <1>3
  <2> DEFINE x == Weighed(Without(t, K), w)
             y == Weighed(Without(t, L \ K), w)
             z == w[e.key]
  <2>8. Weighed(Without(Append(t, e), K), w) = IF e.key \in K THEN x ELSE x + z
    BY <2>2, <2>4
  <2>9. Weighed(Without(Append(t, e), L \ K), w) = IF e.key \in K THEN y + z ELSE y
    BY <2>1, <2>2, <2>4
  <2>10. Weighed(Append(t, e), w) = (x + y) + z
    BY <2>4, <2>7
  <2> HIDE DEF x, y, z
  <2>11. Weighed(Without(Append(t, e), K), w) + Weighed(Without(Append(t, e), L \ K), w)
           = Weighed(Append(t, e), w)
    <3>1. x \in Nat /\ y \in Nat /\ z \in Nat
      BY <2>5, <2>6 DEF x, y, z
    <3>2. QED BY <2>8, <2>9, <2>10, <3>1
  <2>12. QED BY <2>1, <2>11
<1> HIDE DEF T, E
<1>4. s \in T
  BY <1>1, <1>2, <1>3, SeqSteps
<1>5. QED BY <1>4 DEF T

-----------------------------------------------------------------------------
(* Lists without two entries of one key.                                    *)

Listed(s, S) == s \in Seq(S) /\ Distinct(s)
KeysIn(s) == {s[i].key : i \in 1..Len(s)}

\* Every entry of t is one of s.
From(t, s) == \A i \in 1..Len(t) : \E j \in 1..Len(s) : t[i] = s[j]

LEMMA ListedKeys ==
    ASSUME NEW S, NEW s, Listed(s, S)
    PROVE  /\ Len(s) \in Nat /\ DOMAIN s = 1..Len(s) /\ \A i \in 1..Len(s) : s[i] \in S
           /\ KeysIn(s) = {e.key : e \in ToSet(s)}
           /\ IsFiniteSet(KeysIn(s)) /\ Cardinality(KeysIn(s)) = Len(s)
<1> DEFINE n == Len(s)
           f == [i \in 1..n |-> s[i].key]
           B == KeysIn(s)
           I == 1..n
<1>1. s \in Seq(S) /\ n \in Nat /\ DOMAIN s = 1..n
  BY LenProperties DEF Listed
<1>2. KeysIn(s) = {e.key : e \in ToSet(s)}
  BY <1>1 DEF KeysIn, ToSet
<1>3. \A i \in 1..n : s[i] \in S
  BY <1>1, ElementOfSeq
<1>4. /\ f \in [I -> B] /\ \A i, j \in I : f[i] = f[j] => i = j
      /\ \A k \in B : \E i \in I : f[i] = k
  BY DEF KeysIn, Listed, Distinct
<1>5. IsFiniteSet(I) /\ Cardinality(I) = n
  <2>1. 1 \in Int /\ n \in Int /\ (IF 1 > n THEN 0 ELSE n - 1 + 1) = n
    BY <1>1
  <2>2. QED BY <2>1, FS_Interval
<1> HIDE DEF f, B, I
<1>6. f \in Bijection(I, B)
  <2>1. f \in Injection(I, B)
    BY <1>4 DEF Injection, IsInjective
  <2>2. f \in Surjection(I, B)
    BY <1>4 DEF Surjection
  <2>3. QED BY <2>1, <2>2 DEF Bijection
<1>7. IsFiniteSet(B) /\ Cardinality(B) = n
  BY <1>5, <1>6, FS_Bijection DEF ExistsBijection
<1>8. QED BY <1>1, <1>2, <1>3, <1>7 DEF B

LEMMA ListedWithout ==
    ASSUME NEW S, NEW s, Listed(s, S), NEW K
    PROVE  /\ Listed(Without(s, K), S) /\ From(Without(s, K), s)
           /\ KeysIn(Without(s, K)) = KeysIn(s) \ K
           /\ Len(Without(s, K)) <= Len(s)
           /\ KeysIn(s) \cap K # {} => Len(Without(s, K)) < Len(s)
<1> DEFINE w == Without(s, K)
<1>1. s \in Seq(S) /\ Distinct(s)
  BY DEF Listed
<1>2. LeftOf(w, s, S, K)
  BY <1>1, WithoutLeft
<1> HIDE DEF w
<1>3. Listed(w, S) /\ From(w, s) /\ Len(w) <= Len(s)
  BY <1>1, <1>2 DEF LeftOf, Listed, From
<1>4. KeysIn(w) = KeysIn(s) \ K
  <2>1. \A k \in KeysIn(s) \ K : \E i \in 1..Len(w) : w[i].key = k
    <3>1. SUFFICES ASSUME NEW j \in 1..Len(s), s[j].key \notin K
                   PROVE  \E i \in 1..Len(w) : w[i].key = s[j].key
      BY DEF KeysIn
    <3>2. \E i \in 1..Len(w) : w[i] = s[j]
      BY <1>2, <3>1 DEF LeftOf
    <3>3. QED BY <3>2
  <2>2. \A i \in 1..Len(w) : w[i].key \in KeysIn(s) \ K
    BY <1>2 DEF LeftOf, KeysIn
  <2>3. QED BY <2>1, <2>2 DEF KeysIn
<1>5. ASSUME KeysIn(s) \cap K # {} PROVE Len(w) < Len(s)
  <2>1. /\ Cardinality(KeysIn(w)) = Len(w) /\ Len(w) \in Nat
        /\ Cardinality(KeysIn(s)) = Len(s) /\ Len(s) \in Nat /\ IsFiniteSet(KeysIn(s))
    BY <1>3, ListedKeys
  <2>2. KeysIn(w) \in SUBSET KeysIn(s) /\ KeysIn(w) # KeysIn(s)
    BY <1>4, <1>5
  <2>3. Cardinality(KeysIn(w)) # Cardinality(KeysIn(s))
    BY <2>1, <2>2, FS_Subset
  <2>4. QED BY <1>3, <2>1, <2>3
<1>6. QED BY <1>3, <1>4, <1>5 DEF w

LEMMA ListedWithoutOne ==
    ASSUME NEW S, NEW s, Listed(s, S), NEW k \in KeysIn(s)
    PROVE  Len(Without(s, {k})) = Len(s) - 1
<1> DEFINE w == Without(s, {k})
<1>1. Listed(w, S) /\ KeysIn(w) = KeysIn(s) \ {k}
  BY ListedWithout
<1>2. /\ Cardinality(KeysIn(w)) = Len(w) /\ Len(w) \in Nat
      /\ Cardinality(KeysIn(s)) = Len(s) /\ Len(s) \in Nat /\ IsFiniteSet(KeysIn(s))
  BY <1>1, ListedKeys
<1>3. Cardinality(KeysIn(s) \ {k}) = Cardinality(KeysIn(s)) - 1
  BY <1>2, FS_RemoveElement
<1>4. QED BY <1>1, <1>2, <1>3

LEMMA ListedAppend ==
    ASSUME NEW S, NEW s, Listed(s, S), NEW e \in S, e.key \notin KeysIn(s)
    PROVE  /\ Listed(Append(s, e), S) /\ Len(Append(s, e)) = Len(s) + 1
           /\ KeysIn(Append(s, e)) = KeysIn(s) \cup {e.key}
           /\ \A i \in 1..Len(Append(s, e)) :
                 Append(s, e)[i] = e \/ \E j \in 1..Len(s) : Append(s, e)[i] = s[j]
<1> DEFINE a == Append(s, e)
<1>1. s \in Seq(S) /\ Distinct(s) /\ Len(s) \in Nat
  BY LenProperties DEF Listed
<1>2. a \in Seq(S) /\ Len(a) = Len(s) + 1 /\ a[Len(s) + 1] = e /\ \A i \in 1..Len(s) : a[i] = s[i]
  BY <1>1, AppendProperties
<1> HIDE DEF a
<1>3. \A i \in 1..Len(a) : i \in 1..Len(s) \/ i = Len(s) + 1
  BY <1>1, <1>2
<1>4. Len(s) + 1 \in 1..Len(a) /\ \A i \in 1..Len(s) : i \in 1..Len(a)
  BY <1>1, <1>2
<1>5. Distinct(a)
  <2>1. \A i \in 1..Len(s) : s[i].key # e.key
    BY DEF KeysIn
  <2>2. QED BY <1>1, <1>2, <1>3, <2>1 DEF Distinct
<1>6. KeysIn(a) = KeysIn(s) \cup {e.key}
  <2>1. \A i \in 1..Len(a) : a[i].key \in KeysIn(s) \cup {e.key}
    BY <1>2, <1>3 DEF KeysIn
  <2>2. \A k \in KeysIn(s) \cup {e.key} : \E i \in 1..Len(a) : a[i].key = k
    BY <1>2, <1>4 DEF KeysIn
  <2>3. QED BY <2>1, <2>2 DEF KeysIn
<1>7. \A i \in 1..Len(a) : a[i] = e \/ \E j \in 1..Len(s) : a[i] = s[j]
  BY <1>2, <1>3
<1>8. QED BY <1>2, <1>5, <1>6, <1>7 DEF Listed, a

\* The list with e in the place of the entry of its key.
Replaced(s, e) == [i \in DOMAIN s |-> IF s[i].key = e.key THEN e ELSE s[i]]

LEMMA ListedReplaced ==
    ASSUME NEW S, NEW s, Listed(s, S), NEW e \in S
    PROVE  /\ Listed(Replaced(s, e), S) /\ Len(Replaced(s, e)) = Len(s)
           /\ \A i \in 1..Len(s) : /\ Replaced(s, e)[i].key = s[i].key
                                  /\ (Replaced(s, e)[i] = e \/ Replaced(s, e)[i] = s[i])
<1> DEFINE t == Replaced(s, e)
<1>1. s \in Seq(S) /\ Distinct(s) /\ Len(s) \in Nat /\ DOMAIN s = 1..Len(s)
        /\ \A i \in 1..Len(s) : s[i] \in S
  BY ListedKeys DEF Listed
<1>2. t \in [1..Len(s) -> S] /\ \A i \in 1..Len(s) : t[i] = IF s[i].key = e.key THEN e ELSE s[i]
  BY <1>1 DEF Replaced
<1> HIDE DEF t
<1>3. t \in Seq(S)
  BY <1>1, <1>2, SeqDef
<1>4. Len(t) = Len(s)
  <2>1. DOMAIN t = 1..Len(t) /\ Len(t) \in Nat
    BY <1>3, LenProperties
  <2>2. QED BY <1>1, <1>2, <2>1
<1>5. \A i \in 1..Len(s) : t[i].key = s[i].key
  BY <1>2
<1>6. Distinct(t)
  BY <1>1, <1>4, <1>5 DEF Distinct
<1>7. QED BY <1>2, <1>3, <1>4, <1>5, <1>6 DEF Listed, t

\* The entries whose key is not deleted weigh what their keys do: none, or one of them.
LEMMA WeighedNone ==
    ASSUME NEW S, NEW s, Listed(s, S), NEW K, KeysIn(s) \subseteq K, NEW w
    PROVE  Weighed(Without(s, K), w) = 0
<1>1. Listed(Without(s, K), S) /\ KeysIn(Without(s, K)) = {}
  BY ListedWithout
<1>2. Len(Without(s, K)) = 0
  <2>1. Cardinality({}) = 0
    BY FS_EmptySet
  <2>2. QED BY <1>1, <2>1, ListedKeys
<1>3. Without(s, K) = <<>>
  BY <1>1, <1>2, EmptySeq DEF Listed
<1>4. QED BY <1>3, WeighedEmpty

LEMMA WeighedOne ==
    ASSUME NEW S, NEW s, Listed(s, S), NEW w, Weighting(w, S), NEW k \in KeysIn(s), NEW K,
           KeysIn(s) \cap {k} = KeysIn(s) \ K
    PROVE  Weighed(Without(s, K), w) = w[k]
<1> DEFINE o == Without(s, K)
<1>1. Listed(o, S) /\ KeysIn(o) = {k}
  BY ListedWithout
<1> HIDE DEF o
<1>2. Len(o) = 1 /\ o \in Seq(S) /\ o[1] \in S /\ o[1].key = k
  <2>1. Cardinality({k}) = 1
    BY FS_Singleton
  <2>2. Len(o) = 1 /\ \A i \in 1..Len(o) : o[i] \in S
    BY <1>1, <2>1, ListedKeys
  <2>3. 1 \in 1..Len(o)
    BY <2>2
  <2>4. QED BY <1>1, <2>2, <2>3 DEF KeysIn, Listed
<1> DEFINE x == o[1]
           one == Append(<<>>, x)
<1>3. <<>> \in Seq(S) /\ Len(<<>>) = 0
  BY EmptySeq
<1>4. one \in Seq(S) /\ Len(one) = 1 /\ one[1] = x
  BY <1>2, <1>3, AppendProperties
<1>5. Weighed(one, w) = w[k]
  <2>1. w[x.key] \in Nat /\ x.key = k /\ x \in S
    BY <1>2 DEF Weighting
  <2> HIDE DEF x
  <2>2. Weighed(one, w) = Weighed(<<>>, w) + w[x.key]
    BY <1>3, <2>1, WeighedStep
  <2>3. Weighed(<<>>, w) = 0
    BY WeighedEmpty
  <2>4. QED BY <2>1, <2>2, <2>3
<1> HIDE DEF one, x
<1>6. \A i \in 1..Len(o) : o[i].key = one[i].key
  BY <1>2, <1>4 DEF x
<1>7. Weighed(o, w) = Weighed(one, w)
  BY <1>2, <1>4, <1>6, WeighedSame
<1>8. QED BY <1>5, <1>7 DEF o
===============================================================================
