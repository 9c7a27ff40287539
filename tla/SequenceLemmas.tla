--------------------------- MODULE SequenceLemmas ---------------------------
(***************************************************************************)
(* What the lists of the modelled programs need of the community modules:  *)
(* elements put in front, dropped, removed and found, sets that are sent   *)
(* in some order, and the ends of a set of numbers.                        *)
(***************************************************************************)
EXTENDS Integers, Sequences, SequencesExt, FiniteSetsExt, SequenceTheorems, FiniteSetTheorems,
        WellFoundedInduction, TLAPS

\* Contains() of a list (QList::contains()).
LEMMA Contained ==
  ASSUME NEW S, NEW s, s \in Seq(S), NEW e
  PROVE  Contains(s, e) <=> \E i \in DOMAIN s : s[i] = e
  BY DEF Contains

\* An element in front of a list (QList::prepend(), QList::insert(0)).
LEMMA InFront ==
  ASSUME NEW S, NEW s, s \in Seq(S), NEW c \in S, NEW r, r = <<c>> \o s
  PROVE  /\ r \in Seq(S) /\ r # <<>> /\ 1 \in DOMAIN r /\ r[1] = c
         /\ \A i \in DOMAIN s : i + 1 \in DOMAIN r /\ r[i + 1] = s[i]
         /\ \A i \in DOMAIN r : i # 1 => i - 1 \in DOMAIN s /\ r[i] = s[i - 1]
<1>1. /\ r \in Seq(S) /\ Len(r) = Len(s) + 1 /\ Len(s) \in Nat
      /\ \A i \in 1..Len(s) + 1 : r[i] = IF i = 1 THEN c ELSE s[i - 1]
      /\ DOMAIN s = 1..Len(s)
  OBVIOUS
<1>2. DOMAIN r = 1..Len(s) + 1
  BY <1>1
<1>3. 1 \in DOMAIN r /\ r[1] = c /\ r # <<>>
  BY <1>1, <1>2
<1>4. ASSUME NEW i \in DOMAIN s PROVE i + 1 \in DOMAIN r /\ r[i + 1] = s[i]
  <2>1. i + 1 \in 1..Len(s) + 1 /\ i + 1 # 1 /\ (i + 1) - 1 = i
    BY <1>1
  <2> QED BY <1>1, <1>2, <2>1
<1>5. ASSUME NEW i \in DOMAIN r, i # 1 PROVE i - 1 \in DOMAIN s /\ r[i] = s[i - 1]
  BY <1>1, <1>2, <1>5
<1> QED BY <1>1, <1>3, <1>4, <1>5

\* What is left when one element is removed.
LEMMA RemoveAtValues ==
  ASSUME NEW S, NEW s, s \in Seq(S), NEW k, k \in DOMAIN s
  PROVE  /\ RemoveAt(s, k) \in Seq(S) /\ Len(RemoveAt(s, k)) = Len(s) - 1
         /\ \A i \in 1..Len(s) - 1 : RemoveAt(s, k)[i] = IF i < k THEN s[i] ELSE s[i + 1]
<1>1. /\ DOMAIN s = 1..Len(s) /\ Len(s) \in Nat /\ k \in 1..Len(s)
      /\ \A i \in 1..Len(s) : s[i] \in S
  OBVIOUS
<1> DEFINE u == SubSeq(s, 1, k - 1)
           v == SubSeq(s, k + 1, Len(s))
           r == RemoveAt(s, k)
<1>2. u \in Seq(S) /\ Len(u) = k - 1 /\ \A i \in 1..k - 1 : u[i] = s[i]
  <2>1. /\ 1 \in Int /\ k - 1 \in Int /\ \A i \in 1..k - 1 : s[i] \in S
    BY <1>1
  <2> QED BY <1>1, <2>1, SubSeqProperties
<1>3. v \in Seq(S) /\ Len(v) = Len(s) - k /\ \A i \in 1..Len(s) - k : v[i] = s[i + k]
  <2>1. /\ k + 1 \in Int /\ Len(s) \in Int /\ \A i \in k + 1..Len(s) : s[i] \in S
    BY <1>1
  <2>2. /\ v \in Seq(S)
        /\ Len(v) = IF k + 1 <= Len(s) THEN Len(s) - (k + 1) + 1 ELSE 0
        /\ \A i \in 1..Len(s) - (k + 1) + 1 : v[i] = s[k + 1 + i - 1]
    BY <2>1, SubSeqProperties
  <2> HIDE DEF v
  <2>3. Len(v) = Len(s) - k
    <3>1. \A p, q, l \in Int : /\ l \in 1..q
                               /\ l + 1 <= q => p = q - (l + 1) + 1
                               /\ ~(l + 1 <= q) => p = 0
                               => p = q - l
      OBVIOUS
    <3>2. Len(v) \in Nat
      BY <2>2, LenProperties, Zenon
    <3>3. Len(v) \in Int /\ Len(s) \in Int /\ k \in Int
      BY <1>1, <3>2
    <3>4. /\ k + 1 <= Len(s) => Len(v) = Len(s) - (k + 1) + 1
          /\ ~(k + 1 <= Len(s)) => Len(v) = 0
      BY <2>2, Zenon
    <3>5. k \in 1..Len(s)
      BY <1>1
    <3> QED BY <3>1, <3>3, <3>4, <3>5, Zenon
  <2>4. ASSUME NEW i \in 1..Len(s) - k PROVE v[i] = s[i + k]
    <3>1. i \in 1..Len(s) - (k + 1) + 1 /\ k + 1 + i - 1 = i + k
      BY <1>1
    <3>2. v[i] = s[k + 1 + i - 1]
      BY <2>2, <3>1, Zenon
    <3> QED BY <3>1, <3>2, Zenon
  <2> QED BY <2>2, <2>3, <2>4
<1>4. r = u \o v
  BY DEF RemoveAt
<1> HIDE DEF u, v, r
<1>5. /\ r \in Seq(S) /\ Len(r) = Len(u) + Len(v)
      /\ \A i \in 1..Len(u) + Len(v) : r[i] = IF i <= Len(u) THEN u[i] ELSE v[i - Len(u)]
  <2>1. /\ u \o v \in Seq(S) /\ Len(u \o v) = Len(u) + Len(v)
        /\ \A i \in 1..Len(u) + Len(v) :
             (u \o v)[i] = IF i <= Len(u) THEN u[i] ELSE v[i - Len(u)]
    BY <1>2, <1>3, ConcatProperties
  <2> QED BY <1>4, <2>1, Zenon
<1>6. Len(u) + Len(v) = Len(s) - 1 /\ Len(u) = k - 1
  BY <1>1, <1>2, <1>3
<1>7. ASSUME NEW i \in 1..Len(s) - 1 PROVE r[i] = IF i < k THEN s[i] ELSE s[i + 1]
  <2>1. CASE i < k
    <3>1. i \in 1..k - 1 /\ i <= k - 1
      BY <1>1, <2>1
    <3> QED BY <1>2, <1>5, <1>6, <2>1, <3>1
  <2>2. CASE ~(i < k)
    <3>1. ~(i <= k - 1) /\ i - (k - 1) \in 1..Len(s) - k /\ (i - (k - 1)) + k = i + 1
      BY <1>1, <2>2
    <3>2. r[i] = v[i - (k - 1)]
      BY <1>5, <1>6, <3>1
    <3>3. v[i - (k - 1)] = s[(i - (k - 1)) + k]
      BY <1>3, <3>1
    <3> QED BY <2>2, <3>1, <3>2, <3>3
  <2> QED BY <2>1, <2>2
<1> QED BY <1>5, <1>6, <1>7 DEF r

\* Removing one element leaves the others, each once if each was there once.
LEMMA RemoveAtElements ==
  ASSUME NEW S, NEW s, s \in Seq(S), NEW k, k \in DOMAIN s, NEW r, r = RemoveAt(s, k)
  PROVE  /\ r \in Seq(S) /\ Len(r) = Len(s) - 1
         /\ \A i \in DOMAIN r : \E j \in DOMAIN s : j # k /\ s[j] = r[i]
         /\ \A j \in DOMAIN s : j # k => \E i \in DOMAIN r : r[i] = s[j]
         /\ IsInjective(s) => IsInjective(r)
<1>1. /\ r \in Seq(S) /\ Len(r) = Len(s) - 1
      /\ \A i \in 1..Len(s) - 1 : r[i] = IF i < k THEN s[i] ELSE s[i + 1]
  BY RemoveAtValues
<1>2. DOMAIN r = 1..Len(s) - 1 /\ DOMAIN s = 1..Len(s) /\ Len(s) \in Nat /\ k \in 1..Len(s)
  BY <1>1
<1> DEFINE at(n) == IF n < k THEN n ELSE n + 1
<1>3. \A n \in DOMAIN r : at(n) \in DOMAIN s /\ at(n) # k /\ r[n] = s[at(n)]
  BY <1>1, <1>2
<1>4. ASSUME NEW j \in DOMAIN s, j # k PROVE \E i \in DOMAIN r : r[i] = s[j]
  <2>1. CASE j < k
    <3>1. j \in DOMAIN r /\ r[j] = s[j]
      BY <1>1, <1>2, <2>1
    <3> QED BY <3>1
  <2>2. CASE k < j
    <3>1. j - 1 \in DOMAIN r /\ ~(j - 1 < k) /\ (j - 1) + 1 = j
      BY <1>2, <2>2
    <3>2. r[j - 1] = s[j]
      BY <1>1, <1>2, <3>1
    <3> QED BY <3>1, <3>2
  <2> QED BY <1>2, <1>4, <2>1, <2>2
<1>5. ASSUME IsInjective(s), NEW i \in DOMAIN r, NEW j \in DOMAIN r, r[i] = r[j] PROVE i = j
  <2>1. at(i) = at(j)
    <3> HIDE DEF at
    <3> QED BY <1>3, <1>5 DEF IsInjective
  <2> QED BY <1>2, <2>1
<1>6. \A i \in DOMAIN r : \E j \in DOMAIN s : j # k /\ s[j] = r[i]
  BY <1>3
<1>7. IsInjective(s) => IsInjective(r)
  BY <1>5 DEF IsInjective
<1> QED BY <1>1, <1>4, <1>6, <1>7

\* A set of at most one element as a sequence.
LEMMA SetToSeqOfOne ==
  /\ SetToSeq({}) = <<>>
  /\ \A e : SetToSeq({e}) = <<e>>
<1>1. SetToSeq({}) = <<>>
  <2>1. Cardinality({}) = 0
    BY FS_EmptySet
  <2>2. [1..0 -> {}] = {<<>>}
    <3>1. \A f \in [1..0 -> {}] : f = <<>>
      OBVIOUS
    <3>2. <<>> \in [1..0 -> {}]
      OBVIOUS
    <3> QED BY <3>1, <3>2
  <2>3. IsInjective(<<>>)
    BY DEF IsInjective
  <2> QED BY <2>1, <2>2, <2>3 DEF SetToSeq
<1>2. ASSUME NEW e PROVE SetToSeq({e}) = <<e>>
  <2>1. Cardinality({e}) = 1
    BY FS_Singleton
  <2>2. \A f \in [1..1 -> {e}] : f = <<e>>
    OBVIOUS
  <2>3. <<e>> \in [1..1 -> {e}] /\ IsInjective(<<e>>)
    BY DEF IsInjective
  <2> QED BY <2>1, <2>2, <2>3 DEF SetToSeq
<1> QED BY <1>1, <1>2

\* A finite set in any order: every element is there.
LEMMA SetInOrder ==
  ASSUME NEW S, IsFiniteSet(S), NEW order \in SetToSeqs(S)
  PROVE  order \in Seq(S) /\ \A e \in S : \E i \in DOMAIN order : order[i] = e
<1> DEFINE n == Cardinality(S)
<1>1. n \in Nat
  BY FS_CardinalityType
<1>2. order \in [1..n -> S] /\ \A i, j \in 1..n : i # j => order[i] # order[j]
  BY DEF SetToSeqs
<1>3. order \in Injection(1..n, S)
  BY <1>2 DEF Injection, IsInjective
<1>4. Cardinality(1..n) = n
  <2> HIDE DEF n
  <2>1. Cardinality(1..n) = IF 1 > n THEN 0 ELSE n - 1 + 1
    BY <1>1, FS_Interval
  <2> QED BY <1>1, <2>1
<1>5. order \in Surjection(1..n, S)
  BY <1>3, <1>4, FS_Injection
<1> HIDE DEF n
<1> QED BY <1>1, <1>2, <1>5 DEF Surjection

\* A set of numbers that is not empty has a smallest one.
LEMMA SmallestNat ==
  ASSUME NEW T, T \subseteq Nat, T # {}
  PROVE  \E n \in T : \A k \in T : n <= k
<1> DEFINE R == {ss \in Nat \X Nat : ss[1] < ss[2]}
<1>1. IsWellFoundedOn(R, Nat)
  BY NatLessThanWellFounded DEF OpToRel
<1>2. PICK n \in T : \A k \in T : ~(<<k, n>> \in R)
  <2> HIDE DEF R
  <2> QED BY <1>1, WFMin, Zenon
<1>3. ASSUME NEW k \in T PROVE n <= k
  <2>1. ~(k < n)
    BY <1>2
  <2> QED BY <2>1
<1> QED BY <1>3

\* The largest of some natural numbers up to a bound.
LEMMA LargestNat ==
  ASSUME NEW T, NEW n \in Nat, T \subseteq 0..n, T # {}
  PROVE  Max(T) \in T /\ \A k \in T : k <= Max(T)
<1> DEFINE D == {n - k : k \in T}
<1>1. D \subseteq Nat /\ D # {}
  <2>1. \A k \in T : k \in 0..n
    OBVIOUS
  <2>2. \A k \in 0..n : n - k \in Nat
    OBVIOUS
  <2> QED BY <2>1, <2>2
<1>2. PICK d \in D : \A k \in D : d <= k
  <2> HIDE DEF D
  <2> QED BY <1>1, SmallestNat
<1>3. PICK m \in T : d = n - m
  OBVIOUS
<1>4. \A k \in T : m >= k
  <2> TAKE k \in T
  <2>1. n - m <= n - k
    BY <1>2, <1>3
  <2> QED BY <2>1
<1>5. \E m_1 \in T : \A k \in T : m_1 >= k
  BY <1>4
<1>6. Max(T) = CHOOSE x \in T : \A y \in T : x >= y
  BY DEF Max
<1>7. Max(T) \in T /\ \A k \in T : Max(T) >= k
  BY <1>5, <1>6
<1> QED BY <1>7

\* What is left of a list without its first elements (std::vector::erase()).
LEMMA Dropped ==
  ASSUME NEW S, NEW s \in Seq(S), NEW n \in Nat, n < Len(s)
  PROVE  /\ Len(SubSeq(s, n + 1, Len(s))) = Len(s) - n
         /\ DOMAIN SubSeq(s, n + 1, Len(s)) = 1..(Len(s) - n)
         /\ \A i \in 1..(Len(s) - n) : SubSeq(s, n + 1, Len(s))[i] = s[n + i]
OBVIOUS
=============================================================================
