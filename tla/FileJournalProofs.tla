------------------------- MODULE FileJournalProofs -------------------------
(***************************************************************************)
(* The files of the journal agree with what is remembered of them, are in  *)
(* the order of their times, complete and within their limit, and an I/O   *)
(* error costs one entry: for any limits, paths and clock, however often   *)
(* the program restarts and the directory is removed.                      *)
(***************************************************************************)
EXTENDS FileJournal, SequenceLemmas

(***************************************************************************)
(* Files, places and records.                                              *)
(***************************************************************************)
\* The files of a set, each once, in the order of their times.
LEMMA InOrderFiles ==
  ASSUME NEW F, F \subseteq Times, NEW s, s = InOrder(F)
  PROVE  /\ s \in Seq(Times) /\ Len(s) = Cardinality(F) /\ IsFiniteSet(F)
         /\ \A i \in DOMAIN s : s[i] \in F
         /\ \A f \in F : \E i \in DOMAIN s : s[i] = f
         /\ \A i, k \in DOMAIN s : i < k => s[i] < s[k]
<1> DEFINE n == Cardinality(F)
           Below(f) == {g \in F : g < f}
           rank == [f \in F |-> Cardinality(Below(f)) + 1]
<1>0. \A f \in F : f \in Int
  BY DEF Times
<1>1. IsFiniteSet(F) /\ n \in Nat
  <2>1. IsFiniteSet(Times)
    BY FileJournalAssumption, FS_Interval DEF Times
  <2> QED BY <2>1, FS_Subset, FS_CardinalityType
<1>2. \A f \in F : IsFiniteSet(Below(f)) /\ Cardinality(Below(f)) \in Nat
  BY <1>1, FS_Subset, FS_CardinalityType
<1>3. ASSUME NEW f \in F, NEW g \in F, f < g PROVE Cardinality(Below(f)) < Cardinality(Below(g))
  <2>1. Below(f) \cup {f} \subseteq Below(g) /\ f \notin Below(f)
    BY <1>0, <1>3
  <2>2. Cardinality(Below(f) \cup {f}) = Cardinality(Below(f)) + 1
    BY <1>2, <2>1, FS_AddElement
  <2>3. Cardinality(Below(f) \cup {f}) <= Cardinality(Below(g))
    BY <1>2, <2>1, FS_Subset
  <2>4. Cardinality(Below(f)) \in Nat /\ Cardinality(Below(g)) \in Nat
    BY <1>2
  <2> HIDE DEF Below
  <2> QED BY <2>2, <2>3, <2>4
<1>4. ASSUME NEW f \in F PROVE Cardinality(Below(f)) < n
  <2>1. Below(f) \cup {f} \subseteq F /\ f \notin Below(f)
    BY DEF Times
  <2>2. Cardinality(Below(f) \cup {f}) = Cardinality(Below(f)) + 1
    BY <1>2, <2>1, FS_AddElement
  <2>3. Cardinality(Below(f) \cup {f}) <= n
    BY <1>1, <2>1, FS_Subset
  <2> QED BY <1>1, <1>2, <2>2, <2>3
<1> HIDE DEF n, Below
<1>5. rank \in [F -> 1..n]
  BY <1>1, <1>2, <1>4
<1>6. rank \in Injection(F, 1..n)
  <2>1. \A f, g \in F : f # g => rank[f] # rank[g]
    BY <1>2, <1>3 DEF Times
  <2> QED BY <1>5, <2>1 DEF Injection, IsInjective
<1>7. IsFiniteSet(1..n) /\ Cardinality(1..n) = n
  <2>1. IsFiniteSet(1..n) /\ Cardinality(1..n) = IF 1 > n THEN 0 ELSE n - 1 + 1
    BY <1>1, FS_Interval
  <2> QED BY <1>1, <2>1
<1>8. rank \in Surjection(F, 1..n)
  BY <1>6, <1>7, FS_Injection DEF n
<1>9. \A i \in 1..n : \E f \in F : Cardinality(Below(f)) = i - 1
  <2> TAKE i \in 1..n
  <2>1. PICK f \in F : rank[f] = i
    BY <1>8 DEF Surjection
  <2> QED BY <1>1, <1>2, <2>1
<1>10. s = [i \in 1..n |-> CHOOSE f \in F : Cardinality(Below(f)) = i - 1]
  BY DEF InOrder, n, Below
<1>11. \A i \in 1..n : s[i] \in F /\ Cardinality(Below(s[i])) = i - 1
  BY <1>9, <1>10
<1>12. s \in Seq(Times) /\ Len(s) = n /\ DOMAIN s = 1..n
  <2>1. DOMAIN s = 1..n /\ s \in [1..n -> Times]
    BY <1>1, <1>10, <1>11
  <2> QED BY <1>1, <2>1
<1>13. \A f \in F : \E i \in DOMAIN s : s[i] = f
  <2> TAKE f \in F
  <2>1. rank[f] \in 1..n /\ Cardinality(Below(f)) = rank[f] - 1
    BY <1>2, <1>5
  <2>2. Cardinality(Below(s[rank[f]])) = Cardinality(Below(f)) /\ s[rank[f]] \in F
    BY <1>11, <2>1
  <2>3. s[rank[f]] = f
    BY <1>2, <1>0, <1>3, <2>2
  <2> QED BY <1>12, <2>1, <2>3
<1>14. \A i, k \in DOMAIN s : i < k => s[i] < s[k]
  <2> SUFFICES ASSUME NEW i \in 1..n, NEW k \in 1..n, i < k PROVE s[i] < s[k]
    BY <1>12
  <2>1. s[i] \in F /\ s[k] \in F /\ Cardinality(Below(s[i])) = i - 1 /\ Cardinality(Below(s[k])) = k - 1
    BY <1>11
  <2>2. ~(s[k] < s[i]) /\ s[k] # s[i]
    BY <1>1, <1>3, <2>1
  <2> QED BY <1>0, <2>1, <2>2
<1> QED BY <1>1, <1>11, <1>12, <1>13, <1>14 DEF n

\* What the directory may hold.
Disks == UNION {[F -> Seq(Records)] : F \in SUBSET Times}

\* The files of a directory and their records.
LEMMA DiskFacts ==
  ASSUME NEW d \in Disks
  PROVE  /\ DOMAIN d \subseteq Times /\ IsFiniteSet(DOMAIN d)
         /\ \A f \in DOMAIN d : /\ d[f] \in Seq(Records) /\ Len(d[f]) \in Nat
                                /\ DOMAIN d[f] = 1..Len(d[f])
<1>1. PICK F \in SUBSET Times : d \in [F -> Seq(Records)]
  BY DEF Disks
<1>2. IsFiniteSet(Times)
  BY FileJournalAssumption, FS_Interval DEF Times
<1>3. IsFiniteSet(DOMAIN d)
  BY <1>1, <1>2, FS_Subset
<1> QED BY <1>1, <1>3

\* A place is a file and the number of a record in it.
LEMMA PlaceFacts ==
  ASSUME NEW d \in Disks, NEW F \in SUBSET DOMAIN d
  PROVE  /\ \A x : x \in Places(d, F) <=> \E f \in F : \E i \in DOMAIN d[f] : x = <<f, i>>
         /\ IsFiniteSet(Places(d, F)) /\ SizeOf(d, F) \in Nat
<1>1. \A x : x \in Places(d, F) <=> \E f \in F : \E i \in DOMAIN d[f] : x = <<f, i>>
  <2> TAKE x
  <2>1. x \in Places(d, F) <=> \E f \in F : x \in {f} \X DOMAIN d[f]
    BY DEF Places
  <2>2. \A f : x \in {f} \X DOMAIN d[f] <=> \E i \in DOMAIN d[f] : x = <<f, i>>
    OBVIOUS
  <2> QED BY <2>1, <2>2
<1>2. IsFiniteSet(Places(d, F))
  <2> DEFINE S == {{f} \X DOMAIN d[f] : f \in F}
  <2>1. ASSUME NEW f \in F PROVE IsFiniteSet({f} \X DOMAIN d[f])
    <3>1. IsFiniteSet(1..Len(d[f]))
      BY DiskFacts, FS_Interval
    <3>2. IsFiniteSet({f}) /\ IsFiniteSet(DOMAIN d[f])
      BY <3>1, DiskFacts, FS_Singleton
    <3> QED BY <3>2, FS_Product
  <2>2. IsFiniteSet(F)
    BY DiskFacts, FS_Subset
  <2>3. IsFiniteSet(S)
    <3> DEFINE at == [f \in F |-> {f} \X DOMAIN d[f]]
    <3>1. at \in [F -> S] /\ \A T \in S : \E f \in F : at[f] = T
      OBVIOUS
    <3>2. at \in Surjection(F, S)
      <4> HIDE DEF S, at
      <4> QED BY <3>1, Zenon DEF Surjection
    <3> QED BY <2>2, <3>2, FS_Surjection
  <2>4. \A T \in S : IsFiniteSet(T)
    BY <2>1
  <2>5. Places(d, F) = UNION S
    BY DEF Places
  <2> HIDE DEF S
  <2> QED BY <2>3, <2>4, <2>5, FS_UNION
<1>3. SizeOf(d, F) \in Nat
  BY <1>2, FS_CardinalityType DEF SizeOf
<1> QED BY <1>1, <1>2, <1>3

Old(d, f) == IF f \in DOMAIN d THEN d[f] ELSE <<>>

\* A writer adds to the end of one file.
LEMMA WriteFacts ==
  ASSUME NEW d \in Disks, NEW f \in Times, NEW q \in Seq(Records), NEW w, w = write(d, f, q)
  PROVE  /\ w \in Disks /\ DOMAIN w = DOMAIN d \cup {f}
         /\ \A g \in DOMAIN d : g # f => w[g] = d[g]
         /\ w[f] = Old(d, f) \o q /\ Old(d, f) \in Seq(Records)
<1>1. Old(d, f) \in Seq(Records)
  BY DiskFacts DEF Old
<1>2. CASE f \in DOMAIN d
  <2>1. w = [d EXCEPT ![f] = d[f] \o q]
    BY <1>2 DEF write
  <2>2. /\ DOMAIN w = DOMAIN d \cup {f} /\ w[f] = Old(d, f) \o q
        /\ \A g \in DOMAIN d : g # f => w[g] = d[g]
    BY <1>2, <2>1 DEF Old
  <2>3. w \in [DOMAIN d -> Seq(Records)]
    <3>1. d[f] \in Seq(Records) /\ d[f] \o q \in Seq(Records)
      BY <1>2, DiskFacts
    <3>2. \A g \in DOMAIN d : w[g] \in Seq(Records)
      BY <1>2, <2>1, <3>1, DiskFacts
    <3> QED BY <2>1, <3>2
  <2>4. DOMAIN d \in SUBSET Times
    BY DiskFacts
  <2>5. w \in Disks
    BY <2>3, <2>4 DEF Disks
  <2> QED BY <1>1, <2>2, <2>5
<1>3. CASE f \notin DOMAIN d
  <2>1. w = [g \in DOMAIN d \cup {f} |-> IF g = f THEN q ELSE d[g]]
    BY <1>3 DEF write
  <2>2. Old(d, f) \o q = q
    BY <1>3 DEF Old
  <2>3. w \in [DOMAIN d \cup {f} -> Seq(Records)]
    BY <2>1, DiskFacts
  <2>4. DOMAIN d \cup {f} \in SUBSET Times
    BY DiskFacts
  <2>5. w \in Disks
    BY <2>3, <2>4 DEF Disks
  <2>6. \A g \in DOMAIN d : g # f => w[g] = d[g]
    BY <2>1
  <2>7. w[f] = q /\ DOMAIN w = DOMAIN d \cup {f}
    BY <2>1
  <2> QED BY <1>1, <2>2, <2>5, <2>6, <2>7
<1> QED BY <1>2, <1>3

\* The size of the directory grows by what is written.
LEMMA WriteSize ==
  ASSUME NEW d \in Disks, NEW f \in Times, NEW q \in Seq(Records), NEW w, w = write(d, f, q)
  PROVE  SizeOf(w, DOMAIN w) = SizeOf(d, DOMAIN d) + Len(q)
<1>0. /\ w \in Disks /\ DOMAIN w = DOMAIN d \cup {f} /\ w[f] = Old(d, f) \o q
      /\ Old(d, f) \in Seq(Records)
      /\ \A g \in DOMAIN d : g # f => w[g] = d[g]
  <2>1. w = write(d, f, q)
    OBVIOUS
  <2>2. /\ write(d, f, q) \in Disks /\ DOMAIN write(d, f, q) = DOMAIN d \cup {f}
        /\ \A g \in DOMAIN d : g # f => write(d, f, q)[g] = d[g]
        /\ write(d, f, q)[f] = Old(d, f) \o q /\ Old(d, f) \in Seq(Records)
    BY WriteFacts, Zenon
  <2> QED BY <2>1, <2>2, Zenon
<1> DEFINE o == Old(d, f)
           new == {f} \X (Len(o) + 1 .. Len(o) + Len(q))
           P == Places(d, DOMAIN d)
           W == Places(w, DOMAIN w)
<1>1. /\ w \in Disks /\ DOMAIN w = DOMAIN d \cup {f} /\ w[f] = o \o q /\ o \in Seq(Records)
      /\ \A g \in DOMAIN d : g # f => w[g] = d[g]
  BY <1>0
<1>2. Len(o) \in Nat /\ Len(q) \in Nat /\ DOMAIN w[f] = 1..(Len(o) + Len(q)) /\ DOMAIN o = 1..Len(o)
  <2> HIDE DEF o
  <2> QED BY <1>1
<1>3. /\ \A x : x \in P <=> \E g \in DOMAIN d : \E i \in DOMAIN d[g] : x = <<g, i>>
      /\ \A x : x \in W <=> \E g \in DOMAIN w : \E i \in DOMAIN w[g] : x = <<g, i>>
      /\ IsFiniteSet(P)
  <2>1. DOMAIN w \in SUBSET DOMAIN w /\ DOMAIN d \in SUBSET DOMAIN d /\ w \in Disks
    BY <1>1
  <2> HIDE DEF o
  <2> QED BY <2>1, PlaceFacts, Zenon
<1>4. f \in DOMAIN d => DOMAIN d[f] = 1..Len(o)
  BY <1>2 DEF Old
<1>5. f \notin DOMAIN d => Len(o) = 0
  BY DEF Old
<1> HIDE DEF o, P, W
<1>6. W = P \cup new
  <2>1. ASSUME NEW x \in W PROVE x \in P \cup new
    <3>1. PICK g \in DOMAIN w : \E i \in DOMAIN w[g] : x = <<g, i>>
      BY <1>3
    <3>2. PICK i \in DOMAIN w[g] : x = <<g, i>>
      BY <3>1
    <3>3. CASE g # f
      BY <1>1, <1>3, <3>2, <3>3
    <3>4. CASE g = f
      <4>1. i \in 1..(Len(o) + Len(q))
        BY <1>2, <3>4
      <4>2. CASE i > Len(o)
        BY <1>2, <3>2, <3>4, <4>1, <4>2
      <4>3. CASE i <= Len(o)
        <5>1. f \in DOMAIN d /\ i \in DOMAIN d[f]
          BY <1>2, <1>4, <1>5, <4>1, <4>3
        <5> QED BY <1>3, <3>2, <3>4, <5>1
      <4> QED BY <1>2, <4>1, <4>2, <4>3
    <3> QED BY <3>3, <3>4
  <2>2. ASSUME NEW x \in P PROVE x \in W
    <3>1. PICK g \in DOMAIN d : \E i \in DOMAIN d[g] : x = <<g, i>>
      BY <1>3
    <3>2. PICK i \in DOMAIN d[g] : x = <<g, i>>
      BY <3>1
    <3>3. CASE g # f
      BY <1>1, <1>3, <3>2, <3>3
    <3>4. CASE g = f
      <4>1. i \in 1..Len(o) /\ Len(o) \in Nat /\ Len(q) \in Nat
        BY <1>2, <1>4, <3>2, <3>4
      <4>2. i \in DOMAIN w[f] /\ f \in DOMAIN w
        BY <1>1, <1>2, <4>1
      <4> QED BY <1>3, <3>2, <3>4, <4>2
    <3> QED BY <3>3, <3>4
  <2>3. ASSUME NEW x \in new PROVE x \in W
    <3>1. PICK i \in Len(o) + 1 .. Len(o) + Len(q) : x = <<f, i>>
      OBVIOUS
    <3>2. i \in DOMAIN w[f] /\ f \in DOMAIN w
      BY <1>1, <1>2
    <3> QED BY <1>3, <3>1, <3>2
  <2> QED BY <2>1, <2>2, <2>3
<1>7. P \cap new = {}
  <2> SUFFICES ASSUME NEW x \in P, x \in new PROVE FALSE
    OBVIOUS
  <2>1. PICK i \in Len(o) + 1 .. Len(o) + Len(q) : x = <<f, i>>
    OBVIOUS
  <2>2. f \in DOMAIN d /\ i \in DOMAIN d[f]
    BY <1>3, <2>1
  <2> QED BY <1>2, <1>4, <2>1, <2>2
<1>8. IsFiniteSet(new) /\ Cardinality(new) = Len(q)
  <2>1. /\ IsFiniteSet(Len(o) + 1 .. Len(o) + Len(q))
        /\ Cardinality(Len(o) + 1 .. Len(o) + Len(q)) = Len(q)
    <3>1. Len(o) + 1 \in Int /\ Len(o) + Len(q) \in Int
      BY <1>2
    <3>2. /\ IsFiniteSet(Len(o) + 1 .. Len(o) + Len(q))
          /\ Cardinality(Len(o) + 1 .. Len(o) + Len(q)) =
               IF Len(o) + 1 > Len(o) + Len(q) THEN 0
               ELSE (Len(o) + Len(q)) - (Len(o) + 1) + 1
      BY <3>1, FS_Interval
    <3> QED BY <1>2, <3>2
  <2>2. IsFiniteSet({f}) /\ Cardinality({f}) = 1
    BY FS_Singleton
  <2>3. IsFiniteSet(new) /\ Cardinality(new) = 1 * Len(q)
    BY <2>1, <2>2, FS_Product
  <2> QED BY <1>2, <2>3
<1> HIDE DEF new
<1>9. Cardinality(W) = Cardinality(P) + Cardinality(new) - Cardinality({})
  BY <1>3, <1>6, <1>7, <1>8, FS_Union
<1>10. Cardinality({}) = 0 /\ Cardinality(P) \in Nat
  BY <1>3, FS_EmptySet, FS_CardinalityType
<1>11. Cardinality(W) = Cardinality(P) + Len(q)
  BY <1>2, <1>8, <1>9, <1>10
<1> QED BY <1>11 DEF SizeOf, P, W

\* A snapshot has one record for every value known.
LEMMA SnapshotFacts ==
  ASSUME NEW snap \in [Paths -> 0..MaxEntries], NEW t \in Times, NEW q, q = Snapshot(snap, t)
  PROVE  /\ q \in Seq(Records) /\ Len(q) \in Nat /\ Len(q) <= Cardinality(Paths)
         /\ \A i \in DOMAIN q : /\ q[i].ts = t /\ q[i].snap
                                /\ q[i].path \in Paths /\ q[i].val = snap[q[i].path]
         /\ \A p \in Paths : snap[p] > 0 => \E i \in DOMAIN q : q[i].path = p
<1> DEFINE K == {p \in Paths : snap[p] > 0}
           n == Cardinality(K)
           known == SetToSeq(K)
<1>1. IsFiniteSet(K) /\ n \in Nat /\ n <= Cardinality(Paths) /\ Cardinality(Paths) \in Nat
  BY FileJournalAssumption, FS_Subset, FS_CardinalityType
<1>2. known \in [1..n -> K] /\ IsInjective(known)
  <2>1. ExistsBijection(1..n, K)
    BY <1>1, FS_CardinalityType
  <2>2. \E f \in [1..n -> K] : IsInjective(f)
    BY <2>1 DEF ExistsBijection, Bijection, Injection, IsInjective
  <2> QED BY <2>2 DEF SetToSeq
<1>3. known \in Surjection(1..n, K)
  <2>1. known \in Injection(1..n, K)
    BY <1>2 DEF Injection, IsInjective
  <2>2. Cardinality(1..n) = n
    <3> HIDE DEF n
    <3>1. Cardinality(1..n) = IF 1 > n THEN 0 ELSE n - 1 + 1
      BY <1>1, FS_Interval
    <3> QED BY <1>1, <3>1
  <2> QED BY <1>1, <2>1, <2>2, FS_Injection
<1>4. q = [i \in DOMAIN known |-> [ts |-> t, path |-> known[i], val |-> snap[known[i]], snap |-> TRUE]]
  BY DEF Snapshot
<1> HIDE DEF n, known
<1>5. DOMAIN q = 1..n
  BY <1>2, <1>4
<1>6. ASSUME NEW i \in 1..n
      PROVE /\ q[i] \in Records /\ q[i].ts = t /\ q[i].snap
            /\ q[i].path = known[i] /\ q[i].path \in Paths /\ q[i].val = snap[q[i].path]
  <2>1. known[i] \in Paths /\ snap[known[i]] \in 1..MaxEntries
    <3>1. known[i] \in K
      BY <1>2
    <3>2. known[i] \in Paths /\ snap[known[i]] \in 0..MaxEntries /\ snap[known[i]] > 0
      BY <3>1
    <3> QED BY <3>2, FileJournalAssumption
  <2>2. q[i] = [ts |-> t, path |-> known[i], val |-> snap[known[i]], snap |-> TRUE]
    BY <1>2, <1>4
  <2> QED BY <2>1, <2>2 DEF Records
<1>7. q \in Seq(Records) /\ Len(q) = n
  <2>1. q \in [1..n -> Records]
    BY <1>4, <1>5, <1>6
  <2> QED BY <1>1, <2>1
<1>8. ASSUME NEW p \in Paths, snap[p] > 0 PROVE \E i \in DOMAIN q : q[i].path = p
  <2>1. PICK i \in 1..n : known[i] = p
    BY <1>3, <1>8 DEF Surjection
  <2> QED BY <1>5, <1>6, <2>1
<1> QED BY <1>1, <1>5, <1>6, <1>7, <1>8

\* The last value of a path in records that were added to.
LEMMA ValueOfAdded ==
  ASSUME NEW o \in Seq(Records), NEW q \in Seq(Records), NEW p
  PROVE  /\ (\A i \in DOMAIN q : q[i].path # p) => ValueIn(o \o q, p) = ValueIn(o, p)
         /\ (\E i \in DOMAIN q : q[i].path = p) =>
               \E i \in DOMAIN q : q[i].path = p /\ ValueIn(o \o q, p) = q[i].val
<1> DEFINE r == o \o q
           A(s) == {i \in DOMAIN s : s[i].path = p}
<1>1. /\ DOMAIN o = 1..Len(o) /\ DOMAIN q = 1..Len(q) /\ Len(o) \in Nat /\ Len(q) \in Nat
      /\ DOMAIN r = 1..(Len(o) + Len(q))
      /\ \A i \in 1..Len(o) : r[i] = o[i]
      /\ \A i \in 1..(Len(o) + Len(q)) : i > Len(o) => r[i] = q[i - Len(o)]
      /\ \A i \in 1..Len(q) : r[i + Len(o)] = q[i] /\ i + Len(o) \in DOMAIN r
  OBVIOUS
<1> HIDE DEF r
<1>2. \A s : ValueIn(s, p) = IF A(s) = {} THEN 0 ELSE s[Max(A(s))].val
  BY DEF ValueIn
<1>3. CASE \A i \in DOMAIN q : q[i].path # p
  <2>1. A(r) = A(o)
    <3>1. \A i \in DOMAIN r : r[i].path = p => i \in DOMAIN o
      <4> TAKE i \in DOMAIN r
      <4>1. CASE i > Len(o)
        <5>1. i - Len(o) \in 1..Len(q) /\ r[i] = q[i - Len(o)]
          BY <1>1, <4>1
        <5> QED BY <1>1, <1>3, <5>1
      <4>2. CASE i <= Len(o)
        BY <1>1, <4>2
      <4> QED BY <1>1, <4>1, <4>2
    <3>2. \A i \in DOMAIN o : i \in DOMAIN r /\ r[i] = o[i]
      BY <1>1
    <3> QED BY <3>1, <3>2
  <2>2. A(o) # {} => Max(A(o)) \in A(o)
    <3>1. A(o) \subseteq 0..Len(o)
      BY <1>1
    <3> HIDE DEF A
    <3> QED BY <1>1, <3>1, LargestNat
  <2>3. A(o) # {} => r[Max(A(o))] = o[Max(A(o))]
    BY <1>1, <2>2
  <2> HIDE DEF A
  <2> QED BY <1>2, <1>3, <2>1, <2>3 DEF r
<1>4. CASE \E i \in DOMAIN q : q[i].path = p
  <2>1. PICK k \in DOMAIN q : q[k].path = p
    BY <1>4
  <2>2. k + Len(o) \in A(r)
    BY <1>1, <2>1
  <2>3. A(r) \subseteq 0..(Len(o) + Len(q)) /\ Len(o) + Len(q) \in Nat
    BY <1>1
  <2>4. Max(A(r)) \in A(r) /\ k + Len(o) <= Max(A(r))
    <3> HIDE DEF A
    <3> QED BY <2>2, <2>3, LargestNat
  <2> DEFINE m == Max(A(r))
  <2>5. m \in DOMAIN r /\ r[m].path = p /\ k + Len(o) <= m
    BY <2>4
  <2>6. ValueIn(r, p) = r[m].val
    BY <1>2, <2>2
  <2> HIDE DEF m
  <2>7. m - Len(o) \in DOMAIN q /\ r[m] = q[m - Len(o)]
    BY <1>1, <2>5
  <2> QED BY <1>4, <2>5, <2>6, <2>7 DEF r
<1> QED BY <1>3, <1>4

(***************************************************************************)
(* The inductive invariant.                                                *)
(***************************************************************************)
Contexts == [exists : BOOLEAN, size : Int, lastSize : Int, files : Seq(Times), recent : 0..MaxTime]
Journals == [dir : BOOLEAN, disk : Disks, ctx : Contexts, snap : [Paths -> 0..MaxEntries]]

\* The context lists the files, measures the newest and counts the entries;
\* what it does not count are the records of snapshots.
Lists(s) == \A f \in Times : f \in DOMAIN s.disk <=> \E i \in DOMAIN s.ctx.files : s.ctx.files[i] = f
Measures(s) == s.ctx.files # <<>> => s.ctx.lastSize = Len(s.disk[Last(s.ctx.files)])
Counts(s) ==
  SizeOf(s.disk, DOMAIN s.disk) <= s.ctx.size + Len(s.ctx.files) * Cardinality(Paths)
Bounded(s) ==
  Cardinality(DOMAIN s.disk) > 1 =>
    SizeOf(s.disk, DOMAIN s.disk) <= JournalLimit + Len(s.ctx.files) * Cardinality(Paths)

\* What is known of the records of a directory d.
At(d, x) == d[x[1]][x[2]]
In(d) == Places(d, DOMAIN d)
UpTo(d, t) == (\A x \in In(d) : At(d, x).ts <= t) /\ \A f \in DOMAIN d : f <= t
Monotonic(d) == \A x, y \in In(d) : Precedes(x, y) => At(d, x).ts <= At(d, y).ts
Rising(d, n) ==
  \A x \in In(d) : ~At(d, x).snap =>
    At(d, x).val <= n /\ \A y \in In(d) : ~At(d, y).snap /\ Precedes(x, y) =>
                                            At(d, x).val < At(d, y).val
Unbroken(d, n) ==
  \A x \in In(d) : ~At(d, x).snap =>
    \A v \in At(d, x).val..n : \E y \in In(d) : ~At(d, y).snap /\ At(d, y).val = v
Complete(d, f, snap) == \A p \in Paths : snap[p] > 0 => ValueIn(d[f], p) = snap[p]

Timely(s, n) ==
  DOMAIN s.disk # {} =>
    /\ Monotonic(s.disk) /\ UpTo(s.disk, s.ctx.recent)
    /\ Rising(s.disk, n) /\ Unbroken(s.disk, n)
    /\ \A f \in DOMAIN s.disk : f <= Last(s.ctx.files)
    /\ Complete(s.disk, Last(s.ctx.files), s.snap)

Kept(s) ==
  /\ s \in Journals
  /\ ~s.dir => DOMAIN s.disk = {}
  /\ s.ctx.exists => s.ctx.recent > 0 /\ s.ctx.size >= 0
  /\ s.ctx.exists /\ s.dir => Lists(s) /\ Measures(s) /\ Counts(s) /\ Bounded(s)

IInv ==
  /\ Kept(j)
  /\ count \in 0..MaxEntries /\ lost \subseteq 1..count /\ Cardinality(lost) <= errors
  /\ restarts \in 0..MaxRestarts /\ removals \in 0..MaxRemovals /\ errors \in 0..MaxErrors
  /\ TimeIsKnown => (j.ctx.exists \/ DOMAIN j.disk = {}) /\ Timely(j, count)

\* The records after a writer has added q to file f.
LEMMA AddedPlaces ==
  ASSUME NEW d \in Disks, NEW f \in Times, NEW q \in Seq(Records), NEW w, w = write(d, f, q)
  PROVE  /\ \A x \in In(w) :
              \/ x \in In(d) /\ At(w, x) = At(d, x)
              \/ x[1] = f /\ x \notin In(d) /\ \E i \in DOMAIN q : x[2] = Len(Old(d, f)) + i /\ At(w, x) = q[i]
         /\ \A x \in In(d) : x \in In(w) /\ At(w, x) = At(d, x)
         /\ \A i \in DOMAIN q : /\ <<f, Len(Old(d, f)) + i>> \in In(w)
                                /\ At(w, <<f, Len(Old(d, f)) + i>>) = q[i]
         /\ (\A g \in DOMAIN d : g <= f) =>
              \A x, y \in In(w) : Precedes(x, y) /\ y \in In(d) => x \in In(d)
<1>1. /\ write(d, f, q) \in Disks /\ DOMAIN write(d, f, q) = DOMAIN d \cup {f}
      /\ \A g \in DOMAIN d : g # f => write(d, f, q)[g] = d[g]
      /\ write(d, f, q)[f] = Old(d, f) \o q /\ Old(d, f) \in Seq(Records)
  BY WriteFacts, Zenon
<1>2. /\ w \in Disks /\ DOMAIN w = DOMAIN d \cup {f}
      /\ \A g \in DOMAIN d : g # f => w[g] = d[g]
      /\ w[f] = Old(d, f) \o q /\ Old(d, f) \in Seq(Records)
  BY <1>1, Zenon
<1> DEFINE o == Old(d, f)
<1>4. /\ f \in DOMAIN d => d[f] = o
      /\ f \notin DOMAIN d => Len(o) = 0
  BY DEF Old
<1>3. /\ w \in Disks /\ DOMAIN w = DOMAIN d \cup {f}
      /\ \A g \in DOMAIN d : g # f => w[g] = d[g]
      /\ w[f] = o \o q /\ o \in Seq(Records)
  BY <1>2
<1> HIDE DEF o
<1>5. /\ Len(o) \in Nat /\ Len(q) \in Nat /\ DOMAIN q = 1..Len(q) /\ DOMAIN o = 1..Len(o)
      /\ DOMAIN w[f] = 1..(Len(o) + Len(q))
      /\ \A i \in 1..Len(o) : w[f][i] = o[i]
      /\ \A i \in 1..Len(q) : w[f][Len(o) + i] = q[i]
  BY <1>3
<1>6. /\ \A x : x \in In(d) <=> \E g \in DOMAIN d : \E i \in DOMAIN d[g] : x = <<g, i>>
      /\ \A x : x \in In(w) <=> \E g \in DOMAIN w : \E i \in DOMAIN w[g] : x = <<g, i>>
  <2>1. DOMAIN w \in SUBSET DOMAIN w /\ DOMAIN d \in SUBSET DOMAIN d /\ w \in Disks
    BY <1>3
  <2> QED BY <2>1, PlaceFacts, Zenon DEF In
<1>7. ASSUME NEW x \in In(w)
      PROVE  \/ x \in In(d) /\ At(w, x) = At(d, x)
             \/ x[1] = f /\ x \notin In(d) /\ \E i \in DOMAIN q : x[2] = Len(o) + i /\ At(w, x) = q[i]
  <2>0. PICK g \in DOMAIN w : \E i \in DOMAIN w[g] : x = <<g, i>>
    BY <1>6
  <2>1. PICK i \in DOMAIN w[g] : x = <<g, i>>
    BY <2>0
  <2>2. x[1] = g /\ x[2] = i
    BY <2>1
  <2>3. CASE g # f
    <3>1. g \in DOMAIN d /\ w[g] = d[g] /\ i \in DOMAIN d[g]
      BY <1>3, <2>3
    <3> QED BY <1>6, <2>1, <2>2, <3>1 DEF At
  <2>4. CASE g = f /\ i <= Len(o)
    <3>1. i \in 1..Len(o)
      BY <1>5, <2>4
    <3>2. f \in DOMAIN d /\ i \in DOMAIN d[f]
      BY <1>4, <1>5, <3>1
    <3> QED BY <1>4, <1>5, <1>6, <2>1, <2>2, <2>4, <3>1, <3>2 DEF At
  <2>5. CASE g = f /\ i > Len(o)
    <3>1. i - Len(o) \in 1..Len(q) /\ i = Len(o) + (i - Len(o))
      BY <1>5, <2>5
    <3>2. x \notin In(d)
      <4> SUFFICES ASSUME x \in In(d) PROVE FALSE
        OBVIOUS
      <4>0. PICK h \in DOMAIN d : \E k \in DOMAIN d[h] : x = <<h, k>>
        BY <1>6
      <4>1. PICK k \in DOMAIN d[h] : x = <<h, k>>
        BY <4>0
      <4>2. h = f /\ k = i
        BY <2>1, <2>5, <4>1
      <4> QED BY <1>4, <1>5, <2>5, <4>1, <4>2
    <3>3. At(w, x) = q[i - Len(o)]
      BY <1>5, <2>2, <2>5, <3>1 DEF At
    <3> QED BY <1>5, <2>2, <2>5, <3>1, <3>2, <3>3
  <2>6. i \in Int /\ Len(o) \in Int
    <3>1. DOMAIN w[g] = 1..Len(w[g]) /\ Len(w[g]) \in Nat
      BY <1>3, DiskFacts
    <3> QED BY <1>5, <3>1
  <2> QED BY <2>3, <2>4, <2>5, <2>6
<1>8. ASSUME NEW x \in In(d) PROVE x \in In(w) /\ At(w, x) = At(d, x)
  <2>0. PICK g \in DOMAIN d : \E i \in DOMAIN d[g] : x = <<g, i>>
    BY <1>6
  <2>1. PICK i \in DOMAIN d[g] : x = <<g, i>>
    BY <2>0
  <2>2. x[1] = g /\ x[2] = i
    BY <2>1
  <2>3. g \in DOMAIN w
    BY <1>3
  <2>4. CASE g # f
    <3>1. w[g] = d[g]
      BY <1>3, <2>4
    <3> QED BY <1>6, <2>1, <2>2, <2>3, <3>1 DEF At
  <2>5. CASE g = f
    <3>1. i \in 1..Len(o) /\ i \in 1..(Len(o) + Len(q))
      BY <1>4, <1>5, <2>5
    <3> QED BY <1>4, <1>5, <1>6, <2>1, <2>2, <2>3, <2>5, <3>1 DEF At
  <2> QED BY <2>4, <2>5
<1>9. ASSUME NEW i \in DOMAIN q
      PROVE  <<f, Len(o) + i>> \in In(w) /\ At(w, <<f, Len(o) + i>>) = q[i]
  <2>1. f \in DOMAIN w /\ Len(o) + i \in DOMAIN w[f]
    BY <1>3, <1>5
  <2> QED BY <1>5, <1>6, <2>1 DEF At
<1>10. ASSUME \A g \in DOMAIN d : g <= f, NEW x \in In(w), NEW y \in In(w), Precedes(x, y), y \in In(d)
       PROVE  x \in In(d)
  <2> SUFFICES ASSUME x \notin In(d) PROVE FALSE
    OBVIOUS
  <2>1. PICK k \in DOMAIN q : x[1] = f /\ x[2] = Len(o) + k
    BY <1>7
  <2>0. PICK g \in DOMAIN d : \E i \in DOMAIN d[g] : y = <<g, i>>
    BY <1>6, <1>10
  <2>2. PICK i \in DOMAIN d[g] : y = <<g, i>>
    BY <2>0
  <2>3. y[1] = g /\ y[2] = i /\ g <= f /\ g \in Int /\ f \in Int
    BY <1>10, <2>2, DiskFacts DEF Times
  <2>4. f = g /\ x[2] < i
    BY <1>10, <2>1, <2>3 DEF Precedes
  <2>5. i \in 1..Len(o)
    BY <1>4, <1>5, <2>2, <2>4
  <2> QED BY <1>5, <2>1, <2>4, <2>5
<1> QED BY <1>7, <1>8, <1>9, <1>10 DEF o

\* The parts of a place and of the record in it.
LEMMA RecordFacts ==
  ASSUME NEW d \in Disks, NEW x \in In(d)
  PROVE  /\ x[1] \in DOMAIN d /\ x[1] \in Int /\ x[2] \in Nat /\ x = <<x[1], x[2]>>
         /\ x[2] \in DOMAIN d[x[1]] /\ At(d, x) \in Records
<1>1. DOMAIN d \in SUBSET DOMAIN d
  OBVIOUS
<1>0. PICK g \in DOMAIN d : \E i \in DOMAIN d[g] : x = <<g, i>>
  BY <1>1, PlaceFacts DEF In
<1>2. PICK i \in DOMAIN d[g] : x = <<g, i>>
  BY <1>0
<1>3. g \in Int /\ i \in Nat /\ d[g][i] \in Records
  BY DiskFacts DEF Times
<1> QED BY <1>2, <1>3 DEF At

\* Adding records of one time to the newest file keeps the times in order.
LEMMA AddedTimes ==
  ASSUME NEW d \in Disks, NEW f \in Times, NEW q \in Seq(Records), NEW w, w = write(d, f, q),
         NEW t \in Times, NEW u \in Int, f <= t, u <= t,
         \A i \in DOMAIN q : q[i].ts = t,
         DOMAIN d # {} => Monotonic(d) /\ UpTo(d, u) /\ \A g \in DOMAIN d : g <= f
  PROVE  Monotonic(w) /\ UpTo(w, t)
<1>0. w \in Disks /\ DOMAIN w = DOMAIN d \cup {f} /\ f \in Int /\ t \in Int
  <2>1. write(d, f, q) \in Disks /\ DOMAIN write(d, f, q) = DOMAIN d \cup {f}
    BY WriteFacts, Zenon
  <2> QED BY <2>1 DEF Times
<1>1. /\ \A x \in In(w) : \/ x \in In(d) /\ At(w, x) = At(d, x)
                          \/ x \notin In(d) /\ \E i \in DOMAIN q : At(w, x) = q[i]
      /\ (\A g \in DOMAIN d : g <= f) =>
           \A x, y \in In(w) : Precedes(x, y) /\ y \in In(d) => x \in In(d)
  BY AddedPlaces
<1>2. \A x \in In(w) : \/ x \in In(d) /\ At(w, x) = At(d, x)
                       \/ x \notin In(d) /\ At(w, x).ts = t
  BY <1>1
<1>3. \A x \in In(d) : x[1] \in DOMAIN d /\ At(d, x).ts \in Int /\ At(d, x).ts <= t
  <2> TAKE x \in In(d)
  <2>1. x[1] \in DOMAIN d /\ At(d, x).ts \in Int
    BY RecordFacts DEF Records, Times
  <2>2. At(d, x).ts <= u
    BY <2>1 DEF UpTo
  <2> QED BY <1>0, <2>1, <2>2
<1>4. \A g \in DOMAIN w : g <= t
  <2> TAKE g \in DOMAIN w
  <2>1. CASE g = f
    BY <2>1
  <2>2. CASE g \in DOMAIN d
    <3>1. g <= u /\ g \in Int
      BY <2>2, DiskFacts DEF UpTo, Times
    <3> QED BY <1>0, <3>1
  <2> QED BY <1>0, <2>1, <2>2
<1>5. UpTo(w, t)
  BY <1>0, <1>2, <1>3, <1>4 DEF UpTo
<1>6. ASSUME NEW x \in In(w), NEW y \in In(w), Precedes(x, y) PROVE At(w, x).ts <= At(w, y).ts
  <2>1. CASE y \notin In(d)
    BY <1>0, <1>2, <1>3, <2>1
  <2>2. CASE y \in In(d)
    <3>1. DOMAIN d # {}
      BY <1>3, <2>2
    <3>2. x \in In(d)
      BY <1>1, <1>6, <2>2, <3>1
    <3> QED BY <1>2, <1>6, <2>2, <3>1, <3>2 DEF Monotonic
  <2> QED BY <2>1, <2>2
<1> QED BY <1>5, <1>6 DEF Monotonic

\* A snapshot changes no entry.
LEMMA SnapshotValues ==
  ASSUME NEW d \in Disks, NEW f \in Times, NEW q \in Seq(Records), NEW w, w = write(d, f, q),
         NEW n \in Nat, \A i \in DOMAIN q : q[i].snap,
         DOMAIN d # {} => Rising(d, n) /\ Unbroken(d, n)
  PROVE  Rising(w, n) /\ Unbroken(w, n)
<1>1. /\ \A x \in In(w) : \/ x \in In(d) /\ At(w, x) = At(d, x)
                          \/ x \notin In(d) /\ \E i \in DOMAIN q : At(w, x) = q[i]
      /\ \A x \in In(d) : x \in In(w) /\ At(w, x) = At(d, x)
  BY AddedPlaces
<1>2. \A x \in In(w) : ~At(w, x).snap => x \in In(d) /\ At(w, x) = At(d, x)
  BY <1>1
<1>3. \A x \in In(d) : DOMAIN d # {}
  BY RecordFacts
<1>4. Rising(w, n)
  BY <1>2, <1>3 DEF Rising
<1>5. Unbroken(w, n)
  <2> SUFFICES ASSUME NEW x \in In(w), ~At(w, x).snap, NEW v \in At(w, x).val..n
               PROVE  \E y \in In(w) : ~At(w, y).snap /\ At(w, y).val = v
    BY DEF Unbroken
  <2>1. x \in In(d) /\ ~At(d, x).snap /\ v \in At(d, x).val..n
    BY <1>2
  <2>2. PICK y \in In(d) : ~At(d, y).snap /\ At(d, y).val = v
    BY <1>3, <2>1 DEF Unbroken
  <2> QED BY <1>1, <2>2
<1> QED BY <1>4, <1>5

\* The next entry goes to the end of the newest file.
LEMMA EntryValues ==
  ASSUME NEW d \in Disks, NEW f \in Times, NEW e \in Records, NEW w, w = write(d, f, <<e>>),
         NEW n \in Nat, ~e.snap, e.val = n + 1,
         DOMAIN d # {} => Rising(d, n) /\ Unbroken(d, n) /\ \A g \in DOMAIN d : g <= f
  PROVE  Rising(w, n + 1) /\ Unbroken(w, n + 1)
<1> DEFINE q == <<e>>
           z == <<f, Len(Old(d, f)) + 1>>
<1>0. q \in Seq(Records) /\ DOMAIN q = {1} /\ q[1] = e
  OBVIOUS
<1> HIDE DEF q
<1>1. /\ \A x \in In(w) :
              \/ x \in In(d) /\ At(w, x) = At(d, x)
              \/ x[1] = f /\ x \notin In(d) /\ \E i \in DOMAIN q : x[2] = Len(Old(d, f)) + i /\ At(w, x) = q[i]
      /\ \A x \in In(d) : x \in In(w) /\ At(w, x) = At(d, x)
      /\ \A i \in DOMAIN q : /\ <<f, Len(Old(d, f)) + i>> \in In(w)
                             /\ At(w, <<f, Len(Old(d, f)) + i>>) = q[i]
      /\ (\A g \in DOMAIN d : g <= f) =>
           \A x, y \in In(w) : Precedes(x, y) /\ y \in In(d) => x \in In(d)
  <2>1. w = write(d, f, q)
    BY DEF q
  <2> QED BY <1>0, <2>1, AddedPlaces
<1>2. w \in Disks
  <2>1. write(d, f, q) \in Disks
    BY <1>0, WriteFacts, Zenon
  <2> QED BY <2>1 DEF q
<1>3. z \in In(w) /\ At(w, z) = e
  BY <1>0, <1>1
<1>4. \A x \in In(w) : \/ x \in In(d) /\ At(w, x) = At(d, x)
                       \/ x = z
  <2> TAKE x \in In(w)
  <2>1. CASE x \in In(d) /\ At(w, x) = At(d, x)
    BY <2>1
  <2>2. CASE x[1] = f /\ x \notin In(d) /\ \E i \in DOMAIN q : x[2] = Len(Old(d, f)) + i /\ At(w, x) = q[i]
    <3>1. x[1] = f /\ x[2] = Len(Old(d, f)) + 1
      BY <1>0, <2>2
    <3>2. x = <<x[1], x[2]>>
      BY <1>2, RecordFacts, Zenon
    <3> QED BY <3>1, <3>2
  <2> QED BY <1>1, <2>1, <2>2
<1>5. \A x \in In(d) : DOMAIN d # {} /\ At(d, x).val \in Int
  BY RecordFacts DEF Records
<1>6. ~Precedes(z, z)
  <2>1. Len(Old(d, f)) \in Nat /\ f \in Int
    <3>1. Old(d, f) \in Seq(Records)
      BY DiskFacts DEF Old
    <3> QED BY <3>1 DEF Times
  <2> HIDE DEF z
  <2>2. z = <<f, Len(Old(d, f)) + 1>>
    BY DEF z
  <2> QED BY <2>1, <2>2 DEF Precedes
<1> HIDE DEF z
<1>7. Rising(w, n + 1)
  <2>1. ASSUME NEW x \in In(w), ~At(w, x).snap
        PROVE  /\ At(w, x).val <= n + 1
               /\ x # z => At(w, x).val <= n
    BY <1>3, <1>4, <1>5, <2>1 DEF Rising
  <2>2. ASSUME NEW x \in In(w), ~At(w, x).snap, NEW y \in In(w), ~At(w, y).snap, Precedes(x, y)
        PROVE  At(w, x).val < At(w, y).val
    <3>1. CASE y = z
      <4>1. x # z /\ x \in In(d) /\ At(w, x) = At(d, x)
        BY <1>4, <1>6, <2>2, <3>1
      <4> QED BY <1>3, <1>5, <2>1, <2>2, <3>1, <4>1
    <3>2. CASE y # z
      <4>1. y \in In(d) /\ At(w, y) = At(d, y) /\ DOMAIN d # {}
        BY <1>4, <1>5, <3>2
      <4>2. x \in In(d) /\ At(w, x) = At(d, x)
        BY <1>1, <2>2, <4>1
      <4> QED BY <2>2, <4>1, <4>2 DEF Rising
    <3> QED BY <3>1, <3>2
  <2> QED BY <2>1, <2>2, Zenon DEF Rising
<1>8. Unbroken(w, n + 1)
  <2> SUFFICES ASSUME NEW x \in In(w), ~At(w, x).snap, NEW v \in At(w, x).val..(n + 1)
               PROVE  \E y \in In(w) : ~At(w, y).snap /\ At(w, y).val = v
    BY DEF Unbroken
  <2>1. CASE v = n + 1
    BY <1>3, <2>1
  <2>2. CASE v # n + 1
    <3>1. v \in At(w, x).val..n
      BY <2>2
    <3>2. x \in In(d) /\ At(w, x) = At(d, x) /\ DOMAIN d # {}
      <4>1. x # z
        BY <1>3, <3>1
      <4> QED BY <1>4, <1>5, <4>1
    <3>3. PICK y \in In(d) : ~At(d, y).snap /\ At(d, y).val = v
      BY <3>1, <3>2 DEF Unbroken
    <3> QED BY <1>1, <3>3
  <2> QED BY <2>1, <2>2
<1> QED BY <1>7, <1>8

\* The files that are kept are the newer ones.
LEMMA KeptValues ==
  ASSUME NEW d \in Disks, NEW K \in SUBSET DOMAIN d, NEW r, r = Restrict(d, K), NEW n \in Nat,
         NEW t \in Int, \A f \in K : \A g \in DOMAIN d : f <= g => g \in K
  PROVE  /\ r \in Disks /\ DOMAIN r = K /\ (\A f \in K : r[f] = d[f])
         /\ SizeOf(r, K) = SizeOf(d, K)
         /\ Monotonic(d) => Monotonic(r)
         /\ UpTo(d, t) => UpTo(r, t)
         /\ Rising(d, n) => Rising(r, n)
         /\ Rising(d, n) /\ Unbroken(d, n) => Unbroken(r, n)
<1>1. DOMAIN r = K /\ \A f \in K : r[f] = d[f]
  BY DEF Restrict
<1>2. r \in Disks
  <2>1. K \in SUBSET Times
    BY DiskFacts
  <2>2. r \in [K -> Seq(Records)]
    <3>1. \A f \in K : d[f] \in Seq(Records)
      BY DiskFacts
    <3>2. r = [f \in K |-> d[f]]
      BY DEF Restrict
    <3> QED BY <3>1, <3>2
  <2> QED BY <2>1, <2>2 DEF Disks
<1>3. Places(r, K) = Places(d, K)
  <2>1. K \in SUBSET DOMAIN r
    BY <1>1
  <2>2. \A x : x \in Places(d, K) <=> \E f \in K : \E i \in DOMAIN d[f] : x = <<f, i>>
    BY PlaceFacts, Zenon
  <2>3. \A x : x \in Places(r, K) <=> \E f \in K : \E i \in DOMAIN r[f] : x = <<f, i>>
    BY <1>2, <2>1, PlaceFacts, Zenon
  <2>4. \A x : x \in Places(r, K) <=> x \in Places(d, K)
    BY <1>1, <2>2, <2>3
  <2> QED BY <2>4
<1>4. \A x : x \in In(r) <=> x \in In(d) /\ x[1] \in K
  <2>1. DOMAIN d \in SUBSET DOMAIN d
    OBVIOUS
  <2>2. \A x : x \in In(d) <=> \E f \in DOMAIN d : \E i \in DOMAIN d[f] : x = <<f, i>>
    BY <2>1, PlaceFacts, Zenon DEF In
  <2>3. \A x : x \in In(r) <=> \E f \in K : \E i \in DOMAIN d[f] : x = <<f, i>>
    <3>1. \A x : x \in Places(d, K) <=> \E f \in K : \E i \in DOMAIN d[f] : x = <<f, i>>
      BY PlaceFacts, Zenon
    <3> QED BY <1>1, <1>3, <3>1 DEF In
  <2> QED BY <2>2, <2>3
<1>5. \A x \in In(r) : x \in In(d) /\ At(r, x) = At(d, x)
  BY <1>1, <1>4 DEF At
<1>6. SizeOf(r, K) = SizeOf(d, K)
  BY <1>3 DEF SizeOf
<1>7. Monotonic(d) => Monotonic(r)
  BY <1>5 DEF Monotonic
<1>8. UpTo(d, t) => UpTo(r, t)
  BY <1>1, <1>5 DEF UpTo
<1>9. Rising(d, n) => Rising(r, n)
  BY <1>5 DEF Rising
<1>10. ASSUME Rising(d, n), Unbroken(d, n) PROVE Unbroken(r, n)
  <2> SUFFICES ASSUME NEW x \in In(r), ~At(r, x).snap, NEW v \in At(r, x).val..n
               PROVE  \E y \in In(r) : ~At(r, y).snap /\ At(r, y).val = v
    BY DEF Unbroken
  <2>1. x \in In(d) /\ ~At(d, x).snap /\ v \in At(d, x).val..n /\ x[1] \in K
    BY <1>4, <1>5
  <2>2. PICK y \in In(d) : ~At(d, y).snap /\ At(d, y).val = v
    BY <1>10, <2>1 DEF Unbroken
  <2>3. /\ x[1] \in Int /\ y[1] \in Int /\ y[1] \in DOMAIN d
        /\ At(d, x).val \in Int /\ At(d, y).val \in Int
    BY <2>1, <2>2, RecordFacts DEF Records
  <2>4. CASE x[1] <= y[1]
    <3>1. y \in In(r)
      BY <1>4, <2>1, <2>2, <2>3, <2>4
    <3> QED BY <1>5, <2>2, <3>1
  <2>5. CASE y[1] < x[1]
    <3>1. At(d, y).val < At(d, x).val
      BY <1>10, <2>1, <2>2, <2>5 DEF Rising, Precedes
    <3> QED BY <2>1, <2>2, <2>3, <3>1
  <2> QED BY <2>3, <2>4, <2>5
<1> QED BY <1>1, <1>2, <1>6, <1>7, <1>8, <1>9, <1>10

(***************************************************************************)
(* The functions of the class.                                             *)
(***************************************************************************)
\* updateJournalStatus() lists and measures what is there.
LEMMA UpdateStatus ==
  ASSUME NEW s \in Journals, NEW r, r = updateJournalStatus(s)
  PROVE  /\ r \in Journals /\ r.dir = s.dir /\ r.disk = s.disk /\ r.snap = s.snap
         /\ r.ctx.exists = s.ctx.exists /\ r.ctx.recent = s.ctx.recent
         /\ r.ctx.files = InOrder(DOMAIN s.disk)
         /\ r.ctx.size = SizeOf(s.disk, DOMAIN s.disk) /\ r.ctx.size \in Nat
         /\ Lists(r) /\ Measures(r) /\ Counts(r)
         /\ Len(r.ctx.files) = Cardinality(DOMAIN s.disk)
         /\ (DOMAIN s.disk # {}) => r.ctx.files # <<>>
         /\ \A i, k \in DOMAIN r.ctx.files : i < k => r.ctx.files[i] < r.ctx.files[k]
         /\ \A f \in DOMAIN s.disk : f <= Last(r.ctx.files) /\ Last(r.ctx.files) \in DOMAIN s.disk
<1> DEFINE D == DOMAIN s.disk
           size == SizeOf(s.disk, D)
           lastSize == IF D = {} THEN 0 ELSE Len(s.disk[Max(D)])
           files == InOrder(D)
<1>1. r = [s EXCEPT !.ctx.size = size, !.ctx.lastSize = lastSize, !.ctx.files = files]
  BY Zenon DEF updateJournalStatus
<1>2. s.disk \in Disks /\ D \in SUBSET Times /\ D \subseteq 0..MaxTime /\ MaxTime \in Nat
  <2>1. s.disk \in Disks
    BY DEF Journals
  <2> QED BY <2>1, DiskFacts, FileJournalAssumption DEF Times
<1>3. size \in Nat
  <2>1. D \in SUBSET D
    OBVIOUS
  <2> QED BY <1>2, <2>1, PlaceFacts
<1>4. lastSize \in Nat
  <2>1. CASE D # {}
    <3>1. Max(D) \in D
      BY <1>2, <2>1, LargestNat
    <3> QED BY <1>2, <3>1, DiskFacts
  <2> QED BY <2>1
<1>5. /\ files \in Seq(Times) /\ Len(files) = Cardinality(D) /\ IsFiniteSet(D)
      /\ \A i \in DOMAIN files : files[i] \in D
      /\ \A f \in D : \E i \in DOMAIN files : files[i] = f
      /\ \A i, k \in DOMAIN files : i < k => files[i] < files[k]
  <2>1. D \subseteq Times
    BY <1>2
  <2> HIDE DEF D
  <2> QED BY <2>1, InOrderFiles
<1>6. \A f \in D : f <= Last(files) /\ Last(files) \in D /\ Last(files) = Max(D) /\ files # <<>>
  <2> SUFFICES ASSUME NEW f \in D
               PROVE  f <= Last(files) /\ Last(files) \in D /\ Last(files) = Max(D) /\ files # <<>>
    OBVIOUS
  <2> HIDE DEF D, files
  <2>0. D # {} /\ D \subseteq Int
    BY <1>2
  <2>1. Max(D) \in D /\ (\A g \in D : g <= Max(D)) /\ D \subseteq Int
    BY <1>2, <2>0, LargestNat, Zenon
  <2>2. PICK i \in DOMAIN files : files[i] = Max(D)
    BY <1>5, <2>1
  <2>3. Len(files) \in DOMAIN files /\ i \in 1..Len(files) /\ Len(files) \in Nat
    <3>1. DOMAIN files = 1..Len(files) /\ Len(files) \in Nat
      BY <1>5
    <3> QED BY <2>2, <3>1
  <2>4. files[Len(files)] \in D /\ ~(files[i] < files[Len(files)])
    <3>1. files[Len(files)] \in D
      BY <1>5, <2>3
    <3>2. files[Len(files)] <= Max(D) /\ files[Len(files)] \in Int /\ Max(D) \in Int
      BY <2>1, <3>1
    <3> QED BY <2>2, <3>1, <3>2
  <2>5. i = Len(files)
    BY <1>5, <2>3, <2>4
  <2> QED BY <2>1, <2>2, <2>3, <2>5 DEF Last
<1> HIDE DEF size, lastSize, files
<1>7. /\ r.dir = s.dir /\ r.disk = s.disk /\ r.snap = s.snap
      /\ r.ctx = [exists |-> s.ctx.exists, size |-> size, lastSize |-> lastSize,
                  files |-> files, recent |-> s.ctx.recent]
      /\ r \in Journals
  <2> HIDE DEF D
  <2>1. /\ s.dir \in BOOLEAN /\ s.disk \in Disks /\ s.ctx \in Contexts /\ s.snap \in [Paths -> 0..MaxEntries]
        /\ s = [dir |-> s.dir, disk |-> s.disk, ctx |-> s.ctx, snap |-> s.snap]
    BY DEF Journals
  <2>2. s.ctx = [exists |-> s.ctx.exists, size |-> s.ctx.size, lastSize |-> s.ctx.lastSize,
                 files |-> s.ctx.files, recent |-> s.ctx.recent]
    BY <2>1 DEF Contexts
  <2>3. r = [dir |-> s.dir, disk |-> s.disk, snap |-> s.snap,
             ctx |-> [exists |-> s.ctx.exists, size |-> size, lastSize |-> lastSize,
                      files |-> files, recent |-> s.ctx.recent]]
    BY <1>1, <2>1, <2>2
  <2>4. r.ctx \in Contexts
    BY <1>3, <1>4, <1>5, <2>1, <2>3 DEF Contexts
  <2>5. r \in Journals
    BY <2>1, <2>3, <2>4 DEF Journals
  <2> QED BY <2>3, <2>5
<1>8. /\ r.ctx.exists = s.ctx.exists /\ r.ctx.recent = s.ctx.recent /\ r.ctx.files = files
      /\ r.ctx.size = size /\ r.ctx.lastSize = lastSize
  BY <1>7
<1>9. Lists(r)
  BY <1>5, <1>7, <1>8 DEF Lists
<1>10. Measures(r)
  <2> SUFFICES ASSUME files # <<>> PROVE lastSize = Len(s.disk[Last(files)])
    BY <1>7, <1>8 DEF Measures
  <2>1. files[1] \in D
    BY <1>5
  <2>2. Last(files) = Max(D)
    BY <1>6, <2>1
  <2> QED BY <2>1, <2>2 DEF lastSize
<1>11. Counts(r)
  <2>1. Cardinality(Paths) \in Nat
    BY FileJournalAssumption, FS_CardinalityType
  <2>2. Len(files) \in Nat
    BY <1>5
  <2>3. Len(files) * Cardinality(Paths) \in Nat
    <3> HIDE DEF D
    <3>1. \A a, b \in Nat : a * b \in Nat
      OBVIOUS
    <3> QED BY <2>1, <2>2, <3>1
  <2> QED BY <1>3, <1>7, <1>8, <2>3 DEF Counts, size
<1> QED BY <1>3, <1>5, <1>6, <1>7, <1>8, <1>9, <1>10, <1>11 DEF size, files

\* A journal and its context have their parts.
Parts(s) ==
  /\ s = [dir |-> s.dir, disk |-> s.disk, ctx |-> s.ctx, snap |-> s.snap]
  /\ s.ctx = [exists |-> s.ctx.exists, size |-> s.ctx.size, lastSize |-> s.ctx.lastSize,
              files |-> s.ctx.files, recent |-> s.ctx.recent]
  /\ s.dir \in BOOLEAN /\ s.disk \in Disks /\ s.snap \in [Paths -> 0..MaxEntries]
  /\ s.ctx.exists \in BOOLEAN /\ s.ctx.size \in Int /\ s.ctx.lastSize \in Int
  /\ s.ctx.files \in Seq(Times) /\ s.ctx.recent \in 0..MaxTime

\* That is what a journal is, part by part.
LEMMA JournalParts ==
  ASSUME NEW s
  PROVE  s \in Journals <=> Parts(s)
<1>1. ASSUME s \in Journals PROVE Parts(s)
  <2>1. /\ s = [dir |-> s.dir, disk |-> s.disk, ctx |-> s.ctx, snap |-> s.snap]
        /\ s.dir \in BOOLEAN /\ s.disk \in Disks /\ s.ctx \in Contexts
        /\ s.snap \in [Paths -> 0..MaxEntries]
    BY <1>1 DEF Journals
  <2> QED BY <2>1 DEF Contexts, Parts
<1>2. ASSUME Parts(s) PROVE s \in Journals
  <2>1. s.ctx \in Contexts
    BY <1>2 DEF Parts, Contexts
  <2> QED BY <1>2, <2>1 DEF Parts, Journals
<1> QED BY <1>1, <1>2

\* A directory that is created, or counted as consistent again.
LEMMA CreateParts ==
  ASSUME NEW s, Parts(s),
         NEW q, q = [s EXCEPT !.ctx.recent = 0, !.ctx.exists = TRUE, !.dir = TRUE]
  PROVE  /\ q.dir = TRUE /\ q.disk = s.disk /\ q.snap = s.snap
         /\ q.ctx.recent = 0 /\ q.ctx.exists = TRUE /\ Parts(q)
<1>1. q.dir = TRUE /\ q.disk = s.disk /\ q.snap = s.snap
  BY DEF Parts
<1>2. /\ q.ctx.size = s.ctx.size /\ q.ctx.lastSize = s.ctx.lastSize /\ q.ctx.files = s.ctx.files
      /\ q.ctx.recent = 0
  BY DEF Parts
<1>3. q.ctx.exists = TRUE
  BY DEF Parts
<1>4. /\ q = [dir |-> q.dir, disk |-> q.disk, ctx |-> q.ctx, snap |-> q.snap]
      /\ q.ctx = [exists |-> q.ctx.exists, size |-> q.ctx.size, lastSize |-> q.ctx.lastSize,
                  files |-> q.ctx.files, recent |-> q.ctx.recent]
  BY DEF Parts
<1>5. 0 \in 0..MaxTime
  BY FileJournalAssumption
<1>6. Parts(q)
  BY <1>1, <1>2, <1>3, <1>4, <1>5 DEF Parts
<1> QED BY <1>1, <1>2, <1>3, <1>6

\* What an append finds when it starts: a context that agrees with the
\* directory, if that is there.
Open(s) ==
  /\ s \in Journals /\ s.ctx.exists /\ s.ctx.size >= 0
  /\ ~s.dir => DOMAIN s.disk = {}
  /\ s.dir => Lists(s) /\ Measures(s) /\ Counts(s)

\* checkJournalContext_helper() reads a directory of which nothing is known.
LEMMA CheckContext ==
  ASSUME NEW s \in Journals, NEW r, NEW force \in BOOLEAN, r = checkJournalContext(s, force)
  PROVE  \/ r = s /\ s.ctx.exists /\ s.ctx.size >= 0 /\ ~force
         \/ /\ force \/ ~s.ctx.exists \/ s.ctx.size < 0
            /\ r.disk = s.disk /\ r.snap = s.snap /\ r.dir = TRUE /\ r.ctx.recent = 0 /\ Open(r)
            /\ DOMAIN s.disk = {} => r.ctx.files = <<>>
<1>0. Parts(s)
  BY JournalParts
<1> DEFINE q == [s EXCEPT !.ctx.recent = 0, !.ctx.exists = TRUE, !.dir = TRUE]
<1>1. \/ r = s /\ s.ctx.exists /\ s.ctx.size >= 0 /\ ~force
      \/ r = updateJournalStatus(q) /\ (force \/ ~s.ctx.exists \/ ~(s.ctx.size >= 0))
  BY DEF checkJournalContext, isConsistent
<1>2. /\ q.dir = TRUE /\ q.disk = s.disk /\ q.snap = s.snap
      /\ q.ctx.recent = 0 /\ q.ctx.exists = TRUE /\ Parts(q)
  BY <1>0, CreateParts
<1> HIDE DEF q
<1>8. q \in Journals
  BY <1>2, JournalParts
<1>4. CASE r = updateJournalStatus(q) /\ (force \/ ~s.ctx.exists \/ ~(s.ctx.size >= 0))
  <2>1. /\ r \in Journals /\ r.dir = q.dir /\ r.disk = q.disk /\ r.snap = q.snap
        /\ r.ctx.exists = q.ctx.exists /\ r.ctx.recent = q.ctx.recent
        /\ r.ctx.size \in Nat /\ Lists(r) /\ Measures(r) /\ Counts(r)
        /\ r.ctx.files \in Seq(Times)
        /\ r.ctx.files = InOrder(DOMAIN q.disk)
    <3>1. Parts(r) /\ r \in Journals
      BY <1>8, <1>4, UpdateStatus, JournalParts
    <3>2. r.ctx.files \in Seq(Times)
      BY <3>1 DEF Parts
    <3> QED BY <1>8, <1>4, <3>2, UpdateStatus
  <2>2. Open(r)
    BY <1>2, <1>8, <2>1 DEF Open
  <2>3. DOMAIN s.disk = {} => r.ctx.files = <<>>
    <3>1. Cardinality({}) = 0
      BY FS_EmptySet
    <3>2. DOMAIN s.disk = {} => DOMAIN r.ctx.files = {}
      BY <1>2, <2>1, <3>1 DEF InOrder
    <3> QED BY <2>1, <3>2
  <2>4. s.ctx.size \in Int
    BY <1>0 DEF Parts
  <2> QED BY <1>2, <1>4, <2>1, <2>2, <2>3, <2>4
<1> QED BY <1>1, <1>4

\* The time of a journal: at least that of every record, if it is known.
LEMMA CheckTime ==
  ASSUME NEW s \in Journals, Open(s), NEW r, r = checkRecentTimeStamp(s),
         s.ctx.recent > 0 \/ s.dir
  PROVE  /\ Open(r) /\ r.dir = s.dir /\ r.disk = s.disk /\ r.snap = s.snap
         /\ r.ctx.files = s.ctx.files
         /\ s.ctx.recent > 0 \/ s.ctx.files = <<>> => r = s
<1>1. CASE s.ctx.recent > 0 \/ s.ctx.files = <<>>
  BY <1>1 DEF checkRecentTimeStamp
<1>0. Parts(s)
  BY JournalParts
<1>2. CASE ~(s.ctx.recent > 0 \/ s.ctx.files = <<>>)
  <2> DEFINE f == Last(s.ctx.files)
             t == Max({0, findLastEntryDateTime(f, s.disk[f])})
  <2>1. r = [s EXCEPT !.ctx.recent = t]
    BY <1>2, Zenon DEF checkRecentTimeStamp
  <2>2. f \in Times /\ f \in DOMAIN s.disk
    <3>1. DOMAIN s.ctx.files = 1..Len(s.ctx.files) /\ Len(s.ctx.files) \in Nat \ {0}
      BY <1>0, <1>2 DEF Parts
    <3>2. f = s.ctx.files[Len(s.ctx.files)] /\ Len(s.ctx.files) \in DOMAIN s.ctx.files
      BY <3>1 DEF Last
    <3>3. f \in Times
      BY <1>0, <3>2 DEF Parts
    <3> HIDE DEF f
    <3> QED BY <1>2, <3>2, <3>3 DEF Open, Lists
  <2>3. findLastEntryDateTime(f, s.disk[f]) \in (-1)..MaxTime
    <3>1. s.disk[f] \in Seq(Records) /\ Len(s.disk[f]) \in Nat
      BY <1>0, <2>2, DiskFacts DEF Parts
    <3>2. Len(s.disk[f]) \notin {0, 1} => Last(s.disk[f]) \in Records
      <4> HIDE DEF f
      <4> QED BY <3>1 DEF Last
    <3> HIDE DEF f
    <3> QED BY <2>2, <3>1, <3>2, FileJournalAssumption
          DEF findLastEntryDateTime, Times, Records
  <2>4. t \in 0..MaxTime
    <3> DEFINE x == findLastEntryDateTime(f, s.disk[f])
    <3> HIDE DEF x
    <3>1. x \in (-1)..MaxTime /\ MaxTime \in Nat
      BY <2>3, FileJournalAssumption DEF x
    <3>2. Max({0, x}) = CHOOSE y \in {0, x} : \A z \in {0, x} : y >= z
      BY DEF Max
    <3>3. \E y \in {0, x} : \A z \in {0, x} : y >= z
      BY <3>1
    <3>4. Max({0, x}) \in {0, x} /\ Max({0, x}) >= 0
      BY <3>2, <3>3
    <3> QED BY <3>1, <3>4 DEF x
  <2> HIDE DEF t, f
  <2>5. /\ r.dir = s.dir /\ r.disk = s.disk /\ r.snap = s.snap
        /\ r.ctx = [exists |-> s.ctx.exists, size |-> s.ctx.size, lastSize |-> s.ctx.lastSize,
                    files |-> s.ctx.files, recent |-> t]
        /\ r = [dir |-> s.dir, disk |-> s.disk, snap |-> s.snap, ctx |-> r.ctx]
    BY <1>0, <2>1 DEF Parts
  <2>6. Parts(r)
    BY <1>0, <2>4, <2>5 DEF Parts
  <2>7. r \in Journals
    BY <2>6, JournalParts
  <2> QED BY <1>2, <2>5, <2>7 DEF Open, Lists, Measures, Counts
<1> QED BY <1>1, <1>2

\* deleteOldest() keeps the newest files: all that are newer than one it keeps,
\* and only the last one unless the rest is within the limit.
LEMMA DeleteOldest ==
  ASSUME NEW s \in Journals, Lists(s), DOMAIN s.disk # {},
         \A i, k \in DOMAIN s.ctx.files : i < k => s.ctx.files[i] < s.ctx.files[k],
         NEW r, r = deleteOldest(s)
  PROVE  \E K \in SUBSET DOMAIN s.disk :
           /\ r \in Journals /\ r.disk = Restrict(s.disk, K)
           /\ r.dir = s.dir /\ r.snap = s.snap /\ r.ctx = s.ctx
           /\ Last(s.ctx.files) \in K
           /\ \A f \in K : \A g \in DOMAIN s.disk : f <= g => g \in K
           /\ Cardinality(K) > 1 => SizeOf(s.disk, K) < JournalLimit
<1>0. Parts(s)
  BY JournalParts
<1> DEFINE files == s.ctx.files
           last == Len(files) - 1
           Ns == {k \in 0..last : k = last \/ SizeOf(s.disk, Rest(files, k)) < JournalLimit}
           n == Min(Ns)
           K == Rest(files, n)
<1>1. r = [s EXCEPT !.disk = Restrict(@, K)]
  BY Zenon DEF deleteOldest
<1>2. /\ files \in Seq(Times) /\ DOMAIN files = 1..Len(files) /\ last \in Nat
      /\ \A i \in DOMAIN files : files[i] \in DOMAIN s.disk /\ files[i] \in Int
      /\ \A f \in DOMAIN s.disk : \E i \in DOMAIN files : files[i] = f
  <2>1. files \in Seq(Times) /\ DOMAIN files = 1..Len(files) /\ Len(files) \in Nat
    BY <1>0 DEF Parts
  <2>2. \A f \in DOMAIN s.disk : f \in Times /\ \E i \in DOMAIN files : files[i] = f
    BY <1>0, DiskFacts DEF Lists, Parts
  <2>3. \A i \in DOMAIN files : files[i] \in DOMAIN s.disk /\ files[i] \in Int
    <3> TAKE i \in DOMAIN files
    <3>1. files[i] \in Times
      BY <2>1
    <3>2. files[i] \in DOMAIN s.disk
      BY <3>1 DEF Lists
    <3> QED BY <3>1, <3>2 DEF Times
  <2>4. Len(files) # 0
    BY <2>1, <2>2
  <2> QED BY <2>1, <2>2, <2>3, <2>4
<1> HIDE DEF files
<1>3. n \in 0..last /\ (n = last \/ SizeOf(s.disk, Rest(files, n)) < JournalLimit)
  <2>1. last \in Ns /\ Ns \subseteq Nat
    BY <1>2
  <2>2. PICK m \in Ns : \A k \in Ns : m <= k
    <3> HIDE DEF Ns
    <3> QED BY <2>1, SmallestNat
  <2>3. n \in Ns
    <3> HIDE DEF Ns
    <3>1. n = CHOOSE x \in Ns : \A y \in Ns : x <= y
      BY DEF Min
    <3> QED BY <2>2, <3>1
  <2> QED BY <2>3
<1> HIDE DEF n
<1>a. n \in Nat /\ n < Len(files) /\ Len(files) \in Nat /\ DOMAIN files = 1..Len(files)
  <2>1. Len(files) \in Nat /\ DOMAIN files = 1..Len(files)
    BY <1>2
  <2>2. n \in 0..(Len(files) - 1)
    BY <1>3
  <2> QED BY <2>1, <2>2
<1>4. \A f : f \in K <=> \E i \in DOMAIN files : i > n /\ files[i] = f
  <2>1. /\ Len(SubSeq(files, n + 1, Len(files))) = Len(files) - n
        /\ DOMAIN SubSeq(files, n + 1, Len(files)) = 1..(Len(files) - n)
        /\ \A i \in 1..(Len(files) - n) : SubSeq(files, n + 1, Len(files))[i] = files[n + i]
    BY <1>2, <1>a, Dropped
  <2>2. \A i \in DOMAIN files : i > n => i - n \in 1..(Len(files) - n) /\ n + (i - n) = i
    BY <1>a
  <2>3. \A i \in 1..(Len(files) - n) : n + i \in DOMAIN files /\ n + i > n
    BY <1>a
  <2>4. \A f : f \in K <=> \E i \in 1..(Len(files) - n) : files[n + i] = f
    BY <2>1, Zenon DEF Rest, ToSet
  <2> QED BY <2>2, <2>3, <2>4
<1>5. Last(files) \in K /\ K \in SUBSET DOMAIN s.disk
  <2>1. Len(files) \in DOMAIN files /\ Len(files) > n
    BY <1>a
  <2> QED BY <1>2, <1>4, <2>1 DEF Last
<1>6. ASSUME NEW f \in K, NEW g \in DOMAIN s.disk, f <= g PROVE g \in K
  <2>1. PICK i \in DOMAIN files : i > n /\ files[i] = f
    BY <1>4
  <2>2. PICK k \in DOMAIN files : files[k] = g
    BY <1>2
  <2>3. ~(k < i)
    <3> SUFFICES ASSUME k < i PROVE FALSE
      OBVIOUS
    <3>1. g < f /\ f \in Int /\ g \in Int
      BY <1>2, <2>1, <2>2 DEF files
    <3> QED BY <1>6, <3>1
  <2>4. k > n
    <3>1. i \in 1..Len(files) /\ k \in 1..Len(files)
      BY <1>a, <2>1, <2>2
    <3> QED BY <1>a, <2>1, <2>3, <3>1
  <2> QED BY <1>4, <2>2, <2>4
<1>7. ASSUME Cardinality(K) > 1 PROVE SizeOf(s.disk, K) < JournalLimit
  <2>1. n # last
    <3> SUFFICES ASSUME n = last PROVE FALSE
      OBVIOUS
    <3>1. \A i \in DOMAIN files : i > n <=> i = Len(files)
      BY <1>2
    <3>2. K = {files[Len(files)]}
      BY <1>2, <1>4, <1>5, <3>1
    <3>3. Cardinality({files[Len(files)]}) = 1
      BY FS_Singleton
    <3> HIDE DEF K
    <3>4. Cardinality(K) = 1
      BY <3>2, <3>3
    <3> QED BY <1>7, <3>4
  <2> QED BY <1>3, <2>1
<1> HIDE DEF K
<1>8. /\ r.disk = Restrict(s.disk, K) /\ r.dir = s.dir /\ r.snap = s.snap /\ r.ctx = s.ctx
      /\ r = [dir |-> s.dir, disk |-> r.disk, ctx |-> s.ctx, snap |-> s.snap]
  BY <1>0, <1>1 DEF Parts
<1>9. r \in Journals
  <2>1. r.disk \in Disks
    BY <1>0, <1>5, <1>6, <1>8, KeptValues DEF Parts
  <2>2. Parts(r)
    BY <1>0, <1>8, <2>1 DEF Parts
  <2> QED BY <2>2, JournalParts
<1> QED BY <1>5, <1>6, <1>7, <1>8, <1>9 DEF files

\* rotateJournal() keeps the newest file, and what it knew.
LEMMA Rotated ==
  ASSUME NEW s \in Journals, DOMAIN s.disk # {}, Lists(s), Measures(s), Counts(s), s.ctx.size >= 0,
         NEW r, r = rotateIfLarge(s), NEW n \in Nat
  PROVE  /\ r \in Journals /\ r.dir = s.dir /\ r.snap = s.snap
         /\ r.ctx.exists = s.ctx.exists /\ r.ctx.recent = s.ctx.recent
         /\ r.ctx.size >= 0 /\ Lists(r) /\ Measures(r) /\ Counts(r) /\ Bounded(r)
         /\ Timely(s, n) => Timely(r, n)
<1>0. Parts(s)
  BY JournalParts
<1>L. JournalLimit \in Nat /\ Cardinality(Paths) \in Nat
  BY FileJournalAssumption, FS_CardinalityType
<1>1. CASE ~(s.ctx.size > JournalLimit)
  <2>1. r = s
    BY <1>1 DEF rotateIfLarge
  <2>2. SizeOf(s.disk, DOMAIN s.disk) \in Nat
    <3>1. DOMAIN s.disk \in SUBSET DOMAIN s.disk /\ s.disk \in Disks
      BY <1>0 DEF Parts
    <3> QED BY <3>1, PlaceFacts
  <2>3. Bounded(s)
    <3> DEFINE extra == Len(s.ctx.files) * Cardinality(Paths)
               size == SizeOf(s.disk, DOMAIN s.disk)
    <3>1. extra \in Int
      <4>1. Len(s.ctx.files) \in Nat
        BY <1>0 DEF Parts
      <4>2. \A a, b \in Nat : a * b \in Int
        OBVIOUS
      <4> QED BY <1>L, <4>1, <4>2
    <3>2. size <= s.ctx.size + extra /\ s.ctx.size \in Int /\ size \in Nat
      BY <1>0, <2>2 DEF Counts, Parts
    <3> HIDE DEF extra, size
    <3>3. size <= JournalLimit + extra
      BY <1>L, <1>1, <3>1, <3>2
    <3> QED BY <3>3 DEF Bounded, extra, size
  <2> QED BY <2>1, <2>3
<1>2. CASE s.ctx.size > JournalLimit
  <2> DEFINE v == updateJournalStatus(s)
             x == deleteOldest(v)
  <2>1. r = updateJournalStatus(x)
    BY <1>2 DEF rotateIfLarge, rotateJournal
  <2>2. /\ v \in Journals /\ v.dir = s.dir /\ v.disk = s.disk /\ v.snap = s.snap
        /\ v.ctx.exists = s.ctx.exists /\ v.ctx.recent = s.ctx.recent
        /\ Lists(v)
        /\ \A i, k \in DOMAIN v.ctx.files : i < k => v.ctx.files[i] < v.ctx.files[k]
        /\ \A f \in DOMAIN s.disk : f <= Last(v.ctx.files) /\ Last(v.ctx.files) \in DOMAIN s.disk
    BY UpdateStatus
  <2> HIDE DEF v
  <2>3. PICK K \in SUBSET DOMAIN v.disk :
           /\ x \in Journals /\ x.disk = Restrict(v.disk, K)
           /\ x.dir = v.dir /\ x.snap = v.snap /\ x.ctx = v.ctx
           /\ Last(v.ctx.files) \in K
           /\ \A f \in K : \A g \in DOMAIN v.disk : f <= g => g \in K
           /\ Cardinality(K) > 1 => SizeOf(v.disk, K) < JournalLimit
    BY <2>2, DeleteOldest
  <2> HIDE DEF x
  <2>4. /\ r \in Journals /\ r.dir = x.dir /\ r.disk = x.disk /\ r.snap = x.snap
        /\ r.ctx.exists = x.ctx.exists /\ r.ctx.recent = x.ctx.recent
        /\ r.ctx.size \in Nat
        /\ Lists(r) /\ Measures(r) /\ Counts(r)
        /\ \A f \in DOMAIN x.disk : f <= Last(r.ctx.files) /\ Last(r.ctx.files) \in DOMAIN x.disk
    BY <2>1, <2>3, UpdateStatus
  <2> DEFINE d == s.disk
             t == s.ctx.recent
  <2>5. d \in Disks /\ K \in SUBSET DOMAIN d /\ t \in Int /\ r.disk = Restrict(d, K)
    BY <1>0, <2>2, <2>3, <2>4 DEF Parts
  <2>6. \A f \in K : \A g \in DOMAIN d : f <= g => g \in K
    BY <2>2, <2>3
  <2> HIDE DEF d, t
  <2>7. /\ r.disk \in Disks /\ DOMAIN r.disk = K /\ (\A f \in K : r.disk[f] = d[f])
        /\ SizeOf(r.disk, K) = SizeOf(d, K)
        /\ Monotonic(d) => Monotonic(r.disk)
        /\ UpTo(d, t) => UpTo(r.disk, t)
        /\ Rising(d, n) => Rising(r.disk, n)
        /\ Rising(d, n) /\ Unbroken(d, n) => Unbroken(r.disk, n)
    BY <2>5, <2>6, KeptValues
  <2>8. Bounded(r)
    <3> SUFFICES ASSUME Cardinality(K) > 1
                 PROVE  SizeOf(r.disk, K) <= JournalLimit + Len(r.ctx.files) * Cardinality(Paths)
      BY <2>7 DEF Bounded
    <3>1. SizeOf(r.disk, K) < JournalLimit
      BY <2>2, <2>3, <2>7 DEF d
    <3>2. SizeOf(r.disk, K) \in Nat
      BY <2>7, PlaceFacts
    <3>3. Len(r.ctx.files) * Cardinality(Paths) \in Nat
      <4>1. Parts(r)
        BY <2>4, JournalParts
      <4>2. Len(r.ctx.files) \in Nat
        BY <4>1 DEF Parts
      <4>3. \A a, b \in Nat : a * b \in Nat
        OBVIOUS
      <4> QED BY <1>L, <4>2, <4>3
    <3> QED BY <1>L, <3>1, <3>2, <3>3
  <2>9. ASSUME Timely(s, n) PROVE Timely(r, n)
    <3>1. /\ Monotonic(d) /\ UpTo(d, t) /\ Rising(d, n) /\ Unbroken(d, n)
          /\ \A f \in DOMAIN d : f <= Last(s.ctx.files)
          /\ Complete(d, Last(s.ctx.files), s.snap)
      BY <2>9 DEF Timely, d, t
    <3>2. Last(s.ctx.files) \in DOMAIN d
      <4>1. DOMAIN s.ctx.files = 1..Len(s.ctx.files) /\ Len(s.ctx.files) \in Nat
        BY <1>0 DEF Parts
      <4>2. PICK f \in DOMAIN d : TRUE
        BY DEF d
      <4>3. f \in Times
        BY <2>5, DiskFacts
      <4>4. Len(s.ctx.files) \in DOMAIN s.ctx.files
        BY <4>1, <4>2, <4>3 DEF Lists, d
      <4>5. Last(s.ctx.files) = s.ctx.files[Len(s.ctx.files)]
        BY DEF Last
      <4>6. Last(s.ctx.files) \in Times
        BY <1>0, <4>4, <4>5 DEF Parts
      <4> QED BY <4>4, <4>5, <4>6 DEF Lists, d
    <3>3. Last(s.ctx.files) = Last(v.ctx.files)
      <4>1. /\ Last(v.ctx.files) \in DOMAIN d /\ Last(s.ctx.files) <= Last(v.ctx.files)
            /\ Last(v.ctx.files) <= Last(s.ctx.files)
        BY <2>2, <3>1, <3>2 DEF d
      <4>2. Last(v.ctx.files) \in Int /\ Last(s.ctx.files) \in Int
        BY <2>5, <3>2, <4>1, DiskFacts DEF Times
      <4> QED BY <4>1, <4>2
    <3>4. Last(s.ctx.files) \in K
      BY <2>3, <3>3
    <3>5. Last(r.ctx.files) = Last(s.ctx.files)
      <4>1. /\ Last(r.ctx.files) \in K /\ Last(s.ctx.files) <= Last(r.ctx.files)
            /\ Last(r.ctx.files) <= Last(s.ctx.files)
        BY <2>4, <2>5, <2>7, <3>1, <3>4
      <4>2. Last(r.ctx.files) \in Int /\ Last(s.ctx.files) \in Int
        BY <2>5, <3>2, <4>1, DiskFacts DEF Times
      <4> QED BY <4>1, <4>2
    <3>6. Complete(r.disk, Last(r.ctx.files), r.snap)
      <4>1. r.disk[Last(r.ctx.files)] = d[Last(s.ctx.files)] /\ r.snap = s.snap
        BY <2>2, <2>3, <2>4, <2>7, <3>4, <3>5
      <4> QED BY <3>1, <4>1 DEF Complete
    <3>7. \A f \in DOMAIN r.disk : f <= Last(r.ctx.files)
      BY <2>4
    <3>8. r.ctx.recent = t
      BY <2>2, <2>3, <2>4 DEF t
    <3> QED BY <2>7, <3>1, <3>6, <3>7, <3>8 DEF Timely
  <2> QED BY <2>2, <2>3, <2>4, <2>8, <2>9
<1> QED BY <1>1, <1>2

\* The last file listed.
LEMMA LastListed ==
  ASSUME NEW s \in Journals, Lists(s), s.ctx.files # <<>>
  PROVE  Last(s.ctx.files) \in DOMAIN s.disk /\ Last(s.ctx.files) \in Times
<1>0. Parts(s)
  BY JournalParts
<1>1. DOMAIN s.ctx.files = 1..Len(s.ctx.files) /\ Len(s.ctx.files) \in Nat \ {0}
  BY <1>0 DEF Parts
<1>2. Len(s.ctx.files) \in DOMAIN s.ctx.files /\ Last(s.ctx.files) = s.ctx.files[Len(s.ctx.files)]
  BY <1>1 DEF Last
<1>3. Last(s.ctx.files) \in Times
  BY <1>0, <1>2 DEF Parts
<1> QED BY <1>2, <1>3 DEF Lists

\* A directory d of which it is known that no record is later than u.
Ordered(d, u, n) ==
  DOMAIN d # {} => Monotonic(d) /\ UpTo(d, u) /\ Rising(d, n) /\ Unbroken(d, n)

\* What createNewLogFile() does to the records.
LEMMA NewFileRecords ==
  ASSUME NEW d \in Disks, NEW t \in Times, NEW snap \in [Paths -> 0..MaxEntries],
         NEW w, w = write(d, t, Snapshot(snap, t)), NEW u \in Int, NEW n \in Nat
  PROVE  /\ w \in Disks /\ DOMAIN w = DOMAIN d \cup {t}
         /\ SizeOf(w, DOMAIN w) <= SizeOf(d, DOMAIN d) + Cardinality(Paths)
         /\ Ordered(d, u, n) /\ u <= t => Ordered(w, t, n)
         /\ Complete(w, t, snap)
<1>q. PICK q : q = Snapshot(snap, t)
  OBVIOUS
<1>1. /\ q \in Seq(Records) /\ Len(q) \in Nat /\ Len(q) <= Cardinality(Paths)
      /\ \A i \in DOMAIN q : /\ q[i].ts = t /\ q[i].snap
                             /\ q[i].path \in Paths /\ q[i].val = snap[q[i].path]
      /\ \A p \in Paths : snap[p] > 0 => \E i \in DOMAIN q : q[i].path = p
  BY <1>q, SnapshotFacts
<1>2. w = write(d, t, q)
  BY <1>q
<1>3. q \in Seq(Records)
  BY <1>1
<1>4. /\ w \in Disks /\ DOMAIN w = DOMAIN d \cup {t}
      /\ w[t] = Old(d, t) \o q /\ Old(d, t) \in Seq(Records)
  <2>1. /\ write(d, t, q) \in Disks /\ DOMAIN write(d, t, q) = DOMAIN d \cup {t}
        /\ \A g \in DOMAIN d : g # t => write(d, t, q)[g] = d[g]
        /\ write(d, t, q)[t] = Old(d, t) \o q /\ Old(d, t) \in Seq(Records)
    BY <1>3, WriteFacts, Zenon
  <2> QED BY <1>2, <2>1
<1>5. SizeOf(w, DOMAIN w) <= SizeOf(d, DOMAIN d) + Cardinality(Paths)
  <2>1. SizeOf(w, DOMAIN w) = SizeOf(d, DOMAIN d) + Len(q)
    <3>1. SizeOf(write(d, t, q), DOMAIN write(d, t, q)) = SizeOf(d, DOMAIN d) + Len(q)
      BY <1>3, WriteSize, Zenon
    <3> QED BY <1>2, <3>1, Zenon
  <2>2. SizeOf(d, DOMAIN d) \in Nat /\ Cardinality(Paths) \in Nat
    <3>1. DOMAIN d \in SUBSET DOMAIN d
      OBVIOUS
    <3> QED BY <3>1, PlaceFacts, FileJournalAssumption, FS_CardinalityType
  <2> QED BY <1>1, <2>1, <2>2
<1>6. ASSUME Ordered(d, u, n), u <= t PROVE Ordered(w, t, n)
  <2>1. t \in Int /\ t <= t
    BY DEF Times
  <2>2. DOMAIN d # {} => Monotonic(d) /\ UpTo(d, u) /\ \A g \in DOMAIN d : g <= t
    <3> SUFFICES ASSUME DOMAIN d # {}
                 PROVE  Monotonic(d) /\ UpTo(d, u) /\ \A g \in DOMAIN d : g <= t
      OBVIOUS
    <3>1. Monotonic(d) /\ UpTo(d, u)
      BY <1>6 DEF Ordered
    <3>2. \A g \in DOMAIN d : g <= u /\ g \in Int
      BY <3>1, DiskFacts DEF UpTo, Times
    <3> QED BY <1>6, <2>1, <3>1, <3>2
  <2>3. \A i \in DOMAIN q : q[i].ts = t
    BY <1>1
  <2>4. Monotonic(w) /\ UpTo(w, t)
    BY <1>2, <1>3, <1>6, <2>1, <2>2, <2>3, AddedTimes
  <2>5. \A i \in DOMAIN q : q[i].snap
    BY <1>1
  <2>6. DOMAIN d # {} => Rising(d, n) /\ Unbroken(d, n)
    BY <1>6 DEF Ordered
  <2>7. Rising(w, n) /\ Unbroken(w, n)
    BY <1>2, <1>3, <2>5, <2>6, SnapshotValues
  <2> QED BY <2>4, <2>7 DEF Ordered
<1>7. Complete(w, t, snap)
  <2> SUFFICES ASSUME NEW p \in Paths, snap[p] > 0 PROVE ValueIn(w[t], p) = snap[p]
    BY DEF Complete
  <2>1. \E i \in DOMAIN q : q[i].path = p
    BY <1>1
  <2>2. PICK o \in Seq(Records) : o = Old(d, t)
    BY <1>4
  <2>3. PICK i \in DOMAIN q : q[i].path = p /\ ValueIn(o \o q, p) = q[i].val
    BY <1>3, <2>1, ValueOfAdded
  <2>4. q[i].val = snap[p]
    BY <1>1, <2>3
  <2>5. w[t] = o \o q
    BY <1>4, <2>2
  <2> QED BY <2>3, <2>4, <2>5
<1> QED BY <1>4, <1>5, <1>6, <1>7

\* What ShvJournalFileWriter does to them for an entry.
LEMMA EntryRecords ==
  ASSUME NEW d \in Disks, NEW f \in DOMAIN d, NEW e \in Records, ~e.snap,
         NEW w, w = write(d, f, <<e>>)
  PROVE  /\ w \in Disks /\ DOMAIN w = DOMAIN d
         /\ SizeOf(w, DOMAIN w) = SizeOf(d, DOMAIN d) + 1
         /\ \A u \in Int, n \in Nat :
              /\ Ordered(d, u, n) /\ u <= e.ts /\ f <= e.ts /\ e.val = n + 1
              /\ \A g \in DOMAIN d : g <= f
              => Ordered(w, e.ts, n + 1)
         /\ \A snap \in [Paths -> 0..MaxEntries] :
              Complete(d, f, snap) => Complete(w, f, [snap EXCEPT ![e.path] = e.val])
<1>q. PICK q : q = <<e>>
  OBVIOUS
<1>f. f \in Times
  BY DiskFacts
<1>1. q \in Seq(Records) /\ Len(q) = 1 /\ DOMAIN q = {1} /\ q[1] = e
  BY <1>q
<1>2. w = write(d, f, q)
  BY <1>q
<1>4. /\ w \in Disks /\ DOMAIN w = DOMAIN d
      /\ w[f] = Old(d, f) \o q /\ Old(d, f) \in Seq(Records)
  <2>1. /\ write(d, f, q) \in Disks /\ DOMAIN write(d, f, q) = DOMAIN d \cup {f}
        /\ \A g \in DOMAIN d : g # f => write(d, f, q)[g] = d[g]
        /\ write(d, f, q)[f] = Old(d, f) \o q /\ Old(d, f) \in Seq(Records)
    BY <1>1, <1>f, WriteFacts, Zenon
  <2> QED BY <1>2, <2>1
<1>5. SizeOf(w, DOMAIN w) = SizeOf(d, DOMAIN d) + 1
  <2>1. SizeOf(w, DOMAIN w) = SizeOf(d, DOMAIN d) + Len(q)
    <3>1. SizeOf(write(d, f, q), DOMAIN write(d, f, q)) = SizeOf(d, DOMAIN d) + Len(q)
      BY <1>1, <1>f, WriteSize, Zenon
    <3> QED BY <1>2, <3>1, Zenon
  <2> QED BY <1>1, <2>1
<1>6. ASSUME NEW u \in Int, NEW n \in Nat, Ordered(d, u, n), u <= e.ts, f <= e.ts, e.val = n + 1, \A g \in DOMAIN d : g <= f
      PROVE  Ordered(w, e.ts, n + 1)
  <2>1. PICK t \in Times : t = e.ts
    BY DEF Records
  <2>2. DOMAIN d # {} => Monotonic(d) /\ UpTo(d, u) /\ \A g \in DOMAIN d : g <= f
    BY <1>6 DEF Ordered
  <2>3. \A i \in DOMAIN q : q[i].ts = t
    BY <1>1, <2>1
  <2>4. u <= t /\ f <= t
    BY <1>6, <2>1
  <2>5. Monotonic(w) /\ UpTo(w, t)
    BY <1>1, <1>2, <1>f, <2>2, <2>3, <2>4, AddedTimes
  <2>6. DOMAIN d # {} => Rising(d, n) /\ Unbroken(d, n) /\ \A g \in DOMAIN d : g <= f
    BY <1>6 DEF Ordered
  <2>7. Rising(w, n + 1) /\ Unbroken(w, n + 1)
    BY <1>f, <1>6, <2>6, EntryValues
  <2> QED BY <2>1, <2>5, <2>7 DEF Ordered
<1>7. ASSUME NEW snap \in [Paths -> 0..MaxEntries], Complete(d, f, snap)
      PROVE  Complete(w, f, [snap EXCEPT ![e.path] = e.val])
  <2> DEFINE new == [snap EXCEPT ![e.path] = e.val]
  <2> SUFFICES ASSUME NEW p \in Paths, new[p] > 0 PROVE ValueIn(w[f], p) = new[p]
    BY DEF Complete
  <2>1. PICK o \in Seq(Records) : o = Old(d, f)
    BY <1>4
  <2>2. o = d[f] /\ w[f] = o \o q
    BY <1>4, <2>1 DEF Old
  <2>3. CASE p = e.path
    <3>1. \E i \in DOMAIN q : q[i].path = p
      BY <1>1, <2>3
    <3>2. PICK i \in DOMAIN q : q[i].path = p /\ ValueIn(o \o q, p) = q[i].val
      BY <1>1, <3>1, ValueOfAdded
    <3>3. q[i].val = e.val /\ new[p] = e.val
      BY <1>1, <2>3
    <3> QED BY <2>2, <3>2, <3>3
  <2>4. CASE p # e.path
    <3>1. \A i \in DOMAIN q : q[i].path # p
      BY <1>1, <2>4
    <3>2. ValueIn(o \o q, p) = ValueIn(o, p)
      BY <1>1, <3>1, ValueOfAdded
    <3>3. new[p] = snap[p]
      BY <2>4
    <3> QED BY <1>7, <2>2, <3>2, <3>3 DEF Complete
  <2> QED BY <2>3, <2>4
<1> QED BY <1>4, <1>5, <1>6, <1>7

\* What the functions assign, and what they leave.
WithFile(s, w, files, t) == [s EXCEPT !.disk = w, !.ctx.files = files, !.ctx.recent = t]
WithEntry(s, w, snap, t, z) ==
  [s EXCEPT !.disk = w, !.snap = snap, !.ctx.recent = t, !.ctx.lastSize = z, !.ctx.size = @ + 1]

\* A new file changes the files, the list of them and the time.
LEMMA NewFileParts ==
  ASSUME NEW s, Parts(s), NEW w \in Disks, NEW files \in Seq(Times), NEW t \in Times,
         NEW r, r = WithFile(s, w, files, t)
  PROVE  /\ (r.dir <=> s.dir) /\ r.disk = w /\ r.snap = s.snap
         /\ (r.ctx.exists <=> s.ctx.exists) /\ r.ctx.size = s.ctx.size
         /\ r.ctx.files = files /\ r.ctx.recent = t
         /\ r \in Journals
<1>1. (r.dir <=> s.dir) /\ r.disk = w /\ r.snap = s.snap
  BY DEF Parts, WithFile
<1>2. r = [dir |-> r.dir, disk |-> r.disk, ctx |-> r.ctx, snap |-> r.snap]
  BY DEF Parts, WithFile
<1>4. t \in 0..MaxTime
  BY FileJournalAssumption DEF Times
<1>5. /\ r.ctx.size = s.ctx.size /\ r.ctx.lastSize = s.ctx.lastSize
      /\ r.ctx.files = files /\ r.ctx.recent = t
  BY DEF Parts, WithFile
<1>6. (r.ctx.exists <=> s.ctx.exists)
  BY DEF Parts, WithFile
<1>7. r.ctx = [exists |-> r.ctx.exists, size |-> r.ctx.size, lastSize |-> r.ctx.lastSize,
               files |-> r.ctx.files, recent |-> r.ctx.recent]
  BY DEF Parts, WithFile
<1>b. r.dir \in BOOLEAN /\ r.ctx.exists \in BOOLEAN
  BY DEF Parts, WithFile
<1>8. Parts(r)
  BY <1>b, <1>1, <1>2, <1>4, <1>5, <1>6, <1>7 DEF Parts
<1>9. r \in Journals
  BY <1>8, JournalParts
<1> QED BY <1>1, <1>5, <1>6, <1>9

\* An entry changes the files and what is known of the newest one.
LEMMA EntryParts ==
  ASSUME NEW s, Parts(s), NEW w \in Disks, NEW z \in Int, NEW t \in Times,
         NEW snap \in [Paths -> 0..MaxEntries],
         NEW r, r = WithEntry(s, w, snap, t, z)
  PROVE  /\ (r.dir <=> s.dir) /\ r.disk = w /\ r.snap = snap
         /\ (r.ctx.exists <=> s.ctx.exists) /\ r.ctx.size = s.ctx.size + 1 /\ r.ctx.lastSize = z
         /\ r.ctx.files = s.ctx.files /\ r.ctx.recent = t
         /\ r \in Journals
<1>1. (r.dir <=> s.dir) /\ r.disk = w /\ r.snap = snap
  BY DEF Parts, WithEntry
<1>2. r = [dir |-> r.dir, disk |-> r.disk, ctx |-> r.ctx, snap |-> r.snap]
  BY DEF Parts, WithEntry
<1>4. t \in 0..MaxTime
  BY FileJournalAssumption DEF Times
<1>5. /\ r.ctx.size = s.ctx.size + 1 /\ r.ctx.lastSize = z
      /\ r.ctx.files = s.ctx.files /\ r.ctx.recent = t
  BY DEF Parts, WithEntry
<1>6. (r.ctx.exists <=> s.ctx.exists)
  BY DEF Parts, WithEntry
<1>7. r.ctx = [exists |-> r.ctx.exists, size |-> r.ctx.size, lastSize |-> r.ctx.lastSize,
               files |-> r.ctx.files, recent |-> r.ctx.recent]
  BY DEF Parts, WithEntry
<1>8. s.ctx.size + 1 \in Int
  BY DEF Parts, WithEntry
<1>b. r.dir \in BOOLEAN /\ r.ctx.exists \in BOOLEAN
  BY DEF Parts, WithEntry
<1>9. Parts(r)
  BY <1>b, <1>1, <1>2, <1>4, <1>5, <1>6, <1>7, <1>8 DEF Parts
<1>10. r \in Journals
  BY <1>9, JournalParts
<1> QED BY <1>1, <1>5, <1>6, <1>10

\* A failure changes the snapshot, or marks the context as unreadable.
LEMMA FailureParts ==
  ASSUME NEW s, Parts(s), NEW r
  PROVE  /\ \A snap \in [Paths -> 0..MaxEntries] : r = [s EXCEPT !.snap = snap] =>
              r \in Journals /\ (r.dir <=> s.dir) /\ r.disk = s.disk /\ r.ctx = s.ctx /\ r.snap = snap
         /\ r = [s EXCEPT !.ctx.exists = FALSE] =>
              /\ r \in Journals /\ (r.dir <=> s.dir) /\ r.disk = s.disk /\ r.snap = s.snap
              /\ ~r.ctx.exists
<1>1. ASSUME NEW snap \in [Paths -> 0..MaxEntries], r = [s EXCEPT !.snap = snap]
      PROVE  r \in Journals /\ (r.dir <=> s.dir) /\ r.disk = s.disk /\ r.ctx = s.ctx /\ r.snap = snap
  <2>1. (r.dir <=> s.dir) /\ r.disk = s.disk /\ r.ctx = s.ctx /\ r.snap = snap
    BY <1>1 DEF Parts
  <2>2. r = [dir |-> r.dir, disk |-> r.disk, ctx |-> r.ctx, snap |-> r.snap]
    BY <1>1 DEF Parts
  <2>b. r.dir \in BOOLEAN
    BY <1>1 DEF Parts
  <2>3. Parts(r)
    BY <2>b, <2>1, <2>2 DEF Parts
  <2> QED BY <2>1, <2>3, JournalParts
<1>2. ASSUME r = [s EXCEPT !.ctx.exists = FALSE]
      PROVE  /\ r \in Journals /\ (r.dir <=> s.dir) /\ r.disk = s.disk /\ r.snap = s.snap
             /\ ~r.ctx.exists
  <2>1. (r.dir <=> s.dir) /\ r.disk = s.disk /\ r.snap = s.snap
    BY <1>2 DEF Parts
  <2>2. r = [dir |-> r.dir, disk |-> r.disk, ctx |-> r.ctx, snap |-> r.snap]
    BY <1>2 DEF Parts
  <2>3. r.ctx = [exists |-> FALSE, size |-> s.ctx.size, lastSize |-> s.ctx.lastSize,
                 files |-> s.ctx.files, recent |-> s.ctx.recent]
    BY <1>2 DEF Parts
  <2>b. r.dir \in BOOLEAN
    BY <1>2 DEF Parts
  <2>4. Parts(r)
    BY <2>b, <2>1, <2>2, <2>3 DEF Parts
  <2> QED BY <2>1, <2>3, <2>4, JournalParts
<1> QED BY <1>1, <1>2

\* append() creates the directory again.
LEMMA DirectoryParts ==
  ASSUME NEW s, Parts(s), NEW r, r = [s EXCEPT !.dir = TRUE, !.ctx.exists = TRUE]
  PROVE  r \in Journals /\ r.disk = s.disk
<1>1. r.dir = TRUE /\ r.disk = s.disk /\ r.snap = s.snap
  BY DEF Parts
<1>2. /\ r.ctx.size = s.ctx.size /\ r.ctx.lastSize = s.ctx.lastSize /\ r.ctx.files = s.ctx.files
      /\ r.ctx.recent = s.ctx.recent
  BY DEF Parts
<1>3. r.ctx.exists = TRUE
  BY DEF Parts
<1>4. /\ r = [dir |-> r.dir, disk |-> r.disk, ctx |-> r.ctx, snap |-> r.snap]
      /\ r.ctx = [exists |-> r.ctx.exists, size |-> r.ctx.size, lastSize |-> r.ctx.lastSize,
                  files |-> r.ctx.files, recent |-> r.ctx.recent]
  BY DEF Parts
<1>5. Parts(r)
  BY <1>1, <1>2, <1>3, <1>4 DEF Parts
<1> QED BY <1>1, <1>5, JournalParts

\* createNewLogFile() writes a snapshot, and counts a file.
LEMMA NewFile ==
  ASSUME NEW s \in Journals, s.dir, s.ctx.exists, s.ctx.size >= 0, Lists(s), Counts(s),
         NEW t \in Times, NEW r, r = createNewLogFile(s, t), NEW n \in Nat
  PROVE  /\ r \in Journals /\ r.dir /\ r.ctx.exists /\ r.ctx.size >= 0
         /\ Lists(r) /\ Counts(r) /\ r.ctx.recent = t /\ r.ctx.files # <<>>
         /\ Timely(s, n) /\ t >= s.ctx.recent => Timely(r, n)
<1>0. Parts(s)
  BY JournalParts
<1>w. PICK w : w = write(s.disk, t, Snapshot(s.snap, t))
  OBVIOUS
<1>f. PICK files : files = Append(s.ctx.files, t)
  OBVIOUS
<1>1. r = WithFile(s, w, files, t)
  BY <1>w, <1>f, Zenon DEF createNewLogFile, WithFile
<1> DEFINE d == s.disk
           u == s.ctx.recent
<1>2. d \in Disks /\ s.snap \in [Paths -> 0..MaxEntries] /\ u \in Int /\ w = write(d, t, Snapshot(s.snap, t))
  BY <1>0, <1>w DEF Parts
<1> HIDE DEF d, u
<1>3. /\ w \in Disks /\ DOMAIN w = DOMAIN d \cup {t}
      /\ SizeOf(w, DOMAIN w) <= SizeOf(d, DOMAIN d) + Cardinality(Paths)
      /\ Ordered(d, u, n) /\ u <= t => Ordered(w, t, n)
      /\ Complete(w, t, s.snap)
  BY <1>2, NewFileRecords
<1>4. /\ files \in Seq(Times) /\ Len(files) = Len(s.ctx.files) + 1 /\ Len(s.ctx.files) \in Nat
      /\ DOMAIN files = 1..Len(files) /\ Last(files) = t /\ files # <<>>
      /\ \A i \in 1..Len(s.ctx.files) : files[i] = s.ctx.files[i]
      /\ files[Len(files)] = t /\ DOMAIN s.ctx.files = 1..Len(s.ctx.files)
  BY <1>0, <1>f DEF Parts, Last
<1>5. /\ (r.dir <=> s.dir) /\ r.disk = w /\ r.snap = s.snap
      /\ (r.ctx.exists <=> s.ctx.exists) /\ r.ctx.size = s.ctx.size
      /\ r.ctx.files = files /\ r.ctx.recent = t
      /\ r \in Journals
  <2>1. w \in Disks /\ files \in Seq(Times)
    BY <1>3, <1>4
  <2> QED BY <1>0, <1>1, <2>1, NewFileParts
<1>9. Lists(r)
  <2> SUFFICES ASSUME NEW f \in Times
               PROVE  f \in DOMAIN w <=> \E i \in DOMAIN files : files[i] = f
    BY <1>5 DEF Lists
  <2>1. f \in DOMAIN d <=> \E i \in DOMAIN s.ctx.files : s.ctx.files[i] = f
    BY DEF Lists, d
  <2>2. \A i \in 1..Len(files) : i \in 1..Len(s.ctx.files) \/ i = Len(files)
    BY <1>4
  <2>3. \A i \in 1..Len(s.ctx.files) : i \in 1..Len(files)
    BY <1>4
  <2>4. Len(files) \in 1..Len(files)
    BY <1>4
  <2> QED BY <1>3, <1>4, <2>1, <2>2, <2>3, <2>4
<1>10. Counts(r)
  <2> DEFINE P == Cardinality(Paths)
             c == Len(s.ctx.files)
             o == SizeOf(d, DOMAIN d)
             q == SizeOf(w, DOMAIN w)
             z == s.ctx.size
  <2>1. P \in Nat /\ c \in Nat
    BY <1>4, FileJournalAssumption, FS_CardinalityType
  <2>2. o <= z + c * P
    BY DEF Counts, d
  <2>3. q <= o + P
    BY <1>3
  <2>4. o \in Nat /\ q \in Nat
    <3>1. DOMAIN d \in SUBSET DOMAIN d /\ DOMAIN w \in SUBSET DOMAIN w
      OBVIOUS
    <3> QED BY <1>2, <1>3, <3>1, PlaceFacts
  <2>5. z \in Int
    BY <1>0 DEF Parts
  <2>6. Counts(r) <=> q <= z + (c + 1) * P
    BY <1>4, <1>5 DEF Counts
  <2> HIDE DEF P, c, o, q, z
  <2>7. c * P \in Nat /\ (c + 1) * P = c * P + P
    BY <2>1
  <2> QED BY <2>1, <2>2, <2>3, <2>4, <2>5, <2>6, <2>7
<1>11. ASSUME Timely(s, n), t >= s.ctx.recent PROVE Timely(r, n)
  <2>1. Ordered(d, u, n) /\ u <= t
    BY <1>2, <1>11 DEF Timely, Ordered, d, u, Times
  <2>2. Ordered(w, t, n) /\ DOMAIN w # {}
    BY <1>3, <2>1
  <2> QED BY <1>3, <1>4, <1>5, <2>2 DEF Ordered, Timely, UpTo
<1> QED BY <1>4, <1>5, <1>9, <1>10, <1>11

\* The entry is written to the newest file and counted.
LEMMA EntryWritten ==
  ASSUME NEW s \in Journals, s.dir, s.ctx.exists, s.ctx.size >= 0, Lists(s), Counts(s),
         s.ctx.files # <<>>, NEW f, f = Last(s.ctx.files),
         NEW e \in Records, ~e.snap, s.ctx.recent <= e.ts,
         NEW r, r = countEntry([addToSnapshot(s, e) EXCEPT !.disk = write(@, f, <<e>>)], f, e),
         NEW n \in Nat
  PROVE  /\ r \in Journals /\ r.dir /\ r.ctx.exists /\ r.ctx.size >= 0 /\ r.ctx.recent = e.ts
         /\ Lists(r) /\ Counts(r) /\ Measures(r) /\ DOMAIN r.disk # {}
         /\ Timely(s, n) /\ e.val = n + 1 => Timely(r, n + 1)
<1>0. Parts(s)
  BY JournalParts
<1> DEFINE d == s.disk
           u == s.ctx.recent
<1>w. PICK w : w = write(d, f, <<e>>)
  OBVIOUS
<1>n. PICK snap : snap = [s.snap EXCEPT ![e.path] = e.val]
  OBVIOUS
<1>z. PICK z : z = Len(w[f])
  OBVIOUS
<1>2. /\ d \in Disks /\ s.snap \in [Paths -> 0..MaxEntries] /\ u \in Int
      /\ f \in DOMAIN d /\ f \in Times
  BY <1>0, LastListed DEF Parts
<1>3. snap \in [Paths -> 0..MaxEntries] /\ e.ts \in Times /\ e.val \in Int
  BY <1>2, <1>n DEF Records
<1>5. r = WithEntry(s, w, snap, e.ts, z)
  <2>1. PICK a : a = [addToSnapshot(s, e) EXCEPT !.disk = write(@, f, <<e>>)]
    OBVIOUS
  <2>2. a.dir = s.dir /\ a.disk = w /\ a.snap = snap /\ a.ctx = s.ctx /\ DOMAIN a = {"dir", "disk", "ctx", "snap"}
    BY <1>0, <1>w, <1>n, <2>1 DEF Parts, addToSnapshot
  <2>3. r = [a EXCEPT !.ctx.recent = e.ts, !.ctx.lastSize = z, !.ctx.size = @ + 1]
    BY <1>z, <2>1, <2>2, Zenon DEF countEntry
  <2>4. s = [dir |-> s.dir, disk |-> s.disk, ctx |-> s.ctx, snap |-> s.snap]
    BY <1>0 DEF Parts
  <2>5. a = [s EXCEPT !.disk = w, !.snap = snap]
    BY <1>0, <1>w, <1>n, <2>1, <2>4 DEF addToSnapshot
  <2> QED BY <2>2, <2>3, <2>4, <2>5 DEF WithEntry
<1> HIDE DEF d, u
<1>6. ASSUME Timely(s, n)
      PROVE  Ordered(d, u, n) /\ (\A g \in DOMAIN d : g <= f) /\ Complete(d, f, s.snap)
  <2>1. DOMAIN s.disk # {}
    BY <1>2 DEF d
  <2> QED BY <1>6, <2>1, Zenon DEF Timely, Ordered, d, u
<1>7. /\ w \in Disks /\ DOMAIN w = DOMAIN d
      /\ SizeOf(w, DOMAIN w) = SizeOf(d, DOMAIN d) + 1
      /\ /\ Ordered(d, u, n) /\ u <= e.ts /\ f <= e.ts /\ e.val = n + 1
         /\ \A g \in DOMAIN d : g <= f
         => Ordered(w, e.ts, n + 1)
      /\ Complete(d, f, s.snap) => Complete(w, f, snap)
  <2>1. PICK old \in [Paths -> 0..MaxEntries] : old = s.snap
    BY <1>2
  <2>2. /\ w \in Disks /\ DOMAIN w = DOMAIN d
        /\ SizeOf(w, DOMAIN w) = SizeOf(d, DOMAIN d) + 1
        /\ \A x \in Int, m \in Nat :
             /\ Ordered(d, x, m) /\ x <= e.ts /\ f <= e.ts /\ e.val = m + 1
             /\ \A g \in DOMAIN d : g <= f
             => Ordered(w, e.ts, m + 1)
        /\ \A v \in [Paths -> 0..MaxEntries] :
             Complete(d, f, v) => Complete(w, f, [v EXCEPT ![e.path] = e.val])
    BY <1>2, <1>w, EntryRecords
  <2>3. snap = [old EXCEPT ![e.path] = e.val]
    BY <1>n, <2>1
  <2>4. Complete(d, f, s.snap) => Complete(w, f, snap)
    BY <2>1, <2>2, <2>3
  <2>5. /\ Ordered(d, u, n) /\ u <= e.ts /\ f <= e.ts /\ e.val = n + 1
        /\ \A g \in DOMAIN d : g <= f
        => Ordered(w, e.ts, n + 1)
    BY <1>2, <2>2
  <2> QED BY <2>2, <2>4, <2>5
<1>8. /\ w \in Disks /\ DOMAIN w = DOMAIN d
      /\ SizeOf(w, DOMAIN w) = SizeOf(d, DOMAIN d) + 1
  BY <1>7
<1>9. z \in Int
  BY <1>2, <1>8, <1>z, DiskFacts
<1>10. /\ (r.dir <=> s.dir) /\ r.disk = w /\ r.snap = snap
       /\ (r.ctx.exists <=> s.ctx.exists) /\ r.ctx.size = s.ctx.size + 1 /\ r.ctx.lastSize = z
       /\ r.ctx.files = s.ctx.files /\ r.ctx.recent = e.ts
       /\ r \in Journals
  <2>1. w \in Disks
    BY <1>8
  <2> QED BY <1>0, <1>3, <1>5, <1>9, <2>1, EntryParts
<1>11. Lists(r)
  BY <1>8, <1>10 DEF Lists, d
<1>12. Measures(r)
  BY <1>10, <1>z DEF Measures
<1>13. Counts(r) /\ s.ctx.size + 1 >= 0
  <2> DEFINE x == Len(s.ctx.files) * Cardinality(Paths)
             o == SizeOf(d, DOMAIN d)
             q == SizeOf(w, DOMAIN w)
             y == s.ctx.size
  <2>1. x \in Int
    <3>1. Len(s.ctx.files) \in Nat /\ Cardinality(Paths) \in Nat
      BY <1>0, FileJournalAssumption, FS_CardinalityType DEF Parts
    <3>2. \A a, b \in Nat : a * b \in Int
      OBVIOUS
    <3> QED BY <3>1, <3>2
  <2>2. o <= y + x /\ y \in Int /\ y >= 0
    BY <1>0 DEF Counts, Parts, d
  <2>3. q = o + 1 /\ o \in Nat
    <3>1. DOMAIN d \in SUBSET DOMAIN d
      OBVIOUS
    <3> QED BY <1>2, <1>8, <3>1, PlaceFacts
  <2>4. Counts(r) <=> q <= (y + 1) + x
    BY <1>10 DEF Counts
  <2>5. (s.ctx.size + 1 >= 0) <=> (y + 1 >= 0)
    OBVIOUS
  <2> HIDE DEF x, o, q, y
  <2> QED BY <2>1, <2>2, <2>3, <2>4, <2>5
<1>14. ASSUME Timely(s, n), e.val = n + 1 PROVE Timely(r, n + 1)
  <2>1. f <= u /\ u <= e.ts
    <3>1. UpTo(d, u)
      BY <1>2, <1>6, <1>14 DEF Ordered
    <3> QED BY <1>2, <3>1 DEF UpTo, u
  <2>2. f <= e.ts
    BY <1>2, <1>3, <2>1 DEF Times
  <2>3. Ordered(w, e.ts, n + 1) /\ Complete(w, f, snap) /\ DOMAIN w # {}
    BY <1>2, <1>6, <1>7, <1>14, <2>1, <2>2
  <2>4. \A g \in DOMAIN w : g <= f
    BY <1>6, <1>8, <1>14
  <2> QED BY <1>10, <2>3, <2>4 DEF Timely, Ordered
<1> QED BY <1>2, <1>8, <1>10, <1>11, <1>12, <1>13, <1>14

(***************************************************************************)
(* appendThrow() and append().                                             *)
(***************************************************************************)
\* What an append that succeeds leaves, and one that fails.
Written(r, e) ==
  /\ r \in Journals /\ r.dir /\ r.ctx.exists /\ r.ctx.size >= 0 /\ r.ctx.recent = e.ts
  /\ Lists(r) /\ Measures(r) /\ Counts(r) /\ Bounded(r)
Broken(r, dir) ==
  r \in Journals /\ (r.dir <=> dir) /\ (~r.dir => DOMAIN r.disk = {})

Entry(e) == e \in Records /\ ~e.snap

\* appendEntry(): the second writer adds the entry, or does not open its file.
LEMMA AppendEntry ==
  ASSUME NEW s \in Journals, s.ctx.exists, s.ctx.size >= 0,
         ~s.dir => DOMAIN s.disk = {}, s.dir => Lists(s) /\ Counts(s) /\ s.ctx.files # <<>>,
         NEW e, Entry(e), s.ctx.recent <= e.ts, NEW broken, NEW n \in Nat,
         NEW r, r = appendEntry(s, e, broken)
  PROVE  \/ ~r.ok /\ (broken # "none" \/ ~s.dir) /\ Broken(r.s, s.dir)
         \/ /\ r.ok /\ s.dir /\ Written(r.s, e)
            /\ Timely(s, n) /\ e.val = n + 1 => Timely(r.s, n + 1)
<1>0. Parts(s)
  BY JournalParts
<1>1. CASE broken = "add" \/ ~s.dir
  <2>1. r = Failed(addToSnapshot(s, e))
    BY <1>1, Zenon DEF appendEntry
  <2>2. ~r.ok /\ r.s = addToSnapshot(s, e)
    BY <2>1 DEF Failed
  <2>3. PICK snap : snap = [s.snap EXCEPT ![e.path] = e.val]
    OBVIOUS
  <2>4. snap \in [Paths -> 0..MaxEntries]
    <3>1. s.snap \in [Paths -> 0..MaxEntries] /\ e.val \in 0..MaxEntries
      BY <1>0, FileJournalAssumption DEF Parts, Entry, Records
    <3> QED BY <2>3, <3>1
  <2>5. addToSnapshot(s, e) = [s EXCEPT !.snap = snap]
    BY <2>3 DEF addToSnapshot
  <2>6. r.s \in Journals /\ (r.s.dir <=> s.dir) /\ r.s.disk = s.disk
    BY <1>0, <2>2, <2>4, <2>5, FailureParts
  <2> QED BY <1>1, <2>2, <2>6 DEF Broken
<1>2. CASE ~(broken = "add" \/ ~s.dir)
  <2> DEFINE f == Last(s.ctx.files)
             w == countEntry([addToSnapshot(s, e) EXCEPT !.disk = write(@, f, <<e>>)], f, e)
             x == rotateIfLarge(w)
  <2>1. r = Done(x)
    BY <1>2, Zenon DEF appendEntry, writeEntry
  <2>2. /\ w \in Journals /\ w.dir /\ w.ctx.exists /\ w.ctx.size >= 0 /\ w.ctx.recent = e.ts
        /\ Lists(w) /\ Counts(w) /\ Measures(w) /\ DOMAIN w.disk # {}
        /\ Timely(s, n) /\ e.val = n + 1 => Timely(w, n + 1)
    BY <1>2, EntryWritten DEF Entry
  <2> HIDE DEF w
  <2>3. n + 1 \in Nat
    OBVIOUS
  <2>4. /\ x \in Journals /\ x.dir = w.dir
        /\ x.ctx.exists = w.ctx.exists /\ x.ctx.recent = w.ctx.recent
        /\ x.ctx.size >= 0 /\ Lists(x) /\ Measures(x) /\ Counts(x) /\ Bounded(x)
        /\ Timely(w, n + 1) => Timely(x, n + 1)
    BY <2>2, <2>3, Rotated
  <2> HIDE DEF x
  <2>5. r.ok /\ r.s = x
    BY <2>1 DEF Done
  <2>6. Written(x, e)
    BY <2>2, <2>4 DEF Written
  <2> QED BY <1>2, <2>2, <2>4, <2>5, <2>6
<1> QED BY <1>1, <1>2

\* appendReady(): the first writer creates a file if one is needed.
LEMMA AppendReady ==
  ASSUME NEW s, Open(s), NEW e, Entry(e), s.ctx.recent <= e.ts, NEW broken, NEW n \in Nat,
         NEW r, r = appendReady(s, e, broken)
  PROVE  \/ ~r.ok /\ (broken # "none" \/ ~s.dir) /\ Broken(r.s, s.dir)
         \/ /\ r.ok /\ s.dir /\ Written(r.s, e)
            /\ Timely(s, n) /\ e.val = n + 1 => Timely(r.s, n + 1)
<1>1. CASE s.ctx.files # <<>> /\ s.ctx.lastSize <= FileLimit
  <2>1. r = appendEntry(s, e, broken)
    BY <1>1, Zenon DEF appendReady
  <2>2. /\ s \in Journals /\ s.ctx.exists /\ s.ctx.size >= 0
        /\ ~s.dir => DOMAIN s.disk = {}
        /\ s.dir => Lists(s) /\ Counts(s) /\ s.ctx.files # <<>>
    BY <1>1 DEF Open
  <2> QED BY <2>1, <2>2, AppendEntry
<1>2. CASE ~(s.ctx.files # <<>> /\ s.ctx.lastSize <= FileLimit) /\ (broken = "create" \/ ~s.dir)
  <2>1. r = Failed(s)
    BY <1>2, Zenon DEF appendReady
  <2>2. ~r.ok /\ r.s = s
    BY <2>1 DEF Failed
  <2> QED BY <1>2, <2>2 DEF Open, Broken
<1>3. CASE ~(s.ctx.files # <<>> /\ s.ctx.lastSize <= FileLimit) /\ ~(broken = "create" \/ ~s.dir)
  <2> DEFINE c == createNewLogFile(s, e.ts)
  <2>1. r = appendEntry(c, e, broken)
    BY <1>3, Zenon DEF appendReady
  <2>2. e.ts \in Times /\ s.dir
    BY <1>3 DEF Entry, Records
  <2>3. /\ c \in Journals /\ c.dir /\ c.ctx.exists /\ c.ctx.size >= 0
        /\ Lists(c) /\ Counts(c) /\ c.ctx.recent = e.ts /\ c.ctx.files # <<>>
        /\ Timely(s, n) /\ e.ts >= s.ctx.recent => Timely(c, n)
    BY <2>2, NewFile DEF Open
  <2> HIDE DEF c
  <2>4. c.ctx.recent <= e.ts
    BY <2>2, <2>3 DEF Times
  <2>5. \/ ~r.ok /\ (broken # "none" \/ ~c.dir) /\ Broken(r.s, c.dir)
        \/ /\ r.ok /\ c.dir /\ Written(r.s, e)
           /\ Timely(c, n) /\ e.val = n + 1 => Timely(r.s, n + 1)
    BY <2>1, <2>3, <2>4, AppendEntry
  <2>6. e.ts >= s.ctx.recent
    <3>0. Parts(s)
      BY JournalParts DEF Open
    <3>1. s.ctx.recent \in Int /\ e.ts \in Int
      BY <2>2, <3>0 DEF Parts, Times
    <3> QED BY <3>1
  <2> QED BY <2>2, <2>3, <2>5, <2>6 DEF Broken
<1> QED BY <1>1, <1>2, <1>3

\* What appendThrow() may start from.
Startable(s) ==
  /\ s \in Journals /\ (~s.dir => DOMAIN s.disk = {})
  /\ s.ctx.exists => Open(s) /\ (s.ctx.recent > 0 \/ s.dir)

\* appendThrow(): the context is read first, if nothing is known.
LEMMA AppendThrow ==
  ASSUME NEW s, Startable(s), NEW e, Entry(e), NEW broken, NEW n \in Nat,
         NEW r, r = appendThrow(s, e, broken)
  PROVE  \/ /\ ~r.ok /\ r.s \in Journals /\ (~r.s.dir => DOMAIN r.s.disk = {})
            /\ broken # "none" \/ ~r.s.dir
            /\ s.dir => r.s.dir
         \/ /\ r.ok /\ r.s.ctx.recent > 0 /\ (\E x : Written(r.s, x))
            /\ /\ Timely(s, n) /\ e.val = n + 1
               /\ (s.ctx.exists /\ s.ctx.recent > 0) \/ DOMAIN s.disk = {}
               => Timely(r.s, n + 1)
<1> DEFINE q == checkJournalContext(s, FALSE)
           c == checkRecentTimeStamp(q)
           x == [e EXCEPT !.ts = timeOf(e, c.ctx.recent)]
<1>1. r = appendReady(c, x, broken)
  BY DEF appendThrow, appendAt
<1>2. \/ q = s /\ s.ctx.exists /\ s.ctx.size >= 0
      \/ /\ ~s.ctx.exists \/ s.ctx.size < 0
         /\ q.disk = s.disk /\ q.snap = s.snap /\ q.dir = TRUE /\ q.ctx.recent = 0 /\ Open(q)
         /\ DOMAIN s.disk = {} => q.ctx.files = <<>>
  BY CheckContext DEF Startable
<1>3. \/ q = s /\ s.ctx.exists /\ Open(s) /\ (s.ctx.recent > 0 \/ s.dir)
      \/ ~s.ctx.exists /\ q.disk = s.disk /\ q.dir = TRUE /\ Open(q)
  <2>0. Parts(s)
    BY JournalParts DEF Startable
  <2>1. s.ctx.exists => ~(s.ctx.size < 0)
    BY <2>0 DEF Startable, Open, Parts
  <2>2. s.ctx.exists => Open(s) /\ (s.ctx.recent > 0 \/ s.dir)
    BY DEF Startable
  <2> HIDE DEF q
  <2>3. CASE q = s /\ s.ctx.exists /\ s.ctx.size >= 0
    BY <2>2, <2>3
  <2>4. CASE /\ ~s.ctx.exists \/ s.ctx.size < 0
             /\ q.disk = s.disk /\ q.snap = s.snap /\ q.dir = TRUE /\ q.ctx.recent = 0 /\ Open(q)
             /\ DOMAIN s.disk = {} => q.ctx.files = <<>>
    BY <2>1, <2>4
  <2> QED BY <1>2, <2>3, <2>4
<1> HIDE DEF q
<1>4. Open(q) /\ (q.ctx.recent > 0 \/ q.dir) /\ q \in Journals /\ q.disk = s.disk /\ (s.dir => q.dir)
  BY <1>3 DEF Open
<1>5. /\ Open(c) /\ c.dir = q.dir /\ c.disk = q.disk /\ c.snap = q.snap
      /\ c.ctx.files = q.ctx.files
      /\ q.ctx.recent > 0 \/ q.ctx.files = <<>> => c = q
  BY <1>4, CheckTime
<1> HIDE DEF c
<1>6. c.ctx.recent \in 0..MaxTime /\ MaxTime \in Nat
  BY <1>5, JournalParts, FileJournalAssumption DEF Open, Parts
<1>7. Entry(x) /\ c.ctx.recent <= x.ts /\ x.val = e.val /\ x.ts > 0
  <2> DEFINE T == {e.ts, c.ctx.recent}
             t == Max(T)
  <2>1. e.ts \in Times /\ e \in Records /\ ~e.snap
    BY DEF Entry, Records
  <2>2. t \in T /\ e.ts <= t /\ c.ctx.recent <= t
    <3>1. T \subseteq 0..MaxTime /\ e.ts \in T /\ c.ctx.recent \in T
      BY <1>6, <2>1 DEF Times
    <3> HIDE DEF T
    <3> QED BY <1>6, <3>1, LargestNat
  <2>3. t \in Times
    BY <1>6, <2>1, <2>2 DEF Times
  <2>4. x = [e EXCEPT !.ts = t]
    BY DEF timeOf
  <2> HIDE DEF t, x
  <2>5. x \in Records /\ ~x.snap /\ x.val = e.val /\ x.ts = t
    BY <2>1, <2>3, <2>4 DEF Records
  <2> QED BY <2>2, <2>3, <2>5 DEF Entry, Times
<1> HIDE DEF x
<1>8. \/ ~r.ok /\ (broken # "none" \/ ~c.dir) /\ Broken(r.s, c.dir)
      \/ /\ r.ok /\ c.dir /\ Written(r.s, x)
         /\ Timely(c, n) /\ x.val = n + 1 => Timely(r.s, n + 1)
  BY <1>1, <1>5, <1>7, AppendReady
<1>9. CASE ~r.ok /\ (broken # "none" \/ ~c.dir) /\ Broken(r.s, c.dir)
  BY <1>4, <1>5, <1>9 DEF Broken
<1>10. CASE /\ r.ok /\ c.dir /\ Written(r.s, x)
            /\ Timely(c, n) /\ x.val = n + 1 => Timely(r.s, n + 1)
  <2>1. r.s.ctx.recent > 0
    BY <1>7, <1>10 DEF Written
  <2>2. ASSUME Timely(s, n), (s.ctx.exists /\ s.ctx.recent > 0) \/ DOMAIN s.disk = {}
        PROVE  Timely(c, n)
    <3>1. CASE DOMAIN s.disk = {}
      BY <1>4, <1>5, <3>1 DEF Timely
    <3>2. CASE s.ctx.exists /\ s.ctx.recent > 0
      <4>1. q = s
        BY <1>3, <3>2
      <4> QED BY <1>5, <2>2, <3>2, <4>1
    <3> QED BY <2>2, <3>1, <3>2
  <2> QED BY <1>7, <1>10, <2>1, <2>2
<1> QED BY <1>8, <1>9, <1>10

\* append(): the second attempt succeeds whenever it is made with a directory.
LEMMA AppendAgain ==
  ASSUME NEW s, Kept(s), NEW e, Entry(e), NEW broken, NEW n \in Nat,
         NEW r, r = appendAgain(appendThrow(s, e, broken), e)
  PROVE  \/ ~r.ok /\ broken # "none" /\ Kept(r.s)
         \/ /\ r.ok /\ Kept(r.s) /\ r.s.ctx.exists
            /\ Timely(s, n) /\ e.val = n + 1 /\ (s.ctx.exists \/ DOMAIN s.disk = {})
               => Timely(r.s, n + 1)
<1>1. Startable(s)
  BY DEF Kept, Startable, Open
<1>2. PICK first : first = appendThrow(s, e, broken)
  OBVIOUS
<1>3. \/ /\ ~first.ok /\ first.s \in Journals /\ (~first.s.dir => DOMAIN first.s.disk = {})
         /\ broken # "none" \/ ~first.s.dir
         /\ s.dir => first.s.dir
      \/ /\ first.ok /\ first.s.ctx.recent > 0 /\ (\E x : Written(first.s, x))
         /\ /\ Timely(s, n) /\ e.val = n + 1
            /\ (s.ctx.exists /\ s.ctx.recent > 0) \/ DOMAIN s.disk = {}
            => Timely(first.s, n + 1)
  BY <1>1, <1>2, AppendThrow
<1>4. \A x, y : Written(x, y) /\ x.ctx.recent > 0 => Kept(x) /\ x.ctx.exists
  BY DEF Written, Kept
<1>5. CASE first.ok
  <2>1. r = first
    BY <1>2, <1>5 DEF appendAgain
  <2>2. Kept(r.s) /\ r.s.ctx.exists
    BY <1>3, <1>4, <1>5, <2>1
  <2>3. s.ctx.exists => s.ctx.recent > 0
    BY DEF Kept
  <2> QED BY <1>3, <1>5, <2>1, <2>2, <2>3
<1>6. CASE ~first.ok /\ first.s.dir
  <2>1. PICK x : x = [first.s EXCEPT !.ctx.exists = FALSE]
    OBVIOUS
  <2>2. r = Failed(x)
    BY <1>2, <1>6, <2>1 DEF appendAgain
  <2>3. ~r.ok /\ r.s = x
    BY <2>2 DEF Failed
  <2>4. Parts(first.s) /\ broken # "none"
    BY <1>3, <1>6, JournalParts
  <2>5. /\ x \in Journals /\ (x.dir <=> first.s.dir) /\ ~x.ctx.exists
    BY <2>1, <2>4, FailureParts
  <2> QED BY <1>6, <2>3, <2>4, <2>5 DEF Kept
<1>7. CASE ~first.ok /\ ~first.s.dir
  <2>1. PICK m : m = [first.s EXCEPT !.dir = TRUE, !.ctx.exists = TRUE]
    OBVIOUS
  <2>2. PICK again : again = checkJournalContext(m, TRUE)
    OBVIOUS
  <2>3. r = appendThrow(again, e, "none")
    BY <1>2, <1>7, <2>1, <2>2 DEF appendAgain
  <2>4. Parts(first.s) /\ DOMAIN first.s.disk = {}
    BY <1>3, <1>7, JournalParts
  <2>5. m \in Journals /\ m.disk = first.s.disk
    BY <2>1, <2>4, DirectoryParts
  <2>6. again.disk = m.disk /\ again.dir = TRUE /\ Open(again)
    BY <2>2, <2>5, CheckContext
  <2>7. Startable(again) /\ DOMAIN again.disk = {}
    BY <2>4, <2>5, <2>6 DEF Startable, Open
  <2>8. Timely(again, n)
    BY <2>7 DEF Timely
  <2>9. \/ /\ ~r.ok /\ r.s \in Journals /\ (~r.s.dir => DOMAIN r.s.disk = {})
           /\ "none" # "none" \/ ~r.s.dir
           /\ again.dir => r.s.dir
        \/ /\ r.ok /\ r.s.ctx.recent > 0 /\ (\E x : Written(r.s, x))
           /\ /\ Timely(again, n) /\ e.val = n + 1
              /\ (again.ctx.exists /\ again.ctx.recent > 0) \/ DOMAIN again.disk = {}
              => Timely(r.s, n + 1)
    BY <2>3, <2>7, AppendThrow
  <2>10. r.ok /\ r.s.ctx.recent > 0 /\ (\E x : Written(r.s, x))
    BY <2>6, <2>9
  <2> QED BY <1>4, <2>7, <2>8, <2>9, <2>10
<1> QED BY <1>3, <1>5, <1>6, <1>7

(***************************************************************************)
(* The theorems.                                                           *)
(***************************************************************************)
\* Init starts the invariant.
LEMMA InitIInv == Init => IInv
<1> SUFFICES ASSUME Init PROVE IInv
  OBVIOUS
<1>1. NoFiles \in Disks /\ DOMAIN NoFiles = {}
  <2>1. NoFiles \in [{} -> Seq(Records)] /\ {} \in SUBSET Times
    BY DEF NoFiles
  <2> QED BY <2>1 DEF Disks
<1>2. NoContext \in Contexts /\ ~NoContext.exists
  BY FileJournalAssumption DEF NoContext, Contexts
<1>3. [p \in Paths |-> 0] \in [Paths -> 0..MaxEntries]
  BY FileJournalAssumption
<1>4. j \in Journals /\ ~j.dir /\ DOMAIN j.disk = {} /\ ~j.ctx.exists
  BY <1>1, <1>2, <1>3 DEF Init, Journals
<1>5. Cardinality({}) = 0
  BY FS_EmptySet
<1>6. Timely(j, count)
  BY <1>4 DEF Timely
<1> QED BY <1>4, <1>5, <1>6, FileJournalAssumption DEF Init, IInv, Kept

\* append() keeps it.
LEMMA AppendIInv ==
  ASSUME IInv, NEW p \in Paths, NEW t \in Times, NEW broken, append(p, t, broken),
         errors' \in 0..MaxErrors, errors' >= errors, broken # "none" => errors' = errors + 1
  PROVE  IInv'
<1> DEFINE e == [ts |-> t, path |-> p, val |-> count + 1, snap |-> FALSE]
<1>1. count + 1 \in 0..MaxEntries /\ count \in Nat
  BY FileJournalAssumption DEF IInv, append
<1>2. Entry(e) /\ e.val = count + 1
  BY <1>1 DEF Entry, Records
<1> HIDE DEF e
<1>3. PICK r : /\ r = appendAgain(appendThrow(j, e, broken), e)
               /\ j' = r.s /\ lost' = IF r.ok THEN lost ELSE lost \cup {e.val}
  BY Zenon DEF append, e
<1>4. count' = count + 1 /\ restarts' = restarts /\ removals' = removals
  BY DEF append
<1>5. \/ ~r.ok /\ broken # "none" /\ Kept(r.s)
      \/ /\ r.ok /\ Kept(r.s) /\ r.s.ctx.exists
         /\ Timely(j, count) /\ e.val = count + 1 /\ (j.ctx.exists \/ DOMAIN j.disk = {})
            => Timely(r.s, count + 1)
  <2>1. Kept(j)
    BY DEF IInv
  <2> QED BY <1>1, <1>2, <1>3, <2>1, AppendAgain
<1>6. lost \subseteq 1..count /\ IsFiniteSet(lost) /\ Cardinality(lost) \in Nat /\ errors \in Nat
  <2>1. IsFiniteSet(1..count) /\ lost \subseteq 1..count
    BY <1>1, FS_Interval DEF IInv
  <2>2. IsFiniteSet(lost)
    BY <2>1, FS_Subset, Zenon
  <2>3. Cardinality(lost) \in Nat
    BY <2>2, FS_CardinalityType
  <2>4. errors \in Nat
    BY FileJournalAssumption DEF IInv
  <2> QED BY <2>1, <2>2, <2>3, <2>4
<1>7. CASE ~r.ok /\ broken # "none" /\ Kept(r.s)
  <2>1. lost' = lost \cup {count + 1} /\ errors' = errors + 1
    BY <1>2, <1>3, <1>7
  <2>2. lost' \subseteq 1..(count + 1) /\ count + 1 \notin lost
    BY <1>1, <1>6, <2>1
  <2>3. Cardinality(lost') = Cardinality(lost) + 1
    BY <1>6, <2>1, <2>2, FS_AddElement
  <2>4. Cardinality(lost') <= errors'
    BY <1>6, <2>1, <2>3 DEF IInv
  <2>5. ~TimeIsKnown'
    BY <2>1 DEF TimeIsKnown
  <2> QED BY <1>1, <1>3, <1>4, <1>7, <2>2, <2>4, <2>5 DEF IInv
<1>8. CASE /\ r.ok /\ Kept(r.s) /\ r.s.ctx.exists
           /\ Timely(j, count) /\ e.val = count + 1 /\ (j.ctx.exists \/ DOMAIN j.disk = {})
              => Timely(r.s, count + 1)
  <2>1. lost' = lost
    BY <1>3, <1>8
  <2>2. TimeIsKnown' => TimeIsKnown
    BY <1>4, <2>1 DEF TimeIsKnown
  <2>3. TimeIsKnown' => Timely(j', count')
    BY <1>2, <1>3, <1>4, <1>8, <2>2 DEF IInv
  <2>4. lost' \subseteq 1..(count + 1)
    BY <1>1, <1>6, <2>1
  <2>5. Cardinality(lost') <= errors'
    BY <1>6, <2>1 DEF IInv
  <2> QED BY <1>1, <1>3, <1>4, <1>8, <2>3, <2>4, <2>5 DEF IInv
<1> QED BY <1>5, <1>7, <1>8

\* Every step keeps it.
LEMMA NextIInv == IInv /\ [Next]_vars => IInv'
<1> SUFFICES ASSUME IInv, [Next]_vars PROVE IInv'
  OBVIOUS
<1>0. Parts(j)
  BY JournalParts DEF IInv, Kept
<1>1. ASSUME NEW p \in Paths, NEW t \in Times, appendOk(p, t) PROVE IInv'
  <2>1. append(p, t, "none") /\ errors' = errors
    BY <1>1 DEF appendOk
  <2>2. errors' \in 0..MaxErrors /\ errors' >= errors
    BY <2>1 DEF IInv
  <2> QED BY <2>1, <2>2, AppendIInv
<1>2. ASSUME NEW p \in Paths, NEW t \in Times, NEW broken \in {"create", "add"},
             appendError(p, t, broken)
      PROVE  IInv'
  <2>1. append(p, t, broken) /\ errors' = errors + 1 /\ errors < MaxErrors
    BY <1>2 DEF appendError
  <2>2. errors' \in 0..MaxErrors /\ errors' >= errors
    BY <2>1, FileJournalAssumption DEF IInv
  <2> QED BY <2>1, <2>2, AppendIInv
<1>3. CASE restart
  <2>1. [p \in Paths |-> 0] \in [Paths -> 0..MaxEntries] /\ NoContext \in Contexts
    BY FileJournalAssumption DEF NoContext, Contexts
  <2>2. j' = [dir |-> j.dir, disk |-> j.disk, ctx |-> NoContext, snap |-> [p \in Paths |-> 0]]
    BY <1>0, <1>3 DEF restart, Parts
  <2>3. j' \in Journals /\ (j'.dir <=> j.dir) /\ j'.disk = j.disk /\ ~j'.ctx.exists
    BY <1>0, <2>1, <2>2 DEF Journals, Parts, NoContext
  <2>4. Kept(j')
    BY <2>3 DEF IInv, Kept
  <2>5. ~TimeIsKnown' /\ restarts' \in 0..MaxRestarts
    BY <1>3, FileJournalAssumption DEF restart, TimeIsKnown, IInv
  <2> QED BY <1>3, <2>4, <2>5 DEF restart, IInv
<1>4. CASE removeDir
  <2>1. NoFiles \in Disks /\ DOMAIN NoFiles = {}
    <3>1. NoFiles \in [{} -> Seq(Records)] /\ {} \in SUBSET Times
      BY DEF NoFiles
    <3> QED BY <3>1 DEF Disks
  <2>2. j' = [dir |-> FALSE, disk |-> NoFiles, ctx |-> j.ctx, snap |-> j.snap]
    BY <1>0, <1>4 DEF removeDir, Parts
  <2>3. j' \in Journals /\ ~j'.dir /\ DOMAIN j'.disk = {} /\ j'.ctx = j.ctx
    <3>1. j.ctx \in Contexts
      BY DEF IInv, Kept, Journals
    <3> QED BY <1>0, <2>1, <2>2, <3>1 DEF Journals, Parts
  <2>4. Kept(j')
    BY <2>3 DEF IInv, Kept
  <2>5. removals' \in 0..MaxRemovals
    BY <1>4, FileJournalAssumption DEF removeDir, IInv
  <2>6. Timely(j', count')
    BY <2>3 DEF Timely
  <2> QED BY <1>4, <2>3, <2>4, <2>5, <2>6 DEF removeDir, IInv, TimeIsKnown
<1>5. CASE UNCHANGED vars
  <2>1. /\ j' = j /\ count' = count /\ restarts' = restarts /\ removals' = removals
        /\ errors' = errors /\ lost' = lost
    BY <1>5 DEF vars
  <2> QED BY <2>1 DEF IInv, TimeIsKnown
<1> QED BY <1>1, <1>2, <1>3, <1>4, <1>5 DEF Next, Full

\* What the invariant says of a log whose time is known.
LEMMA KnownIsTimely ==
  ASSUME IInv, TimeIsKnown, Files # {}
  PROVE  /\ Timely(j, count) /\ Monotonic(j.disk) /\ Rising(j.disk, count) /\ Unbroken(j.disk, count)
         /\ Complete(j.disk, Max(Files), j.snap)
<1>1. Timely(j, count) /\ j.ctx.exists /\ j.dir
  BY DEF IInv, Kept, Files
<1>2. /\ Monotonic(j.disk) /\ Rising(j.disk, count) /\ Unbroken(j.disk, count)
      /\ \A f \in Files : f <= Last(j.ctx.files)
      /\ Complete(j.disk, Last(j.ctx.files), j.snap)
  BY <1>1 DEF Timely, Files
<1>3. Lists(j) /\ j \in Journals /\ Parts(j)
  BY <1>1, JournalParts DEF IInv, Kept
<1>4. j.disk \in Disks /\ Files \subseteq Times
  BY <1>3, DiskFacts DEF Parts, Files
<1>5. j.ctx.files # <<>>
  <2>1. PICK f \in Files : f \in Times
    BY <1>4
  <2>2. PICK i \in DOMAIN j.ctx.files : TRUE
    BY <1>3, <2>1 DEF Lists, Files
  <2> QED BY <2>2
<1>6. Last(j.ctx.files) \in Files
  BY <1>3, <1>5, LastListed DEF Files
<1>7. Max(Files) = Last(j.ctx.files)
  <2> DEFINE l == Last(j.ctx.files)
  <2>1. Files \subseteq 0..MaxTime /\ MaxTime \in Nat
    BY <1>4, FileJournalAssumption DEF Times
  <2>2. Max(Files) \in Files /\ l <= Max(Files)
    BY <1>6, <2>1, LargestNat
  <2>3. Max(Files) <= l
    BY <1>2, <2>2
  <2>4. Max(Files) \in Int /\ l \in Int
    <3>1. \A f \in Files : f \in Int
      BY <2>1
    <3> HIDE DEF l
    <3>2. l \in Files
      BY <1>6 DEF l
    <3> QED BY <2>2, <3>1, <3>2, Zenon
  <2> HIDE DEF l
  <2>5. Max(Files) = l
    BY <2>2, <2>3, <2>4
  <2> QED BY <2>5 DEF l
<1> QED BY <1>1, <1>2, <1>7

\* An I/O error costs no more than the entry during which it happened: what is
\* appended without one is always written, whatever happened to the directory
\* since (append(), checkJournalContext_helper()).
THEOREM ErrorsCostOneEntryEach == Spec => []LossIsLimited
<1>1. IInv => LossIsLimited
  BY DEF IInv, LossIsLimited
<1> QED BY <1>1, InitIInv, NextIInv, PTL DEF Spec

\* The context agrees with the directory after every append, failure, restart
\* and removal; and as long as the time of the last record is known, times
\* never go back and the newest file alone tells the last value of every path
\* (appendThrow(), createNewLogFile(), updateJournalStatus()).
THEOREM FilesAreAlwaysSound == Spec => []FilesAreSound
<1>1. ASSUME IInv PROVE FilesAreSound
  <2>0. Parts(j) /\ j \in Journals
    BY <1>1, JournalParts DEF IInv, Kept
  <2>1. TypeOK
    <3>1. j.dir \in BOOLEAN /\ j.ctx \in Context /\ j.snap \in [Paths -> 0..MaxEntries]
      <4>1. j.ctx \in Contexts /\ MaxTime \in Nat
        BY <2>0, FileJournalAssumption DEF Journals
      <4>2. j.ctx \in Context
        BY <4>1 DEF Context, Contexts
      <4> QED BY <2>0, <4>2 DEF Parts
    <3>2. DOMAIN j.disk \subseteq Times /\ \A f \in DOMAIN j.disk : j.disk[f] \in Seq(Records)
      BY <2>0, DiskFacts DEF Parts
    <3>3. ASSUME j.ctx.exists, j.dir
          PROVE  /\ ToSet(j.ctx.files) = DOMAIN j.disk
                 /\ j.ctx.files # <<>> => j.ctx.lastSize = Len(j.disk[Last(j.ctx.files)])
      <4>1. Lists(j) /\ Measures(j)
        BY <1>1, <3>3 DEF IInv, Kept
      <4>2. j.ctx.files \in Seq(Times)
        BY <2>0 DEF Parts
      <4>3. \A f \in ToSet(j.ctx.files) : f \in Times
        BY <4>2 DEF ToSet
      <4>4. \A f : f \in ToSet(j.ctx.files) <=> \E i \in DOMAIN j.ctx.files : j.ctx.files[i] = f
        BY Zenon DEF ToSet
      <4>5. \A f \in Times : f \in ToSet(j.ctx.files) <=> f \in DOMAIN j.disk
        BY <4>1, <4>4 DEF Lists
      <4>6. ToSet(j.ctx.files) = DOMAIN j.disk
        BY <3>2, <4>3, <4>5
      <4> QED BY <4>1, <4>6 DEF Measures
    <3>4. count \in 0..MaxEntries /\ lost \in SUBSET (1..MaxEntries)
      <4>1. count \in 0..MaxEntries /\ lost \subseteq 1..count /\ MaxEntries \in Nat
        BY <1>1, FileJournalAssumption DEF IInv
      <4>2. 1..count \subseteq 1..MaxEntries
        BY <4>1
      <4> QED BY <4>1, <4>2
    <3> QED BY <1>1, <3>1, <3>2, <3>3, <3>4 DEF TypeOK, IInv
  <2>2. LogIsMonotonic
    <3> SUFFICES ASSUME TimeIsKnown, NEW x \in Log, NEW y \in Log, Precedes(x, y)
                 PROVE  RecordAt(x).ts <= RecordAt(y).ts
      BY DEF LogIsMonotonic
    <3>1. x \in In(j.disk) /\ y \in In(j.disk)
      BY DEF Log, In, Files
    <3>2. Files # {}
      BY DEF Log, Places
    <3>3. Monotonic(j.disk)
      BY <1>1, <3>2, KnownIsTimely
    <3> QED BY <3>1, <3>3 DEF Monotonic, At, RecordAt
  <2>3. NewestFileIsComplete
    BY <1>1, KnownIsTimely DEF NewestFileIsComplete, Complete
  <2> QED BY <2>1, <2>2, <2>3 DEF FilesAreSound
<1> QED BY <1>1, InitIInv, NextIInv, PTL DEF Spec

\* Rotation keeps the journal within its limit, but for its newest file and
\* the snapshots it does not count; and, as long as the time of the last record
\* is known, what it keeps is the newest part of what was appended
\* (rotateJournal(), appendThrow()).
THEOREM RotationIsAlwaysSound == Spec => []RotationIsSound
<1>1. ASSUME IInv PROVE RotationIsSound
  <2>0. j \in Journals /\ Parts(j)
    BY <1>1, JournalParts DEF IInv, Kept
  <2>1. SizeIsBounded
    <3> SUFFICES ASSUME Cardinality(Files) > 1, j.ctx.exists
                 PROVE  SizeOf(j.disk, Files) <= JournalLimit + Len(j.ctx.files) * Cardinality(Paths)
      BY DEF SizeIsBounded
    <3>1. Cardinality({}) = 0
      BY FS_EmptySet
    <3>2. Files # {}
      BY <3>1
    <3>3. Bounded(j)
      BY <1>1, <3>2 DEF IInv, Kept, Files
    <3> QED BY <3>3 DEF Bounded, Files
  <2>2. NewestAreKept
    <3> SUFFICES ASSUME TimeIsKnown, NEW v \in Logged, NEW k \in v..count
                 PROVE  k \in Logged
      BY DEF NewestAreKept
    <3>1. PICK x \in Log : ~RecordAt(x).snap /\ RecordAt(x).val = v
      BY DEF Logged
    <3>2. x \in In(j.disk)
      BY DEF Log, In, Files
    <3>3. Files # {}
      BY DEF Log, Places
    <3>4. Unbroken(j.disk, count)
      BY <1>1, <3>3, KnownIsTimely
    <3>5. PICK y \in In(j.disk) : ~At(j.disk, y).snap /\ At(j.disk, y).val = k
      BY <3>1, <3>2, <3>4 DEF Unbroken, At, RecordAt
    <3>6. y \in Log /\ ~RecordAt(y).snap /\ RecordAt(y).val = k
      BY <3>5 DEF Log, In, Files, At, RecordAt
    <3> QED BY <3>6 DEF Logged
  <2> QED BY <2>1, <2>2 DEF RotationIsSound
<1> QED BY <1>1, InitIInv, NextIInv, PTL DEF Spec
=============================================================================
