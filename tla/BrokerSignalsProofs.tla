------------------------ MODULE BrokerSignalsProofs ------------------------
(***************************************************************************)
(* The slave broker sends what the clients of the master are subscribed    *)
(* to, for any clients, subscriptions and signals, however many messages   *)
(* are in flight and however often the connection is lost.                 *)
(***************************************************************************)
EXTENDS BrokerSignals, SequenceLemmas

(***************************************************************************)
(* The subscriptions the slave can keep.  A subscription is forwarded and  *)
(* a signal rejected without the source, so the rejection of a signal of   *)
(* one source takes the subscriptions for the others with it; and a slave  *)
(* that exports a part of its tree does not export its own .broker node.   *)
(***************************************************************************)
SubsOfAnySource == \A s \in Subs : s.source = AnyOne
SignalsAreExported ==
  Exported = <<>> \/ \A sig \in Signals : ~IsPrefix(<<".broker">>, sig.path)

(***************************************************************************)
(* The inductive invariant: what the slave knows and what is on its way    *)
(* there together keep every subscription that selects a signal.  A        *)
(* rejection may follow the subscription only if it does not match it.     *)
(***************************************************************************)
Selects(s) == \E sig \in Signals : match(s, global(sig))
rest(path) == IF IsPrefix(Mount, path) THEN SubSeq(path, Len(Mount) + 1, Len(path)) ELSE <<>>
Forwarded(s) == Message("subscribe", rest(s.path), s.method)
AtSlave(s) == local(Forwarded(s).what)
Rejects(m, s) == m.type = "reject" /\ match(AtSlave(s), local(m.what))

Known(s) ==
  /\ AtSlave(s) \in ToSet(slaveSubs)
  /\ \A j \in DOMAIN toSlave : ~Rejects(toSlave[j], s)
OnItsWay(s) ==
  \E i \in DOMAIN toSlave :
    toSlave[i] = Forwarded(s) /\ \A j \in DOMAIN toSlave : j > i => ~Rejects(toSlave[j], s)
Kept(s) == Known(s) \/ OnItsWay(s)

NothingIsForgotten ==
  link = "up" => \A c \in Clients : \A s \in subs[c] : Selects(s) => Kept(s)
IInv == TypeOK /\ NothingIsForgotten

(***************************************************************************)
(* Paths.                                                                  *)
(***************************************************************************)
LEMMA PrefixCancels ==
  ASSUME NEW S, NEW u \in Seq(S), NEW p \in Seq(S), NEW q \in Seq(S)
  PROVE  IsPrefix(u \o p, u \o q) <=> IsPrefix(p, q)
<1>1. /\ Len(u) \in Nat /\ Len(p) \in Nat /\ Len(q) \in Nat
      /\ Len(u \o p) = Len(u) + Len(p) /\ Len(u \o q) = Len(u) + Len(q)
      /\ \A i \in 1..Len(u) + Len(p) : (u \o p)[i] = IF i <= Len(u) THEN u[i] ELSE p[i - Len(u)]
      /\ \A i \in 1..Len(u) + Len(q) : (u \o q)[i] = IF i <= Len(u) THEN u[i] ELSE q[i - Len(u)]
  BY ConcatProperties
<1> DEFINE x == u \o p
           y == u \o q
<1> HIDE DEF x, y
<1>2. ASSUME IsPrefix(x, y) PROVE IsPrefix(p, q)
  <2>1. Len(x) <= Len(y) /\ \A i \in 1..Len(x) : x[i] = y[i]
    BY <1>2 DEF IsPrefix
  <2>2. Len(p) <= Len(q)
    BY <1>1, <2>1 DEF x, y
  <2>3. ASSUME NEW i \in 1..Len(p) PROVE p[i] = q[i]
    <3>1. /\ i + Len(u) \in 1..Len(u) + Len(p) /\ i + Len(u) \in 1..Len(u) + Len(q)
          /\ ~(i + Len(u) <= Len(u)) /\ (i + Len(u)) - Len(u) = i
      BY <1>1, <2>2
    <3>2. x[i + Len(u)] = p[i] /\ y[i + Len(u)] = q[i]
      BY <1>1, <3>1 DEF x, y
    <3>3. x[i + Len(u)] = y[i + Len(u)]
      BY <1>1, <2>1, <3>1 DEF x
    <3> QED BY <3>2, <3>3
  <2> QED BY <2>2, <2>3 DEF IsPrefix
<1>3. ASSUME IsPrefix(p, q) PROVE IsPrefix(x, y)
  <2>1. Len(p) <= Len(q) /\ \A i \in 1..Len(p) : p[i] = q[i]
    BY <1>3 DEF IsPrefix
  <2>2. Len(x) <= Len(y)
    BY <1>1, <2>1 DEF x, y
  <2>3. ASSUME NEW i \in 1..Len(x) PROVE x[i] = y[i]
    <3>1. i \in 1..Len(u) + Len(p) /\ i \in 1..Len(u) + Len(q)
      BY <1>1, <2>1 DEF x
    <3>2. CASE i <= Len(u)
      BY <1>1, <3>1, <3>2 DEF x, y
    <3>3. CASE ~(i <= Len(u))
      <4>1. i - Len(u) \in 1..Len(p)
        BY <1>1, <3>1, <3>3
      <4>2. x[i] = p[i - Len(u)] /\ y[i] = q[i - Len(u)]
        BY <1>1, <3>1, <3>3 DEF x, y
      <4> QED BY <2>1, <4>1, <4>2
    <3> QED BY <3>2, <3>3
  <2> QED BY <2>2, <2>3 DEF IsPrefix
<1> QED BY <1>2, <1>3 DEF x, y

\* A path with a prefix is the prefix and the rest.
LEMMA PrefixRest ==
  ASSUME NEW S, NEW u \in Seq(S), NEW p \in Seq(S), IsPrefix(u, p)
  PROVE  /\ SubSeq(p, Len(u) + 1, Len(p)) \in Seq(S)
         /\ p = u \o SubSeq(p, Len(u) + 1, Len(p))
<1> DEFINE r == SubSeq(p, Len(u) + 1, Len(p))
<1>1. Len(u) \in Nat /\ Len(p) \in Nat /\ Len(u) <= Len(p) /\ \A i \in 1..Len(u) : u[i] = p[i]
  BY DEF IsPrefix
<1>2. r \in Seq(S) /\ Len(r) = Len(p) - Len(u) /\ \A i \in 1..Len(p) - Len(u) : r[i] = p[Len(u) + i]
  <2>1. /\ Len(u) + 1 \in Int /\ Len(p) \in Int /\ \A i \in Len(u) + 1..Len(p) : p[i] \in S
    BY <1>1
  <2>2. /\ r \in Seq(S)
        /\ Len(r) = IF Len(u) + 1 <= Len(p) THEN Len(p) - (Len(u) + 1) + 1 ELSE 0
        /\ \A i \in 1..Len(p) - (Len(u) + 1) + 1 : r[i] = p[Len(u) + 1 + i - 1]
    BY <2>1, SubSeqProperties
  <2> HIDE DEF r
  <2>3. Len(r) = Len(p) - Len(u)
    <3>1. \A l, q, k \in Int : /\ k <= q
                               /\ k + 1 <= q => l = q - (k + 1) + 1
                               /\ ~(k + 1 <= q) => l = 0
                               => l = q - k
      OBVIOUS
    <3>2. Len(r) \in Nat
      BY <2>2, LenProperties, Zenon
    <3>3. Len(r) \in Int /\ Len(p) \in Int /\ Len(u) \in Int /\ Len(u) <= Len(p)
      BY <1>1, <3>2
    <3>4. /\ Len(u) + 1 <= Len(p) => Len(r) = Len(p) - (Len(u) + 1) + 1
          /\ ~(Len(u) + 1 <= Len(p)) => Len(r) = 0
      BY <2>2, Zenon
    <3> QED BY <3>1, <3>3, <3>4, Zenon
  <2>4. ASSUME NEW i \in 1..Len(p) - Len(u) PROVE r[i] = p[Len(u) + i]
    <3>1. i \in 1..Len(p) - (Len(u) + 1) + 1 /\ Len(u) + 1 + i - 1 = Len(u) + i
      BY <1>1
    <3>2. r[i] = p[Len(u) + 1 + i - 1]
      BY <2>2, <3>1, Zenon
    <3> QED BY <3>1, <3>2, Zenon
  <2> QED BY <2>2, <2>3, <2>4
<1> HIDE DEF r
<1>3. /\ u \o r \in Seq(S) /\ Len(u \o r) = Len(u) + Len(r)
      /\ \A i \in 1..Len(u) + Len(r) : (u \o r)[i] = IF i <= Len(u) THEN u[i] ELSE r[i - Len(u)]
  BY <1>2, ConcatProperties
<1> DEFINE x == u \o r
<1> HIDE DEF x
<1>4. x \in Seq(S) /\ Len(x) = Len(p)
  BY <1>1, <1>2, <1>3 DEF x
<1>5. ASSUME NEW i \in 1..Len(p) PROVE x[i] = p[i]
  <2>1. i \in 1..Len(u) + Len(r)
    BY <1>1, <1>2
  <2>2. CASE i <= Len(u)
    <3>1. i \in 1..Len(u)
      BY <1>1, <2>2
    <3> QED BY <1>1, <1>3, <2>1, <2>2, <3>1 DEF x
  <2>3. CASE ~(i <= Len(u))
    <3>1. i - Len(u) \in 1..Len(p) - Len(u) /\ Len(u) + (i - Len(u)) = i
      BY <1>1, <2>3
    <3>2. x[i] = r[i - Len(u)]
      BY <1>3, <2>1, <2>3 DEF x
    <3>3. r[i - Len(u)] = p[Len(u) + (i - Len(u))]
      BY <1>2, <3>1, Zenon
    <3> QED BY <3>1, <3>2, <3>3
  <2> QED BY <2>2, <2>3
<1>6. x = p
  BY <1>4, <1>5, SeqEqual
<1> QED BY <1>2, <1>6 DEF x, r

(***************************************************************************)
(* A subscription that selects a signal, and what is forwarded for it.     *)
(***************************************************************************)
LEMMA FilterTypes ==
  /\ \A s \in Subs \cup Signals : s.path \in Seq(STRING) /\ s.method \in STRING \cup {AnyOne}
  /\ Mount \in Seq(STRING) /\ Mount # <<>> /\ Exported \in Seq(STRING)
  BY BrokerSignalsAssumption DEF Filters

\* The rest of a path below the mount point is a path.
LEMMA RestTypes ==
  ASSUME NEW p \in Seq(STRING)
  PROVE  rest(p) \in Seq(STRING) /\ (IsPrefix(Mount, p) => p = Mount \o rest(p))
<1>1. ASSUME IsPrefix(Mount, p) PROVE rest(p) \in Seq(STRING) /\ p = Mount \o rest(p)
  <2>1. Mount \in Seq(STRING)
    BY FilterTypes
  <2>2. /\ SubSeq(p, Len(Mount) + 1, Len(p)) \in Seq(STRING)
        /\ p = Mount \o SubSeq(p, Len(Mount) + 1, Len(p))
    BY <1>1, <2>1, PrefixRest, Zenon
  <2> QED BY <1>1, <2>2, Zenon DEF rest
<1>2. ASSUME ~IsPrefix(Mount, p) PROVE rest(p) \in Seq(STRING)
  BY <1>2 DEF rest
<1> QED BY <1>1, <1>2

\* A path with the mount point in front begins with p when the path itself
\* begins with the rest of p.
LEMMA RestSelects ==
  ASSUME NEW p \in Seq(STRING), NEW o \in Seq(STRING), IsPrefix(p, Mount \o o),
         NEW q \in Seq(STRING)
  PROVE  IsPrefix(p, Mount \o q) <=> IsPrefix(rest(p), q)
<1>1. CASE IsPrefix(Mount, p)
  <2> DEFINE r == rest(p)
  <2>1. r \in Seq(STRING) /\ p = Mount \o r /\ Mount \in Seq(STRING)
    BY <1>1, RestTypes, FilterTypes
  <2> HIDE DEF r
  <2>2. IsPrefix(Mount \o r, Mount \o q) <=> IsPrefix(r, q)
    BY <2>1, PrefixCancels, Zenon
  <2>3. IsPrefix(p, Mount \o q) <=> IsPrefix(r, q)
    BY <2>1, <2>2, Zenon
  <2> QED BY <2>3 DEF r
<1>2. CASE ~IsPrefix(Mount, p)
  <2>1. /\ Len(Mount \o o) = Len(Mount) + Len(o) /\ Len(Mount \o q) = Len(Mount) + Len(q)
        /\ \A i \in 1..Len(Mount) : (Mount \o o)[i] = Mount[i] /\ (Mount \o q)[i] = Mount[i]
        /\ Len(Mount) \in Nat /\ Len(o) \in Nat /\ Len(q) \in Nat /\ Len(p) \in Nat
    BY FilterTypes, ConcatProperties
  <2>2. Len(p) <= Len(Mount \o o) /\ \A i \in 1..Len(p) : p[i] = (Mount \o o)[i]
    BY DEF IsPrefix
  <2>3. Len(p) < Len(Mount)
    <3>1. ASSUME Len(Mount) <= Len(p) PROVE FALSE
      <4>1. \A i \in 1..Len(Mount) : p[i] = Mount[i]
        BY <2>1, <2>2, <3>1
      <4> QED BY <1>2, <3>1, <4>1 DEF IsPrefix
    <3> QED BY <2>1, <3>1
  <2>4. \A i \in 1..Len(p) : i \in 1..Len(Mount) /\ p[i] = (Mount \o q)[i]
    BY <2>1, <2>2, <2>3
  <2>5. IsPrefix(p, Mount \o q)
    BY <2>1, <2>3, <2>4 DEF IsPrefix
  <2>6. rest(p) = <<>> /\ IsPrefix(<<>>, q)
    BY <1>2 DEF rest, IsPrefix
  <2> QED BY <2>5, <2>6
<1> QED BY <1>1, <1>2

\* A subscription that selects a signal of the slave is forwarded, as one message.
LEMMA Propagated ==
  ASSUME NEW s \in Subs, Selects(s)
  PROVE  propagate(s, Mount) = {Forwarded(s)}
<1>1. CASE IsPrefix(Mount, s.path)
  BY <1>1, FilterTypes DEF propagate, Forwarded, rest
<1>2. CASE ~IsPrefix(Mount, s.path)
  <2>1. PICK sig \in Signals : IsPrefix(s.path, Mount \o sig.path)
    BY FilterTypes, BrokerSignalsAssumption DEF Selects, match, global, Filters
  <2> DEFINE p == s.path
             o == sig.path
             x == Mount \o o
  <2>2. p \in Seq(STRING) /\ o \in Seq(STRING) /\ Mount \in Seq(STRING)
    BY FilterTypes
  <2>3. /\ Len(x) = Len(Mount) + Len(o) /\ \A i \in 1..Len(Mount) : x[i] = Mount[i]
        /\ Len(Mount) \in Nat /\ Len(o) \in Nat /\ Len(p) \in Nat
    BY <2>2, ConcatProperties
  <2>4. Len(p) <= Len(x) /\ \A i \in 1..Len(p) : p[i] = x[i]
    BY <2>1 DEF IsPrefix
  <2> HIDE DEF p, o, x
  <2>5. CASE Len(p) <= Len(Mount)
    <3>1. \A i \in 1..Len(p) : p[i] = Mount[i]
      BY <2>3, <2>4, <2>5
    <3>2. IsPrefix(p, Mount)
      BY <2>5, <3>1 DEF IsPrefix
    <3>3. propagate(s, Mount) = {Message("subscribe", <<>>, s.method)}
      BY <1>2, <3>2 DEF propagate, p
    <3> QED BY <1>2, <3>3 DEF Forwarded, rest
  <2>6. CASE ~(Len(p) <= Len(Mount))
    <3>1. \A i \in 1..Len(Mount) : Mount[i] = p[i]
      BY <2>3, <2>4, <2>6
    <3>2. IsPrefix(Mount, p)
      BY <2>3, <2>6, <3>1 DEF IsPrefix
    <3> QED BY <1>2, <3>2 DEF p
  <2> QED BY <2>5, <2>6
<1> QED BY <1>1, <1>2

\* Taking a path from the master's to the slave's tree keeps the order of prefixes
\* that signals are matched by.
LEMMA Exporting ==
  ASSUME SignalsAreExported, NEW sig \in Signals, NEW o \in Signals, NEW r \in Seq(STRING),
         IsPrefix(r, o.path)
  PROVE  IsPrefix(masterExportedToLocalPath(r), masterExportedToLocalPath(sig.path))
           <=> IsPrefix(r, sig.path)
<1>1. CASE Exported = <<>>
  BY <1>1 DEF masterExportedToLocalPath
<1>2. CASE Exported # <<>>
  <2> DEFINE B == <<".broker">>
  <2>1. ~IsPrefix(B, sig.path) /\ ~IsPrefix(B, o.path)
    BY <1>2 DEF SignalsAreExported
  <2>2. ~IsPrefix(B, r)
    <3>1. ASSUME IsPrefix(B, r) PROVE IsPrefix(B, o.path)
      <4>1. Len(r) <= Len(o.path) /\ \A i \in 1..Len(r) : r[i] = o.path[i]
        BY DEF IsPrefix
      <4>2. Len(B) <= Len(r) /\ (\A i \in 1..Len(B) : B[i] = r[i]) /\ Len(B) = 1
        BY <3>1 DEF IsPrefix
      <4>3. Len(r) \in Nat /\ Len(o.path) \in Nat
        BY FilterTypes
      <4> HIDE DEF B
      <4>4. Len(B) <= Len(o.path) /\ \A i \in 1..Len(B) : B[i] = o.path[i]
        BY <4>1, <4>2, <4>3
      <4> QED BY <4>4 DEF IsPrefix
    <3> QED BY <2>1, <3>1
  <2>3. /\ masterExportedToLocalPath(r) = Exported \o r
        /\ masterExportedToLocalPath(sig.path) = Exported \o sig.path
    BY <1>2, <2>1, <2>2 DEF masterExportedToLocalPath
  <2> QED BY <2>3, FilterTypes, PrefixCancels
<1> QED BY <1>1, <1>2

\* What selects a signal at the master selects it at the slave, as the signal
\* itself or as a rejection.
LEMMA SelectsAtSlave ==
  ASSUME SubsOfAnySource, SignalsAreExported, NEW s \in Subs, Selects(s), NEW sig \in Signals,
         NEW m, m = Message("reject", sig.path, sig.method)
  PROVE  /\ match(AtSlave(s), local(sig)) <=> match(s, global(sig))
         /\ match(AtSlave(s), local(m.what)) <=> match(s, global(sig))
<1>1. /\ sig = [path |-> sig.path, method |-> sig.method, source |-> sig.source]
      /\ s.path \in Seq(STRING) /\ sig.path \in Seq(STRING)
      /\ s.source = AnyOne
  BY FilterTypes, BrokerSignalsAssumption DEF Filters, SubsOfAnySource
<1>2. PICK o \in Signals : IsPrefix(s.path, Mount \o o.path)
  BY BrokerSignalsAssumption DEF Selects, match, global, Filters
<1>3. o.path \in Seq(STRING) /\ rest(s.path) \in Seq(STRING)
  BY <1>1, FilterTypes, RestTypes
<1>4. IsPrefix(s.path, Mount \o sig.path) <=> IsPrefix(rest(s.path), sig.path)
  BY <1>1, <1>2, <1>3, RestSelects
<1>5. IsPrefix(rest(s.path), o.path)
  BY <1>1, <1>2, <1>3, RestSelects
<1>6. IsPrefix(masterExportedToLocalPath(rest(s.path)), masterExportedToLocalPath(sig.path))
        <=> IsPrefix(rest(s.path), sig.path)
  BY <1>3, <1>5, Exporting
<1>7. AtSlave(s) = [path |-> masterExportedToLocalPath(rest(s.path)), method |-> s.method,
                    source |-> AnyOne]
  BY DEF AtSlave, Forwarded, Message, local
<1>8. /\ local(sig).path = masterExportedToLocalPath(sig.path) /\ local(sig).method = sig.method
      /\ global(sig).path = Mount \o sig.path /\ global(sig).method = sig.method
      /\ local(m.what).path = masterExportedToLocalPath(sig.path)
      /\ local(m.what).method = sig.method
  BY <1>1 DEF local, global, Message
<1>9. /\ match(AtSlave(s), local(sig)) <=>
           /\ IsPrefix(masterExportedToLocalPath(rest(s.path)), masterExportedToLocalPath(sig.path))
           /\ s.method \in {AnyOne, sig.method}
      /\ match(AtSlave(s), local(m.what)) <=>
           /\ IsPrefix(masterExportedToLocalPath(rest(s.path)), masterExportedToLocalPath(sig.path))
           /\ s.method \in {AnyOne, sig.method}
      /\ match(s, global(sig)) <=>
           IsPrefix(s.path, Mount \o sig.path) /\ s.method \in {AnyOne, sig.method}
  BY <1>1, <1>7, <1>8 DEF match
<1> QED BY <1>4, <1>6, <1>9

(***************************************************************************)
(* Messages.                                                               *)
(***************************************************************************)
LEMMA PropagateTypes ==
  ASSUME NEW s \in Subs, NEW mp \in {<<>>, Mount}
  PROVE  /\ \/ propagate(s, mp) = {}
            \/ \E q \in Seq(STRING) : propagate(s, mp) = {Message("subscribe", q, s.method)}
         /\ propagate(s, mp) \subseteq Messages /\ IsFiniteSet(propagate(s, mp))
<1>1. mp \in Seq(STRING) /\ s.path \in Seq(STRING) /\ <<>> \in Seq(STRING)
  <2>1. Mount \in Seq(STRING) /\ s.path \in Seq(STRING)
    BY FilterTypes, Zenon
  <2>2. <<>> \in Seq(STRING)
    OBVIOUS
  <2> QED BY <2>1, <2>2, Zenon
<1>2. \/ propagate(s, mp) = {}
      \/ \E q \in Seq(STRING) : propagate(s, mp) = {Message("subscribe", q, s.method)}
  <2> DEFINE below == IsPrefix(mp, s.path) /\ (mp # <<>> \/ s.path = <<>>)
  <2>1. CASE below
    <3>1. SubSeq(s.path, Len(mp) + 1, Len(s.path)) \in Seq(STRING)
      BY <1>1, <2>1, PrefixRest, Zenon
    <3> QED BY <2>1, <3>1, Zenon DEF propagate
  <2>2. CASE ~below
    BY <1>1, <2>2, Zenon DEF propagate
  <2> QED BY <2>1, <2>2
<1>3. propagate(s, mp) \subseteq Messages
  BY DEF Messages
<1>4. IsFiniteSet({})
  BY FS_EmptySet
<1>5. \A x : IsFiniteSet({x})
  BY FS_Singleton
<1>6. IsFiniteSet(propagate(s, mp))
  <2> DEFINE P == propagate(s, mp)
  <2> HIDE DEF P
  <2>1. P = {} \/ \E x : P = {x}
    BY <1>2 DEF P
  <2>2. IsFiniteSet(P)
    BY <2>1, <1>4, <1>5
  <2> QED BY <2>2 DEF P
<1> QED BY <1>2, <1>3, <1>6

\* A message is a login, or is about a filter.
LEMMA MessageTypes ==
  ASSUME NEW m \in Messages
  PROVE  /\ m.type \in {"login", "subscribe", "reject"}
         /\ m.type \in {"subscribe", "reject"} => m.what \in Filters
<1>1. CASE m = LoginResponse
  BY <1>1 DEF LoginResponse
<1>2. ASSUME NEW type \in {"subscribe", "reject"}, NEW q \in Seq(STRING),
             NEW t \in STRING \cup {AnyOne},
             m = Message(type, q, t)
      PROVE  m.type = type /\ m.what \in Filters
  <2>1. m.type = type /\ m.what = [path |-> q, method |-> t, source |-> AnyOne]
    BY <1>2 DEF Message
  <2> QED BY <2>1 DEF Filters
<1>3. CASE \E s \in Subs : \E mp \in {<<>>, Mount} : m \in propagate(s, mp)
  <2>1. PICK s \in Subs, mp \in {<<>>, Mount} : m \in propagate(s, mp)
    BY <1>3
  <2>2. \E q \in Seq(STRING) : m = Message("subscribe", q, s.method)
    BY <2>1, PropagateTypes
  <2> QED BY <1>2, <2>2, FilterTypes
<1>4. CASE \E sig \in Signals : m = Message("reject", sig.path, sig.method)
  BY <1>2, <1>4, FilterTypes
<1>5. \/ m = LoginResponse
      \/ m \in UNION {propagate(s, <<>>) \cup propagate(s, Mount) : s \in Subs}
      \/ m \in {Message("reject", sig.path, sig.method) : sig \in Signals}
  BY Zenon DEF Messages
<1>6. ASSUME m \in UNION {propagate(s, <<>>) \cup propagate(s, Mount) : s \in Subs}
      PROVE  \E s \in Subs : \E mp \in {<<>>, Mount} : m \in propagate(s, mp)
  <2>1. PICK s \in Subs : m \in propagate(s, <<>>) \cup propagate(s, Mount)
    BY <1>6
  <2> QED BY <2>1
<1>7. ASSUME m \in {Message("reject", sig.path, sig.method) : sig \in Signals}
      PROVE  \E sig \in Signals : m = Message("reject", sig.path, sig.method)
  BY <1>7, Zenon
<1> QED BY <1>1, <1>3, <1>4, <1>5, <1>6, <1>7

\* A filter taken to the slave's tree is a filter.
LEMMA LocalTypes ==
  ASSUME NEW f \in Filters
  PROVE  local(f) \in Filters
<1>1. masterExportedToLocalPath(f.path) \in Seq(STRING)
  <2>1. f.path \in Seq(STRING) /\ Exported \in Seq(STRING)
    BY FilterTypes DEF Filters
  <2>2. Exported \o f.path \in Seq(STRING)
    BY <2>1, ConcatProperties
  <2> QED BY <2>1, <2>2, Zenon DEF masterExportedToLocalPath
<1>2. local(f) = [f EXCEPT !.path = masterExportedToLocalPath(f.path)]
  BY Zenon DEF local
<1> DEFINE p == masterExportedToLocalPath(f.path)
<1> HIDE DEF p
<1>3. [f EXCEPT !.path = p] \in Filters
  BY <1>1 DEF Filters, p
<1> QED BY <1>2, <1>3, Zenon DEF p

(***************************************************************************)
(* The subscriptions of the slave.                                         *)
(***************************************************************************)
LEMMA AddedSubscription ==
  ASSUME NEW ss \in Seq(Filters), IsInjective(ss), NEW f \in Filters,
         NEW r, r = addSubscription(ss, f)
  PROVE  /\ r \in Seq(Filters) /\ IsInjective(r)
         /\ \A x : x = f \/ x \in ToSet(ss) => x \in ToSet(r)
<1>1. CASE f \in ToSet(ss)
  <2>1. r = ss
    BY <1>1 DEF addSubscription
  <2> QED BY <1>1, <2>1, Zenon
<1>2. CASE f \notin ToSet(ss)
  <2>1. r = Append(ss, f) /\ \A i \in DOMAIN ss : ss[i] # f
    BY <1>2 DEF addSubscription, ToSet
  <2>2. /\ r \in Seq(Filters) /\ Len(r) = Len(ss) + 1 /\ Len(ss) \in Nat
        /\ DOMAIN ss = 1..Len(ss) /\ DOMAIN r = 1..Len(ss) + 1
        /\ r[Len(ss) + 1] = f /\ \A i \in 1..Len(ss) : r[i] = ss[i]
    BY <2>1, AppendProperties
  <2>3. ASSUME NEW i \in DOMAIN r, NEW j \in DOMAIN r, r[i] = r[j] PROVE i = j
    <3>1. CASE i \in DOMAIN ss /\ j \in DOMAIN ss
      <4>1. ss[i] = ss[j]
        BY <2>2, <2>3, <3>1
      <4> QED BY <3>1, <4>1 DEF IsInjective
    <3>2. CASE i = Len(ss) + 1 /\ j \in DOMAIN ss
      BY <2>1, <2>2, <2>3, <3>2
    <3>3. CASE j = Len(ss) + 1 /\ i \in DOMAIN ss
      BY <2>1, <2>2, <2>3, <3>3
    <3>4. CASE i = Len(ss) + 1 /\ j = Len(ss) + 1
      BY <3>4
    <3> QED BY <2>2, <3>1, <3>2, <3>3, <3>4
  <2>4. ASSUME NEW x \in ToSet(ss) PROVE x \in ToSet(r)
    <3>1. PICK i \in DOMAIN ss : ss[i] = x
      BY DEF ToSet
    <3>2. i \in DOMAIN r /\ r[i] = x
      BY <2>2, <3>1
    <3> QED BY <3>2 DEF ToSet
  <2>5. f \in ToSet(r)
    BY <2>2 DEF ToSet
  <2>6. IsInjective(r)
    BY <2>3 DEF IsInjective
  <2> QED BY <2>2, <2>4, <2>5, <2>6
<1> QED BY <1>1, <1>2

\* A rejection takes at most one subscription, and one it matches.
LEMMA RejectedSubscription ==
  ASSUME NEW ss \in Seq(Filters), IsInjective(ss), NEW f,
         NEW r, r = rejectNotSubscribedSignal(ss, f)
  PROVE  /\ r \in Seq(Filters) /\ IsInjective(r)
         /\ \A x : ~match(x, f) /\ x \in ToSet(ss) => x \in ToSet(r)
<1>1. rejected(ss, f) \subseteq {i \in DOMAIN ss : match(ss[i], f)}
  BY DEF rejected
<1>2. CASE rejected(ss, f) = {}
  BY <1>2 DEF rejectNotSubscribedSignal
<1>3. CASE rejected(ss, f) # {}
  <2>1. PICK k \in rejected(ss, f) : r = RemoveAt(ss, k)
    BY <1>3 DEF rejectNotSubscribedSignal
  <2>2. k \in DOMAIN ss /\ match(ss[k], f)
    BY <1>1, <2>1
  <2>3. /\ r \in Seq(Filters) /\ IsInjective(r)
        /\ \A j \in DOMAIN ss : j # k => \E i \in DOMAIN r : r[i] = ss[j]
    BY <2>1, <2>2, RemoveAtElements
  <2>4. ASSUME NEW x \in ToSet(ss), ~match(x, f) PROVE x \in ToSet(r)
    <3>1. PICK j \in DOMAIN ss : ss[j] = x
      BY DEF ToSet
    <3>2. \E i \in DOMAIN r : r[i] = x
      BY <2>2, <2>3, <2>4, <3>1
    <3> QED BY <3>2 DEF ToSet
  <2> QED BY <2>3, <2>4
<1> QED BY <1>2, <1>3

(***************************************************************************)
(* A subscription is kept by every step.                                   *)
(***************************************************************************)
LEMMA KeptByAppending ==
  ASSUME toSlave \in Seq(Messages), NEW more \in Seq(Messages), toSlave' = toSlave \o more,
         slaveSubs' = slaveSubs, NEW s, \A j \in DOMAIN more : ~Rejects(more[j], s),
         Kept(s) \/ \E i \in DOMAIN more : more[i] = Forwarded(s)
  PROVE  Kept(s)'
<1>1. /\ Len(toSlave) \in Nat /\ Len(more) \in Nat /\ Len(toSlave') = Len(toSlave) + Len(more)
      /\ \A i \in 1..Len(toSlave) + Len(more) :
           toSlave'[i] = IF i <= Len(toSlave) THEN toSlave[i] ELSE more[i - Len(toSlave)]
      /\ DOMAIN toSlave = 1..Len(toSlave) /\ DOMAIN more = 1..Len(more)
  BY ConcatProperties
<1>2. DOMAIN toSlave' = 1..Len(toSlave) + Len(more)
  <2>1. toSlave' \in Seq(Messages)
    BY ConcatProperties
  <2> QED BY <1>1, <2>1
<1>3. ASSUME NEW j \in DOMAIN toSlave'
      PROVE  \/ j \in DOMAIN toSlave /\ toSlave'[j] = toSlave[j]
             \/ j > Len(toSlave) /\ j - Len(toSlave) \in DOMAIN more /\ toSlave'[j] = more[j - Len(toSlave)]
  BY <1>1, <1>2
<1>4. CASE Known(s)
  BY <1>3, <1>4 DEF Known, Kept
<1>5. CASE OnItsWay(s)
  <2>1. PICK i \in DOMAIN toSlave :
          toSlave[i] = Forwarded(s) /\ \A j \in DOMAIN toSlave : j > i => ~Rejects(toSlave[j], s)
    BY <1>5 DEF OnItsWay
  <2>2. i \in DOMAIN toSlave' /\ toSlave'[i] = Forwarded(s)
    BY <1>1, <1>2, <2>1
  <2>3. \A j \in DOMAIN toSlave' : j > i => ~Rejects(toSlave'[j], s)
    BY <1>3, <2>1
  <2> QED BY <2>2, <2>3 DEF OnItsWay, Kept
<1>6. CASE \E i \in DOMAIN more : more[i] = Forwarded(s)
  <2>1. PICK i \in DOMAIN more : more[i] = Forwarded(s)
    BY <1>6
  <2> DEFINE k == Len(toSlave) + i
  <2>2. k \in 1..Len(toSlave) + Len(more) /\ ~(k <= Len(toSlave)) /\ k - Len(toSlave) = i
    BY <1>1
  <2>3. k \in DOMAIN toSlave' /\ toSlave'[k] = Forwarded(s)
    BY <1>1, <1>2, <2>1, <2>2
  <2>4. ASSUME NEW j \in DOMAIN toSlave', j > k PROVE ~Rejects(toSlave'[j], s)
    <3>1. j > Len(toSlave)
      BY <1>1, <1>2, <2>4
    <3>2. j \notin DOMAIN toSlave
      BY <1>1, <3>1
    <3> QED BY <1>3, <3>2
  <2> HIDE DEF k
  <2> QED BY <2>3, <2>4 DEF OnItsWay, Kept
<1> QED BY <1>4, <1>5, <1>6 DEF Kept

\* The slave takes the first message.
LEMMA KeptByReceiving ==
  ASSUME toSlave \in Seq(Messages), toSlave # <<>>, toSlave' = Tail(toSlave),
         NEW s, Kept(s),
         /\ ~Rejects(toSlave[1], s)
         /\ AtSlave(s) \in ToSet(slaveSubs) \/ toSlave[1] = Forwarded(s)
         => AtSlave(s) \in ToSet(slaveSubs')
  PROVE  Kept(s)'
<1>1. /\ Len(toSlave) \in Nat \ {0} /\ Len(toSlave') = Len(toSlave) - 1
      /\ \A i \in 1..Len(toSlave) - 1 : toSlave'[i] = toSlave[i + 1]
      /\ DOMAIN toSlave = 1..Len(toSlave) /\ DOMAIN toSlave' = 1..Len(toSlave) - 1
  <2>1. toSlave' \in Seq(Messages) /\ Len(toSlave') = Len(toSlave) - 1
        /\ \A i \in 1..Len(toSlave) - 1 : toSlave'[i] = toSlave[i + 1]
    BY HeadTailProperties
  <2> QED BY <2>1, EmptySeq
<1>2. \A j \in DOMAIN toSlave' : j + 1 \in DOMAIN toSlave /\ j + 1 > 1 /\ toSlave'[j] = toSlave[j + 1]
  BY <1>1
<1>3. 1 \in DOMAIN toSlave
  BY <1>1
<1>4. CASE Known(s)
  BY <1>2, <1>3, <1>4 DEF Known, Kept
<1>5. CASE OnItsWay(s)
  <2>1. PICK i \in DOMAIN toSlave :
          toSlave[i] = Forwarded(s) /\ \A j \in DOMAIN toSlave : j > i => ~Rejects(toSlave[j], s)
    BY <1>5 DEF OnItsWay
  <2>2. CASE i = 1
    <3>1. ~Rejects(toSlave[1], s)
      <4>1. Forwarded(s).type = "subscribe"
        BY DEF Forwarded, Message
      <4>2. toSlave[1].type = "subscribe"
        BY <2>1, <2>2, <4>1, Zenon
      <4> QED BY <4>2 DEF Rejects
    <3>2. AtSlave(s) \in ToSet(slaveSubs')
      BY <2>1, <2>2, <3>1, Zenon
    <3>3. \A j \in DOMAIN toSlave' : ~Rejects(toSlave'[j], s)
      BY <1>2, <2>1, <2>2
    <3> QED BY <3>2, <3>3 DEF Known, Kept
  <2>3. CASE i # 1
    <3>1. i - 1 \in DOMAIN toSlave' /\ toSlave'[i - 1] = Forwarded(s)
      BY <1>1, <2>1, <2>3
    <3>2. ASSUME NEW j \in DOMAIN toSlave', j > i - 1 PROVE ~Rejects(toSlave'[j], s)
      <4>1. j + 1 > i
        BY <1>1, <3>2
      <4> QED BY <1>2, <2>1, <4>1
    <3> QED BY <3>1, <3>2 DEF OnItsWay, Kept
  <2> QED BY <2>2, <2>3
<1> QED BY <1>4, <1>5 DEF Kept

(***************************************************************************)
(* Steps that leave what the slave knows and what is on its way alone.     *)
(***************************************************************************)
LEMMA KeptUnchanged ==
  ASSUME toSlave' = toSlave, slaveSubs' = slaveSubs, NEW s, Kept(s)
  PROVE  Kept(s)'
<1>1. ASSUME Known(s) PROVE Known(s)'
  BY <1>1 DEF Known
<1>2. ASSUME OnItsWay(s) PROVE OnItsWay(s)'
  BY <1>2 DEF OnItsWay
<1> QED BY <1>1, <1>2 DEF Kept

\* Clients that unsubscribe or leave make nothing missing.
LEMMA FewerSubscriptions ==
  ASSUME IInv, UNCHANGED <<link, slave, slaveSubs, toSlave, toMaster, losses>>,
         subs' \in [Clients -> SUBSET Subs], \A c \in Clients : subs'[c] \subseteq subs[c]
  PROVE  IInv'
<1>1. TypeOK'
  BY DEF IInv, TypeOK
<1>2. ASSUME link' = "up", NEW c \in Clients, NEW s \in subs'[c], Selects(s) PROVE Kept(s)'
  BY <1>2, KeptUnchanged DEF IInv, NothingIsForgotten
<1> QED BY <1>1, <1>2 DEF IInv, NothingIsForgotten

\* Nothing is promised while the slave is not connected.
LEMMA LinkIsNotUp ==
  ASSUME TypeOK', link' # "up"
  PROVE  IInv'
  BY DEF IInv, NothingIsForgotten

\* The login of the slave: it is not connected yet.
LEMMA SlaveLogin == IInv /\ slaveLogin => IInv'
<1> SUFFICES ASSUME IInv, slaveLogin PROVE IInv'
  OBVIOUS
<1>1. TypeOK' /\ link' # "up"
  BY DEF IInv, TypeOK, slaveLogin
<1> QED BY <1>1, LinkIsNotUp

\* The master takes the slave in: it is not connected yet.
LEMMA OnClientLogin == IInv /\ onClientLogin => IInv'
<1> SUFFICES ASSUME IInv, onClientLogin PROVE IInv'
  OBVIOUS
<1>1. LoginResponse \in Messages
  BY DEF Messages
<1>2. toSlave' \in Seq(Messages)
  BY <1>1, AppendProperties DEF IInv, TypeOK, onClientLogin
<1>3. TypeOK' /\ link' # "up"
  BY <1>2 DEF IInv, TypeOK, onClientLogin
<1> QED BY <1>3, LinkIsNotUp

\* The connection is lost.
LEMMA ConnectionLost == IInv /\ connectionLost => IInv'
<1> SUFFICES ASSUME IInv, connectionLost PROVE IInv'
  OBVIOUS
<1>1. losses' \in 0..MaxLosses
  BY BrokerSignalsAssumption DEF IInv, TypeOK, connectionLost
<1>2. TypeOK' /\ link' # "up"
  BY <1>1 DEF IInv, TypeOK, connectionLost, Lost
<1> QED BY <1>2, LinkIsNotUp

\* A signal on its way up changes no subscription.
LEMMA Emit == ASSUME NEW sig \in Signals PROVE IInv /\ emit(sig) => IInv'
<1> SUFFICES ASSUME IInv, emit(sig) PROVE IInv'
  OBVIOUS
<1>1. toMaster' \in Seq(Signals)
  BY AppendProperties DEF IInv, TypeOK, emit
<1>2. TypeOK'
  BY <1>1 DEF IInv, TypeOK, emit
<1>3. ASSUME link' = "up", NEW c \in Clients, NEW s \in subs'[c], Selects(s) PROVE Kept(s)'
  BY <1>3, KeptUnchanged DEF IInv, NothingIsForgotten, emit
<1> QED BY <1>2, <1>3 DEF IInv, NothingIsForgotten

(***************************************************************************)
(* Subscriptions that are forwarded.                                       *)
(***************************************************************************)
LEMMA Told ==
  ASSUME NEW s \in Subs, NEW mp \in {<<>>, Mount}, NEW more, more = SetToSeq(propagate(s, mp))
  PROVE  /\ more \in Seq(Messages) /\ \A j \in DOMAIN more : more[j].type = "subscribe"
         /\ mp = Mount /\ Selects(s) => \E i \in DOMAIN more : more[i] = Forwarded(s)
<1>1. CASE propagate(s, mp) = {}
  <2>1. more = <<>>
    BY <1>1, SetToSeqOfOne
  <2>2. ~(mp = Mount /\ Selects(s))
    BY <1>1, Propagated
  <2> QED BY <2>1, <2>2
<1>2. ASSUME NEW q \in Seq(STRING), propagate(s, mp) = {Message("subscribe", q, s.method)}
      PROVE  /\ more \in Seq(Messages) /\ \A j \in DOMAIN more : more[j].type = "subscribe"
             /\ mp = Mount /\ Selects(s) => \E i \in DOMAIN more : more[i] = Forwarded(s)
  <2> DEFINE m == Message("subscribe", q, s.method)
  <2>1. m \in Messages /\ m.type = "subscribe"
    <3>1. m \in Messages
      BY <1>2, PropagateTypes
    <3>2. m.type = "subscribe"
      BY DEF Message
    <3> QED BY <3>1, <3>2
  <2>2. mp = Mount /\ Selects(s) => m = Forwarded(s)
    BY <1>2, Propagated
  <2> HIDE DEF m
  <2>3. more = <<m>>
    BY <1>2, SetToSeqOfOne DEF m
  <2> QED BY <2>1, <2>2, <2>3
<1> QED BY <1>1, <1>2, PropagateTypes

\* A new subscription is on its way to the slave, behind the rejections so far.
LEMMA Subscribe ==
  ASSUME NEW c \in Clients, NEW s \in Subs PROVE IInv /\ subscribe(c, s) => IInv'
<1> SUFFICES ASSUME IInv, subscribe(c, s) PROVE IInv'
  OBVIOUS
<1>1. PICK more \in Seq(Messages) :
        /\ toSlave' = toSlave \o more /\ \A j \in DOMAIN more : more[j].type = "subscribe"
        /\ link = "up" /\ Selects(s) => \E i \in DOMAIN more : more[i] = Forwarded(s)
  <2>1. CASE link = "down"
    <3>1. toSlave' = toSlave \o SetToSeq({}) /\ SetToSeq({}) = <<>>
      BY <2>1, SetToSeqOfOne DEF subscribe
    <3>2. toSlave' = toSlave \o <<>>
      BY <3>1, Zenon
    <3>3. <<>> \in Seq(Messages) /\ \A j \in DOMAIN <<>> : FALSE
      OBVIOUS
    <3>4. (\A j \in DOMAIN <<>> : <<>>[j].type = "subscribe") /\ link # "up"
      BY <2>1, <3>3
    <3> QED BY <3>2, <3>3, <3>4, Zenon
  <2>2. CASE link = "login"
    <3>1. toSlave' = toSlave \o SetToSeq(propagate(s, <<>>))
      BY <2>2 DEF subscribe
    <3> QED BY <2>2, <3>1, Told
  <2>3. CASE link \in {"mounted", "up"}
    <3>1. toSlave' = toSlave \o SetToSeq(propagate(s, Mount))
      BY <2>3 DEF subscribe
    <3> QED BY <3>1, Told
  <2> QED BY <2>1, <2>2, <2>3 DEF IInv, TypeOK
<1>2. toSlave \in Seq(Messages) /\ toSlave' \in Seq(Messages)
  BY <1>1, ConcatProperties DEF IInv, TypeOK
<1>3. subs' \in [Clients -> SUBSET Subs]
  BY DEF IInv, TypeOK, subscribe
<1>4. TypeOK'
  BY <1>2, <1>3 DEF IInv, TypeOK, subscribe
<1>5. ASSUME link' = "up", NEW d \in Clients, NEW t \in subs'[d], Selects(t) PROVE Kept(t)'
  <2>1. \A j \in DOMAIN more : ~Rejects(more[j], t)
    BY <1>1 DEF Rejects
  <2>2. t \in subs[d] \/ t = s
    BY DEF IInv, TypeOK, subscribe
  <2>3. Kept(t) \/ \E i \in DOMAIN more : more[i] = Forwarded(t)
    BY <1>1, <1>5, <2>2 DEF IInv, NothingIsForgotten, subscribe
  <2>4. slaveSubs' = slaveSubs
    BY DEF subscribe
  <2> QED BY <1>1, <1>2, <2>1, <2>3, <2>4, KeptByAppending
<1> QED BY <1>4, <1>5 DEF IInv, NothingIsForgotten

\* A slave that connects is sent every subscription of the clients.
LEMMA OnClientConnected == IInv /\ onClientConnected => IInv'
<1> SUFFICES ASSUME IInv, onClientConnected PROVE IInv'
  OBVIOUS
<1> DEFINE W == UNION {subs[c] : c \in Clients}
           f == [s \in W |-> propagate(s, Mount)]
           S == UNION {propagate(s, Mount) : s \in W}
<1>1. W \subseteq Subs /\ \A c \in Clients : subs[c] \subseteq W
  BY DEF IInv, TypeOK
<1>2. PICK order \in SetToSeqs(S) : toSlave' = toSlave \o order
  BY Zenon DEF onClientConnected
<1>3. IsFiniteSet(S)
  <2>1. IsFiniteSet(W)
    BY <1>1, FS_Subset, BrokerSignalsAssumption
  <2> DEFINE T == {propagate(s, Mount) : s \in W}
  <2>2. f \in Surjection(W, T)
    BY DEF Surjection
  <2>3. IsFiniteSet(T)
    BY <2>1, <2>2, FS_Surjection
  <2>4. \A P \in T : IsFiniteSet(P)
    BY <1>1, PropagateTypes
  <2> HIDE DEF T
  <2>5. IsFiniteSet(UNION T)
    BY <2>3, <2>4, FS_UNION
  <2> QED BY <2>5 DEF T
<1>4. \A e \in S : e \in Messages /\ e.type = "subscribe"
  <2> SUFFICES ASSUME NEW e \in S PROVE e \in Messages /\ e.type = "subscribe"
    OBVIOUS
  <2>1. PICK s \in W : e \in propagate(s, Mount)
    OBVIOUS
  <2>2. s \in Subs
    BY <1>1
  <2>3. e \in Messages /\ \E q \in Seq(STRING) : e = Message("subscribe", q, s.method)
    BY <2>1, <2>2, PropagateTypes
  <2> QED BY <2>3 DEF Message
<1>5. \A s \in W : Selects(s) => Forwarded(s) \in S
  <2> SUFFICES ASSUME NEW s \in W, Selects(s) PROVE Forwarded(s) \in S
    OBVIOUS
  <2>1. Forwarded(s) \in propagate(s, Mount)
    BY <1>1, Propagated
  <2> QED BY <2>1
<1> HIDE DEF S, W
<1>6. order \in Seq(S) /\ \A e \in S : \E i \in DOMAIN order : order[i] = e
  BY <1>3, SetInOrder
<1>7. order \in Seq(Messages)
  BY <1>4, <1>6
<1>8. toSlave \in Seq(Messages) /\ toSlave' \in Seq(Messages)
  BY <1>2, <1>7, ConcatProperties DEF IInv, TypeOK
<1>9. TypeOK'
  BY <1>8 DEF IInv, TypeOK, onClientConnected
<1>10. ASSUME NEW d \in Clients, NEW t \in subs'[d], Selects(t) PROVE Kept(t)'
  <2>1. \A j \in DOMAIN order : ~Rejects(order[j], t)
    <3>1. \A j \in DOMAIN order : order[j] \in S
      BY <1>6
    <3>2. \A j \in DOMAIN order : order[j].type = "subscribe"
      BY <1>4, <3>1
    <3> QED BY <3>2 DEF Rejects
  <2>2. t \in W
    BY <1>1 DEF onClientConnected
  <2>3. \E i \in DOMAIN order : order[i] = Forwarded(t)
    BY <1>5, <1>6, <1>10, <2>2
  <2>4. slaveSubs' = slaveSubs
    BY DEF onClientConnected
  <2> QED BY <1>2, <1>7, <1>8, <2>1, <2>3, <2>4, KeptByAppending
<1> QED BY <1>9, <1>10 DEF IInv, NothingIsForgotten

(***************************************************************************)
(* The slave takes a message, and the master a signal.                     *)
(***************************************************************************)
LEMMA SlaveReceive == IInv /\ slaveReceive => IInv'
<1> SUFFICES ASSUME IInv, slaveReceive PROVE IInv'
  OBVIOUS
<1> DEFINE m == Head(toSlave)
           f == local(m.what)
<1>1. /\ toSlave \in Seq(Messages) /\ toSlave # <<>> /\ m = toSlave[1]
      /\ Tail(toSlave) \in Seq(Messages) /\ m \in Messages
  <2>1. toSlave \in Seq(Messages) /\ toSlave # <<>>
    BY DEF IInv, TypeOK, slaveReceive
  <2>2. Head(toSlave) = toSlave[1] /\ Head(toSlave) \in Messages /\ Tail(toSlave) \in Seq(Messages)
    BY <2>1, HeadTailProperties
  <2> QED BY <2>1, <2>2
<1>2. /\ m.type \in {"login", "subscribe", "reject"}
      /\ m.type \in {"subscribe", "reject"} => f \in Filters
  BY <1>1, MessageTypes, LocalTypes
<1>3. CASE slave = "login" /\ m # LoginResponse
  <2>1. TypeOK' /\ link' # "up"
    BY <1>3 DEF IInv, TypeOK, slaveReceive, Lost
  <2> QED BY <2>1, LinkIsNotUp
<1>4. CASE ~(slave = "login" /\ m # LoginResponse)
  <2>1. /\ slave' = "connected" /\ toSlave' = Tail(toSlave)
        /\ UNCHANGED <<link, toMaster, subs, losses>>
        /\ m.type = "login" => slaveSubs' = slaveSubs
        /\ m.type = "subscribe" => slaveSubs' = addSubscription(slaveSubs, f)
        /\ m.type = "reject" => slaveSubs' = rejectNotSubscribedSignal(slaveSubs, f)
    BY <1>4 DEF slaveReceive
  <2>2. slaveSubs \in Seq(Filters) /\ IsInjective(slaveSubs)
    BY DEF IInv, TypeOK
  <2> HIDE DEF m, f
  <2>3. /\ slaveSubs' \in Seq(Filters) /\ IsInjective(slaveSubs')
        /\ \A x : /\ (m.type = "subscribe" /\ x = f) \/ x \in ToSet(slaveSubs)
                  /\ m.type = "reject" => ~match(x, f)
                  => x \in ToSet(slaveSubs')
    <3>1. CASE m.type = "login"
      BY <2>1, <2>2, <3>1
    <3>2. CASE m.type = "subscribe"
      <4>1. f \in Filters /\ slaveSubs' = addSubscription(slaveSubs, f)
        BY <1>2, <2>1, <3>2
      <4>2. /\ slaveSubs' \in Seq(Filters) /\ IsInjective(slaveSubs')
            /\ \A x : x = f \/ x \in ToSet(slaveSubs) => x \in ToSet(slaveSubs')
        BY <2>2, <4>1, AddedSubscription, Zenon
      <4> QED BY <4>2, Zenon
    <3>3. CASE m.type = "reject"
      <4>1. slaveSubs' = rejectNotSubscribedSignal(slaveSubs, f)
        BY <2>1, <3>3
      <4>2. /\ slaveSubs' \in Seq(Filters) /\ IsInjective(slaveSubs')
            /\ \A x : ~match(x, f) /\ x \in ToSet(slaveSubs) => x \in ToSet(slaveSubs')
        BY <2>2, <4>1, RejectedSubscription, Zenon
      <4> QED BY <3>3, <4>2
    <3> QED BY <1>2, <3>1, <3>2, <3>3
  <2>4. TypeOK'
    BY <1>1, <2>1, <2>3 DEF IInv, TypeOK
  <2>5. ASSUME link' = "up", NEW c \in Clients, NEW s \in subs'[c], Selects(s) PROVE Kept(s)'
    <3>1. Kept(s)
      BY <2>1, <2>5 DEF IInv, NothingIsForgotten
    <3>2. ASSUME ~Rejects(toSlave[1], s),
                 AtSlave(s) \in ToSet(slaveSubs) \/ toSlave[1] = Forwarded(s)
          PROVE  AtSlave(s) \in ToSet(slaveSubs')
      <4>1. m.type = "reject" => ~match(AtSlave(s), f)
        BY <1>1, <3>2 DEF Rejects, f, m
      <4>2. toSlave[1] = Forwarded(s) => m.type = "subscribe" /\ AtSlave(s) = f
        <5>1. Forwarded(s).type = "subscribe"
          BY DEF Forwarded, Message
        <5> QED BY <1>1, <5>1 DEF AtSlave, f, m
      <4> QED BY <2>3, <3>2, <4>1, <4>2
    <3> QED BY <1>1, <2>1, <3>1, <3>2, KeptByReceiving
  <2> QED BY <2>4, <2>5 DEF IInv, NothingIsForgotten
<1> QED BY <1>3, <1>4

\* The master rejects a signal only if no subscription selects it, so the rejection
\* matches none that is needed.
LEMMA MasterReceive ==
  ASSUME SubsOfAnySource, SignalsAreExported PROVE IInv /\ masterReceive => IInv'
<1> SUFFICES ASSUME IInv, masterReceive PROVE IInv'
  OBVIOUS
<1> DEFINE sig == Head(toMaster)
           m == Message("reject", sig.path, sig.method)
<1>1. sig \in Signals /\ toMaster' \in Seq(Signals)
  <2>1. toMaster \in Seq(Signals) /\ toMaster # <<>> /\ toMaster' = Tail(toMaster)
    BY DEF IInv, TypeOK, masterReceive
  <2> QED BY <2>1, HeadTailProperties
<1>2. /\ toSlave \in Seq(Messages) /\ UNCHANGED <<subs, link, slave, slaveSubs, losses>>
      /\ wanted(sig) => toSlave' = toSlave
      /\ ~wanted(sig) => toSlave' = Append(toSlave, m)
  BY DEF IInv, TypeOK, masterReceive
<1>3. m \in Messages
  BY <1>1 DEF Messages
<1> HIDE DEF sig, m
<1>4. toSlave' \in Seq(Messages)
  BY <1>2, <1>3, AppendProperties
<1>5. TypeOK'
  BY <1>1, <1>2, <1>4 DEF IInv, TypeOK
<1>6. ASSUME link' = "up", NEW c \in Clients, NEW s \in subs'[c], Selects(s) PROVE Kept(s)'
  <2>1. Kept(s) /\ s \in subs[c] /\ s \in Subs
    BY <1>2, <1>6 DEF IInv, NothingIsForgotten, TypeOK
  <2>2. CASE wanted(sig)
    BY <1>2, <2>1, <2>2, KeptUnchanged
  <2>3. CASE ~wanted(sig)
    <3>1. ~match(s, global(sig))
      BY <2>1, <2>3 DEF wanted, isSubscribed
    <3>2. ~match(AtSlave(s), local(m.what))
      BY <1>1, <1>6, <2>1, <3>1, SelectsAtSlave DEF m
    <3>3. ~Rejects(m, s)
      BY <3>2 DEF Rejects
    <3>4. <<m>> \in Seq(Messages) /\ \A j \in DOMAIN <<m>> : ~Rejects(<<m>>[j], s)
      BY <1>3, <3>3
    <3>5. toSlave' = toSlave \o <<m>>
      BY <1>2, <2>3, AppendIsConcat
    <3> QED BY <1>2, <2>1, <3>4, <3>5, KeptByAppending
  <2> QED BY <2>2, <2>3
<1> QED BY <1>5, <1>6 DEF IInv, NothingIsForgotten

(***************************************************************************)
(* The theorem.                                                            *)
(***************************************************************************)
LEMMA IInvInit == Init => IInv
<1> SUFFICES ASSUME Init PROVE IInv
  OBVIOUS
<1>1. IsInjective(slaveSubs) /\ slaveSubs \in Seq(Filters)
  BY DEF Init, IsInjective
<1>2. toSlave \in Seq(Messages) /\ toMaster \in Seq(Signals)
  BY DEF Init
<1>3. subs \in [Clients -> SUBSET Subs] /\ losses \in 0..MaxLosses
  BY BrokerSignalsAssumption DEF Init
<1> QED BY <1>1, <1>2, <1>3 DEF IInv, Init, TypeOK, NothingIsForgotten

\* Every step preserves the inductive invariant.
LEMMA IInvNext ==
  ASSUME SubsOfAnySource, SignalsAreExported PROVE IInv /\ [Next]_vars => IInv'
<1> SUFFICES ASSUME IInv, [Next]_vars PROVE IInv'
  OBVIOUS
<1>1. ASSUME NEW c \in Clients, NEW s \in Subs, subscribe(c, s) PROVE IInv'
  BY <1>1, Subscribe
<1>2. ASSUME NEW c \in Clients, NEW s \in Subs, unsubscribe(c, s) PROVE IInv'
  <2>1. /\ subs' \in [Clients -> SUBSET Subs]
        /\ \A d \in Clients : subs'[d] \subseteq subs[d]
    BY <1>2 DEF IInv, TypeOK, unsubscribe
  <2> QED BY <1>2, <2>1, FewerSubscriptions DEF unsubscribe
<1>3. ASSUME NEW c \in Clients, clientGone(c) PROVE IInv'
  <2>1. /\ subs' \in [Clients -> SUBSET Subs]
        /\ \A d \in Clients : subs'[d] \subseteq subs[d]
    BY <1>3 DEF IInv, TypeOK, clientGone
  <2> QED BY <1>3, <2>1, FewerSubscriptions DEF clientGone
<1>4. CASE slaveLogin
  BY <1>4, SlaveLogin
<1>5. CASE onClientLogin
  BY <1>5, OnClientLogin
<1>6. CASE onClientConnected
  BY <1>6, OnClientConnected
<1>7. CASE connectionLost
  BY <1>7, ConnectionLost
<1>8. CASE slaveReceive
  BY <1>8, SlaveReceive
<1>9. ASSUME NEW sig \in Signals, emit(sig) PROVE IInv'
  BY <1>9, Emit
<1>10. CASE masterReceive
  BY <1>10, MasterReceive
<1>11. CASE UNCHANGED vars
  <2>1. \A c \in Clients : subs'[c] \subseteq subs[c]
    BY <1>11 DEF vars
  <2>2. subs' \in [Clients -> SUBSET Subs]
    BY <1>11 DEF vars, IInv, TypeOK
  <2> QED BY <1>11, <2>1, <2>2, FewerSubscriptions DEF vars
<1> QED
  BY <1>1, <1>2, <1>3, <1>4, <1>5, <1>6, <1>7, <1>8, <1>9, <1>10, <1>11 DEF Next

\* With nothing on its way, what is needed is known, and what is known is sent.
LEMMA KnownIsSent ==
  ASSUME SubsOfAnySource, SignalsAreExported, IInv PROVE SlaveSendsWhatIsWanted
<1>1. TypeOK
  BY DEF IInv
<1>2. ASSUME link = "up", toSlave = <<>>, NEW sig \in Signals, wanted(sig)
      PROVE  isSubscribed(ToSet(slaveSubs), local(sig))
  <2>1. PICK c \in Clients : \E s \in subs[c] : match(s, global(sig))
    BY <1>2 DEF wanted, isSubscribed
  <2>2. PICK s \in subs[c] : match(s, global(sig))
    BY <2>1
  <2>3. s \in Subs /\ Selects(s)
    BY <1>1, <2>2 DEF TypeOK, Selects
  <2>4. Kept(s)
    BY <1>2, <2>3 DEF IInv, NothingIsForgotten
  <2>5. ~OnItsWay(s)
    BY <1>2 DEF OnItsWay
  <2>6. AtSlave(s) \in ToSet(slaveSubs)
    BY <2>4, <2>5 DEF Kept, Known
  <2>7. match(AtSlave(s), local(sig))
    BY <2>2, <2>3, SelectsAtSlave
  <2> QED BY <2>6, <2>7 DEF isSubscribed
<1> QED BY <1>1, <1>2 DEF SlaveSendsWhatIsWanted, SubscribedSignalsAreSent

\* Once the slave broker is connected and has read what the master sent, it
\* sends every signal some client of the master is subscribed to, whatever
\* was subscribed, unsubscribed, rejected and reconnected before
\* (addSubscription(), onClientConnected(), rejectNotSubscribedSignal()).
THEOREM NothingWantedIsForgotten ==
  ASSUME SubsOfAnySource, SignalsAreExported
  PROVE  Spec => []SlaveSendsWhatIsWanted
<1>1. Init => IInv
  BY IInvInit
<1>2. IInv /\ [Next]_vars => IInv'
  BY IInvNext
<1>3. IInv => SlaveSendsWhatIsWanted
  BY KnownIsSent
<1> QED BY <1>1, <1>2, <1>3, PTL DEF Spec
=============================================================================
