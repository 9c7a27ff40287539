---------------------- MODULE BrokerConnectionsProofs ----------------------
(***************************************************************************)
(* The tree of a broker, its connections and what it says about its mount  *)
(* points agree for any set of connections and any configuration of mount  *)
(* points.                                                                 *)
(***************************************************************************)
EXTENDS BrokerConnections, SequenceLemmas

(***************************************************************************)
(* The inductive invariant.  The properties speak of the moments when no   *)
(* event is posted; what makes them true then is what the posted events    *)
(* will still do, so every part of the invariant speaks of both.           *)
(***************************************************************************)
Pending(e) == \E i \in DOMAIN posted : posted[i] = e
AtMostOne(S) == \A i, j \in DOMAIN posted : posted[i] \in S /\ posted[j] \in S => i = j
Before(f, e) == \A i, j \in DOMAIN posted : posted[i] = e /\ posted[j] = f => j < i

\* A connection has one login event at a time and none once it is logged in,
\* so it is mounted at most once.
LoginEvents(c) == {ForConn("login", c), ForConn("accepted", c), ForConn("refused", c)}
LogsInOnce(c) ==
  /\ AtMostOne(LoginEvents(c))
  /\ Pending(ForConn("login", c)) => login[c] = "requested"
  /\ Pending(ForConn("accepted", c)) => login[c] = "checking"
  /\ Pending(ForConn("refused", c)) => login[c] = "checking"
  /\ life[c] = "absent" => login[c] = "none"
  /\ mountPoint[c] # NotMounted => login[c] = "ok"
  /\ c \in raced => mountPoint[c] # NotMounted

\* A node lists existing connections that are mounted on it, each once.
ListsItsConnections(m) ==
  /\ \A i \in DOMAIN nodes[m] : /\ mountPoint[nodes[m][i]] = m
                                /\ life[nodes[m][i]] # "deleted"
  /\ \A i, j \in DOMAIN nodes[m] : nodes[m][i] = nodes[m][j] => i = j

\* A node without connections is going to be deleted, once, and all that is
\* mounted on it meanwhile has raced with that.
DiesOnce(m) ==
  /\ m \in dying <=> Pending(ForPath("deleteNode", m))
  /\ AtMostOne({ForPath("deleteNode", m)})
  /\ m \in DOMAIN nodes /\ nodes[m] = <<>> => m \in dying
  /\ m \in dying => \A i \in DOMAIN nodes[m] : nodes[m][i] \in raced

\* A directory leads to a node, or its removal is going to be tried.
Leads(d) ==
  \/ \E m \in DOMAIN nodes : d \in Above(m)
  \/ \E e \in dirs : Pending(ForPath("deleteIfEmpty", e)) /\ d \in Above(e) \cup {e}
TreeIsClosed ==
  /\ \A x \in dirs \cup DOMAIN nodes : Above(x) \subseteq dirs
  /\ \A d \in dirs : Leads(d)

\* What is registered and mounted is listed where it is mounted.
Listed(c) ==
  c \notin raced /\ life[c] = "registered" /\ mountPoint[c] # NotMounted =>
    mountPoint[c] \in DOMAIN nodes /\ Contains(nodes[mountPoint[c]], c)

\* What is mounted was notified or is going to be, before it is unmounted.
Raced(m) == \E c \in raced : mountPoint[c] = m
Notifies(m) ==
  ~Raced(m) =>
    /\ m \in DOMAIN nodes => notified[m] \/ Pending(ForPath("mounted", m))
    /\ m \notin DOMAIN nodes => ~notified[m] /\ ~Pending(ForPath("mounted", m))
    /\ Before(ForPath("mounted", m), ForPath("deleteNode", m))

TreeAgrees ==
  /\ \A m \in DOMAIN nodes : ListsItsConnections(m)
  /\ \A m \in Mounts : DiesOnce(m) /\ Notifies(m)
  /\ TreeIsClosed
  /\ \A c \in Conns : Listed(c)
IInv == TypeOK /\ (\A c \in Conns : LogsInOnce(c)) /\ TreeAgrees

(***************************************************************************)
(* Paths.                                                                  *)
(***************************************************************************)
LEMMA MountPaths == \A m \in Mounts : m \in Seq(STRING) /\ m # <<>>
  BY BrokerConnectionsAssumption DEF Mounts

\* The directories above a path are its proper beginnings.
LEMMA AboveIff ==
  ASSUME NEW x \in Seq(STRING), NEW p
  PROVE  p \in Above(x) <=> /\ p \in Seq(STRING) /\ 1 <= Len(p) /\ Len(p) < Len(x)
                            /\ \A i \in 1..Len(p) : p[i] = x[i]
<1>1. ASSUME NEW n \in 1..Len(x) - 1
      PROVE  /\ SubSeq(x, 1, n) \in Seq(STRING) /\ Len(SubSeq(x, 1, n)) = n
             /\ \A i \in 1..n : SubSeq(x, 1, n)[i] = x[i]
  <2>1. n \in Int /\ 1 \in Int /\ \A i \in 1..n : x[i] \in STRING
    OBVIOUS
  <2> QED BY <2>1, SubSeqProperties
<1>2. ASSUME p \in Above(x)
      PROVE  /\ p \in Seq(STRING) /\ 1 <= Len(p) /\ Len(p) < Len(x)
             /\ \A i \in 1..Len(p) : p[i] = x[i]
  <2>1. PICK n \in 1..Len(x) - 1 : p = SubSeq(x, 1, n)
    BY <1>2 DEF Above
  <2> QED BY <1>1, <2>1
<1>3. ASSUME p \in Seq(STRING), 1 <= Len(p), Len(p) < Len(x),
             \A i \in 1..Len(p) : p[i] = x[i]
      PROVE  p \in Above(x)
  <2>1. Len(p) \in 1..Len(x) - 1
    BY <1>3
  <2>2. p = SubSeq(x, 1, Len(p))
    BY <1>1, <1>3, <2>1, SeqEqual
  <2> QED BY <2>1, <2>2 DEF Above
<1> QED BY <1>2, <1>3

\* A directory above one that is above a path is above the path.
LEMMA AboveIsTransitive ==
  ASSUME NEW x \in Seq(STRING), NEW p, NEW q, p \in Above(q), q \in Above(x)
  PROVE  p \in Above(x)
<1>1. q \in Seq(STRING)
  BY AboveIff
<1> QED BY <1>1, AboveIff

\* Two beginnings of a path: the shorter one is above the longer one.
LEMMA AboveIsLinear ==
  ASSUME NEW x \in Seq(STRING), NEW p \in Above(x) \cup {x}, NEW q \in Above(x) \cup {x},
         p # <<>>, Len(p) < Len(q)
  PROVE  p \in Above(q)
<1>1. /\ p \in Seq(STRING) /\ q \in Seq(STRING) /\ 1 <= Len(p)
      /\ \A i \in 1..Len(p) : p[i] = x[i]
      /\ \A i \in 1..Len(q) : q[i] = x[i]
  BY AboveIff
<1> QED BY <1>1, AboveIff

\* Two beginnings of a path that are equally long are the same.
LEMMA AboveOfLength ==
  ASSUME NEW x \in Seq(STRING), NEW p \in Above(x) \cup {x}, NEW q \in Above(x) \cup {x},
         Len(p) = Len(q)
  PROVE  p = q
<1>1. /\ p \in Seq(STRING) /\ q \in Seq(STRING)
      /\ \A i \in 1..Len(p) : p[i] = x[i]
      /\ \A i \in 1..Len(q) : q[i] = x[i]
  BY AboveIff
<1> QED BY <1>1, SeqEqual

\* A path has a beginning of every length.
LEMMA AboveHasLength ==
  ASSUME NEW x \in Seq(STRING), NEW n \in 1..Len(x)
  PROVE  \E p \in Above(x) \cup {x} : Len(p) = n
<1>1. CASE n = Len(x)
  BY <1>1
<1>2. CASE n # Len(x)
  <2>1. n \in 1..Len(x) - 1 /\ n \in Int /\ 1 \in Int /\ \A i \in 1..n : x[i] \in STRING
    BY <1>2
  <2>2. Len(SubSeq(x, 1, n)) = n
    BY <2>1, SubSeqProperties
  <2> QED BY <2>1, <2>2 DEF Above
<1> QED BY <1>1, <1>2

\* The prefixes of a path are the directories above it and the path.
LEMMA PrefixIff ==
  ASSUME NEW x \in Seq(STRING), NEW p \in Seq(STRING), p # <<>>
  PROVE  IsPrefix(p, x) <=> p \in Above(x) \cup {x}
<1>1. IsPrefix(p, x) <=> Len(p) <= Len(x) /\ \A i \in 1..Len(p) : p[i] = x[i]
  BY DEF IsPrefix
<1>2. Len(p) = Len(x) /\ (\A i \in 1..Len(p) : p[i] = x[i]) => p = x
  BY SeqEqual
<1>3. Len(p) >= 1
  BY EmptySeq
<1> QED BY <1>1, <1>2, <1>3, AboveIff

\* The parent of a node.
LEMMA FrontIsAbove ==
  ASSUME NEW x \in Seq(STRING), x # <<>>
  PROVE  /\ Front(x) = <<>> \/ Front(x) \in Above(x)
         /\ \A p \in Above(x) : /\ Front(x) \in Above(x)
                                /\ p \in Above(Front(x)) \cup {Front(x)}
<1>1. Len(x) = 1 \/ Len(x) > 1
  BY EmptySeq
<1>2. CASE Len(x) = 1
  <2>1. Front(x) = <<>>
    BY <1>2, SubSeqEmpty DEF Front
  <2>2. Above(x) = {}
    BY <1>2, AboveIff
  <2> QED BY <2>1, <2>2
<1>3. CASE Len(x) > 1
  <2>1. Len(x) - 1 \in 1..Len(x) - 1 /\ 1 \in Int /\ \A i \in 1..Len(x) - 1 : x[i] \in STRING
    BY <1>3
  <2>2. Front(x) \in Above(x)
    BY <2>1 DEF Front, Above
  <2>3. Len(Front(x)) = Len(x) - 1
    BY <1>3, <2>1, SubSeqProperties DEF Front
  <2>4. ASSUME NEW p \in Above(x) PROVE p \in Above(Front(x)) \cup {Front(x)}
    <3>1. Len(p) <= Len(Front(x)) /\ p # <<>> /\ Len(p) \in Nat
      BY <2>3, AboveIff, EmptySeq
    <3>2. CASE Len(p) = Len(Front(x))
      BY <2>2, <3>2, AboveOfLength
    <3>3. CASE Len(p) # Len(Front(x))
      <4>1. Len(p) < Len(Front(x))
        BY <2>3, <3>1, <3>3
      <4> QED BY <2>2, <3>1, <4>1, AboveIsLinear
    <3> QED BY <3>2, <3>3
  <2> QED BY <2>2, <2>4
<1> QED BY <1>1, <1>2, <1>3, Zenon

(***************************************************************************)
(* Posted events.  A step takes the first n events, none or one, from the  *)
(* queue and posts more, none or one.                                      *)
(***************************************************************************)
QueueStep(n, more) ==
  /\ posted \in Seq(Events) /\ posted' \in Seq(Events)
  /\ n \in {0, 1} /\ n <= Len(posted)
  /\ more \in Seq(Events) /\ Len(more) <= 1
  /\ Len(posted') = Len(posted) - n + Len(more)
  /\ \A i \in 1..Len(posted) - n : posted'[i] = posted[i + n]
  /\ Len(more) = 1 => posted'[Len(posted) - n + 1] = more[1]

\* An action that leaves the event queue alone.
LEMMA QueueUnchanged ==
  ASSUME posted \in Seq(Events), posted' = posted
  PROVE  QueueStep(0, <<>>)
  BY DEF QueueStep

\* An action that posts an event.
LEMMA QueueAppend ==
  ASSUME posted \in Seq(Events), NEW e \in Events, posted' = Append(posted, e)
  PROVE  QueueStep(0, <<e>>)
  BY DEF QueueStep

\* An action that handles the first event and may post one more.
LEMMA QueueHandle ==
  ASSUME posted \in Seq(Events), NEW e, NEW more \in Seq(Events), Len(more) <= 1,
         Handle(e, more)
  PROVE  QueueStep(1, more) /\ posted[1] = e /\ Pending(e)
<1>1. /\ posted # <<>> /\ posted' = Tail(posted) \o more /\ Len(posted) \in Nat \ {0}
      /\ posted[1] = e
  BY EmptySeq DEF Handle
<1>2. /\ Tail(posted) \in Seq(Events) /\ Len(Tail(posted)) = Len(posted) - 1
      /\ \A i \in 1..Len(posted) - 1 : Tail(posted)[i] = posted[i + 1]
  BY <1>1, HeadTailProperties
<1>3. /\ posted' \in Seq(Events) /\ Len(posted') = Len(posted) - 1 + Len(more)
      /\ \A i \in 1..Len(posted) - 1 + Len(more) :
           posted'[i] = IF i <= Len(posted) - 1 THEN Tail(posted)[i]
                        ELSE more[i - (Len(posted) - 1)]
  BY <1>1, <1>2, ConcatProperties
<1>4. \A i \in 1..Len(posted) - 1 : posted'[i] = posted[i + 1]
  BY <1>1, <1>2, <1>3
<1>5. Len(more) = 1 => posted'[Len(posted) - 1 + 1] = more[1]
  BY <1>1, <1>3
<1> QED BY <1>1, <1>3, <1>4, <1>5 DEF QueueStep, Pending

\* Where the events of the queue come from.
LEMMA QueueSource ==
  ASSUME NEW n, NEW more, QueueStep(n, more), NEW i \in DOMAIN posted'
  PROVE  \/ i \in 1..Len(posted) - n /\ i + n \in DOMAIN posted /\ posted'[i] = posted[i + n]
         \/ i = Len(posted) - n + 1 /\ more = <<posted'[i]>>
<1>1. /\ DOMAIN posted = 1..Len(posted) /\ i \in Int /\ 1 <= i /\ i <= Len(posted')
  BY DEF QueueStep
<1>2. /\ Len(posted) \in Nat /\ Len(more) \in Nat /\ n \in 0..1 /\ n <= Len(posted)
      /\ Len(more) <= 1 /\ Len(posted') = Len(posted) - n + Len(more)
  BY DEF QueueStep
<1>3. CASE i <= Len(posted) - n
  <2>1. i \in 1..Len(posted) - n /\ i + n \in 1..Len(posted)
    BY <1>1, <1>2, <1>3
  <2>2. posted'[i] = posted[i + n]
    BY <2>1 DEF QueueStep
  <2> QED BY <1>1, <2>1, <2>2
<1>4. CASE i > Len(posted) - n
  <2>1. Len(more) = 1 /\ i = Len(posted) - n + 1
    <3>1. \A p, q, l, k, j \in Int : q = p - k + l /\ 0 <= l /\ l <= 1 /\ j <= q /\ j > p - k =>
            l = 1 /\ j = p - k + 1
      OBVIOUS
    <3>2. Len(posted) \in Int /\ Len(posted') \in Int /\ Len(more) \in Int /\ n \in Int /\ 0 <= Len(more)
      BY <1>2
    <3> QED BY <1>1, <1>2, <1>4, <3>1, <3>2, Zenon
  <2>2. more[1] = posted'[i]
    <3>1. Len(more) = 1 => posted'[Len(posted) - n + 1] = more[1]
      BY Zenon DEF QueueStep
    <3> QED BY <2>1, <3>1, Zenon
  <2>3. more = <<more[1]>>
    BY <2>1 DEF QueueStep
  <2> QED BY <2>1, <2>2, <2>3
<1>5. i <= Len(posted) - n \/ i > Len(posted) - n
  BY <1>1, <1>2
<1> QED BY <1>3, <1>4, <1>5

\* The indices of the queue are numbers, before and after.
LEMMA QueueTypes ==
  ASSUME NEW n, NEW more, QueueStep(n, more)
  PROVE  /\ DOMAIN posted = 1..Len(posted) /\ DOMAIN posted' = 1..Len(posted')
         /\ Len(posted) \in Nat /\ Len(posted') \in Nat /\ n \in Nat
  BY DEF QueueStep

\* Every event that is posted after a step was posted before or is new.
LEMMA QueueNothingElse ==
  ASSUME NEW n, NEW more, QueueStep(n, more), NEW e, Pending(e)'
  PROVE  Pending(e) \/ more = <<e>>
  BY QueueSource DEF Pending

\* No event is lost but the one that is taken.
LEMMA QueueKeeps ==
  ASSUME NEW n, NEW more, QueueStep(n, more), NEW e, Pending(e),
         n = 1 => posted[1] # e
  PROVE  Pending(e)'
<1>1. PICK i \in DOMAIN posted : posted[i] = e
  BY DEF Pending
<1>2. i - n \in DOMAIN posted' /\ posted'[i - n] = e
  BY <1>1 DEF QueueStep
<1> QED BY <1>2 DEF Pending

\* What was posted is pending.
LEMMA QueuePosts ==
  ASSUME NEW n, NEW e, QueueStep(n, <<e>>)
  PROVE  Pending(e)'
<1>1. Len(posted) - n + 1 \in DOMAIN posted' /\ posted'[Len(posted) - n + 1] = e
  BY DEF QueueStep
<1> QED BY <1>1 DEF Pending

\* Of some events there is still at most one, if a new one finds none.
LEMMA QueueAtMostOne ==
  ASSUME NEW n, NEW more, QueueStep(n, more), NEW S, AtMostOne(S),
         \A e \in S : more = <<e>> => \A f \in S : Pending(f) => n = 1 /\ posted[1] = f
  PROVE  AtMostOne(S)'
<1>0. /\ DOMAIN posted = 1..Len(posted) /\ DOMAIN posted' = 1..Len(posted')
      /\ Len(posted) \in Nat /\ Len(posted') \in Nat /\ n \in Nat
  BY QueueTypes
<1> SUFFICES ASSUME NEW i \in DOMAIN posted', NEW j \in DOMAIN posted',
                    posted'[i] \in S, posted'[j] \in S, i < j
             PROVE  FALSE
  BY <1>0 DEF AtMostOne
<1>1. /\ i \in 1..Len(posted) - n /\ i + n \in DOMAIN posted /\ posted'[i] = posted[i + n]
      /\ i \in Nat \ {0} /\ j \in Nat
  <2>1. j \in 1..Len(posted) - n \/ j = Len(posted) - n + 1
    BY QueueSource
  <2>2. i # Len(posted) - n + 1
    BY <1>0, <2>1
  <2> QED BY <1>0, <2>2, QueueSource
<1>2. CASE j \in 1..Len(posted) - n /\ j + n \in DOMAIN posted /\ posted'[j] = posted[j + n]
  <2>1. i + n = j + n
    BY <1>1, <1>2 DEF AtMostOne
  <2> QED BY <1>0, <1>1, <2>1
<1>3. CASE more = <<posted'[j]>>
  <2>1. Pending(posted'[i])
    BY <1>1 DEF Pending
  <2>2. n = 1 /\ posted[1] = posted[i + n]
    BY <1>1, <1>3, <2>1
  <2>3. 1 \in DOMAIN posted /\ i + n # 1
    BY <1>0, <1>1, <2>2
  <2> QED BY <1>1, <2>2, <2>3 DEF AtMostOne
<1> QED BY <1>2, <1>3, QueueSource

\* When the one of them is taken there is none left.
LEMMA QueueNoneLeft ==
  ASSUME NEW more, QueueStep(1, more), NEW S, AtMostOne(S), posted[1] \in S,
         NEW e \in S, more # <<e>>
  PROVE  ~Pending(e)'
<1> SUFFICES ASSUME NEW i \in DOMAIN posted', posted'[i] = e PROVE FALSE
  BY DEF Pending
<1>1. i \in 1..Len(posted) - 1 /\ i + 1 \in DOMAIN posted /\ posted'[i] = posted[i + 1]
  BY QueueSource
<1>2. 1 \in DOMAIN posted /\ i + 1 # 1
  BY <1>1, QueueTypes
<1> QED BY <1>1, <1>2 DEF AtMostOne

\* All events f stay before all events e, if a new f finds no e.
LEMMA QueueBefore ==
  ASSUME NEW n, NEW more, QueueStep(n, more), NEW e, NEW f, e # f, Before(f, e),
         more = <<f>> => ~Pending(e)
  PROVE  Before(f, e)'
<1>0. /\ DOMAIN posted = 1..Len(posted) /\ DOMAIN posted' = 1..Len(posted')
      /\ Len(posted) \in Nat /\ Len(posted') \in Nat /\ n \in Nat
  BY QueueTypes
<1> SUFFICES ASSUME NEW i \in DOMAIN posted', NEW j \in DOMAIN posted',
                    posted'[i] = e, posted'[j] = f
             PROVE  j < i
  BY DEF Before
<1>1. CASE /\ i \in 1..Len(posted) - n /\ i + n \in DOMAIN posted /\ posted'[i] = posted[i + n]
           /\ j \in 1..Len(posted) - n /\ j + n \in DOMAIN posted /\ posted'[j] = posted[j + n]
  <2>1. j + n < i + n
    BY <1>1 DEF Before
  <2> QED BY <1>0, <2>1
<1>2. CASE j = Len(posted) - n + 1 /\ more = <<posted'[j]>>
  <2>1. ~Pending(e)
    BY <1>2
  <2>2. more # <<e>>
    BY <1>2
  <2>3. i + n \in DOMAIN posted /\ posted'[i] = posted[i + n]
    BY <2>2, QueueSource
  <2> QED BY <2>1, <2>3 DEF Pending
<1>3. CASE i = Len(posted) - n + 1 /\ j \in 1..Len(posted) - n
  BY <1>0, <1>3
<1> QED BY <1>1, <1>2, <1>3, QueueSource

(***************************************************************************)
(* Events and the tree.                                                    *)
(***************************************************************************)
LEMMA EventNames ==
  /\ \A t, c : ForConn(t, c).type = t /\ ForConn(t, c).conn = c
  /\ \A t, x : ForPath(t, x).type = t /\ ForPath(t, x).path = x
  BY DEF ForConn, ForPath

\* The events an action posts are events.
LEMMA EventTypes ==
  /\ \A c \in Conns : \A t \in {"login", "accepted", "refused", "deleteConn"} :
       ForConn(t, c) \in Events
  /\ \A m \in Mounts : /\ ForPath("deleteNode", m) \in Events
                       /\ ForPath("mounted", m) \in Events
                       /\ ForPath("deleteIfEmpty", Front(m)) \in Events
<1>1. ASSUME NEW m \in Mounts
      PROVE Front(m) \in {<<>>} \cup UNION {Above(x) : x \in Mounts}
  BY MountPaths, FrontIsAbove
<1> QED BY <1>1 DEF Events, ForConn, ForPath

\* Nodes and directories have a path.
LEMMA TreePaths ==
  ASSUME TypeOK
  PROVE  \A x \in dirs \cup DOMAIN nodes : x \in Seq(STRING) /\ x # <<>>
<1>1. ASSUME NEW d \in dirs PROVE d \in Seq(STRING) /\ d # <<>>
  <2>1. PICK m \in Mounts : d \in Above(m)
    BY DEF TypeOK
  <2>2. d \in Seq(STRING) /\ 1 <= Len(d)
    BY <2>1, MountPaths, AboveIff
  <2> QED BY <2>2, EmptySeq
<1>2. ASSUME NEW m \in DOMAIN nodes PROVE m \in Seq(STRING) /\ m # <<>>
  BY MountPaths DEF TypeOK
<1> QED BY <1>1, <1>2

\* cd() finds the deepest node on the path.
LEMMA CdIsDeepest ==
  ASSUME NEW x \in Seq(STRING),
         NEW there, there = {q \in Above(x) \cup {x} : q \in dirs \cup DOMAIN nodes},
         there # {}
  PROVE  cd(x) \in there /\ \A q \in there : Len(q) <= Len(cd(x))
<1>1. \A q \in there : Len(q) \in Nat /\ Len(q) <= Len(x)
  BY AboveIff
<1> DEFINE T == {Len(x) - Len(q) : q \in there}
<1>2. T \subseteq Nat /\ T # {}
  BY <1>1
<1>3. PICK n \in T : \A k \in T : n <= k
  BY <1>2, SmallestNat
<1>4. PICK q \in there : n = Len(x) - Len(q)
  BY <1>3
<1>5. \A r \in there : Len(x) - Len(q) <= Len(x) - Len(r)
  BY <1>3, <1>4
<1>6. \A r \in there : Len(r) <= Len(q)
  BY <1>1, <1>5
<1>7. cd(x) = CHOOSE p \in there : \A r \in there : Len(r) <= Len(p)
  BY DEF cd
<1> QED BY <1>6, <1>7

\* Mounting: connection c is put in front of a node, or a new node is put
\* where the tree has nothing yet and no node above.
MountsAt(c, at) ==
  /\ at \in Mounts /\ at \notin dirs
  /\ at \notin DOMAIN nodes => Above(at) \cap DOMAIN nodes = {}
  /\ mountPoint' = [mountPoint EXCEPT ![c] = at]
  /\ DOMAIN nodes' = DOMAIN nodes \cup {at}
  /\ \A m \in DOMAIN nodes \ {at} : nodes'[m] = nodes[m]
  /\ nodes'[at] = IF at \in DOMAIN nodes THEN <<c>> \o nodes[at] ELSE <<c>>
  /\ dirs' = IF at \in DOMAIN nodes THEN dirs ELSE dirs \cup Above(at)
  /\ raced' = IF at \in dying THEN raced \cup {c} ELSE raced
  /\ dying' = dying

\* mountDevice() leaves the tree alone or mounts at one of the mount points.
LEMMA MountDevice ==
  ASSUME TypeOK, TreeIsClosed, NEW c \in Conns, mountDevice(c)
  PROVE  UNCHANGED <<mountPoint, treeVars>> \/ \E at \in Mounts : MountsAt(c, at)
<1> DEFINE x == MountOf[c]
           nd == cd(x)
           at == IF nd \in DOMAIN nodes THEN nd ELSE x
           there == {q \in Above(x) \cup {x} : q \in dirs \cup DOMAIN nodes}
<1>1. CASE nd = x /\ nd \notin DOMAIN nodes
  BY <1>1 DEF mountDevice
<1>2. CASE ~(nd = x /\ nd \notin DOMAIN nodes)
  <2>1. x \in Mounts /\ x \in Seq(STRING) /\ x # <<>>
    BY MountPaths DEF Mounts
  <2>2. there # {} => nd \in there /\ \A q \in there : Len(q) <= Len(nd)
    BY <2>1, CdIsDeepest
  <2>3. at \in Mounts /\ at \notin dirs
    <3>1. CASE nd \in DOMAIN nodes
      BY <3>1 DEF TypeOK
    <3>2. CASE nd \notin DOMAIN nodes
      <4>1. ASSUME x \in dirs PROVE FALSE
        <5>1. nd \in there /\ Len(x) <= Len(nd)
          BY <2>2, <4>1
        <5>2. nd = x
          BY <2>1, <5>1, AboveIff
        <5> QED BY <1>2, <3>2, <5>2
      <4> QED BY <2>1, <3>2, <4>1
    <3> QED BY <3>1, <3>2
  <2>4. ASSUME at \notin DOMAIN nodes, NEW m \in Above(at) \cap DOMAIN nodes PROVE FALSE
    <3>1. at = x /\ m \in there
      BY <2>4
    <3>2. nd \in there /\ Len(m) <= Len(nd) /\ nd \in dirs
      BY <2>2, <2>4, <3>1
    <3>3. m # nd /\ m \in Seq(STRING) /\ m # <<>> /\ nd \in Seq(STRING)
      BY <3>2, TreePaths DEF TypeOK
    <3>4. CASE Len(m) = Len(nd)
      BY <2>1, <3>1, <3>2, <3>3, <3>4, AboveOfLength
    <3>5. CASE Len(m) < Len(nd)
      <4>1. m \in Above(nd)
        BY <2>1, <3>1, <3>2, <3>3, <3>5, AboveIsLinear
      <4> QED BY <3>2, <4>1 DEF TreeIsClosed, TypeOK
    <3> QED BY <3>2, <3>3, <3>4, <3>5
  <2>5. /\ mountPoint' = [mountPoint EXCEPT ![c] = at]
        /\ nodes' = [m \in DOMAIN nodes \cup {at} |->
                       IF m # at THEN nodes[m]
                       ELSE IF at \in DOMAIN nodes THEN <<c>> \o nodes[at] ELSE <<c>>]
        /\ dirs' = IF at \in DOMAIN nodes THEN dirs ELSE dirs \cup Above(at)
        /\ raced' = IF at \in dying THEN raced \cup {c} ELSE raced
        /\ dying' = dying
    BY <1>2 DEF mountDevice
  <2> HIDE DEF at, nd, x
  <2>6. /\ DOMAIN nodes' = DOMAIN nodes \cup {at}
        /\ \A m \in DOMAIN nodes \ {at} : nodes'[m] = nodes[m]
        /\ nodes'[at] = IF at \in DOMAIN nodes THEN <<c>> \o nodes[at] ELSE <<c>>
    BY <2>5
  <2>7. MountsAt(c, at)
    BY <2>3, <2>4, <2>5, <2>6 DEF MountsAt
  <2> QED BY <2>3, <2>7
<1> QED BY <1>1, <1>2

(***************************************************************************)
(* The tree stays closed: what is in it keeps its directories, and every   *)
(* directory leads somewhere.                                              *)
(***************************************************************************)
\* The child of a directory on the way to something below it.
LEMMA ChildOnTheWay ==
  ASSUME TypeOK, TreeIsClosed, NEW x \in dirs \cup DOMAIN nodes, NEW q \in Above(x)
  PROVE  \E y \in Children(q) : y \in Above(x) \cup {x} /\ Len(y) = Len(q) + 1 /\ q \in Above(y)
<1>1. /\ x \in Seq(STRING) /\ q \in Seq(STRING) /\ q # <<>> /\ Len(q) \in Nat
      /\ Len(x) \in Nat /\ Len(q) < Len(x)
  BY TreePaths, AboveIff, EmptySeq
<1>2. PICK y \in Above(x) \cup {x} : Len(y) = Len(q) + 1
  <2>1. Len(q) + 1 \in 1..Len(x)
    BY <1>1
  <2> QED BY <1>1, <2>1, AboveHasLength
<1>3. y \in Seq(STRING) /\ y \in dirs \cup DOMAIN nodes
  BY <1>1, AboveIff DEF TreeIsClosed
<1>4. q \in Above(y)
  <2>1. Len(q) < Len(y)
    BY <1>1, <1>2
  <2> QED BY <1>1, <2>1, AboveIsLinear
<1>5. IsPrefix(q, y)
  BY <1>1, <1>3, <1>4, PrefixIff
<1> QED BY <1>2, <1>3, <1>4, <1>5 DEF Children

\* The children of a node are in the tree, one name below it.
LEMMA ChildrenAreBelow ==
  ASSUME TypeOK, NEW q \in Seq(STRING), q # <<>>, NEW y \in Children(q)
  PROVE  y \in dirs \cup DOMAIN nodes /\ q \in Above(y) /\ Len(y) = Len(q) + 1
<1>1. y \in dirs \cup DOMAIN nodes /\ Len(y) = Len(q) + 1 /\ IsPrefix(q, y) /\ y \in Seq(STRING)
  BY TreePaths DEF Children
<1>2. Len(q) \in Nat /\ y # q
  BY <1>1
<1> QED BY <1>1, <1>2, PrefixIff

\* What deleteIfEmptyWithParents() removes has nothing else below it.
LEMMA RemovedIsAlone ==
  ASSUME TypeOK, TreeIsClosed, NEW d \in dirs, Children(d) = {},
         NEW x \in dirs \cup DOMAIN nodes, NEW a \in Above(x),
         a \in {d} \cup soleParents(d)
  PROVE  x \in {d} \cup soleParents(d)
<1> DEFINE OnWay(y, p) == p \in Above(y) \cup {y}
<1>1. /\ d \in Seq(STRING) /\ d # <<>> /\ x \in Seq(STRING) /\ a \in Seq(STRING) /\ a # <<>>
      /\ Len(d) \in Nat /\ Len(x) \in Nat /\ Len(a) \in Nat
  BY TreePaths, AboveIff, EmptySeq
<1>2. d \notin Above(x)
  BY ChildOnTheWay
<1>3. a \in Above(d) /\ a \in soleParents(d)
  BY <1>2 DEF soleParents
<1>4. \A q \in Above(d) : IsPrefix(a, q) => \A y, z \in Children(q) : y = z
  BY <1>3 DEF soleParents
<1> DEFINE T == {n \in Nat : /\ Len(a) <= n /\ n <= Len(d) /\ n <= Len(x)
                             /\ ~\E p : OnWay(x, p) /\ OnWay(d, p) /\ Len(p) = n}
<1>5. CASE T # {}
  <2>1. PICK n \in T : \A k \in T : n <= k
    <3> HIDE DEF T
    <3>1. T \subseteq Nat
      BY DEF T
    <3> QED BY <1>5, <3>1, SmallestNat
  <2>2. n \in Nat /\ Len(a) < n /\ n <= Len(d) /\ n <= Len(x)
    BY <1>1, <1>3, <2>1
  <2>3. n - 1 \in Nat /\ n - 1 \notin T
    <3>1. n - 1 \in Nat /\ ~(n <= n - 1)
      BY <1>1, <2>2
    <3> HIDE DEF T
    <3> QED BY <2>1, <3>1
  <2>4. PICK q : OnWay(x, q) /\ OnWay(d, q) /\ Len(q) = n - 1
    BY <1>1, <2>2, <2>3
  <2>5. q \in Above(x) /\ q \in Above(d) /\ q \in Seq(STRING)
    BY <1>1, <2>2, <2>4, AboveIff
  <2>6. IsPrefix(a, q)
    <3>1. CASE Len(a) = Len(q)
      <4>1. a = q
        BY <1>1, <1>3, <2>5, <3>1, AboveOfLength
      <4> QED BY <1>1, <4>1, PrefixIff
    <3>2. CASE Len(a) < Len(q)
      <4>1. a \in Above(q)
        BY <1>1, <1>3, <2>5, <3>2, AboveIsLinear
      <4> QED BY <1>1, <2>5, <4>1, PrefixIff
    <3> QED BY <1>1, <2>2, <2>4, <3>1, <3>2
  <2>7. PICK y \in Children(q) : OnWay(x, y) /\ Len(y) = Len(q) + 1
    BY <2>5, ChildOnTheWay
  <2>8. PICK z \in Children(q) : OnWay(d, z) /\ Len(z) = Len(q) + 1
    BY <2>5, ChildOnTheWay
  <2>9. y = z
    BY <1>4, <2>5, <2>6
  <2>10. OnWay(x, y) /\ OnWay(d, y) /\ Len(y) = n
    BY <2>2, <2>4, <2>7, <2>8, <2>9
  <2> QED BY <2>1, <2>10
<1>6. CASE T = {}
  <2>1. CASE Len(x) <= Len(d)
    <3>1. Len(a) <= Len(x)
      BY <1>1, AboveIff
    <3>2. PICK p : OnWay(x, p) /\ OnWay(d, p) /\ Len(p) = Len(x)
      BY <1>1, <1>6, <2>1, <3>1
    <3>3. p = x
      BY <1>1, <3>2, AboveIff
    <3>4. CASE x = d
      BY <3>4
    <3>5. CASE x # d
      <4>1. x \in Above(d)
        BY <3>2, <3>3, <3>5
      <4>2. ASSUME NEW q \in Above(d), IsPrefix(x, q) PROVE IsPrefix(a, q)
        <5>1. x # <<>> /\ q \in Seq(STRING)
          BY <1>1, TreePaths, AboveIff
        <5>2. x \in Above(q) \cup {q}
          BY <1>1, <4>2, <5>1, PrefixIff
        <5>3. a \in Above(q)
          BY <5>1, <5>2, AboveIsTransitive
        <5> QED BY <1>1, <5>1, <5>3, PrefixIff
      <4> QED BY <1>4, <4>1, <4>2 DEF soleParents
    <3> QED BY <3>4, <3>5
  <2>2. CASE Len(d) < Len(x)
    <3>1. Len(a) <= Len(d)
      BY <1>1, <1>3, AboveIff
    <3>2. PICK p : OnWay(x, p) /\ OnWay(d, p) /\ Len(p) = Len(d)
      BY <1>1, <1>6, <2>2, <3>1
    <3>3. p = d
      BY <1>1, <3>2, AboveIff
    <3>4. p # x
      BY <1>1, <2>2, <3>3
    <3> QED BY <1>2, <3>2, <3>3, <3>4
  <2> QED BY <1>1, <2>1, <2>2
<1> QED BY <1>5, <1>6

\* A directory keeps leading somewhere when deleteIfEmptyWithParents() takes
\* some directories away: the parents it leaves have another child.
LEMMA RemovalLeads ==
  ASSUME TypeOK, TreeIsClosed, NEW d \in dirs, Children(d) = {},
         NEW c \in dirs \ ({d} \cup soleParents(d)),
         ~\E m \in DOMAIN nodes : c \in Above(m)
  PROVE  \E e \in dirs \ ({d} \cup soleParents(d)) :
           Pending(ForPath("deleteIfEmpty", e)) /\ c \in Above(e) \cup {e}
<1> DEFINE R == {d} \cup soleParents(d)
<1>1. d \in Seq(STRING) /\ d # <<>> /\ c \in Seq(STRING) /\ c # <<>>
  BY TreePaths
<1>2. R \subseteq Above(d) \cup {d} /\ c \notin R
  BY DEF soleParents
<1>3. PICK e \in dirs : Pending(ForPath("deleteIfEmpty", e)) /\ c \in Above(e) \cup {e}
  BY DEF TreeIsClosed, Leads
<1>4. CASE e \notin R
  BY <1>3, <1>4
<1>5. CASE e \in R
  <2>1. c \in Above(d)
    <3>1. e \in Above(d) \cup {d} /\ c # e
      BY <1>2, <1>5
    <3> QED BY <1>1, <1>3, <3>1, AboveIsTransitive
  <2>2. PICK q \in Above(d) : IsPrefix(c, q) /\ \E x, y \in Children(q) : x # y
    BY <1>2, <2>1 DEF soleParents
  <2>3. q \in Seq(STRING) /\ q # <<>> /\ Len(q) \in Nat
    BY <1>1, <2>2, AboveIff, EmptySeq
  <2>4. PICK z \in Children(q) : z \notin Above(d) \cup {d}
    <3>1. PICK x \in Children(q), y \in Children(q) : x # y
      BY <2>2
    <3>2. Len(x) = Len(y)
      BY <2>3, ChildrenAreBelow
    <3>3. ~(x \in Above(d) \cup {d} /\ y \in Above(d) \cup {d})
      BY <1>1, <3>1, <3>2, AboveOfLength
    <3> QED BY <3>3
  <2>5. z \in dirs \cup DOMAIN nodes /\ z \in Seq(STRING) /\ q \in Above(z)
    BY <2>3, ChildrenAreBelow, TreePaths
  <2>6. c \in Above(z)
    <3>1. c \in Above(q) \cup {q}
      BY <1>1, <2>2, <2>3, PrefixIff
    <3> QED BY <2>5, <3>1, AboveIsTransitive
  <2>7. z \in dirs /\ ~\E m \in DOMAIN nodes : z \in Above(m)
    <3>1. ASSUME NEW m \in DOMAIN nodes, z \in Above(m) PROVE FALSE
      <4>1. c \in Above(m)
        BY <2>6, <3>1, TreePaths, AboveIsTransitive
      <4> QED BY <4>1
    <3> QED BY <2>5, <2>6, <3>1
  <2>8. PICK f \in dirs : Pending(ForPath("deleteIfEmpty", f)) /\ z \in Above(f) \cup {f}
    BY <2>7 DEF TreeIsClosed, Leads
  <2>9. f \in Seq(STRING)
    BY TreePaths
  <2>10. f \notin R
    <3>1. ASSUME f \in Above(d) \cup {d} PROVE FALSE
      <4>1. z \in Above(d) \cup {d}
        BY <1>1, <2>8, <3>1, AboveIsTransitive
      <4> QED BY <2>4, <4>1
    <3> QED BY <1>2, <3>1
  <2>11. c \in Above(f)
    BY <2>6, <2>8, <2>9, AboveIsTransitive
  <2> QED BY <2>8, <2>10, <2>11
<1> QED BY <1>4, <1>5

\* What a directory with children relies on is not only its own removal.
LEMMA ParentLeads ==
  ASSUME TypeOK, TreeIsClosed, NEW d \in dirs, Children(d) # {},
         NEW c \in Above(d) \cup {d}, ~\E m \in DOMAIN nodes : c \in Above(m)
  PROVE  \E e \in dirs \ {d} : Pending(ForPath("deleteIfEmpty", e)) /\ c \in Above(e)
<1>1. d \in Seq(STRING) /\ d # <<>> /\ Len(d) \in Nat
  BY TreePaths
<1>2. PICK x \in Children(d) : TRUE
  OBVIOUS
<1>3. x \in dirs \cup DOMAIN nodes /\ d \in Above(x) /\ x \in Seq(STRING)
  BY <1>1, ChildrenAreBelow, TreePaths
<1>4. c \in Above(x)
  BY <1>3, AboveIsTransitive
<1>5. x \in dirs /\ ~\E m \in DOMAIN nodes : x \in Above(m)
  <2>1. ASSUME NEW m \in DOMAIN nodes, x \in Above(m) PROVE FALSE
    <3>1. c \in Above(m)
      BY <1>4, <2>1, TreePaths, AboveIsTransitive
    <3> QED BY <3>1
  <2> QED BY <1>3, <1>4, <2>1
<1>6. PICK e \in dirs : Pending(ForPath("deleteIfEmpty", e)) /\ x \in Above(e) \cup {e}
  BY <1>5 DEF TreeIsClosed, Leads
<1>7. e \in Seq(STRING)
  BY TreePaths
<1>8. c \in Above(e) /\ d \in Above(e)
  BY <1>3, <1>4, <1>6, <1>7, AboveIsTransitive
<1>9. e # d
  BY <1>7, <1>8, AboveIff
<1> QED BY <1>6, <1>8, <1>9

\* deleteIfEmptyWithParents() removes a directory together with all above it that
\* lead to nothing else: those that are left still lead to a node.
LEMMA ClosedAfterDeleteIfEmpty ==
  ASSUME TypeOK, TreeIsClosed, NEW d, posted[1] = ForPath("deleteIfEmpty", d),
         QueueStep(1, <<>>), nodes' = nodes,
         dirs' = IF d \in dirs /\ Children(d) = {} THEN dirs \ ({d} \cup soleParents(d)) ELSE dirs
  PROVE  TreeIsClosed'
<1>1. ASSUME NEW e, e # d, Pending(ForPath("deleteIfEmpty", e))
      PROVE Pending(ForPath("deleteIfEmpty", e))'
  BY <1>1, EventNames, QueueKeeps
<1>2. CASE d \in dirs /\ Children(d) = {}
  <2> DEFINE R == {d} \cup soleParents(d)
  <2>1. dirs' = dirs \ R
    BY <1>2
  <2>2. ASSUME NEW x \in dirs' \cup DOMAIN nodes' PROVE Above(x) \subseteq dirs'
    <3>1. x \in dirs \cup DOMAIN nodes /\ x \notin R
      <4>1. R \subseteq dirs
        BY <1>2 DEF soleParents, TreeIsClosed
      <4> QED BY <2>1, <4>1 DEF TypeOK
    <3>2. Above(x) \subseteq dirs
      BY <3>1 DEF TreeIsClosed
    <3>3. \A a \in Above(x) : a \notin R
      BY <1>2, <3>1, RemovedIsAlone
    <3> QED BY <2>1, <3>2, <3>3
  <2>3. ASSUME NEW c \in dirs' PROVE Leads(c)'
    <3>1. CASE \E m \in DOMAIN nodes : c \in Above(m)
      BY <3>1 DEF Leads
    <3>2. CASE ~\E m \in DOMAIN nodes : c \in Above(m)
      <4>1. PICK e \in dirs \ R : Pending(ForPath("deleteIfEmpty", e)) /\ c \in Above(e) \cup {e}
        BY <1>2, <2>1, <3>2, RemovalLeads
      <4>2. e \in dirs' /\ Pending(ForPath("deleteIfEmpty", e))'
        BY <1>1, <2>1, <4>1
      <4> QED BY <4>1, <4>2 DEF Leads
    <3> QED BY <3>1, <3>2
  <2> QED BY <2>2, <2>3 DEF TreeIsClosed
<1>3. CASE ~(d \in dirs /\ Children(d) = {})
  <2>1. dirs' = dirs
    BY <1>3
  <2>2. ASSUME NEW c \in dirs PROVE Leads(c)'
    <3>1. CASE \E m \in DOMAIN nodes : c \in Above(m)
      BY <3>1 DEF Leads
    <3>2. CASE ~\E m \in DOMAIN nodes : c \in Above(m)
      <4>1. PICK e \in dirs : Pending(ForPath("deleteIfEmpty", e)) /\ c \in Above(e) \cup {e}
        BY <3>2 DEF TreeIsClosed, Leads
      <4>2. PICK f \in dirs \ {d} : Pending(ForPath("deleteIfEmpty", f)) /\ c \in Above(f) \cup {f}
        <5>1. CASE e # d
          BY <4>1, <5>1
        <5>2. CASE e = d
          BY <1>3, <3>2, <4>1, <5>2, ParentLeads
        <5> QED BY <5>1, <5>2
      <4>3. f \in dirs' /\ Pending(ForPath("deleteIfEmpty", f))'
        BY <1>1, <2>1, <4>2
      <4> QED BY <4>2, <4>3 DEF Leads
    <3> QED BY <3>1, <3>2
  <2> QED BY <2>1, <2>2 DEF TreeIsClosed
<1> QED BY <1>2, <1>3

\* A deleted node leaves the check of its parent behind.
LEMMA ClosedAfterDeleteNode ==
  ASSUME TypeOK, TreeIsClosed, NEW m \in Mounts, posted[1] = ForPath("deleteNode", m),
         QueueStep(1, <<ForPath("deleteIfEmpty", Front(m))>>),
         DOMAIN nodes' = DOMAIN nodes \ {m}, m \in DOMAIN nodes, dirs' = dirs
  PROVE  TreeIsClosed'
<1>1. ASSUME NEW e, Pending(ForPath("deleteIfEmpty", e))
      PROVE Pending(ForPath("deleteIfEmpty", e))'
  <2>1. ForPath("deleteIfEmpty", e).type # ForPath("deleteNode", m).type
    BY EventNames
  <2> QED BY <1>1, <2>1, QueueKeeps
<1>2. Pending(ForPath("deleteIfEmpty", Front(m)))'
  BY QueuePosts
<1>3. ASSUME NEW c \in dirs PROVE Leads(c)'
  <2>1. CASE \E n \in DOMAIN nodes \ {m} : c \in Above(n)
    BY <2>1 DEF Leads
  <2>2. CASE \E e \in dirs : Pending(ForPath("deleteIfEmpty", e)) /\ c \in Above(e) \cup {e}
    BY <1>1, <2>2 DEF Leads
  <2>3. CASE c \in Above(m)
    <3>1. Front(m) \in Above(m) /\ c \in Above(Front(m)) \cup {Front(m)}
      BY <2>3, MountPaths, FrontIsAbove
    <3>2. Front(m) \in dirs
      BY <3>1 DEF TreeIsClosed
    <3> QED BY <1>2, <3>1, <3>2 DEF Leads
  <2> QED BY <2>1, <2>2, <2>3 DEF TreeIsClosed, Leads
<1> QED BY <1>3 DEF TreeIsClosed

\* The directories created for a mount point lead to it.
LEMMA ClosedAfterMount ==
  ASSUME TypeOK, TreeIsClosed, NEW c, NEW at, MountsAt(c, at),
         \A e : Pending(ForPath("deleteIfEmpty", e)) => Pending(ForPath("deleteIfEmpty", e))'
  PROVE  TreeIsClosed'
<1>1. DOMAIN nodes' = DOMAIN nodes \cup {at} /\ at \in Mounts
  BY DEF MountsAt
<1>2. CASE at \in DOMAIN nodes
  <2>1. dirs' = dirs /\ DOMAIN nodes' = DOMAIN nodes
    BY <1>2 DEF MountsAt
  <2> QED BY <2>1 DEF TreeIsClosed, Leads
<1>3. CASE at \notin DOMAIN nodes
  <2>1. dirs' = dirs \cup Above(at)
    BY <1>3 DEF MountsAt
  <2>2. ASSUME NEW x \in dirs' \cup DOMAIN nodes' PROVE Above(x) \subseteq dirs'
    <3>1. CASE x \in dirs \cup DOMAIN nodes
      BY <2>1, <3>1 DEF TreeIsClosed
    <3>2. CASE x \in Above(at) \cup {at}
      BY <1>1, <2>1, <3>2, MountPaths, AboveIsTransitive
    <3> QED BY <1>1, <2>1, <3>1, <3>2
  <2>3. ASSUME NEW x \in dirs' PROVE Leads(x)'
    <3>1. CASE x \in Above(at)
      BY <1>1, <3>1 DEF Leads
    <3>2. CASE x \in dirs
      BY <1>1, <2>1, <3>2 DEF TreeIsClosed, Leads
    <3> QED BY <2>1, <3>1, <3>2
  <2> QED BY <2>2, <2>3 DEF TreeIsClosed
<1> QED BY <1>2, <1>3

\* A step that touches neither the tree nor the removals keeps it closed.
LEMMA ClosedAfterElse ==
  ASSUME TypeOK, TreeIsClosed, DOMAIN nodes' = DOMAIN nodes, dirs' = dirs,
         \A e : Pending(ForPath("deleteIfEmpty", e)) => Pending(ForPath("deleteIfEmpty", e))'
  PROVE  TreeIsClosed'
  BY DEF TreeIsClosed, Leads

(***************************************************************************)
(* The connections of a node.                                              *)
(***************************************************************************)
\* QList::removeOne() of a list without repetitions.
LEMMA RemoveOne ==
  ASSUME NEW s \in Seq(Conns), NEW c \in Conns,
         \A i, j \in DOMAIN s : s[i] = s[j] => i = j,
         NEW r, r = removeOne(s, c)
  PROVE  /\ r \in Seq(Conns)
         /\ \A i \in DOMAIN r : r[i] # c /\ \E j \in DOMAIN s : s[j] = r[i]
         /\ \A j \in DOMAIN s : s[j] # c => \E i \in DOMAIN r : r[i] = s[j]
         /\ \A i, j \in DOMAIN r : r[i] = r[j] => i = j
         /\ r = <<>> => s = <<>> \/ s = <<c>>
<1>1. CASE ~\E i \in DOMAIN s : s[i] = c
  <2>1. r = s
    BY <1>1 DEF removeOne, Contains
  <2> QED BY <1>1, <2>1
<1>2. CASE \E i \in DOMAIN s : s[i] = c
  <2>1. \E i \in DOMAIN s : s[i] = c /\ \A j \in 1..i - 1 : s[j] # c
    <3>1. PICK i \in DOMAIN s : s[i] = c
      BY <1>2
    <3>2. \A j \in 1..i - 1 : j \in DOMAIN s /\ j # i
      BY <3>1
    <3> QED BY <3>1, <3>2
  <2> DEFINE k == CHOOSE i \in DOMAIN s : s[i] = c /\ \A j \in 1..i - 1 : s[j] # c
  <2>2. k \in DOMAIN s /\ s[k] = c
    BY <2>1
  <2>3. r = RemoveAt(s, k)
    <3>1. Contains(s, c)
      BY <1>2 DEF Contains
    <3> QED BY <3>1 DEF removeOne
  <2> HIDE DEF k
  <2>4. IsInjective(s)
    BY DEF IsInjective
  <2>5. /\ r \in Seq(Conns) /\ Len(r) = Len(s) - 1
        /\ \A i \in DOMAIN r : \E j \in DOMAIN s : j # k /\ s[j] = r[i]
        /\ \A j \in DOMAIN s : j # k => \E i \in DOMAIN r : r[i] = s[j]
        /\ IsInjective(r)
    BY <2>2, <2>3, <2>4, RemoveAtElements
  <2>6. \A i \in DOMAIN r : r[i] # c /\ \E j \in DOMAIN s : s[j] = r[i]
    BY <2>2, <2>5
  <2>7. \A j \in DOMAIN s : s[j] # c => \E i \in DOMAIN r : r[i] = s[j]
    BY <2>2, <2>5
  <2>8. ASSUME r = <<>> PROVE s = <<c>>
    <3>1. Len(r) = 0
      BY <2>8, EmptySeq
    <3>2. Len(s) = 1 /\ k = 1
      <4>1. \A p, q, l \in Int : p = 0 /\ p = q - 1 /\ l \in 1..q => q = 1 /\ l = 1
        OBVIOUS
      <4>2. Len(r) \in Int /\ Len(s) \in Int /\ k \in Int /\ k \in 1..Len(s)
        BY <2>2, <3>1
      <4> QED BY <2>5, <3>1, <4>1, <4>2, Zenon
    <3>3. s[1] = c
      BY <2>2, <3>2
    <3>4. <<c>> \in Seq(Conns) /\ Len(<<c>>) = 1 /\ <<c>>[1] = c
      OBVIOUS
    <3>5. \A i \in 1..Len(s) : s[i] = <<c>>[i]
      BY <3>2, <3>3
    <3> QED BY <3>2, <3>4, <3>5, SeqEqual
  <2> QED BY <2>5, <2>6, <2>7, <2>8 DEF IsInjective
<1> QED BY <1>1, <1>2

(***************************************************************************)
(* What keeps a part of the invariant.                                     *)
(***************************************************************************)
\* Mounted connections stay where they are, and what has raced has raced.
MountsAreKept ==
  /\ \A x \in Conns : mountPoint[x] # NotMounted => mountPoint'[x] = mountPoint[x]
  /\ raced \subseteq raced'

\* An event that is neither handled nor posted is pending as it was.
LEMMA QueueNeither ==
  ASSUME NEW n, NEW more, QueueStep(n, more), NEW e, n = 1 => posted[1] # e, more # <<e>>
  PROVE  Pending(e)' <=> Pending(e)
  BY QueueKeeps, QueueNothingElse

\* An action about other connections keeps the login of this one.
LEMMA LogsInOnceKept ==
  ASSUME NEW n, NEW more, QueueStep(n, more), NEW c, LogsInOnce(c),
         \A e \in LoginEvents(c) : more # <<e>>,
         login'[c] = login[c], life'[c] = "absent" => life[c] = "absent",
         mountPoint'[c] = mountPoint[c], c \in raced' => c \in raced
  PROVE  LogsInOnce(c)'
<1>1. \A e \in LoginEvents(c) : Pending(e)' => Pending(e)
  BY QueueNothingElse
<1>2. AtMostOne(LoginEvents(c))'
  BY QueueAtMostOne DEF LogsInOnce
<1>3. /\ ForConn("login", c) \in LoginEvents(c) /\ ForConn("accepted", c) \in LoginEvents(c)
      /\ ForConn("refused", c) \in LoginEvents(c)
  BY DEF LoginEvents
<1> QED BY <1>1, <1>2, <1>3 DEF LogsInOnce, LoginEvents

\* A node whose list is not touched lists what it has to.
LEMMA ListsKept ==
  ASSUME TypeOK, NEW m \in DOMAIN nodes, ListsItsConnections(m), nodes'[m] = nodes[m], MountsAreKept,
         \A i \in DOMAIN nodes[m] : life'[nodes[m][i]] = "deleted" => life[nodes[m][i]] = "deleted"
  PROVE  ListsItsConnections(m)'
<1>1. ASSUME NEW i \in DOMAIN nodes[m] PROVE mountPoint'[nodes[m][i]] = m
  <2>1. nodes[m][i] \in Conns /\ m # NotMounted
    BY MountPaths DEF TypeOK, NotMounted
  <2> QED BY <2>1 DEF ListsItsConnections, MountsAreKept
<1> QED BY <1>1 DEF ListsItsConnections

\* A node neither emptied nor deleted dies as it did.
LEMMA DiesKept ==
  ASSUME NEW n, NEW more, QueueStep(n, more), NEW m, DiesOnce(m),
         n = 1 => posted[1] # ForPath("deleteNode", m), more # <<ForPath("deleteNode", m)>>,
         m \in dying' <=> m \in dying, m \in DOMAIN nodes' <=> m \in DOMAIN nodes,
         nodes'[m] = nodes[m], raced \subseteq raced'
  PROVE  DiesOnce(m)'
<1>1. Pending(ForPath("deleteNode", m))' <=> Pending(ForPath("deleteNode", m))
  BY QueueNeither
<1>2. AtMostOne({ForPath("deleteNode", m)})'
  BY QueueAtMostOne DEF DiesOnce
<1> QED BY <1>1, <1>2 DEF DiesOnce

\* A mount point that has seen a race has seen it for ever.
LEMMA RacedKept ==
  ASSUME TypeOK, \A c \in Conns : LogsInOnce(c), MountsAreKept, NEW m, Raced(m)
  PROVE  Raced(m)'
  BY DEF Raced, MountsAreKept, LogsInOnce, TypeOK

\* A mount point that is not touched is notified as it was.
LEMMA NotifiesKept ==
  ASSUME TypeOK, \A c \in Conns : LogsInOnce(c), MountsAreKept,
         NEW n, NEW more, QueueStep(n, more), NEW m, Notifies(m),
         n = 1 => posted[1] # ForPath("mounted", m), more # <<ForPath("mounted", m)>>,
         m \in DOMAIN nodes' <=> m \in DOMAIN nodes, notified'[m] <=> notified[m]
  PROVE  Notifies(m)'
<1> SUFFICES ASSUME ~Raced(m)' PROVE Notifies(m)'
  BY DEF Notifies
<1>1. ~Raced(m)
  BY RacedKept
<1>2. Pending(ForPath("mounted", m))' <=> Pending(ForPath("mounted", m))
  BY QueueNeither
<1>3. Before(ForPath("mounted", m), ForPath("deleteNode", m))'
  <2>1. ForPath("mounted", m) # ForPath("deleteNode", m)
    BY DEF ForPath
  <2> QED BY <1>1, <2>1, QueueBefore DEF Notifies
<1> QED BY <1>1, <1>2, <1>3 DEF Notifies

(***************************************************************************)
(* Steps that do not touch the tree.                                       *)
(***************************************************************************)
ConnTypes == {"login", "accepted", "refused", "deleteConn"}
Calm(n, more) ==
  /\ QueueStep(n, more)
  /\ UNCHANGED <<mountPoint, treeVars, notified>>
  /\ n = 1 => posted[1].type \in ConnTypes
  /\ \A e : more = <<e>> => e.type \in ConnTypes
  /\ \A x \in Conns : /\ life'[x] = "deleted" => life[x] = "deleted"
                      /\ life'[x] = "registered" => life[x] = "registered" \/ mountPoint[x] = NotMounted

\* What neither mounts nor deletes keeps the agreement of tree and events.
LEMMA CalmKeepsTree ==
  ASSUME IInv, NEW n, NEW more, Calm(n, more)
  PROVE  TreeAgrees'
<1>1. \A x, t : t \in {"deleteNode", "mounted", "deleteIfEmpty"} =>
        (n = 1 => posted[1] # ForPath(t, x)) /\ more # <<ForPath(t, x)>>
  BY EventNames DEF Calm, ConnTypes
<1>2. QueueStep(n, more) /\ MountsAreKept
  BY DEF Calm, treeVars, MountsAreKept
<1>3. nodes' = nodes /\ dying' = dying /\ dirs' = dirs /\ raced' = raced
      /\ mountPoint' = mountPoint /\ notified' = notified
  BY DEF Calm, treeVars
<1>4. ASSUME NEW m \in DOMAIN nodes PROVE ListsItsConnections(m)'
  <2>1. \A i \in DOMAIN nodes[m] : nodes[m][i] \in Conns
    BY DEF IInv, TypeOK
  <2> QED BY <1>2, <1>3, <2>1, ListsKept DEF IInv, TreeAgrees, Calm
<1>5. ASSUME NEW m \in Mounts PROVE DiesOnce(m)'
  BY <1>1, <1>2, <1>3, DiesKept DEF IInv, TreeAgrees
<1>6. ASSUME NEW m \in Mounts PROVE Notifies(m)'
  BY <1>1, <1>2, <1>3, NotifiesKept DEF IInv, TreeAgrees
<1>7. TreeIsClosed'
  <2>1. \A e : Pending(ForPath("deleteIfEmpty", e)) => Pending(ForPath("deleteIfEmpty", e))'
    BY <1>1, <1>2, QueueKeeps
  <2> QED BY <1>3, <2>1, ClosedAfterElse DEF IInv, TreeAgrees
<1>8. ASSUME NEW c \in Conns PROVE Listed(c)'
  BY <1>3 DEF IInv, TreeAgrees, Listed, Calm
<1> QED BY <1>3, <1>4, <1>5, <1>6, <1>7, <1>8 DEF TreeAgrees

(***************************************************************************)
(* The posted notification of a mount, and the removal of directories.     *)
(***************************************************************************)
LEMMA NotifyKeepsTree ==
  ASSUME IInv, NEW m \in Mounts, QueueStep(1, <<>>), posted[1] = ForPath("mounted", m),
         UNCHANGED <<life, mountPoint, treeVars>>, notified' = [notified EXCEPT ![m] = TRUE]
  PROVE  TreeAgrees'
<1>1. \A x, t : posted[1] = ForPath(t, x) => t = "mounted" /\ x = m
  BY EventNames
<1>2. /\ nodes' = nodes /\ dying' = dying /\ dirs' = dirs /\ raced' = raced
      /\ mountPoint' = mountPoint /\ life' = life /\ MountsAreKept
  BY DEF treeVars, MountsAreKept
<1>3. ASSUME NEW x \in DOMAIN nodes PROVE ListsItsConnections(x)'
  BY <1>2, <1>3, ListsKept DEF IInv, TreeAgrees
<1>4. ASSUME NEW x \in Mounts PROVE DiesOnce(x)'
  BY <1>1, <1>2, DiesKept DEF IInv, TreeAgrees
<1>5. ASSUME NEW x \in Mounts PROVE Notifies(x)'
  <2>1. CASE x # m
    <3>1. notified'[x] <=> notified[x]
      BY <2>1 DEF IInv, TypeOK
    <3>3. posted[1] # ForPath("mounted", x) /\ <<>> # <<ForPath("mounted", x)>>
      BY <1>1, <2>1
    <3>2. Notifies(x)
      BY DEF IInv, TreeAgrees
    <3> QED BY <1>2, <3>1, <3>2, <3>3, NotifiesKept DEF IInv
  <2>2. CASE x = m
    <3>1. Pending(ForPath("mounted", m))
      <4>1. 1 \in DOMAIN posted
        BY DEF QueueStep
      <4> QED BY <4>1 DEF Pending
    <3>2. notified'[m]
      BY DEF IInv, TypeOK
    <3>3. Before(ForPath("mounted", m), ForPath("deleteNode", m))
            => Before(ForPath("mounted", m), ForPath("deleteNode", m))'
      <4>1. ForPath("mounted", m) # ForPath("deleteNode", m)
        BY DEF ForPath
      <4> QED BY <4>1, QueueBefore
    <3>4. Raced(m) => Raced(m)'
      BY <1>2, RacedKept DEF IInv
    <3> QED BY <1>2, <2>2, <3>1, <3>2, <3>3, <3>4 DEF IInv, TreeAgrees, Notifies
  <2> QED BY <2>1, <2>2
<1>6. TreeIsClosed'
  <2>1. \A e : Pending(ForPath("deleteIfEmpty", e)) => Pending(ForPath("deleteIfEmpty", e))'
    BY <1>1, QueueKeeps
  <2> QED BY <1>2, <2>1, ClosedAfterElse DEF IInv, TreeAgrees
<1>7. ASSUME NEW c \in Conns PROVE Listed(c)'
  BY <1>2 DEF IInv, TreeAgrees, Listed
<1> QED BY <1>2, <1>3, <1>4, <1>5, <1>6, <1>7 DEF TreeAgrees

\* The removal of empty directories keeps it.
LEMMA DeleteIfEmptyKeepsTree ==
  ASSUME IInv, NEW d, QueueStep(1, <<>>), posted[1] = ForPath("deleteIfEmpty", d),
         UNCHANGED <<life, mountPoint, nodes, dying, raced, notified>>,
         dirs' = IF d \in dirs /\ Children(d) = {} THEN dirs \ ({d} \cup soleParents(d)) ELSE dirs
  PROVE  TreeAgrees'
<1>1. \A x, t : posted[1] = ForPath(t, x) => t = "deleteIfEmpty"
  BY EventNames
<1>2. MountsAreKept
  BY DEF MountsAreKept
<1>3. ASSUME NEW x \in DOMAIN nodes PROVE ListsItsConnections(x)'
  BY <1>2, <1>3, ListsKept DEF IInv, TreeAgrees
<1>4. ASSUME NEW x \in Mounts PROVE DiesOnce(x)'
  BY <1>1, DiesKept DEF IInv, TreeAgrees
<1>5. ASSUME NEW x \in Mounts PROVE Notifies(x)'
  BY <1>1, <1>2, NotifiesKept DEF IInv, TreeAgrees
<1>6. TreeIsClosed'
  BY ClosedAfterDeleteIfEmpty DEF IInv, TreeAgrees
<1>7. ASSUME NEW c \in Conns PROVE Listed(c)'
  BY DEF IInv, TreeAgrees, Listed
<1> QED BY <1>3, <1>4, <1>5, <1>6, <1>7 DEF TreeAgrees

(***************************************************************************)
(* The end of a node.                                                      *)
(***************************************************************************)
LEMMA DeleteNodeKeepsTree ==
  ASSUME IInv, NEW m \in Mounts, m \in dying, posted[1] = ForPath("deleteNode", m),
         QueueStep(1, <<ForPath("deleteIfEmpty", Front(m))>>),
         UNCHANGED <<life, mountPoint, dirs, raced>>,
         nodes' = [x \in DOMAIN nodes \ {m} |-> nodes[x]], dying' = dying \ {m},
         notified' = [notified EXCEPT ![m] = FALSE]
  PROVE  TreeAgrees'
<1> DEFINE more == <<ForPath("deleteIfEmpty", Front(m))>>
<1>1. /\ \A x, t : posted[1] = ForPath(t, x) => t = "deleteNode" /\ x = m
      /\ \A x, t : more = <<ForPath(t, x)>> => t = "deleteIfEmpty"
  BY EventNames
<1>2. m \in DOMAIN nodes /\ MountsAreKept
  BY DEF IInv, TypeOK, MountsAreKept
<1>3. /\ DOMAIN nodes' = DOMAIN nodes \ {m}
      /\ \A x \in Mounts \ {m} : /\ x \in DOMAIN nodes' <=> x \in DOMAIN nodes
                                 /\ x \in dying' <=> x \in dying
                                 /\ notified'[x] <=> notified[x]
      /\ \A x \in DOMAIN nodes' : nodes'[x] = nodes[x]
      /\ ~notified'[m]
  BY DEF IInv, TypeOK
<1>4. ASSUME NEW x \in DOMAIN nodes' PROVE ListsItsConnections(x)'
  BY <1>2, <1>3, ListsKept DEF IInv, TreeAgrees
<1>5. ASSUME NEW x \in Mounts, x # m PROVE DiesOnce(x)'
  <2>1. CASE x \in DOMAIN nodes
    <3>1. /\ posted[1] # ForPath("deleteNode", x) /\ more # <<ForPath("deleteNode", x)>>
          /\ nodes'[x] = nodes[x]
      BY <1>1, <1>3, <1>5, <2>1
    <3>2. DiesOnce(x)
      BY DEF IInv, TreeAgrees
    <3> QED BY <1>3, <1>5, <3>1, <3>2, DiesKept
  <2>2. CASE x \notin DOMAIN nodes
    <3>1. x \notin dying /\ x \notin dying' /\ x \notin DOMAIN nodes'
      BY <1>3, <2>2 DEF IInv, TypeOK
    <3>2. Pending(ForPath("deleteNode", x))' <=> Pending(ForPath("deleteNode", x))
      BY <1>1, <1>5, QueueNeither
    <3>3. AtMostOne({ForPath("deleteNode", x)})'
      BY <1>1, QueueAtMostOne DEF IInv, TreeAgrees, DiesOnce
    <3> QED BY <3>1, <3>2, <3>3 DEF IInv, TreeAgrees, DiesOnce
  <2> QED BY <2>1, <2>2
<1>6. DiesOnce(m)'
  <2>1. AtMostOne({ForPath("deleteNode", m)})
    BY DEF IInv, TreeAgrees, DiesOnce
  <2>2. AtMostOne({ForPath("deleteNode", m)})'
    BY <1>1, <2>1, QueueAtMostOne
  <2>3. ~Pending(ForPath("deleteNode", m))'
    BY <1>1, <2>1, QueueNoneLeft
  <2> QED BY <1>3, <2>2, <2>3 DEF DiesOnce
<1>7. ASSUME NEW x \in Mounts, x # m PROVE Notifies(x)'
  <2>1. posted[1] # ForPath("mounted", x) /\ more # <<ForPath("mounted", x)>>
    BY <1>1
  <2>2. Notifies(x)
    BY DEF IInv, TreeAgrees
  <2> QED BY <1>2, <1>3, <1>7, <2>1, <2>2, NotifiesKept DEF IInv
<1>8. Notifies(m)'
  <2>1. ASSUME ~Raced(m) PROVE ~Pending(ForPath("mounted", m))'
    <3>1. Before(ForPath("mounted", m), ForPath("deleteNode", m))
      BY <2>1 DEF IInv, TreeAgrees, Notifies
    <3>2. 1 \in DOMAIN posted /\ \A j \in DOMAIN posted : ~(j < 1)
      BY DEF QueueStep
    <3>3. ~Pending(ForPath("mounted", m))
      BY <3>1, <3>2 DEF Before, Pending
    <3> QED BY <1>1, <3>3, QueueNothingElse
  <2>2. Raced(m) => Raced(m)'
    BY <1>2, RacedKept DEF IInv
  <2>3. ASSUME ~Raced(m) PROVE Before(ForPath("mounted", m), ForPath("deleteNode", m))'
    BY <2>1, <2>3 DEF Before, Pending
  <2> QED BY <1>3, <2>1, <2>2, <2>3 DEF Notifies
<1>9. TreeIsClosed'
  BY <1>2, <1>3, ClosedAfterDeleteNode DEF IInv, TreeAgrees
<1>10. ASSUME NEW c \in Conns PROVE Listed(c)'
  <2> SUFFICES ASSUME c \notin raced, life[c] = "registered", mountPoint[c] # NotMounted
               PROVE  mountPoint[c] \in DOMAIN nodes' /\ Contains(nodes'[mountPoint[c]], c)
    BY DEF Listed
  <2>1. mountPoint[c] \in DOMAIN nodes /\ Contains(nodes[mountPoint[c]], c)
    BY DEF IInv, TreeAgrees, Listed
  <2>2. mountPoint[c] # m
    <3>1. \A i \in DOMAIN nodes[m] : nodes[m][i] # c
      BY DEF IInv, TreeAgrees, DiesOnce
    <3>2. nodes[m] \in Seq(Conns)
      BY <1>2 DEF IInv, TypeOK
    <3> QED BY <2>1, <3>1, <3>2 DEF Contains
  <2> QED BY <1>3, <2>1, <2>2
<1> QED BY <1>4, <1>5, <1>6, <1>7, <1>8, <1>9, <1>10 DEF TreeAgrees

(***************************************************************************)
(* A mount.                                                                *)
(***************************************************************************)
LEMMA MountKeepsTree ==
  ASSUME IInv, NEW c \in Conns, NEW at, MountsAt(c, at), mountPoint[c] = NotMounted,
         life[c] = "registered", UNCHANGED <<life, notified>>,
         QueueStep(1, <<ForPath("mounted", at)>>), posted[1].type \in ConnTypes
  PROVE  TreeAgrees'
<1> DEFINE more == <<ForPath("mounted", at)>>
<1>1. /\ \A x, t : t \in {"deleteNode", "mounted", "deleteIfEmpty"} => posted[1] # ForPath(t, x)
      /\ \A x, t : more = <<ForPath(t, x)>> => t = "mounted" /\ x = at
  BY EventNames DEF ConnTypes
<1>2. /\ at \in Mounts /\ DOMAIN nodes' = DOMAIN nodes \cup {at}
      /\ mountPoint'[c] = at /\ \A x \in Conns \ {c} : mountPoint'[x] = mountPoint[x]
      /\ dying' = dying
      /\ \A m \in DOMAIN nodes \ {at} : nodes'[m] = nodes[m]
      /\ nodes'[at] = IF at \in DOMAIN nodes THEN <<c>> \o nodes[at] ELSE <<c>>
  BY DEF MountsAt, IInv, TypeOK
<1>3. MountsAreKept
  BY <1>2 DEF MountsAreKept, MountsAt
<1>4. ASSUME NEW m \in DOMAIN nodes', m # at PROVE ListsItsConnections(m)'
  BY <1>2, <1>3, <1>4, ListsKept DEF IInv, TreeAgrees
<1>5. ASSUME at \in DOMAIN nodes
      PROVE /\ ListsItsConnections(at)' /\ DiesOnce(at)' /\ Contains(nodes'[at], c)
            /\ at \in DOMAIN nodes => \A x : Contains(nodes[at], x) => Contains(nodes'[at], x)
  <2> DEFINE r == nodes'[at]
  <2>1. ListsItsConnections(at) /\ nodes[at] \in Seq(Conns) /\ r = <<c>> \o nodes[at] /\ DiesOnce(at)
    BY <1>2, <1>5 DEF IInv, TypeOK, TreeAgrees
  <2>2. /\ r \in Seq(Conns) /\ r # <<>> /\ 1 \in DOMAIN r /\ r[1] = c
        /\ \A i \in DOMAIN nodes[at] : i + 1 \in DOMAIN r /\ r[i + 1] = nodes[at][i]
        /\ \A i \in DOMAIN r : i # 1 => i - 1 \in DOMAIN nodes[at] /\ r[i] = nodes[at][i - 1]
    <3>1. nodes[at] \in Seq(Conns) /\ r = <<c>> \o nodes[at]
      BY <2>1, Zenon
    <3> HIDE DEF r
    <3>2. r \in Seq(Conns) /\ r # <<>> /\ 1 \in DOMAIN r /\ r[1] = c
      BY <3>1, InFront
    <3>3. \A i \in DOMAIN nodes[at] : i + 1 \in DOMAIN r /\ r[i + 1] = nodes[at][i]
      BY <3>1, InFront
    <3>4. \A i \in DOMAIN r : i # 1 => i - 1 \in DOMAIN nodes[at] /\ r[i] = nodes[at][i - 1]
      BY <3>1, InFront
    <3> QED BY <3>2, <3>3, <3>4
  <2> HIDE DEF r
  <2>3. at # NotMounted
    BY <1>2, MountPaths DEF NotMounted
  <2>4. \A i \in DOMAIN nodes[at] : /\ mountPoint[nodes[at][i]] = at /\ nodes[at][i] # c
                                    /\ nodes[at][i] \in Conns /\ life[nodes[at][i]] # "deleted"
    BY <2>1, <2>3 DEF ListsItsConnections
  <2>5. ASSUME NEW i \in DOMAIN r PROVE mountPoint'[r[i]] = at /\ life'[r[i]] # "deleted"
    <3>1. CASE i = 1
      BY <1>2, <2>2, <3>1
    <3>2. CASE i - 1 \in DOMAIN nodes[at] /\ r[i] = nodes[at][i - 1]
      BY <1>2, <2>4, <3>2
    <3> QED BY <2>2, <3>1, <3>2
  <2>6. ASSUME NEW i \in DOMAIN r, NEW j \in DOMAIN r, r[i] = r[j] PROVE i = j
    <3>1. CASE i = 1 \/ j = 1
      BY <2>2, <2>4, <2>6, <3>1
    <3>2. CASE i # 1 /\ j # 1
      <4>1. i - 1 = j - 1
        BY <2>1, <2>2, <2>6, <3>2 DEF ListsItsConnections
      <4>2. i \in Int /\ j \in Int
        BY <2>2
      <4> QED BY <4>1, <4>2
    <3> QED BY <3>1, <3>2
  <2>7. ListsItsConnections(at)'
    BY <2>5, <2>6 DEF ListsItsConnections, r
  <2>8. Pending(ForPath("deleteNode", at))' <=> Pending(ForPath("deleteNode", at))
    BY <1>1, QueueNeither
  <2>9. AtMostOne({ForPath("deleteNode", at)})'
    BY <1>1, <2>1, QueueAtMostOne DEF DiesOnce
  <2>10. at \in dying => \A i \in DOMAIN r : r[i] \in raced'
    BY <2>1, <2>2 DEF DiesOnce, MountsAt
  <2>11. DiesOnce(at)'
    BY <1>2, <2>1, <2>2, <2>8, <2>9, <2>10 DEF DiesOnce, r
  <2>12. \A x : Contains(nodes[at], x) \/ x = c => Contains(nodes'[at], x)
    <3>1. \A x : Contains(nodes[at], x) <=> \E i \in DOMAIN nodes[at] : nodes[at][i] = x
      BY <2>1, Contained
    <3>2. \A x : Contains(r, x) <=> \E i \in DOMAIN r : r[i] = x
      BY <2>2, Contained
    <3> QED BY <2>2, <3>1, <3>2 DEF r
  <2> QED BY <2>7, <2>11, <2>12
<1>6. ASSUME at \notin DOMAIN nodes
      PROVE /\ ListsItsConnections(at)' /\ DiesOnce(at)' /\ Contains(nodes'[at], c)
            /\ at \in DOMAIN nodes => \A x : Contains(nodes[at], x) => Contains(nodes'[at], x)
  <2>1. nodes'[at] = <<c>>
    BY <1>2, <1>6
  <2>2. ListsItsConnections(at)'
    BY <1>2, <2>1 DEF ListsItsConnections
  <2>3. DiesOnce(at) /\ at \notin dying
    BY <1>2, <1>6 DEF IInv, TypeOK, TreeAgrees
  <2>4. Pending(ForPath("deleteNode", at))' <=> Pending(ForPath("deleteNode", at))
    BY <1>1, QueueNeither
  <2>5. AtMostOne({ForPath("deleteNode", at)})'
    BY <1>1, <2>3, QueueAtMostOne DEF DiesOnce
  <2>6. DiesOnce(at)'
    BY <1>2, <2>1, <2>3, <2>4, <2>5 DEF DiesOnce
  <2>7. Contains(nodes'[at], c)
    BY <2>1 DEF Contains
  <2> QED BY <1>6, <2>2, <2>6, <2>7
<1>7. ASSUME NEW m \in Mounts, m # at PROVE DiesOnce(m)'
  <2>1. CASE m \in DOMAIN nodes
    <3>1. /\ posted[1] # ForPath("deleteNode", m) /\ more # <<ForPath("deleteNode", m)>>
          /\ nodes'[m] = nodes[m] /\ raced \subseteq raced' /\ m \in DOMAIN nodes'
      BY <1>1, <1>2, <1>3, <1>7, <2>1 DEF MountsAreKept
    <3>2. DiesOnce(m)
      BY DEF IInv, TreeAgrees
    <3> QED BY <1>2, <2>1, <3>1, <3>2, DiesKept
  <2>2. CASE m \notin DOMAIN nodes
    <3>1. m \notin dying /\ m \notin dying' /\ m \notin DOMAIN nodes' /\ DiesOnce(m)
      BY <1>2, <1>7, <2>2 DEF IInv, TypeOK, TreeAgrees
    <3>2. Pending(ForPath("deleteNode", m))' <=> Pending(ForPath("deleteNode", m))
      BY <1>1, QueueNeither
    <3>3. AtMostOne({ForPath("deleteNode", m)})'
      BY <1>1, <3>1, QueueAtMostOne DEF DiesOnce
    <3> QED BY <3>1, <3>2, <3>3 DEF DiesOnce
  <2> QED BY <2>1, <2>2
<1>8. ASSUME NEW m \in Mounts, m # at PROVE Notifies(m)'
  <2>1. posted[1] # ForPath("mounted", m) /\ more # <<ForPath("mounted", m)>>
    BY <1>1, <1>8
  <2>2. Notifies(m) /\ (notified'[m] <=> notified[m]) /\ (m \in DOMAIN nodes' <=> m \in DOMAIN nodes)
    BY <1>2, <1>8 DEF IInv, TreeAgrees
  <2> QED BY <1>3, <2>1, <2>2, NotifiesKept DEF IInv
<1>9. Notifies(at)'
  <2> SUFFICES ASSUME ~Raced(at)' PROVE Notifies(at)'
    BY DEF Notifies
  <2>1. ~Raced(at)
    BY <1>3, RacedKept DEF IInv
  <2>2. at \notin dying
    BY <1>2 DEF Raced, MountsAt
  <2>3. ~Pending(ForPath("deleteNode", at)) /\ Notifies(at)
    BY <1>2, <2>2 DEF IInv, TreeAgrees, DiesOnce
  <2>4. Pending(ForPath("mounted", at))'
    BY QueuePosts
  <2>5. Before(ForPath("mounted", at), ForPath("deleteNode", at))'
    <3>1. ForPath("mounted", at) # ForPath("deleteNode", at)
      BY DEF ForPath
    <3> QED BY <2>1, <2>3, <3>1, QueueBefore DEF Notifies
  <2> QED BY <1>2, <2>4, <2>5 DEF Notifies
<1>10. TreeIsClosed'
  <2>1. \A e : Pending(ForPath("deleteIfEmpty", e)) => Pending(ForPath("deleteIfEmpty", e))'
    BY <1>1, QueueKeeps
  <2> QED BY <2>1, ClosedAfterMount DEF IInv, TreeAgrees
<1>11. /\ ListsItsConnections(at)' /\ DiesOnce(at)' /\ Contains(nodes'[at], c)
       /\ at \in DOMAIN nodes => \A x : Contains(nodes[at], x) => Contains(nodes'[at], x)
  BY <1>5, <1>6
<1>12. ASSUME NEW x \in Conns PROVE Listed(x)'
  <2>1. CASE x = c
    BY <1>2, <1>11, <2>1 DEF Listed
  <2>2. CASE x # c
    <3> SUFFICES ASSUME x \notin raced, life[x] = "registered", mountPoint[x] # NotMounted
                 PROVE  mountPoint[x] \in DOMAIN nodes' /\ Contains(nodes'[mountPoint[x]], x)
      BY <1>2, <1>3, <2>2 DEF Listed, MountsAreKept
    <3>1. mountPoint[x] \in DOMAIN nodes /\ Contains(nodes[mountPoint[x]], x)
      BY DEF IInv, TreeAgrees, Listed
    <3> QED BY <1>2, <1>11, <3>1
  <2> QED BY <2>1, <2>2
<1> QED BY <1>2, <1>4, <1>7, <1>8, <1>9, <1>10, <1>11, <1>12 DEF TreeAgrees

(***************************************************************************)
(* The end of a connection.                                                *)
(***************************************************************************)
\* The node a connection is removed from is its mount point, so at most one
\* node becomes empty.
emptied(c) ==
  {m \in {m \in DOMAIN nodes : Contains(nodes[m], c)} : nodes[m] = <<c>>} \ dying

\* A connection is in one node at most, so its end posts one deletion at most.
LEMMA EmptiedIsOne ==
  ASSUME IInv, NEW c \in Conns,
         NEW more, more = SetToSeq({ForPath("deleteNode", m) : m \in emptied(c)})
  PROVE  \/ emptied(c) = {} /\ more = <<>>
         \/ \E m \in Mounts : emptied(c) = {m} /\ more = <<ForPath("deleteNode", m)>>
<1>1. \A m \in emptied(c) : m \in DOMAIN nodes /\ m \in Mounts /\ mountPoint[c] = m
  <2> SUFFICES ASSUME NEW m \in emptied(c)
               PROVE  m \in DOMAIN nodes /\ m \in Mounts /\ mountPoint[c] = m
    OBVIOUS
  <2>1. m \in DOMAIN nodes /\ nodes[m] = <<c>>
    BY DEF emptied
  <2>2. 1 \in DOMAIN nodes[m] /\ nodes[m][1] = c
    BY <2>1
  <2> QED BY <2>1, <2>2 DEF IInv, TypeOK, TreeAgrees, ListsItsConnections
<1>2. CASE emptied(c) = {}
  <2>1. {ForPath("deleteNode", m) : m \in emptied(c)} = {}
    BY <1>2
  <2> QED BY <1>2, <2>1, SetToSeqOfOne
<1>3. CASE emptied(c) # {}
  <2>1. PICK m \in Mounts : emptied(c) = {m}
    BY <1>1, <1>3
  <2>2. {ForPath("deleteNode", x) : x \in emptied(c)} = {ForPath("deleteNode", m)}
    BY <2>1
  <2> QED BY <2>1, <2>2, SetToSeqOfOne
<1> QED BY <1>2, <1>3

\* The end of a connection keeps it: a node it empties is going to be deleted.
LEMMA DeleteConnKeepsTree ==
  ASSUME IInv, NEW c \in Conns, NEW more, QueueStep(1, more),
         posted[1] = ForConn("deleteConn", c),
         more = SetToSeq({ForPath("deleteNode", m) : m \in emptied(c)}),
         life' = [life EXCEPT ![c] = "deleted"], nodes' = without(c),
         dying' = dying \cup emptied(c),
         UNCHANGED <<mountPoint, dirs, raced, notified>>
  PROVE  TreeAgrees'
<1>1. /\ DOMAIN nodes' = DOMAIN nodes /\ life'[c] = "deleted"
      /\ \A x \in Conns \ {c} : life'[x] = life[x]
      /\ MountsAreKept
  BY DEF without, IInv, TypeOK, MountsAreKept
<1>2. ASSUME NEW m \in DOMAIN nodes
      PROVE  /\ nodes'[m] \in Seq(Conns)
             /\ \A i \in DOMAIN nodes'[m] : /\ nodes'[m][i] # c /\ nodes'[m][i] \in Conns
                                            /\ \E j \in DOMAIN nodes[m] : nodes[m][j] = nodes'[m][i]
             /\ \A j \in DOMAIN nodes[m] :
                  nodes[m][j] # c => \E i \in DOMAIN nodes'[m] : nodes'[m][i] = nodes[m][j]
             /\ \A i, j \in DOMAIN nodes'[m] : nodes'[m][i] = nodes'[m][j] => i = j
             /\ nodes'[m] = <<>> => nodes[m] = <<>> \/ nodes[m] = <<c>>
  <2> DEFINE s == nodes[m]
             r == nodes'[m]
  <2>1. s \in Seq(Conns) /\ \A i, j \in DOMAIN s : s[i] = s[j] => i = j
    BY DEF IInv, TypeOK, TreeAgrees, ListsItsConnections
  <2>2. r = removeOne(s, c)
    BY DEF without
  <2> HIDE DEF s, r
  <2>3. /\ r \in Seq(Conns)
        /\ \A i \in DOMAIN r : r[i] # c /\ \E j \in DOMAIN s : s[j] = r[i]
        /\ \A j \in DOMAIN s : s[j] # c => \E i \in DOMAIN r : r[i] = s[j]
        /\ \A i, j \in DOMAIN r : r[i] = r[j] => i = j
        /\ r = <<>> => s = <<>> \/ s = <<c>>
    BY <2>1, <2>2, RemoveOne
  <2>4. \A i \in DOMAIN r : r[i] \in Conns
    BY <2>3
  <2> QED BY <2>3, <2>4 DEF s, r
<1>3. /\ \A x, t : posted[1] # ForPath(t, x)
      /\ \A x, t : more = <<ForPath(t, x)>> => t = "deleteNode" /\ emptied(c) = {x}
  <2>2. \A x, t : posted[1] # ForPath(t, x)
    <3>1. DOMAIN posted[1] = {"type", "conn"}
      BY DEF ForConn
    <3>2. \A x, t : DOMAIN ForPath(t, x) = {"type", "path"}
      BY DEF ForPath
    <3> QED BY <3>1, <3>2
  <2>3. ASSUME NEW x, NEW t, more = <<ForPath(t, x)>>
        PROVE  t = "deleteNode" /\ emptied(c) = {x}
    <3>0. more # <<>>
      BY <2>3
    <3>1. PICK m \in Mounts : emptied(c) = {m} /\ more = <<ForPath("deleteNode", m)>>
      BY <3>0, EmptiedIsOne, Zenon
    <3>2. ForPath(t, x) = ForPath("deleteNode", m)
      BY <2>3, <3>1
    <3>3. t = "deleteNode" /\ x = m
      BY <3>2, EventNames
    <3> QED BY <3>1, <3>3
  <2> QED BY <2>2, <2>3
<1>4. ASSUME NEW m \in DOMAIN nodes PROVE ListsItsConnections(m)'
  <2>1. ASSUME NEW i \in DOMAIN nodes'[m]
        PROVE  mountPoint[nodes'[m][i]] = m /\ life'[nodes'[m][i]] # "deleted"
    <3>1. PICK j \in DOMAIN nodes[m] : nodes[m][j] = nodes'[m][i]
      BY <1>2
    <3>2. mountPoint[nodes[m][j]] = m /\ life[nodes[m][j]] # "deleted"
      BY DEF IInv, TreeAgrees, ListsItsConnections
    <3>3. nodes'[m][i] # c /\ nodes'[m][i] \in Conns
      BY <1>2
    <3> QED BY <1>1, <3>1, <3>2, <3>3
  <2>2. \A i, j \in DOMAIN nodes'[m] : nodes'[m][i] = nodes'[m][j] => i = j
    BY <1>2
  <2> QED BY <2>1, <2>2 DEF ListsItsConnections
<1>5. ASSUME NEW m \in Mounts PROVE DiesOnce(m)'
  <2>1. DiesOnce(m)
    BY DEF IInv, TreeAgrees
  <2>2. CASE m \in emptied(c)
    <3>1. emptied(c) = {m} /\ more = <<ForPath("deleteNode", m)>>
      BY <2>2, EmptiedIsOne
    <3>2. m \notin dying /\ m \in dying' /\ m \in DOMAIN nodes /\ nodes[m] = <<c>>
      BY <2>2 DEF emptied
    <3>3. Pending(ForPath("deleteNode", m))'
      BY <3>1, QueuePosts
    <3>4. AtMostOne({ForPath("deleteNode", m)})'
      BY <2>1, <3>2, QueueAtMostOne DEF DiesOnce
    <3>5. ASSUME NEW i \in DOMAIN nodes'[m] PROVE FALSE
      <4>1. PICK j \in DOMAIN nodes[m] : nodes[m][j] = nodes'[m][i] /\ nodes'[m][i] # c
        BY <1>2, <3>2
      <4>2. nodes[m][j] = c
        BY <3>2
      <4> QED BY <4>1, <4>2
    <3> QED BY <3>2, <3>3, <3>4, <3>5 DEF DiesOnce
  <2>3. CASE m \notin emptied(c)
    <3>1. more # <<ForPath("deleteNode", m)>> /\ posted[1] # ForPath("deleteNode", m)
      BY <1>3, <2>3
    <3>2. Pending(ForPath("deleteNode", m))' <=> Pending(ForPath("deleteNode", m))
      BY <3>1, QueueNeither
    <3>3. AtMostOne({ForPath("deleteNode", m)})'
      BY <2>1, <3>1, QueueAtMostOne DEF DiesOnce
    <3>4. m \in dying' <=> m \in dying
      BY <2>3
    <3>5. ASSUME m \in DOMAIN nodes, nodes'[m] = <<>> PROVE m \in dying
      <4>1. CASE nodes[m] = <<>>
        BY <2>1, <3>5, <4>1 DEF DiesOnce
      <4>2. CASE nodes[m] = <<c>>
        <5>1. Contains(nodes[m], c)
          BY <4>2 DEF Contains
        <5> QED BY <2>3, <3>5, <4>2, <5>1 DEF emptied
      <4> QED BY <1>2, <3>5, <4>1, <4>2
    <3>6. ASSUME m \in dying, NEW i \in DOMAIN nodes'[m] PROVE nodes'[m][i] \in raced
      <4>1. m \in DOMAIN nodes
        BY <3>6 DEF IInv, TypeOK
      <4>2. PICK j \in DOMAIN nodes[m] : nodes[m][j] = nodes'[m][i]
        BY <1>2, <4>1
      <4> QED BY <2>1, <3>6, <4>2 DEF DiesOnce
    <3> QED BY <1>1, <2>1, <3>2, <3>3, <3>4, <3>5, <3>6 DEF DiesOnce
  <2> QED BY <2>2, <2>3
<1>6. ASSUME NEW m \in Mounts PROVE Notifies(m)'
  <2>1. posted[1] # ForPath("mounted", m) /\ more # <<ForPath("mounted", m)>>
    BY <1>3
  <2>2. Notifies(m)
    BY DEF IInv, TreeAgrees
  <2> QED BY <1>1, <2>1, <2>2, NotifiesKept DEF IInv
<1>7. TreeIsClosed'
  <2>1. \A e : Pending(ForPath("deleteIfEmpty", e)) => Pending(ForPath("deleteIfEmpty", e))'
    BY <1>3, QueueKeeps
  <2> QED BY <1>1, <2>1, ClosedAfterElse DEF IInv, TreeAgrees
<1>8. ASSUME NEW x \in Conns PROVE Listed(x)'
  <2> SUFFICES ASSUME x \notin raced, life'[x] = "registered", mountPoint[x] # NotMounted
               PROVE  mountPoint[x] \in DOMAIN nodes' /\ Contains(nodes'[mountPoint[x]], x)
    BY DEF Listed
  <2>1. x # c /\ life[x] = "registered"
    BY <1>1
  <2> DEFINE m == mountPoint[x]
  <2>2. m \in DOMAIN nodes /\ Contains(nodes[m], x)
    BY <2>1 DEF IInv, TreeAgrees, Listed
  <2> HIDE DEF m
  <2>3. nodes[m] \in Seq(Conns) /\ nodes'[m] \in Seq(Conns)
    BY <1>2, <2>2 DEF IInv, TypeOK
  <2>4. PICK j \in DOMAIN nodes[m] : nodes[m][j] = x
    BY <2>2, <2>3, Contained
  <2>5. \E i \in DOMAIN nodes'[m] : nodes'[m][i] = x
    BY <1>2, <2>1, <2>2, <2>4
  <2>6. Contains(nodes'[m], x)
    BY <2>3, <2>5, Contained
  <2> QED BY <1>1, <2>2, <2>6 DEF m
<1> QED BY <1>1, <1>4, <1>5, <1>6, <1>7, <1>8 DEF TreeAgrees

(***************************************************************************)
(* The actions.                                                            *)
(***************************************************************************)
LEMMA LoginEventNames ==
  ASSUME NEW c \in Conns, NEW e \in LoginEvents(c)
  PROVE  /\ e \in Events /\ e.type \in ConnTypes /\ e.conn = c
         /\ \A x : x # c => e \notin LoginEvents(x)
         /\ \A x, t : t \in {"deleteNode", "mounted", "deleteIfEmpty"} => e # ForPath(t, x)
  BY EventNames, EventTypes DEF LoginEvents, ConnTypes

\* What is known of a connection with a login event.
LEMMA LoginPending ==
  ASSUME TypeOK, NEW c \in Conns, LogsInOnce(c), NEW e \in LoginEvents(c), Pending(e)
  PROVE  /\ login[c] \in {"requested", "checking"} /\ life[c] # "absent"
         /\ mountPoint[c] = NotMounted /\ c \notin raced
  BY DEF LogsInOnce, LoginEvents

\* A login event that is handled takes the login of its connection one step
\* further and no other.
LEMMA LoginsAfterHandling ==
  ASSUME IInv, NEW c \in Conns, NEW e \in LoginEvents(c), posted[1] = e,
         NEW more, QueueStep(1, more), \A f : more = <<f>> => f.type = "mounted",
         life' = life, NEW p, p # "none", login' = [login EXCEPT ![c] = p],
         \A x \in Conns \ {c} : /\ mountPoint'[x] = mountPoint[x]
                                /\ x \in raced' => x \in raced,
         mountPoint'[c] # NotMounted => p = "ok", c \in raced' => mountPoint'[c] # NotMounted
  PROVE  \A x \in Conns : LogsInOnce(x)'
<1>1. \A x : \A f \in LoginEvents(x) : more # <<f>>
  BY EventNames DEF LoginEvents
<1>2. Pending(e)
  BY DEF QueueStep, Pending
<1>3. ASSUME NEW x \in Conns, x # c PROVE LogsInOnce(x)'
  <2>1. login'[x] = login[x] /\ LogsInOnce(x)
    BY <1>3 DEF IInv, TypeOK
  <2>2. /\ mountPoint'[x] = mountPoint[x] /\ (x \in raced' => x \in raced)
        /\ life'[x] = "absent" => life[x] = "absent"
    BY <1>3
  <2> QED BY <1>1, <2>1, <2>2, LogsInOnceKept
<1>4. LogsInOnce(c)'
  <2>1. LogsInOnce(c) /\ login'[c] = p /\ life[c] # "absent"
    BY <1>2, LoginPending DEF IInv, TypeOK
  <2>2. AtMostOne(LoginEvents(c))'
    BY <1>1, <2>1, QueueAtMostOne DEF LogsInOnce
  <2>3. \A f \in LoginEvents(c) : ~Pending(f)'
    BY <1>1, <2>1, QueueNoneLeft DEF LogsInOnce
  <2> QED BY <2>1, <2>2, <2>3 DEF LogsInOnce, LoginEvents
<1> QED BY <1>3, <1>4

\* The steps that post a login event.
LEMMA LoginsAfterPosting ==
  ASSUME IInv, NEW c \in Conns, NEW e \in LoginEvents(c), QueueStep(0, <<e>>),
         \A f \in LoginEvents(c) : ~Pending(f),
         login' = [login EXCEPT ![c] = login'[c]],
         IF e = ForConn("login", c) THEN login'[c] = "requested" ELSE login'[c] = "checking",
         mountPoint[c] = NotMounted, life[c] # "absent",
         UNCHANGED <<life, mountPoint, raced>>
  PROVE  \A x \in Conns : LogsInOnce(x)'
<1>1. ASSUME NEW x \in Conns, x # c PROVE LogsInOnce(x)'
  <2>1. login'[x] = login[x] /\ LogsInOnce(x)
    BY <1>1 DEF IInv, TypeOK
  <2>2. \A f \in LoginEvents(x) : <<e>> # <<f>>
    BY <1>1, LoginEventNames
  <2> QED BY <2>1, <2>2, LogsInOnceKept
<1>2. LogsInOnce(c)'
  <2>1. \A f \in LoginEvents(c) : Pending(f)' => f = e
    BY QueueNothingElse
  <2>2. AtMostOne(LoginEvents(c))'
    BY QueueAtMostOne DEF IInv, LogsInOnce
  <2>3. LogsInOnce(c) /\ c \notin raced
    BY DEF IInv, LogsInOnce
  <2>4. /\ ForConn("login", c) # ForConn("accepted", c) /\ ForConn("login", c) # ForConn("refused", c)
        /\ ForConn("login", c) \in LoginEvents(c) /\ ForConn("accepted", c) \in LoginEvents(c)
        /\ ForConn("refused", c) \in LoginEvents(c)
    BY DEF LoginEvents, ForConn
  <2> QED BY <2>1, <2>2, <2>3, <2>4 DEF LogsInOnce
<1> QED BY <1>1, <1>2

\* The steps that do nothing with logins.
LEMMA LoginsKept ==
  ASSUME IInv, NEW n, NEW more, QueueStep(n, more), UNCHANGED <<login, mountPoint, raced>>,
         \A x \in Conns : \A e \in LoginEvents(x) : more # <<e>>,
         \A x \in Conns : life'[x] = "absent" => life[x] = "absent"
  PROVE  \A x \in Conns : LogsInOnce(x)'
  BY LogsInOnceKept DEF IInv

\* The steps of connections and of the queue that do not touch the tree.
LEMMA CalmSteps ==
  ASSUME IInv,
         \/ \E c \in Conns : \/ onNewConnection(c) \/ readyRead(c)
                             \/ checkDone(c, "accepted") \/ checkDone(c, "refused")
                             \/ unregisterAndDeleteLater(c)
         \/ startPosted \/ UNCHANGED vars
  PROVE  IInv'
<1> USE DEF connVars, treeVars, vars
<1>1. posted \in Seq(Events) /\ <<>> \in Seq(Events) /\ \A e : <<>> # <<e>>
  BY DEF IInv, TypeOK
<1>2. ASSUME startPosted \/ UNCHANGED vars PROVE IInv'
  <2>1. QueueStep(0, <<>>)
    BY <1>1, <1>2, QueueUnchanged DEF startPosted
  <2>2. Calm(0, <<>>)
    BY <1>1, <1>2, <2>1 DEF startPosted, Calm
  <2>3. TypeOK'
    BY <1>2 DEF IInv, TypeOK, startPosted
  <2>4. \A x \in Conns : LogsInOnce(x)'
    BY <1>1, <1>2, <2>1, LoginsKept DEF startPosted
  <2> QED BY <2>2, <2>3, <2>4, CalmKeepsTree DEF IInv
<1>3. ASSUME NEW c \in Conns, onNewConnection(c) PROVE IInv'
  <2>1. QueueStep(0, <<>>)
    BY <1>1, <1>3, QueueUnchanged DEF onNewConnection
  <2>2. mountPoint[c] = NotMounted /\ \A x \in Conns \ {c} : life'[x] = life[x]
    BY <1>3 DEF IInv, TypeOK, LogsInOnce, onNewConnection
  <2>3. life'[c] = "registered"
    BY <1>3 DEF IInv, TypeOK, onNewConnection
  <2>4. Calm(0, <<>>)
    BY <1>1, <1>3, <2>1, <2>2, <2>3 DEF onNewConnection, Calm
  <2>5. TypeOK'
    BY <1>3 DEF IInv, TypeOK, onNewConnection
  <2>6. \A x \in Conns : life'[x] = "absent" => life[x] = "absent"
    BY <2>2, <2>3
  <2>7. \A x \in Conns : LogsInOnce(x)'
    BY <1>1, <1>3, <2>1, <2>6, LoginsKept DEF onNewConnection
  <2> QED BY <2>4, <2>5, <2>7, CalmKeepsTree DEF IInv
<1>4. ASSUME NEW c \in Conns, readyRead(c) PROVE IInv'
  <2> DEFINE e == ForConn("login", c)
  <2>1. e \in LoginEvents(c) /\ e \in Events /\ e.type = "login"
    BY EventNames, EventTypes DEF LoginEvents
  <2>2. QueueStep(0, <<e>>)
    BY <1>1, <1>4, <2>1, QueueAppend DEF readyRead
  <2>3. Calm(0, <<e>>)
    <3>1. \A f : <<e>> = <<f>> => f.type \in ConnTypes
      BY <2>1 DEF ConnTypes
    <3> QED BY <1>4, <2>2, <3>1 DEF readyRead, Calm
  <2>4. TypeOK'
    <3>1. posted' \in Seq(Events)
      BY <2>2 DEF QueueStep
    <3> QED BY <1>4, <3>1 DEF IInv, TypeOK, readyRead
  <2>5. \A f \in LoginEvents(c) : ~Pending(f)
    BY <1>4, LoginPending DEF IInv, readyRead
  <2>6. /\ login' = [login EXCEPT ![c] = login'[c]] /\ login'[c] = "requested"
        /\ mountPoint[c] = NotMounted /\ life[c] # "absent" /\ UNCHANGED <<life, mountPoint, raced>>
    BY <1>4 DEF IInv, TypeOK, LogsInOnce, readyRead
  <2>7. \A x \in Conns : LogsInOnce(x)'
    BY <2>1, <2>2, <2>5, <2>6, LoginsAfterPosting
  <2> QED BY <2>3, <2>4, <2>7, CalmKeepsTree DEF IInv
<1>5. ASSUME NEW c \in Conns, NEW type \in {"accepted", "refused"}, checkDone(c, type) PROVE IInv'
  <2> DEFINE e == ForConn(type, c)
  <2>1. e \in LoginEvents(c) /\ e \in Events /\ e.type = type /\ e # ForConn("login", c)
    BY EventNames, EventTypes DEF LoginEvents
  <2>2. QueueStep(0, <<e>>)
    BY <1>1, <1>5, <2>1, QueueAppend DEF checkDone
  <2>3. Calm(0, <<e>>)
    <3>1. \A f : <<e>> = <<f>> => f.type \in ConnTypes
      BY <2>1 DEF ConnTypes
    <3> QED BY <1>5, <2>2, <3>1 DEF checkDone, Calm
  <2>4. TypeOK'
    <3>1. posted' \in Seq(Events)
      BY <2>2 DEF QueueStep
    <3> QED BY <1>5, <3>1 DEF IInv, TypeOK, checkDone
  <2>5. \A f \in LoginEvents(c) : ~Pending(f)
    BY <1>5 DEF IInv, checkDone, LogsInOnce, LoginEvents, Pending
  <2>6. /\ login' = [login EXCEPT ![c] = login'[c]] /\ login'[c] = "checking"
        /\ mountPoint[c] = NotMounted /\ life[c] # "absent" /\ UNCHANGED <<life, mountPoint, raced>>
    BY <1>5 DEF IInv, TypeOK, LogsInOnce, checkDone
  <2>7. \A x \in Conns : LogsInOnce(x)'
    BY <2>1, <2>2, <2>5, <2>6, LoginsAfterPosting
  <2> QED BY <2>3, <2>4, <2>7, CalmKeepsTree DEF IInv
<1>6. ASSUME NEW c \in Conns, unregisterAndDeleteLater(c) PROVE IInv'
  <2> DEFINE e == ForConn("deleteConn", c)
  <2>1. e \in Events /\ e.type = "deleteConn"
    BY EventNames, EventTypes
  <2>2. QueueStep(0, <<e>>)
    BY <1>1, <1>6, <2>1, QueueAppend DEF unregisterAndDeleteLater
  <2>3. life'[c] = "unregistered" /\ \A x \in Conns \ {c} : life'[x] = life[x]
    BY <1>6 DEF IInv, TypeOK, unregisterAndDeleteLater
  <2>4. Calm(0, <<e>>)
    <3>1. \A f : <<e>> = <<f>> => f.type \in ConnTypes
      BY <2>1 DEF ConnTypes
    <3> QED BY <1>6, <2>2, <2>3, <3>1 DEF unregisterAndDeleteLater, Calm
  <2>5. TypeOK'
    <3>1. posted' \in Seq(Events)
      BY <2>2 DEF QueueStep
    <3> QED BY <1>6, <3>1 DEF IInv, TypeOK, unregisterAndDeleteLater
  <2>6. \A x \in Conns : \A f \in LoginEvents(x) : <<e>> # <<f>>
    BY <2>1, EventNames DEF LoginEvents
  <2>7. \A x \in Conns : life'[x] = "absent" => life[x] = "absent"
    BY <2>3
  <2>8. \A x \in Conns : LogsInOnce(x)'
    BY <1>6, <2>2, <2>6, <2>7, LoginsKept DEF unregisterAndDeleteLater
  <2> QED BY <2>4, <2>5, <2>8, CalmKeepsTree DEF IInv
<1> QED BY <1>2, <1>3, <1>4, <1>5, <1>6

\* A login event that is handled and mounts nothing.
LEMMA LoginWithoutMount ==
  ASSUME IInv, NEW c \in Conns, NEW e \in LoginEvents(c), Handle(e, <<>>),
         UNCHANGED <<life, mountPoint, treeVars, notified>>, lost' \subseteq Conns,
         \/ \E p \in {"checking", "refused", "ok"} : login' = [login EXCEPT ![c] = p]
         \/ login' = login
  PROVE  IInv'
<1>1. posted \in Seq(Events) /\ <<>> \in Seq(Events) /\ Len(<<>>) <= 1 /\ \A f : <<>> # <<f>>
  BY DEF IInv, TypeOK
<1>2. QueueStep(1, <<>>) /\ posted[1] = e /\ Pending(e)
  BY <1>1, QueueHandle
<1>3. Calm(1, <<>>)
  BY <1>1, <1>2, LoginEventNames DEF Calm
<1>4. TypeOK'
  <2>1. posted' \in Seq(Events)
    BY <1>2 DEF QueueStep
  <2>2. phase' \in {"io", "posted"}
    BY DEF Handle
  <2>3. login' \in [Conns -> {"none", "requested", "checking", "refused", "ok"}]
    BY DEF IInv, TypeOK
  <2> QED BY <2>1, <2>2, <2>3 DEF IInv, TypeOK, treeVars
<1>5. CASE login' = login
  <2>1. \A x \in Conns : LogsInOnce(x)'
    BY <1>1, <1>2, <1>5, LoginsKept DEF treeVars
  <2> QED BY <1>3, <1>4, <2>1, CalmKeepsTree DEF IInv
<1>6. CASE \E p \in {"checking", "refused", "ok"} : login' = [login EXCEPT ![c] = p]
  <2>1. PICK p \in {"checking", "refused", "ok"} : login' = [login EXCEPT ![c] = p]
    BY <1>6
  <2>2. mountPoint[c] = NotMounted /\ c \notin raced
    BY <1>2, LoginPending DEF IInv
  <2>3. \A x \in Conns : LogsInOnce(x)'
    BY <1>1, <1>2, <2>1, <2>2, LoginsAfterHandling DEF treeVars
  <2> QED BY <1>3, <1>4, <2>3, CalmKeepsTree DEF IInv
<1> QED BY <1>5, <1>6

\* Mounting keeps the types.
LEMMA MountTypes ==
  ASSUME TypeOK, NEW c \in Conns, NEW at, MountsAt(c, at)
  PROVE  /\ mountPoint' \in [Conns -> {NotMounted} \cup Mounts]
         /\ DOMAIN nodes' \subseteq Mounts
         /\ \A m \in DOMAIN nodes' : nodes'[m] \in Seq(Conns)
         /\ dying' \subseteq DOMAIN nodes'
         /\ dirs' \subseteq UNION {Above(m) : m \in Mounts}
         /\ dirs' \cap DOMAIN nodes' = {}
         /\ raced' \subseteq Conns
<1>1. at \in Mounts /\ DOMAIN nodes' = DOMAIN nodes \cup {at}
  BY DEF MountsAt
<1>2. mountPoint' \in [Conns -> {NotMounted} \cup Mounts]
  BY DEF TypeOK, MountsAt
<1>3. ASSUME NEW m \in DOMAIN nodes' PROVE nodes'[m] \in Seq(Conns)
  <2>1. CASE m # at
    BY <1>1, <2>1 DEF TypeOK, MountsAt
  <2>2. CASE m = at /\ at \in DOMAIN nodes
    <3>1. nodes[at] \in Seq(Conns) /\ nodes'[at] = <<c>> \o nodes[at]
      BY <2>2 DEF TypeOK, MountsAt
    <3> QED BY <2>2, <3>1, InFront
  <2>3. CASE m = at /\ at \notin DOMAIN nodes
    <3>1. nodes'[at] = <<c>>
      BY <2>3 DEF MountsAt
    <3> QED BY <2>3, <3>1
  <2> QED BY <2>1, <2>2, <2>3
<1>4. /\ dying' \subseteq DOMAIN nodes' /\ raced' \subseteq Conns
      /\ dirs' \subseteq UNION {Above(m) : m \in Mounts}
  BY <1>1 DEF TypeOK, MountsAt
<1>5. dirs' \cap DOMAIN nodes' = {}
  <2>1. at \notin Above(at)
    BY <1>1, MountPaths, AboveIff
  <2> QED BY <1>1, <2>1 DEF TypeOK, MountsAt
<1>6. DOMAIN nodes' \subseteq Mounts
  BY <1>1 DEF TypeOK
<1> QED BY <1>2, <1>3, <1>4, <1>5, <1>6, Zenon

\* An accepted login.
LEMMA ClientLogin ==
  ASSUME IInv, NEW c \in Conns, NEW e \in LoginEvents(c), onClientLogin(c, e)
  PROVE  IInv'
<1>1. posted[1] = e /\ Pending(e) /\ posted \in Seq(Events)
  <2>1. posted # <<>> /\ Head(posted) = e /\ posted \in Seq(Events)
    BY DEF onClientLogin, Handle, IInv, TypeOK
  <2>2. posted[1] = e /\ 1 \in DOMAIN posted
    BY <2>1, EmptySeq
  <2> QED BY <2>1, <2>2 DEF Pending
<1>2. mountPoint[c] = NotMounted /\ c \notin raced
  BY <1>1, LoginPending DEF IInv
<1>3. CASE UNCHANGED <<mountPoint, treeVars>>
  <2>1. Handle(e, <<>>) /\ lost' \subseteq Conns
    BY <1>2, <1>3 DEF onClientLogin, IInv, TypeOK
  <2> QED BY <1>3, <2>1, LoginWithoutMount DEF onClientLogin
<1>4. CASE ~UNCHANGED <<mountPoint, treeVars>>
  <2>1. life[c] = "registered" /\ mountDevice(c) /\ lost' = lost
    BY <1>4 DEF onClientLogin
  <2>2. PICK at \in Mounts : MountsAt(c, at)
    BY <1>4, <2>1, MountDevice DEF IInv, TreeAgrees
  <2>3. mountPoint'[c] = at /\ at # NotMounted
    BY <2>2, MountPaths DEF MountsAt, IInv, TypeOK, NotMounted
  <2> DEFINE more == <<ForPath("mounted", at)>>
  <2>4. Handle(e, more)
    BY <2>3 DEF onClientLogin
  <2>5. more \in Seq(Events) /\ Len(more) <= 1
    BY EventTypes
  <2>6. QueueStep(1, more)
    BY <1>1, <2>4, <2>5, QueueHandle
  <2>7. TreeAgrees'
    <3>1. UNCHANGED <<life, notified>> /\ posted[1].type \in ConnTypes
      BY <1>1, LoginEventNames DEF onClientLogin
    <3> QED BY <1>2, <2>1, <2>2, <2>6, <3>1, MountKeepsTree
  <2>8. TypeOK'
    <3>1. posted' \in Seq(Events)
      BY <2>6 DEF QueueStep
    <3>2. phase' \in {"io", "posted"}
      BY <2>4 DEF Handle
    <3>3. /\ login' \in [Conns -> {"none", "requested", "checking", "refused", "ok"}]
          /\ life' = life /\ notified' = notified
      BY DEF IInv, TypeOK, onClientLogin
    <3> QED BY <2>1, <2>2, <3>1, <3>2, <3>3, MountTypes DEF IInv, TypeOK
  <2>9. \A x \in Conns : LogsInOnce(x)'
    <3>1. \A f : more = <<f>> => f.type = "mounted"
      BY EventNames
    <3>2. login' = [login EXCEPT ![c] = "ok"] /\ life' = life
      BY DEF onClientLogin
    <3>3. \A x \in Conns \ {c} : mountPoint'[x] = mountPoint[x] /\ (x \in raced' => x \in raced)
      BY <2>2 DEF MountsAt, IInv, TypeOK
    <3> QED BY <1>1, <2>3, <2>6, <3>1, <3>2, <3>3, LoginsAfterHandling
  <2> QED BY <2>7, <2>8, <2>9 DEF IInv
<1> QED BY <1>3, <1>4

\* Logging in, at once or after an asynchronous check.
LEMMA LoginSteps ==
  ASSUME IInv, NEW c \in Conns, onLoginRequest(c) \/ onResultReady(c)
  PROVE  IInv'
<1>1. /\ ForConn("login", c) \in LoginEvents(c) /\ ForConn("accepted", c) \in LoginEvents(c)
      /\ ForConn("refused", c) \in LoginEvents(c) /\ lost \subseteq Conns
  BY DEF LoginEvents, IInv, TypeOK
<1>2. CASE onLoginRequest(c)
  <2>1. CASE onClientLogin(c, ForConn("login", c))
    BY <1>1, <2>1, ClientLogin
  <2>2. CASE /\ Handle(ForConn("login", c), <<>>)
             /\ \E p \in {"checking", "refused"} : login' = [login EXCEPT ![c] = p]
             /\ UNCHANGED <<life, mountPoint, treeVars, notified, lost>>
    <3>1. \E p \in {"checking", "refused", "ok"} : login' = [login EXCEPT ![c] = p]
      BY <2>2
    <3> QED BY <1>1, <2>2, <3>1, LoginWithoutMount
  <2> QED BY <1>2, <2>1, <2>2 DEF onLoginRequest
<1>3. CASE onResultReady(c)
  <2>1. CASE onClientLogin(c, ForConn("accepted", c))
    BY <1>1, <2>1, ClientLogin
  <2>2. CASE /\ Handle(ForConn("refused", c), <<>>)
             /\ login' = [login EXCEPT ![c] = "refused"]
             /\ UNCHANGED <<life, mountPoint, treeVars, notified, lost>>
    <3>1. \E p \in {"checking", "refused", "ok"} : login' = [login EXCEPT ![c] = p]
      BY <2>2
    <3> QED BY <1>1, <2>2, <3>1, LoginWithoutMount
  <2>3. CASE /\ \E type \in {"accepted", "refused"} : Handle(ForConn(type, c), <<>>)
             /\ UNCHANGED <<connVars, treeVars, notified, lost>>
    BY <1>1, <2>3, LoginWithoutMount DEF connVars
  <2> QED BY <1>3, <2>1, <2>2, <2>3 DEF onResultReady
<1> QED BY <1>2, <1>3

\* The deferred deletion of a connection.
LEMMA DeleteConnStep ==
  ASSUME IInv, NEW c \in Conns, deleteConn(c)
  PROVE  IInv'
<1> DEFINE more == SetToSeq({ForPath("deleteNode", m) : m \in emptied(c)})
<1>1. /\ Handle(ForConn("deleteConn", c), more)
      /\ life' = [life EXCEPT ![c] = "deleted"] /\ nodes' = without(c)
      /\ dying' = dying \cup emptied(c)
      /\ UNCHANGED <<login, mountPoint, dirs, raced, notified, lost>>
  BY DEF deleteConn, emptied
<1> HIDE DEF more
<1>2. more = <<>> \/ \E m \in Mounts : more = <<ForPath("deleteNode", m)>>
  BY EmptiedIsOne DEF more
<1>3. /\ more \in Seq(Events) /\ Len(more) <= 1
      /\ \A x \in Conns : \A e \in LoginEvents(x) : more # <<e>>
  <2>1. CASE more = <<>>
    BY <2>1
  <2>2. ASSUME NEW m \in Mounts, more = <<ForPath("deleteNode", m)>>
        PROVE  /\ more \in Seq(Events) /\ Len(more) <= 1
               /\ \A x \in Conns : \A e \in LoginEvents(x) : more # <<e>>
    <3>1. ForPath("deleteNode", m) \in Events
      BY EventTypes
    <3>2. \A x \in Conns : \A e \in LoginEvents(x) : e # ForPath("deleteNode", m)
      BY LoginEventNames
    <3> QED BY <2>2, <3>1, <3>2
  <2> QED BY <1>2, <2>1, <2>2
<1>4. QueueStep(1, more) /\ posted[1] = ForConn("deleteConn", c)
  BY <1>1, <1>3, QueueHandle DEF IInv, TypeOK
<1>5. TreeAgrees'
  BY <1>1, <1>4, DeleteConnKeepsTree DEF more
<1>6. TypeOK'
  <2>1. posted' \in Seq(Events)
    BY <1>4 DEF QueueStep
  <2>2. phase' \in {"io", "posted"}
    BY <1>1 DEF Handle
  <2>3. DOMAIN nodes' = DOMAIN nodes
    BY <1>1 DEF without
  <2>4. ASSUME NEW m \in DOMAIN nodes PROVE nodes'[m] \in Seq(Conns)
    <3>1. nodes'[m] = removeOne(nodes[m], c)
      BY <1>1 DEF without
    <3>2. nodes[m] \in Seq(Conns) /\ \A i, j \in DOMAIN nodes[m] : nodes[m][i] = nodes[m][j] => i = j
      BY DEF IInv, TypeOK, TreeAgrees, ListsItsConnections
    <3> QED BY <3>1, <3>2, RemoveOne
  <2>5. dying' \subseteq DOMAIN nodes
    BY <1>1 DEF IInv, TypeOK, emptied
  <2> QED BY <1>1, <2>1, <2>2, <2>3, <2>4, <2>5 DEF IInv, TypeOK
<1>7. \A x \in Conns : LogsInOnce(x)'
  <2>1. \A x \in Conns : life'[x] = "absent" => life[x] = "absent"
    BY <1>1 DEF IInv, TypeOK
  <2> QED BY <1>1, <1>3, <1>4, <2>1, LoginsKept
<1> QED BY <1>5, <1>6, <1>7 DEF IInv

\* The events of the tree: deletions and notifications.
LEMMA TreeSteps ==
  ASSUME IInv,
         \/ \E m \in Mounts : deleteNode(m) \/ notifyMounted(m)
         \/ \E d \in {<<>>} \cup UNION {Above(m) : m \in Mounts} : deleteIfEmptyWithParents(d)
  PROVE  IInv'
<1>0. posted \in Seq(Events) /\ <<>> \in Seq(Events) /\ Len(<<>>) <= 1 /\ \A f : <<>> # <<f>>
  BY DEF IInv, TypeOK
<1>1. ASSUME NEW m \in Mounts, deleteNode(m) PROVE IInv'
  <2> DEFINE more == <<ForPath("deleteIfEmpty", Front(m))>>
  <2>1. more \in Seq(Events) /\ Len(more) <= 1
    BY EventTypes
  <2>2. QueueStep(1, more) /\ posted[1] = ForPath("deleteNode", m)
    BY <1>0, <1>1, <2>1, QueueHandle DEF deleteNode
  <2>3. UNCHANGED <<life, login, mountPoint, dirs, raced, lost>>
    BY <1>1 DEF deleteNode, connVars
  <2>4. TreeAgrees'
    BY <1>1, <2>2, <2>3, DeleteNodeKeepsTree DEF deleteNode
  <2>5. TypeOK'
    <3>1. posted' \in Seq(Events)
      BY <2>2 DEF QueueStep
    <3>2. phase' \in {"io", "posted"}
      BY <1>1 DEF Handle, deleteNode
    <3> QED BY <1>1, <2>3, <3>1, <3>2 DEF IInv, TypeOK, deleteNode
  <2>6. \A x \in Conns : LogsInOnce(x)'
    <3>1. \A x \in Conns : \A e \in LoginEvents(x) : more # <<e>>
      BY LoginEventNames
    <3> QED BY <2>2, <2>3, <3>1, LoginsKept
  <2> QED BY <2>4, <2>5, <2>6 DEF IInv
<1>2. ASSUME NEW m \in Mounts, notifyMounted(m) PROVE IInv'
  <2>1. QueueStep(1, <<>>) /\ posted[1] = ForPath("mounted", m)
    BY <1>0, <1>2, QueueHandle DEF notifyMounted
  <2>2. UNCHANGED <<life, login, mountPoint, treeVars, lost>>
    BY <1>2 DEF notifyMounted, connVars
  <2>3. TreeAgrees'
    BY <1>2, <2>1, <2>2, NotifyKeepsTree DEF notifyMounted
  <2>4. TypeOK'
    <3>1. posted' \in Seq(Events)
      BY <2>1 DEF QueueStep
    <3>2. phase' \in {"io", "posted"}
      BY <1>2 DEF Handle, notifyMounted
    <3> QED BY <1>2, <2>2, <3>1, <3>2 DEF IInv, TypeOK, notifyMounted, treeVars
  <2>5. \A x \in Conns : LogsInOnce(x)'
    BY <1>0, <2>1, <2>2, LoginsKept DEF treeVars
  <2> QED BY <2>3, <2>4, <2>5 DEF IInv
<1>3. ASSUME NEW d, deleteIfEmptyWithParents(d) PROVE IInv'
  <2>1. QueueStep(1, <<>>) /\ posted[1] = ForPath("deleteIfEmpty", d)
    BY <1>0, <1>3, QueueHandle DEF deleteIfEmptyWithParents
  <2>2. UNCHANGED <<life, login, mountPoint, nodes, dying, raced, notified, lost>>
    BY <1>3 DEF deleteIfEmptyWithParents, connVars
  <2>3. dirs' = IF d \in dirs /\ Children(d) = {} THEN dirs \ ({d} \cup soleParents(d)) ELSE dirs
    BY <1>3 DEF deleteIfEmptyWithParents
  <2>4. TreeAgrees'
    BY <2>1, <2>2, <2>3, DeleteIfEmptyKeepsTree
  <2>5. TypeOK'
    <3>1. posted' \in Seq(Events)
      BY <2>1 DEF QueueStep
    <3>2. phase' \in {"io", "posted"}
      BY <1>3 DEF Handle, deleteIfEmptyWithParents
    <3>3. dirs' \subseteq dirs
      BY <2>3
    <3> QED BY <2>2, <3>1, <3>2, <3>3 DEF IInv, TypeOK
  <2>6. \A x \in Conns : LogsInOnce(x)'
    BY <1>0, <2>1, <2>2, LoginsKept
  <2> QED BY <2>4, <2>5, <2>6 DEF IInv
<1> QED BY <1>1, <1>2, <1>3

(***************************************************************************)
(* The theorems.                                                           *)
(***************************************************************************)
LEMMA IInvInit == Init => IInv
<1> SUFFICES ASSUME Init PROVE IInv
  OBVIOUS
<1> USE DEF Init
<1>1. DOMAIN nodes = {} /\ DOMAIN posted = {} /\ \A e : ~Pending(e)
  BY DEF Pending
<1>2. TypeOK
  BY <1>1 DEF TypeOK
<1>3. \A c \in Conns : LogsInOnce(c)
  BY <1>1 DEF LogsInOnce, AtMostOne
<1>4. \A m \in Mounts : DiesOnce(m)
  BY <1>1 DEF DiesOnce, AtMostOne
<1>5. \A m \in Mounts : Notifies(m)
  BY <1>1 DEF Notifies, Before
<1>6. TreeIsClosed /\ \A c \in Conns : Listed(c)
  BY <1>1 DEF TreeIsClosed, Listed
<1> QED BY <1>1, <1>2, <1>3, <1>4, <1>5, <1>6 DEF IInv, TreeAgrees

\* Every step preserves the inductive invariant.
LEMMA IInvNext == IInv /\ [Next]_vars => IInv'
  BY CalmSteps, LoginSteps, DeleteConnStep, TreeSteps DEF Next, handlePosted

\* The invariant holds for every set of connections and mount points.
THEOREM TreeAndEventsAgree == Spec => []IInv
  BY IInvInit, IInvNext, PTL DEF Spec

\* The tree and the connections agree, and between two passes of the event
\* loop nothing is left of what has gone (clientshvnode.cpp, shvnode.cpp).
THEOREM TheTreeIsSound == Spec => []TreeIsSound
<1>1. IInv => TreeIsSound
  <2> SUFFICES ASSUME IInv PROVE TreeIsSound
    OBVIOUS
  <2>1. TypeOK /\ NoDanglingConnection
    BY DEF IInv, TreeAgrees, ListsItsConnections, NoDanglingConnection
  <2>2. ASSUME Quiet PROVE /\ \A m \in DOMAIN nodes : nodes[m] # <<>>
                           /\ dirs = UNION {Above(m) : m \in DOMAIN nodes}
    <3>1. \A e : ~Pending(e)
      BY <2>2 DEF Quiet, Pending
    <3>2. \A m \in DOMAIN nodes : nodes[m] # <<>>
      BY <3>1 DEF IInv, TypeOK, TreeAgrees, DiesOnce
    <3>3. dirs \subseteq UNION {Above(m) : m \in DOMAIN nodes}
      BY <3>1 DEF IInv, TreeAgrees, TreeIsClosed, Leads
    <3>4. UNION {Above(m) : m \in DOMAIN nodes} \subseteq dirs
      BY DEF IInv, TreeAgrees, TreeIsClosed
    <3> QED BY <3>2, <3>3, <3>4
  <2> QED BY <2>1, <2>2 DEF TreeIsSound, TreeIsTidy
<1> QED BY <1>1, TreeAndEventsAgree, PTL

\* A device that is logged in and mounted can be reached, unless its login
\* found a node whose deletion was posted (onClientLogin(), brokerapp.cpp).
THEOREM MountedDevicesAreReachable == Spec => []MountedDeviceIsReachable
<1>1. IInv => MountedDeviceIsReachable
  BY DEF IInv, TreeAgrees, Listed, MountedDeviceIsReachable, Reachable
<1> QED BY <1>1, TreeAndEventsAgree, PTL

\* When nothing is posted the last mntchng of a mount point tells whether it is
\* mounted, those of raced logins excepted (brokerapp.cpp, clientshvnode.cpp).
THEOREM NotificationsAreRight == Spec => []LastNotificationIsRight
<1>1. IInv => LastNotificationIsRight
  <2> SUFFICES ASSUME IInv, Quiet, NEW m \in Mounts \ {mountPoint[c] : c \in raced}
               PROVE  notified[m] = (m \in DOMAIN nodes)
    BY DEF LastNotificationIsRight
  <2>1. ~Pending(ForPath("mounted", m)) /\ ~Raced(m)
    BY DEF Quiet, Pending, Raced
  <2>2. Notifies(m) /\ notified \in [Mounts -> BOOLEAN]
    BY DEF IInv, TypeOK, TreeAgrees
  <2>3. notified[m] <=> m \in DOMAIN nodes
    BY <2>1, <2>2 DEF Notifies
  <2> QED BY <2>2, <2>3
<1> QED BY <1>1, TreeAndEventsAgree, PTL
=============================================================================
