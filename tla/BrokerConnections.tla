------------------------- MODULE BrokerConnections -------------------------
(***************************************************************************)
(* Client connections of the broker (libshvbroker): accepting, logging in, *)
(* mounting a device in the node tree and taking everything down again.    *)
(*                                                                         *)
(* The broker is one Qt event loop.  A pass of it first handles sockets    *)
(* and timers (phase io), then the posted events in the order they were    *)
(* posted (phase posted), those posted meanwhile included.  Posted are: a  *)
(* login request that was read (onReadyRead is a queued connection), the   *)
(* answer of an asynchronous password check, every deleteLater(), the      *)
(* mntchng notification of a mount and the removal of empty directories.   *)
(*                                                                         *)
(* A path is the sequence of its directories.  ClientShvNodes are known by *)
(* their path, plain directories are the set dirs.                         *)
(***************************************************************************)
EXTENDS Integers, Sequences, SequencesExt, FiniteSetsExt

CONSTANTS
  Conns,      \* connections, in the order of the world: each is used once
  MountOf     \* the mount point configured for the device of a connection

ASSUME BrokerConnectionsAssumption == \A c \in Conns : MountOf[c] \in Seq(STRING) \ {<<>>}

VARIABLES
  life,        \* the ClientConnectionOnBroker object
  login,       \* the login phase of the connection
  mountPoint,  \* m_mountPoint of the connection
  nodes,       \* the ClientShvNodes in the tree, each with its m_connections
  dying,       \* ClientShvNodes whose deleteLater() was called
  dirs,        \* plain directories of the tree
  notified,    \* what the last mntchng said of a mount point
  lost,        \* connections onClientLogin() did not find registered
  raced,       \* history: connections added to a node whose deletion was posted
  posted,      \* posted events
  phase        \* the part of the event loop pass

connVars == <<life, login, mountPoint>>
treeVars == <<nodes, dying, dirs, raced>>
vars == <<connVars, treeVars, notified, lost, posted, phase>>

NotMounted == <<>>
Mounts == {MountOf[c] : c \in Conns}
Above(path) == {SubSeq(path, 1, n) : n \in 1..Len(path) - 1}
ForConn(type, c) == [type |-> type, conn |-> c]
ForPath(type, path) == [type |-> type, path |-> path]

Events == [type : {"login", "accepted", "refused", "deleteConn"}, conn : Conns]
            \cup [type : {"deleteNode", "mounted"}, path : Mounts]
            \cup [type : {"deleteIfEmpty"}, path : {<<>>} \cup UNION {Above(m) : m \in Mounts}]

\* Every variable has its type; directories and client nodes are different.
TypeOK ==
  /\ life \in [Conns -> {"absent", "registered", "unregistered", "deleted"}]
  /\ login \in [Conns -> {"none", "requested", "checking", "refused", "ok"}]
  /\ mountPoint \in [Conns -> {NotMounted} \cup Mounts]
  /\ DOMAIN nodes \subseteq Mounts
  /\ \A m \in DOMAIN nodes : nodes[m] \in Seq(Conns)
  /\ dying \subseteq DOMAIN nodes
  /\ dirs \subseteq UNION {Above(m) : m \in Mounts}
  /\ dirs \cap DOMAIN nodes = {}
  /\ notified \in [Mounts -> BOOLEAN]
  /\ lost \subseteq Conns /\ raced \subseteq Conns
  /\ posted \in Seq(Events)
  /\ phase \in {"io", "posted"}

Init ==
  /\ life = [c \in Conns |-> "absent"]
  /\ login = [c \in Conns |-> "none"]
  /\ mountPoint = [c \in Conns |-> NotMounted]
  /\ nodes = << >> /\ dying = {} /\ dirs = {}
  /\ notified = [m \in Mounts |-> FALSE]
  /\ lost = {} /\ raced = {}
  /\ posted = <<>> /\ phase = "io"

(***************************************************************************)
(* Sockets and timers.                                                     *)
(***************************************************************************)

\* TcpServer::onNewConnection()
onNewConnection(c) ==
  /\ phase = "io" /\ life[c] = "absent"
  /\ life' = [life EXCEPT ![c] = "registered"]
  /\ UNCHANGED <<login, mountPoint, treeVars, notified, lost, posted, phase>>

\* The login request is complete: Socket::readyRead posts onReadyRead().
readyRead(c) ==
  /\ phase = "io" /\ life[c] = "registered" /\ login[c] = "none"
  /\ login' = [login EXCEPT ![c] = "requested"]
  /\ posted' = Append(posted, ForConn("login", c))
  /\ UNCHANGED <<life, mountPoint, treeVars, notified, lost, phase>>

\* The asynchronous check of the password ends; its answer is a posted event.
checkDone(c, type) ==
  /\ phase = "io" /\ login[c] = "checking" /\ life[c] # "deleted"
  /\ \A i \in DOMAIN posted : posted[i] \notin {ForConn("accepted", c), ForConn("refused", c)}
  /\ posted' = Append(posted, ForConn(type, c))
  /\ UNCHANGED <<connVars, treeVars, notified, lost, phase>>

\* unregisterAndDeleteLater(): by a lost socket or by the idle watch dog.
unregisterOnly(c) ==
  /\ phase = "io" /\ life[c] = "registered"
  /\ life' = [life EXCEPT ![c] = "unregistered"]
  /\ UNCHANGED <<login, mountPoint, treeVars, notified, lost, posted, phase>>
unregisterAndDeleteLater(c) ==
  /\ phase = "io" /\ life[c] = "registered"
  /\ life' = [life EXCEPT ![c] = "unregistered"]
  /\ posted' = Append(posted, ForConn("deleteConn", c))
  /\ UNCHANGED <<login, mountPoint, treeVars, notified, lost, phase>>

\* The client did not log in within s_initPhaseTimeout, or its login was
\* refused and the broker closes the connection.
loginTimeout(c) == login[c] # "ok" /\ unregisterAndDeleteLater(c)

(***************************************************************************)
(* Posted events.                                                          *)
(***************************************************************************)
startPosted ==
  /\ phase = "io" /\ posted # <<>>
  /\ phase' = "posted"
  /\ UNCHANGED <<connVars, treeVars, notified, lost, posted>>

\* The event e is taken from the queue and handling it posts the events more.
Handle(e, more) ==
  /\ phase = "posted" /\ posted # <<>> /\ Head(posted) = e
  /\ posted' = Tail(posted) \o more
  /\ phase' = IF posted' = <<>> THEN "io" ELSE "posted"

\* ShvNodeTree::cd(): the deepest node on the path.
cd(path) ==
  LET there == {q \in Above(path) \cup {path} : q \in dirs \cup DOMAIN nodes}
  IN IF there = {} THEN <<>> ELSE CHOOSE q \in there : \A r \in there : Len(r) <= Len(q)

\* BrokerApp::onClientLogin() for a registered connection: the ClientShvNode
\* the path leads to gets the connection in front, or a new one is mounted.
\* Nothing is mounted on a directory.
mountDevice(c) ==
  LET nd == cd(MountOf[c])
      at == IF nd \in DOMAIN nodes THEN nd ELSE MountOf[c]
  IN IF nd = MountOf[c] /\ nd \notin DOMAIN nodes
     THEN UNCHANGED <<mountPoint, treeVars>>
     ELSE /\ mountPoint' = [mountPoint EXCEPT ![c] = at]
          /\ nodes' = [m \in DOMAIN nodes \cup {at} |->
                         IF m # at THEN nodes[m]
                         ELSE IF at \in DOMAIN nodes THEN <<c>> \o nodes[at] ELSE <<c>>]
          /\ dirs' = IF at \in DOMAIN nodes THEN dirs ELSE dirs \cup Above(at)
          /\ raced' = IF at \in dying THEN raced \cup {c} ELSE raced
          /\ UNCHANGED dying

\* setLoginResult() for an accepted login and onClientLogin().
onClientLogin(c, e) ==
  /\ login' = [login EXCEPT ![c] = "ok"]
  /\ IF life[c] = "registered"
     THEN mountDevice(c) /\ UNCHANGED lost
     ELSE lost' = lost \cup {c} /\ UNCHANGED <<mountPoint, treeVars>>
  /\ Handle(e, IF mountPoint'[c] = NotMounted THEN <<>>
               ELSE <<ForPath("mounted", mountPoint'[c])>>)
  /\ UNCHANGED <<life, notified>>

\* onReadyRead() with the login request, which was posted while the connection
\* was registered and so comes before its deletion.  The type of the login and
\* the broker's configuration decide whether it is checked at once or
\* asynchronously (LDAP, Azure).
onLoginRequest(c) ==
  LET e == ForConn("login", c)
  IN \/ onClientLogin(c, e)
     \/ /\ Handle(e, <<>>)
        /\ \E p \in {"checking", "refused"} : login' = [login EXCEPT ![c] = p]
        /\ UNCHANGED <<life, mountPoint, treeVars, notified, lost>>

\* The answer of the asynchronous check, for a connection that still exists.
onResultReady(c) ==
  \/ /\ life[c] # "deleted"
     /\ onClientLogin(c, ForConn("accepted", c))
  \/ /\ life[c] # "deleted"
     /\ Handle(ForConn("refused", c), <<>>)
     /\ login' = [login EXCEPT ![c] = "refused"]
     /\ UNCHANGED <<life, mountPoint, treeVars, notified, lost>>
  \/ /\ life[c] = "deleted"
     /\ \E type \in {"accepted", "refused"} : Handle(ForConn(type, c), <<>>)
     /\ UNCHANGED <<connVars, treeVars, notified, lost>>

\* ClientShvNode::removeConnection(): m_connections of every node without c,
\* of which QList::removeOne() removes the first.
withoutFirst(c) ==
  [m \in DOMAIN nodes |-> IF nodes[m] # <<>> /\ Head(nodes[m]) = c THEN Tail(nodes[m]) ELSE nodes[m]]
removeOne(list, c) ==
  IF Contains(list, c)
  THEN RemoveAt(list, CHOOSE i \in DOMAIN list :
                         list[i] = c /\ \A j \in 1..i - 1 : list[j] # c)
  ELSE list
without(c) == [m \in DOMAIN nodes |-> removeOne(nodes[m], c)]

\* The connection is destroyed; the node that lists it drops it
\* and is deleted later when it was the last one.
deleteConn(c) ==
  LET homes == {m \in DOMAIN nodes : Contains(nodes[m], c)}
      empty == {m \in homes : nodes[m] = <<c>>} \ dying
  IN /\ Handle(ForConn("deleteConn", c),
               SetToSeq({ForPath("deleteNode", m) : m \in empty}))
     /\ life' = [life EXCEPT ![c] = "deleted"]
     /\ nodes' = without(c)
     /\ dying' = dying \cup empty
     /\ UNCHANGED <<login, mountPoint, dirs, raced, notified, lost>>

\* The DeferredDelete of a ClientShvNode: it leaves the tree whatever
\* connections it has, mntchng is sent and its parent is checked later.
deleteNodeSilently(m) ==
  /\ m \in dying
  /\ Handle(ForPath("deleteNode", m), <<ForPath("deleteIfEmpty", Front(m))>>)
  /\ nodes' = [n \in DOMAIN nodes \ {m} |-> nodes[n]]
  /\ dying' = dying \ {m}
  /\ UNCHANGED <<connVars, dirs, raced, notified, lost>>
deleteNode(m) ==
  /\ m \in dying
  /\ Handle(ForPath("deleteNode", m), <<ForPath("deleteIfEmpty", Front(m))>>)
  /\ nodes' = [n \in DOMAIN nodes \ {m} |-> nodes[n]]
  /\ dying' = dying \ {m}
  /\ notified' = [notified EXCEPT ![m] = FALSE]
  /\ UNCHANGED <<connVars, dirs, raced, lost>>

\* ShvNode::deleteIfEmptyWithParents(): a directory without children goes
\* with those of its parents that have no other child.  Directories that were
\* deleted meanwhile have lost the event.
Children(d) == {x \in dirs \cup DOMAIN nodes : Len(x) = Len(d) + 1 /\ IsPrefix(d, x)}
soleParents(d) ==
  {p \in Above(d) :
     \A q \in Above(d) : IsPrefix(p, q) => \A x, y \in Children(q) : x = y}
deleteNotChecking(d) ==
  /\ Handle(ForPath("deleteIfEmpty", d), <<>>)
  /\ nodes' = [m \in {n \in DOMAIN nodes : ~IsPrefix(d, n)} |-> nodes[m]]
  /\ dirs' = UNION {Above(m) : m \in DOMAIN nodes'}
  /\ dying' = dying \cap DOMAIN nodes'
  /\ UNCHANGED <<connVars, raced, notified, lost>>
deleteIfEmptyWithParents(d) ==
  /\ Handle(ForPath("deleteIfEmpty", d), <<>>)
  /\ dirs' = IF d \in dirs /\ Children(d) = {} THEN dirs \ ({d} \cup soleParents(d)) ELSE dirs
  /\ UNCHANGED <<connVars, nodes, dying, raced, notified, lost>>

\* The posted notification of a mount.
notifyMounted(m) ==
  /\ Handle(ForPath("mounted", m), <<>>)
  /\ notified' = [notified EXCEPT ![m] = TRUE]
  /\ UNCHANGED <<connVars, treeVars, lost>>

handlePosted ==
  \/ \E c \in Conns : onLoginRequest(c) \/ onResultReady(c) \/ deleteConn(c)
  \/ \E m \in Mounts : deleteNode(m) \/ notifyMounted(m)
  \/ \E d \in {<<>>} \cup UNION {Above(m) : m \in Mounts} : deleteIfEmptyWithParents(d)

Next ==
  \/ \E c \in Conns : \/ onNewConnection(c) \/ readyRead(c)
                      \/ checkDone(c, "accepted") \/ checkDone(c, "refused")
                      \/ unregisterAndDeleteLater(c)
  \/ startPosted
  \/ handlePosted

\* The event loop runs what is posted and the login timer; nothing is assumed
\* of clients and of the asynchronous checks.
Fairness ==
  /\ WF_vars(startPosted) /\ WF_vars(handlePosted)
  /\ \A c \in Conns : WF_vars(loginTimeout(c))

Spec == Init /\ [][Next]_vars /\ Fairness

(***************************************************************************)
(* Properties.                                                             *)
(***************************************************************************)
Quiet == phase = "io" /\ posted = <<>>

\* No node keeps a pointer to a deleted connection.
NoDanglingConnection ==
  \A m \in DOMAIN nodes : \A i \in DOMAIN nodes[m] : life[nodes[m][i]] # "deleted"

\* Between two passes of the event loop the tree holds what is mounted and no
\* more: every client node has a connection and every directory leads to one.
TreeIsTidy ==
  Quiet => /\ \A m \in DOMAIN nodes : nodes[m] # <<>>
           /\ dirs = UNION {Above(m) : m \in DOMAIN nodes}

Reachable(c) ==
  life[c] = "registered" /\ mountPoint[c] # NotMounted =>
    mountPoint[c] \in DOMAIN nodes /\ Contains(nodes[mountPoint[c]], c)

\* A device that is logged in and mounted can be reached at its mount point,
\* whatever connections of it and of its neighbours end meanwhile, unless its
\* login found a node whose deletion was posted (onClientLogin(), brokerapp.cpp).
MountedDeviceIsReachable == Quiet => \A c \in Conns \ raced : Reachable(c)

\* "prefere new connections, old one might not work" (clientshvnode.cpp): a
\* device that connects again can be reached, however soon it does.  Not an
\* invariant of this code (README, section 4).
ReconnectedDeviceIsReachable == Quiet => \A c \in Conns : Reachable(c)

\* The last mntchng of a mount point tells whether it is mounted, the mount
\* points of raced logins excepted (brokerapp.cpp, clientshvnode.cpp).
LastNotificationIsRight ==
  Quiet => \A m \in Mounts \ {mountPoint[c] : c \in raced} :
             notified[m] = (m \in DOMAIN nodes)

\* onClientLogin() finds the connection it was called for ("Cannot find
\* connection for ID", brokerapp.cpp).  Not an invariant of this code (README,
\* section 4).
LoginFindsItsConnection == lost = {}

\* A connection does not stay in the login phase: it is logged in or deleted.
LoginPhaseEnds ==
  \A c \in Conns : life[c] = "registered" ~> (login[c] = "ok" \/ life[c] = "deleted")

\* The tree and the connections agree at every moment, and between two passes
\* of the event loop nothing is left of what has gone (clientshvnode.cpp,
\* shvnode.cpp).
TreeIsSound == TypeOK /\ TreeIsTidy /\ NoDanglingConnection
=============================================================================
