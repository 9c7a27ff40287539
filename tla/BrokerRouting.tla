--------------------------- MODULE BrokerRouting ---------------------------
(***************************************************************************)
(* RPC requests and responses in a chain of brokers.  Broker 1 is the top  *)
(* master; broker b + 1 logs in to broker b and is mounted there; a device *)
(* is mounted on broker N.  Clients connect to any broker and call the     *)
(* device.  Every broker pushes the id of the connection a request came on *)
(* to its caller ids and pops it from the response to find the way back    *)
(* (BrokerApp::onRpcFrameReceived).                                        *)
(*                                                                         *)
(* Link l, for l in 2..N, is the MasterBrokerConnection of broker l to     *)
(* broker l - 1; link N + 1 is the connection of the device to broker N.   *)
(* A lost link is noticed at both of its ends at once.  Connection ids are *)
(* counters of the broker process and start again when it restarts.        *)
(***************************************************************************)
EXTENDS Integers, Sequences

CONSTANTS
  N,            \* length of the chain of brokers
  Calls,        \* the RPC calls
  MaxId,        \* bound: connection ids of one broker
  MaxLosses,    \* bound: how many links and client connections are lost
  MaxRestarts   \* bound: how often every broker restarts

ASSUME BrokerRoutingAssumption ==
  /\ N \in Nat \ {0}
  /\ MaxId \in Nat /\ MaxLosses \in Nat /\ MaxRestarts \in Nat

VARIABLES
  nextId,     \* nextConnectionId() of every broker
  clients,    \* ids of the client connections registered at every broker
  link,       \* state of every link
  node,       \* the ClientShvNode of every broker for what is mounted on it
  epoch,      \* restarts of every broker
  losses,     \* connections lost so far
  msg,        \* the one message of every call that is in flight
  origin,     \* history: the connection a call was made on
  answered,   \* history: the connection the response was sent to
  disturbed   \* history: calls whose way was not up all the time

vars == <<nextId, clients, link, node, epoch, losses, msg, origin, answered, disturbed>>
netVars == <<nextId, clients, link, node, epoch, losses>>

Brokers == 1..N
Links == 2..(N + 1)

\* A broker with a master creates its MasterBrokerConnection at its start; it
\* keeps its id over reconnections.
MasterId == 1
FirstId(b) == IF b = 1 THEN 1 ELSE MasterId + 1

\* Messages.  A request at b is on its way to broker b, from a client or from
\* the broker above; at N + 1 it is on its way to the device, or held by it.
\* A response at b is on its way to broker b from below; an answer at b comes
\* from the master of b.
Idle == [st |-> "new", at |-> 0, ids |-> <<>>]
InFlight(k) == msg[k].st \in {"request", "held", "response", "answer"}
Nowhere == [broker |-> 0, id |-> 0, epoch |-> 0]

Messages ==
  [st : {"new", "request", "held", "response", "answer", "done", "dropped"},
   at : 0..(N + 1), ids : Seq(Nat)]
Connections == [broker : 0..N, id : Nat, epoch : Nat]

NetTypeOK ==
  /\ nextId \in [Brokers -> Nat]
  /\ clients \in [Brokers -> SUBSET Nat]
  /\ \A b \in Brokers : /\ FirstId(b) <= nextId[b]
                        /\ \A i \in clients[b] : FirstId(b) <= i /\ i < nextId[b]
  /\ link \in [Links -> {"down", "login", "up"}]
  /\ node \in [Brokers -> {"none", "mounted", "stale"}]
  /\ epoch \in [Brokers -> Nat] /\ losses \in Nat

CallTypeOK ==
  /\ msg \in [Calls -> Messages]
  /\ \A k \in Calls : msg[k].st \in {"response", "answer"} => msg[k].at \in Brokers
  /\ origin \in [Calls -> Connections]
  /\ answered \in [Calls -> Connections]
  /\ disturbed \in SUBSET Calls

\* Every variable has its type; no connection has an id that is still to come.
TypeOK == NetTypeOK /\ CallTypeOK

Init ==
  /\ nextId = [b \in Brokers |-> FirstId(b)]
  /\ clients = [b \in Brokers |-> {}]
  /\ link = [l \in Links |-> "down"]
  /\ node = [b \in Brokers |-> "none"]
  /\ epoch = [b \in Brokers |-> 0] /\ losses = 0
  /\ msg = [k \in Calls |-> Idle]
  /\ origin = [k \in Calls |-> Nowhere]
  /\ answered = [k \in Calls |-> Nowhere]
  /\ disturbed = {}

(***************************************************************************)
(* Connections.                                                            *)
(***************************************************************************)
\* A new server connection takes the next id of the broker.
takeId(b) == nextId[b] < MaxId /\ nextId' = [nextId EXCEPT ![b] = @ + 1]

connectClient(b) ==
  /\ takeId(b)
  /\ clients' = [clients EXCEPT ![b] = @ \cup {nextId[b]}]
  /\ UNCHANGED <<link, node, epoch, losses, msg, origin, answered, disturbed>>

\* What was on its way over one of the links in cut, or from one of the client
\* connections in gone, a set of broker and id pairs, is lost.
Carried(k, cut, gone) ==
  \/ msg[k].st = "request" /\ msg[k].at # origin[k].broker /\ msg[k].at \in cut
  \/ msg[k].st = "request" /\ msg[k].at = origin[k].broker
       /\ <<origin[k].broker, origin[k].id>> \in gone
  \/ msg[k].st = "response" /\ msg[k].at + 1 \in cut
  \/ msg[k].st = "answer" /\ msg[k].at \in cut

\* The way of a call leads over the links below its broker; the way of a
\* question to the master is the link to it.
OnWay(k, l) ==
  IF msg[k].st = "answer" THEN l = origin[k].broker ELSE l > origin[k].broker

Lose(cut, gone) ==
  /\ msg' = [k \in Calls |-> IF Carried(k, cut, gone)
                             THEN [msg[k] EXCEPT !.st = "dropped"] ELSE msg[k]]
  /\ disturbed' = disturbed \cup
       {k \in Calls : InFlight(k) /\ \/ \E l \in cut : OnWay(k, l)
                                     \/ <<origin[k].broker, origin[k].id>> \in gone}

disconnectClient(b, i) ==
  /\ i \in clients[b] /\ losses < MaxLosses
  /\ clients' = [clients EXCEPT ![b] = @ \ {i}]
  /\ losses' = losses + 1
  /\ Lose({}, {<<b, i>>})
  /\ UNCHANGED <<nextId, link, node, epoch, origin, answered>>

\* The connection of a slave or a device is accepted; it says hello and login.
connectLink(l) ==
  /\ link[l] = "down"
  /\ takeId(l - 1)
  /\ link' = [link EXCEPT ![l] = "login"]
  /\ UNCHANGED <<clients, node, epoch, losses, msg, origin, answered, disturbed>>

\* onClientLogin(): the slave or the device is mounted.
loginLink(l) ==
  /\ link[l] = "login"
  /\ link' = [link EXCEPT ![l] = "up"]
  /\ node' = [node EXCEPT ![l - 1] = "mounted"]
  /\ UNCHANGED <<nextId, clients, epoch, losses, msg, origin, answered, disturbed>>

\* The connections of the links in cut are unregistered and will be deleted
\* later, with the nodes that used them.
Unmount(cut) ==
  /\ link' = [l \in Links |-> IF l \in cut THEN "down" ELSE link[l]]
  /\ node' = [b \in Brokers |-> IF b + 1 \in cut /\ node[b] = "mounted"
                                THEN "stale" ELSE node[b]]

linkLost(l) ==
  /\ link[l] # "down" /\ losses < MaxLosses
  /\ losses' = losses + 1
  /\ Unmount({l})
  /\ Lose({l}, {})
  /\ UNCHANGED <<nextId, clients, epoch, origin, answered>>

\* ~ClientConnectionOnBroker() and removeConnection(): the deferred deletions.
deleteNode(b) ==
  /\ node[b] = "stale"
  /\ node' = [node EXCEPT ![b] = "none"]
  /\ UNCHANGED <<nextId, clients, link, epoch, losses, msg, origin, answered, disturbed>>

\* The broker process ends and starts again.
restart(b) ==
  /\ epoch[b] < MaxRestarts
  /\ epoch' = [epoch EXCEPT ![b] = @ + 1]
  /\ nextId' = [nextId EXCEPT ![b] = FirstId(b)]
  /\ clients' = [clients EXCEPT ![b] = {}]
  /\ LET cut == {b, b + 1} \cap Links
     IN /\ link' = [l \in Links |-> IF l \in cut THEN "down" ELSE link[l]]
        /\ node' = [c \in Brokers |-> IF c = b THEN "none"
                                      ELSE IF c + 1 = b /\ node[c] = "mounted"
                                      THEN "stale" ELSE node[c]]
        /\ Lose(cut, {<<b, i>> : i \in clients[b]})
  /\ UNCHANGED <<losses, origin, answered>>

(***************************************************************************)
(* Messages.                                                               *)
(***************************************************************************)
\* A client calls the device.
call(k, b, i) ==
  /\ msg[k] = Idle /\ i \in clients[b]
  /\ msg' = [msg EXCEPT ![k] = [st |-> "request", at |-> b, ids |-> <<>>]]
  /\ origin' = [origin EXCEPT ![k] = [broker |-> b, id |-> i, epoch |-> epoch[b]]]
  /\ disturbed' = IF \E l \in Links : l > b /\ link[l] # "up"
                  THEN disturbed \cup {k} ELSE disturbed
  /\ UNCHANGED <<netVars, answered>>

\* masterBrokerId: broker b calls its master over its own connection, with no
\* caller ids; the master answers.
askMaster(k, b) ==
  /\ msg[k] = Idle
  /\ b \in Links /\ link[b] = "up"
  /\ msg' = [msg EXCEPT ![k] = [st |-> "answer", at |-> b, ids |-> <<>>]]
  /\ origin' = [origin EXCEPT ![k] = [broker |-> b, id |-> 0, epoch |-> epoch[b]]]
  /\ UNCHANGED <<netVars, answered, disturbed>>

drop(k) ==
  /\ msg' = [msg EXCEPT ![k].st = "dropped"]
  /\ UNCHANGED <<netVars, origin, answered, disturbed>>

\* A response with the caller ids ids is written to link l.  A slave or device
\* that is still logging in is dropped by its master, which expects a login
\* request and gets a response.
sendUp(k, l, ids) ==
  \/ /\ link[l] = "up"
     /\ msg' = [msg EXCEPT ![k] = [st |-> "response", at |-> l - 1, ids |-> ids]]
     /\ UNCHANGED <<netVars, origin, answered, disturbed>>
  \/ /\ link[l] = "login"
     /\ link' = [link EXCEPT ![l] = "down"]
     /\ msg' = [msg EXCEPT ![k].st = "dropped"]
     /\ UNCHANGED <<nextId, clients, node, epoch, losses, origin, answered, disturbed>>
  \/ link[l] = "down" /\ drop(k)

\* Broker b sends a response to its connection id, if it is still registered.
sendResponse(k, b, id, ids) ==
  \/ /\ id \in clients[b]
     /\ answered' = [answered EXCEPT ![k] = [broker |-> b, id |-> id, epoch |-> epoch[b]]]
     /\ msg' = [msg EXCEPT ![k] = [st |-> "done", at |-> b, ids |-> ids]]
     /\ UNCHANGED <<netVars, origin, disturbed>>
  \/ b \in Links /\ id = MasterId /\ sendUp(k, b, ids)
  \/ id \notin clients[b] /\ (b \in Links => id # MasterId) /\ drop(k)

\* The connection a request came on to the broker it is at.
Via(k) == IF msg[k].at = origin[k].broker THEN origin[k].id ELSE MasterId

\* pushCallerId() and popCallerId().
pushInFront(ids, id) == <<id>> \o ids
pushCallerId(ids, id) == Append(ids, id)
firstCallerId(ids) == IF ids = <<>> THEN 0 ELSE ids[1]
topCallerId(ids) == IF ids = <<>> THEN 0 ELSE ids[Len(ids)]
popAllCallerIds(ids) == <<>>
popCallerId(ids) == IF ids = <<>> THEN <<>> ELSE SubSeq(ids, 1, Len(ids) - 1)

\* The request is refused, or answered by a node of the broker: the error is
\* sent to the connection it came on, and so is an answer, whose caller id
\* was pushed and is popped again.
answerRequest(k) ==
  /\ msg[k].st = "request" /\ msg[k].at \in Brokers
  /\ sendResponse(k, msg[k].at, Via(k), msg[k].ids)

\* The request is for what is mounted: ClientShvNode::handleRpcFrame().  A
\* node whose connection is gone drops it without an answer.
forwardRequest(k) ==
  /\ msg[k].st = "request" /\ msg[k].at \in Brokers
  /\ LET b == msg[k].at
     IN \/ /\ node[b] = "mounted"
           /\ msg' = [msg EXCEPT ![k] = [st |-> "request", at |-> b + 1,
                                         ids |-> pushCallerId(msg[k].ids, Via(k))]]
           /\ UNCHANGED <<netVars, origin, answered, disturbed>>
        \/ node[b] = "stale" /\ drop(k)

\* The device takes the request; it may answer after it reconnected.
takeRequest(k) ==
  /\ msg[k].st = "request" /\ msg[k].at = N + 1
  /\ msg' = [msg EXCEPT ![k].st = "held"]
  /\ UNCHANGED <<netVars, origin, answered, disturbed>>
respond(k) ==
  msg[k].st = "held" /\ sendUp(k, N + 1, msg[k].ids)

\* A response is sent to the connection its top caller id names.  One without
\* caller ids is thrown away: the answers to calls of the broker itself.
routeResponse(k) ==
  /\ msg[k].st \in {"response", "answer"}
  /\ IF topCallerId(msg[k].ids) > 0
     THEN sendResponse(k, msg[k].at, topCallerId(msg[k].ids), popCallerId(msg[k].ids))
     ELSE drop(k)

Next ==
  \/ \E b \in Brokers : \/ connectClient(b) \/ deleteNode(b) \/ restart(b)
                        \/ \E i \in 1..MaxId : disconnectClient(b, i)
  \/ \E l \in Links : connectLink(l) \/ loginLink(l) \/ linkLost(l)
  \/ \E k \in Calls : \/ \E b \in Brokers : askMaster(k, b) \/ \E i \in 1..MaxId : call(k, b, i)
                      \/ answerRequest(k) \/ forwardRequest(k)
                      \/ takeRequest(k) \/ respond(k) \/ routeResponse(k)

Spec == Init /\ [][Next]_vars

(***************************************************************************)
(* Properties.                                                             *)
(***************************************************************************)

\* A response goes back to the connection its request came from, whatever
\* connections were lost and made and whichever other brokers restarted in the
\* meantime, and with no caller ids left.  When the broker of the caller itself
\* restarted, it goes to the connection that has the id now
\* (BrokerApp::onRpcFrameReceived(), brokerapp.cpp).
ResponseReachesItsCaller ==
  \A k \in Calls : msg[k].st = "done" =>
    /\ answered[k].broker = origin[k].broker /\ answered[k].id = origin[k].id
    /\ epoch[origin[k].broker] = origin[k].epoch => answered[k] = origin[k]
    /\ msg[k].ids = <<>>

\* A response is what its caller is sent, and no connection of the caller or of
\* another broker can be taken for one that is still to come (takeId()).
ResponsesAreRight == TypeOK /\ ResponseReachesItsCaller

\* The call of a client gets no answer only if some connection on its way was
\* not up (BrokerApp::onRpcFrameReceived(), brokerapp.cpp).
UnansweredOnlyIfDisturbed ==
  \A k \in Calls : msg[k].st = "dropped" /\ origin[k].id > 0 => k \in disturbed

\* masterBrokerId returns the id the master answers with (brokerappnode.cpp):
\* a call of a broker gets no answer only if the connection to its master was
\* not up.  Not an invariant of this code (README, section 4).
OwnCallsAreAnswered ==
  \A k \in Calls : msg[k].st = "dropped" /\ origin[k].id = 0 => k \in disturbed

\* A message in flight is a call that waits.
Phase(st) ==
  CASE st = "new"     -> "new"
    [] st = "done"    -> "answered"
    [] st = "dropped" -> "lost"
    [] OTHER          -> "waiting"

Delivery == INSTANCE RpcDelivery WITH
  Ids    <- 0..MaxId,
  phase  <- [k \in Calls |-> Phase(msg[k].st)],
  caller <- origin

\* The brokers deliver what RpcDelivery promises: the response of a call is sent
\* at most once, by the broker it was made on and to the connection with its
\* id, never after the call was lost, and a client's call that nothing
\* disturbed is never lost (BrokerApp::onRpcFrameReceived(), brokerapp.cpp).
CallsAreDelivered == Delivery!Spec
=============================================================================
