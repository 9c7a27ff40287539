------------------------ MODULE BrokerRoutingProofs ------------------------
(***************************************************************************)
(* Responses find their callers in a chain of any length, with any number  *)
(* of clients, calls, lost connections, reconnections and restarts.        *)
(***************************************************************************)
EXTENDS BrokerRouting, SequenceTheorems, TLAPS

(***************************************************************************)
(* The inductive invariant: the caller ids of a message are the way it     *)
(* came, the client's connection first and then one MasterId for every     *)
(* broker it was passed down to.                                           *)
(***************************************************************************)
Way(k, n) ==
  /\ Len(msg[k].ids) = n
  /\ \A i \in 1..n : msg[k].ids[i] = IF i = 1 THEN origin[k].id ELSE MasterId

OnItsWay(k) ==
  LET b == origin[k].broker
      l == msg[k].at
  IN /\ msg[k].st \in {"request", "held", "response"} =>
          b \in Brokers /\ b <= l /\ FirstId(b) <= origin[k].id
     /\ msg[k].st = "request" => Way(k, l - b)
     /\ msg[k].st = "held" => l = N + 1 /\ Way(k, l - b)
     /\ msg[k].st = "response" => l <= N /\ Way(k, l - b + 1)
     /\ msg[k].st = "answer" => l \in Links /\ msg[k].ids = <<>>
     /\ msg[k].st = "done" =>
          answered[k].broker = b /\ answered[k].id = origin[k].id /\ msg[k].ids = <<>>

\* The process a call came to started no later than the one that runs, and the
\* process that answered it is between the two.
Epochs(k) ==
  LET b == origin[k].broker
  IN /\ msg[k].st # "new" => b \in Brokers /\ origin[k].epoch <= epoch[b]
     /\ msg[k].st = "done" =>
          origin[k].epoch <= answered[k].epoch /\ answered[k].epoch <= epoch[b]

IInv == TypeOK /\ \A k \in Calls : OnItsWay(k) /\ Epochs(k)

(***************************************************************************)
(* Types.                                                                  *)
(***************************************************************************)
LEMMA TypeInit == Init => TypeOK
  BY BrokerRoutingAssumption
  DEF Init, TypeOK, NetTypeOK, CallTypeOK, Messages, Connections, Idle, Nowhere,
      Brokers, Links, FirstId, MasterId

\* The operations on caller ids keep them natural numbers.
LEMMA CallerIdsType ==
  ASSUME NEW ids \in Seq(Nat), NEW id \in Nat
  PROVE  /\ pushCallerId(ids, id) \in Seq(Nat)
         /\ topCallerId(ids) \in Nat
         /\ popCallerId(ids) \in Seq(Nat)
  BY DEF pushCallerId, topCallerId, popCallerId

\* The state of the network keeps its type in every step.
LEMMA NetTypeNext ==
  ASSUME NetTypeOK, CallTypeOK, [Next]_vars
  PROVE  NetTypeOK'
<1> USE BrokerRoutingAssumption DEF Brokers, Links
<1>0. CASE UNCHANGED netVars
  BY <1>0 DEF NetTypeOK, netVars, FirstId
<1>1. ASSUME NEW b \in Brokers, connectClient(b) PROVE NetTypeOK'
  <2>1. nextId' = [nextId EXCEPT ![b] = nextId[b] + 1] /\ clients' = [clients EXCEPT ![b] = @ \cup {nextId[b]}]
    BY <1>1 DEF connectClient, takeId
  <2>2. FirstId(b) <= nextId[b]
    BY DEF NetTypeOK
  <2>3. nextId' \in [Brokers -> Nat] /\ clients' \in [Brokers -> SUBSET Nat]
    BY <2>1 DEF NetTypeOK
  <2>4. ASSUME NEW c \in Brokers
        PROVE FirstId(c) <= nextId'[c] /\ \A i \in clients'[c] : FirstId(c) <= i /\ i < nextId'[c]
    <3>1. CASE c = b
      BY <2>1, <2>2, <3>1 DEF NetTypeOK, FirstId, MasterId
    <3>2. CASE c # b
      BY <2>1, <3>2 DEF NetTypeOK
    <3> QED BY <3>1, <3>2
  <2> QED BY <1>1, <2>3, <2>4 DEF NetTypeOK, connectClient
<1>2. ASSUME NEW b \in Brokers, deleteNode(b) PROVE NetTypeOK'
  BY <1>2 DEF NetTypeOK, deleteNode, FirstId
<1>3. ASSUME NEW b \in Brokers, restart(b) PROVE NetTypeOK'
  <2>1. /\ nextId' = [nextId EXCEPT ![b] = FirstId(b)] /\ clients' = [clients EXCEPT ![b] = {}]
        /\ epoch' = [epoch EXCEPT ![b] = epoch[b] + 1] /\ losses' = losses
    BY <1>3 DEF restart
  <2>2. FirstId(b) \in Nat
    BY DEF FirstId, MasterId
  <2>3. /\ nextId' \in [Brokers -> Nat] /\ clients' \in [Brokers -> SUBSET Nat]
        /\ epoch' \in [Brokers -> Nat] /\ losses' \in Nat
    BY <2>1, <2>2 DEF NetTypeOK
  <2>4. \A c \in Brokers : /\ FirstId(c) <= nextId'[c]
                            /\ \A i \in clients'[c] : FirstId(c) <= i /\ i < nextId'[c]
    BY <2>1, <2>2 DEF NetTypeOK
  <2>5. /\ link' \in [Links -> {"down", "login", "up"}]
        /\ node' \in [Brokers -> {"none", "mounted", "stale"}]
    BY <1>3 DEF NetTypeOK, restart
  <2> QED BY <2>3, <2>4, <2>5 DEF NetTypeOK, FirstId
<1>4. ASSUME NEW b \in Brokers, NEW i \in 1..MaxId, disconnectClient(b, i) PROVE NetTypeOK'
  BY <1>4 DEF NetTypeOK, disconnectClient, FirstId
<1>5. ASSUME NEW l \in Links, connectLink(l) PROVE NetTypeOK'
  <2>1. nextId' = [nextId EXCEPT ![l - 1] = nextId[l - 1] + 1] /\ l - 1 \in Brokers
    BY <1>5 DEF connectLink, takeId
  <2>2. nextId' \in [Brokers -> Nat] /\ \A b \in Brokers : nextId[b] <= nextId'[b]
    BY <2>1 DEF NetTypeOK
  <2>3. clients' = clients
    BY <1>5 DEF connectLink
  <2>4. \A b \in Brokers : /\ FirstId(b) <= nextId'[b]
                            /\ \A i \in clients'[b] : FirstId(b) <= i /\ i < nextId'[b]
    BY <2>2, <2>3 DEF NetTypeOK, FirstId, MasterId
  <2> QED BY <1>5, <2>2, <2>4 DEF NetTypeOK, connectLink
<1>6. ASSUME NEW l \in Links, loginLink(l) PROVE NetTypeOK'
  BY <1>6 DEF NetTypeOK, loginLink, FirstId
<1>7. ASSUME NEW l \in Links, linkLost(l) PROVE NetTypeOK'
  BY <1>7 DEF NetTypeOK, linkLost, Unmount, FirstId
<1>8. ASSUME NEW k \in Calls, NEW l \in Links, NEW ids, sendUp(k, l, ids) PROVE NetTypeOK'
  BY <1>8, <1>0 DEF NetTypeOK, sendUp, drop, netVars, FirstId
<1>9. ASSUME NEW k \in Calls, NEW b, NEW id, NEW ids, sendResponse(k, b, id, ids)
      PROVE NetTypeOK'
  BY <1>9, <1>8, <1>0 DEF sendResponse, drop
<1>10. ASSUME NEW k \in Calls, answerRequest(k) \/ routeResponse(k) PROVE NetTypeOK'
  BY <1>10, <1>9, <1>0 DEF answerRequest, routeResponse, drop
<1>11. ASSUME NEW k \in Calls, respond(k) PROVE NetTypeOK'
  BY <1>11, <1>8 DEF respond
<1>12. ASSUME NEW k \in Calls,
              \/ \E b \in Brokers : askMaster(k, b) \/ \E i \in 1..MaxId : call(k, b, i)
              \/ forwardRequest(k) \/ takeRequest(k)
       PROVE NetTypeOK'
  BY <1>12, <1>0 DEF askMaster, call, forwardRequest, takeRequest, drop
<1>13. CASE UNCHANGED vars
  BY <1>13, <1>0 DEF vars, netVars
<1> QED
  BY <1>1, <1>2, <1>3, <1>4, <1>5, <1>6, <1>7, <1>10, <1>11, <1>12, <1>13 DEF Next

\* Sending and losing keep the types of the calls.
LEMMA LoseType ==
  ASSUME CallTypeOK, NEW cut, NEW gone, Lose(cut, gone), UNCHANGED <<origin, answered>>
  PROVE  CallTypeOK'
  BY DEF CallTypeOK, Messages, Lose

\* A dropped call keeps the types.
LEMMA DropType ==
  ASSUME CallTypeOK, NEW k \in Calls, msg' = [msg EXCEPT ![k].st = "dropped"],
         UNCHANGED <<origin, answered, disturbed>>
  PROVE  CallTypeOK'
  BY DEF CallTypeOK, Messages

\* A message that takes the place of another keeps them.
LEMMA SetType ==
  ASSUME CallTypeOK, NEW k \in Calls, NEW m \in Messages, msg' = [msg EXCEPT ![k] = m],
         m.st \in {"response", "answer"} => m.at \in Brokers,
         UNCHANGED <<origin, answered, disturbed>>
  PROVE  CallTypeOK'
  BY DEF CallTypeOK

\* So does a request sent to the master.
LEMMA SendUpType ==
  ASSUME CallTypeOK, NEW k \in Calls, NEW l \in Links, NEW ids \in Seq(Nat), sendUp(k, l, ids)
  PROVE  CallTypeOK'
<1>1. [st |-> "response", at |-> l - 1, ids |-> ids] \in Messages
  BY BrokerRoutingAssumption DEF Messages, Links
<1>2. l - 1 \in Brokers
  BY BrokerRoutingAssumption DEF Links, Brokers
<1> QED BY <1>1, <1>2, SetType, DropType DEF sendUp, drop

\* So does a response on its way, or at its caller.
LEMMA SendResponseType ==
  ASSUME NetTypeOK, CallTypeOK, NEW k \in Calls, NEW b \in Brokers, NEW id \in Nat,
         NEW ids \in Seq(Nat), sendResponse(k, b, id, ids)
  PROVE  CallTypeOK'
<1>1. [st |-> "done", at |-> b, ids |-> ids] \in Messages
  BY BrokerRoutingAssumption DEF Messages, Brokers
<1>2. [broker |-> b, id |-> id, epoch |-> epoch[b]] \in Connections
  BY BrokerRoutingAssumption DEF Connections, Brokers, NetTypeOK
<1>3. CASE /\ answered' = [answered EXCEPT ![k] = [broker |-> b, id |-> id, epoch |-> epoch[b]]]
           /\ msg' = [msg EXCEPT ![k] = [st |-> "done", at |-> b, ids |-> ids]]
           /\ UNCHANGED <<netVars, origin, disturbed>>
  BY <1>1, <1>2, <1>3 DEF CallTypeOK
<1> QED BY <1>3, SendUpType, DropType DEF sendResponse, drop

\* The calls keep their types in every step.
LEMMA CallTypeNext ==
  ASSUME NetTypeOK, CallTypeOK, [Next]_vars
  PROVE  CallTypeOK'
<1> USE BrokerRoutingAssumption
<1>0. CASE UNCHANGED <<msg, origin, answered, disturbed>>
  BY <1>0 DEF CallTypeOK
<1>1. ASSUME NEW b \in Brokers, connectClient(b) \/ deleteNode(b) PROVE CallTypeOK'
  BY <1>0, <1>1 DEF connectClient, deleteNode
<1>2. ASSUME NEW b \in Brokers, restart(b) PROVE CallTypeOK'
  BY <1>2, LoseType DEF restart
<1>3. ASSUME NEW b \in Brokers, NEW i \in 1..MaxId, disconnectClient(b, i) PROVE CallTypeOK'
  BY <1>3, LoseType DEF disconnectClient
<1>4. ASSUME NEW l \in Links, connectLink(l) \/ loginLink(l) PROVE CallTypeOK'
  BY <1>0, <1>4 DEF connectLink, loginLink
<1>5. ASSUME NEW l \in Links, linkLost(l) PROVE CallTypeOK'
  BY <1>5, LoseType DEF linkLost
<1>6. ASSUME NEW k \in Calls, NEW b \in Brokers, NEW i \in 1..MaxId, call(k, b, i) PROVE CallTypeOK'
  <2>1. [st |-> "request", at |-> b, ids |-> <<>>] \in Messages
    BY DEF Messages, Brokers
  <2>2. [broker |-> b, id |-> i, epoch |-> epoch[b]] \in Connections
    BY DEF Connections, Brokers, NetTypeOK
  <2> QED BY <1>6, <2>1, <2>2 DEF CallTypeOK, call
<1>7. ASSUME NEW k \in Calls, NEW b \in Brokers, askMaster(k, b) PROVE CallTypeOK'
  <2>1. [st |-> "answer", at |-> b, ids |-> <<>>] \in Messages
    BY DEF Messages, Brokers
  <2>2. [broker |-> b, id |-> 0, epoch |-> epoch[b]] \in Connections
    BY DEF Connections, Brokers, NetTypeOK
  <2> QED BY <1>7, <2>1, <2>2 DEF CallTypeOK, askMaster
<1>8. \A k \in Calls : Via(k) \in Nat /\ msg[k].ids \in Seq(Nat)
  BY DEF CallTypeOK, Messages, Connections, Via, MasterId
<1>9. ASSUME NEW k \in Calls, answerRequest(k) PROVE CallTypeOK'
  BY <1>8, <1>9, SendResponseType DEF answerRequest
<1>10. ASSUME NEW k \in Calls, forwardRequest(k) PROVE CallTypeOK'
  <2>1. CASE drop(k)
    BY <2>1, DropType DEF drop
  <2>2. msg[k].at \in Brokers /\ pushCallerId(msg[k].ids, Via(k)) \in Seq(Nat)
    BY <1>8, <1>10, CallerIdsType DEF forwardRequest
  <2>3. [st |-> "request", at |-> msg[k].at + 1, ids |-> pushCallerId(msg[k].ids, Via(k))] \in Messages
    BY <2>2 DEF Messages, Brokers
  <2> QED BY <1>10, <2>1, <2>3, SetType DEF forwardRequest
<1>11. ASSUME NEW k \in Calls, takeRequest(k) PROVE CallTypeOK'
  BY <1>11 DEF takeRequest, CallTypeOK, Messages
<1>12. ASSUME NEW k \in Calls, respond(k) PROVE CallTypeOK'
  BY <1>8, <1>12, SendUpType DEF respond, Links
<1>13. ASSUME NEW k \in Calls, routeResponse(k) PROVE CallTypeOK'
  <2>1. msg[k].at \in Brokers
    BY <1>13 DEF CallTypeOK, routeResponse
  <2> QED BY <1>8, <1>13, <2>1, CallerIdsType, SendResponseType, DropType DEF routeResponse, drop
<1>14. CASE UNCHANGED vars
  BY <1>0, <1>14 DEF vars
<1> QED
  BY <1>1, <1>2, <1>3, <1>4, <1>5, <1>6, <1>7, <1>9, <1>10, <1>11, <1>12, <1>13, <1>14 DEF Next

(***************************************************************************)
(* The way of a message.  A step changes the message of one call or drops  *)
(* messages; the lemmas say what happens to the way of a call in each.     *)
(***************************************************************************)
\* A call whose message, origin and answer stay is as before.
LEMMA SameWay ==
  ASSUME NEW c \in Calls, OnItsWay(c),
         msg'[c] = msg[c], origin'[c] = origin[c], answered'[c] = answered[c]
  PROVE  OnItsWay(c)'
  BY DEF OnItsWay, Way

\* A dropped message has no way.
LEMMA DroppedWay ==
  ASSUME NEW c \in Calls, msg'[c].st = "dropped"
  PROVE  OnItsWay(c)'
  BY DEF OnItsWay

\* The messages that were not lost with a connection are on their way.
LEMMA LoseWay ==
  ASSUME CallTypeOK, \A c \in Calls : OnItsWay(c), NEW cut, NEW gone, Lose(cut, gone),
         UNCHANGED <<origin, answered>>
  PROVE  \A c \in Calls : OnItsWay(c)'
<1> SUFFICES ASSUME NEW c \in Calls PROVE OnItsWay(c)'
  OBVIOUS
<1>1. msg'[c] = msg[c] \/ msg'[c].st = "dropped"
  BY DEF Lose, CallTypeOK, Messages
<1> QED BY <1>1, SameWay, DroppedWay

\* A step that only touches call k and keeps k on its way keeps all of them.
LEMMA OneWay ==
  ASSUME CallTypeOK, \A c \in Calls : OnItsWay(c), NEW k \in Calls, OnItsWay(k)',
         \A c \in Calls \ {k} : /\ msg'[c] = msg[c] /\ origin'[c] = origin[c]
                                 /\ answered'[c] = answered[c]
  PROVE  \A c \in Calls : OnItsWay(c)'
  BY SameWay

\* A dropped message leaves the others on their way.
LEMMA DropWay ==
  ASSUME CallTypeOK, \A c \in Calls : OnItsWay(c), NEW k \in Calls,
         msg' = [msg EXCEPT ![k].st = "dropped"], UNCHANGED <<origin, answered>>
  PROVE  \A c \in Calls : OnItsWay(c)'
<1>1. msg'[k].st = "dropped" /\ \A c \in Calls \ {k} : msg'[c] = msg[c]
  BY DEF CallTypeOK, Messages
<1> QED BY <1>1, DroppedWay, OneWay

\* A response written to link l, where the caller ids are the way to broker
\* l - 1, which is not above the broker of the caller.
LEMMA SendUpWay ==
  ASSUME CallTypeOK, \A c \in Calls : OnItsWay(c), NEW k \in Calls, NEW l \in Links,
         NEW ids \in Seq(Nat), sendUp(k, l, ids),
         origin[k].broker \in Brokers, origin[k].broker < l,
         FirstId(origin[k].broker) <= origin[k].id,
         Len(ids) = l - origin[k].broker,
         \A i \in 1..Len(ids) : ids[i] = IF i = 1 THEN origin[k].id ELSE MasterId
  PROVE  \A c \in Calls : OnItsWay(c)'
<1> USE BrokerRoutingAssumption
<1>1. CASE msg' = [msg EXCEPT ![k].st = "dropped"] /\ UNCHANGED <<origin, answered>>
  BY <1>1, DropWay
<1>2. CASE /\ msg' = [msg EXCEPT ![k] = [st |-> "response", at |-> l - 1, ids |-> ids]]
           /\ UNCHANGED <<origin, answered>>
  <2>1. msg'[k] = [st |-> "response", at |-> l - 1, ids |-> ids] /\ origin' = origin
    BY <1>2 DEF CallTypeOK
  <2>2. l - 1 - origin[k].broker + 1 = l - origin[k].broker /\ origin[k].broker <= l - 1 /\ l - 1 <= N
    BY DEF Brokers, Links
  <2>3. Way(k, l - 1 - origin[k].broker + 1)'
    BY <2>1, <2>2 DEF Way
  <2>4. OnItsWay(k)'
    BY <2>1, <2>2, <2>3 DEF OnItsWay
  <2> QED BY <1>2, <2>4, OneWay DEF CallTypeOK
<1> QED BY <1>1, <1>2 DEF sendUp, drop

\* A response sent by broker b, not above the broker of the caller, to the
\* connection its request came on.
LEMMA SendResponseWay ==
  ASSUME NetTypeOK, CallTypeOK, \A c \in Calls : OnItsWay(c),
         NEW k \in Calls, NEW b \in Brokers, NEW id, NEW ids \in Seq(Nat),
         sendResponse(k, b, id, ids),
         origin[k].broker \in Brokers, origin[k].broker <= b,
         FirstId(origin[k].broker) <= origin[k].id,
         id = IF b = origin[k].broker THEN origin[k].id ELSE MasterId,
         Len(ids) = b - origin[k].broker,
         \A i \in 1..Len(ids) : ids[i] = IF i = 1 THEN origin[k].id ELSE MasterId
  PROVE  \A c \in Calls : OnItsWay(c)'
<1> USE BrokerRoutingAssumption
<1>1. CASE drop(k)
  BY <1>1, DropWay DEF drop
<1>2. CASE b \in Links /\ id = MasterId /\ sendUp(k, b, ids)
  <2>1. origin[k].broker < b
    BY <1>2 DEF FirstId, MasterId, Links, Brokers
  <2> QED BY <1>2, <2>1, SendUpWay
<1>3. CASE /\ id \in clients[b]
           /\ answered' = [answered EXCEPT ![k] = [broker |-> b, id |-> id, epoch |-> epoch[b]]]
           /\ msg' = [msg EXCEPT ![k] = [st |-> "done", at |-> b, ids |-> ids]]
           /\ UNCHANGED <<netVars, origin, disturbed>>
  <2>1. FirstId(b) <= id
    BY <1>3 DEF NetTypeOK
  <2>2. b = origin[k].broker /\ id = origin[k].id
    BY <2>1 DEF FirstId, MasterId, Brokers
  <2>3. ids = <<>>
    BY <2>2 DEF Brokers
  <2>5. /\ msg'[k] = [st |-> "done", at |-> b, ids |-> ids] /\ origin'[k] = origin[k]
        /\ answered'[k] = [broker |-> b, id |-> id, epoch |-> epoch[b]]
    BY <1>3 DEF CallTypeOK
  <2>6. OnItsWay(k)'
    BY <2>2, <2>3, <2>5 DEF OnItsWay
  <2> QED BY <1>3, <2>6, OneWay DEF CallTypeOK
<1> QED BY <1>1, <1>2, <1>3 DEF sendResponse

\* A call whose message only loses its way keeps its epochs, as those of
\* brokers only grow.
LEMMA SameEpochs ==
  ASSUME NetTypeOK, CallTypeOK, NEW c \in Calls, Epochs(c),
         epoch' \in [Brokers -> Nat], \A b \in Brokers : epoch[b] <= epoch'[b],
         msg'[c].st # "new" => msg[c].st # "new",
         msg'[c].st = "done" => msg[c].st = "done" /\ answered'[c] = answered[c],
         origin'[c] = origin[c]
  PROVE  Epochs(c)'
<1>1. CASE msg[c].st # "new"
  <2>1. /\ origin[c].broker \in Brokers /\ origin[c].epoch \in Nat /\ answered[c].epoch \in Nat
        /\ epoch[origin[c].broker] \in Nat /\ epoch'[origin[c].broker] \in Nat
    BY <1>1 DEF Epochs, CallTypeOK, Connections, NetTypeOK
  <2> QED BY <1>1, <2>1 DEF Epochs
<1>2. CASE msg[c].st = "new"
  BY <1>2 DEF Epochs
<1> QED BY <1>1, <1>2

\* A step that sends the message of call k in flight, and makes no answer.
LEMMA MoveEpochs ==
  ASSUME NetTypeOK, CallTypeOK, \A c \in Calls : Epochs(c), NEW k \in Calls,
         msg[k].st # "new", msg'[k].st # "done",
         \A c \in Calls \ {k} : msg'[c] = msg[c],
         UNCHANGED <<epoch, origin, answered>>
  PROVE  \A c \in Calls : Epochs(c)'
<1> SUFFICES ASSUME NEW c \in Calls PROVE Epochs(c)'
  OBVIOUS
<1>1. epoch' \in [Brokers -> Nat] /\ \A b \in Brokers : epoch[b] <= epoch'[b]
  BY DEF NetTypeOK
<1>2. /\ msg'[c].st # "new" => msg[c].st # "new"
      /\ msg'[c].st = "done" => msg[c].st = "done" /\ answered'[c] = answered[c]
      /\ origin'[c] = origin[c]
  OBVIOUS
<1> QED BY <1>1, <1>2, SameEpochs

\* A request that is forwarded keeps the process it is answered for.
LEMMA SendUpEpochs ==
  ASSUME NetTypeOK, CallTypeOK, \A c \in Calls : Epochs(c), NEW k \in Calls,
         msg[k].st # "new", NEW l, NEW ids, sendUp(k, l, ids)
  PROVE  \A c \in Calls : Epochs(c)'
<1>1. UNCHANGED <<epoch, origin, answered>>
  BY DEF sendUp, drop, netVars
<1>2. msg'[k].st # "done" /\ \A c \in Calls \ {k} : msg'[c] = msg[c]
  BY DEF sendUp, drop, CallTypeOK, Messages
<1> QED BY <1>1, <1>2, MoveEpochs

\* A response is answered in the process it came from, or in a later one of the
\* same broker.
LEMMA SendResponseEpochs ==
  ASSUME NetTypeOK, CallTypeOK, \A c \in Calls : Epochs(c), NEW k \in Calls,
         msg[k].st # "new", NEW b \in Brokers, NEW id, NEW ids,
         id \in clients[b] => b = origin[k].broker, sendResponse(k, b, id, ids)
  PROVE  \A c \in Calls : Epochs(c)'
<1>1. CASE drop(k)
  <2>1. msg'[k].st # "done" /\ \A c \in Calls \ {k} : msg'[c] = msg[c]
    BY <1>1 DEF drop, CallTypeOK, Messages
  <2> QED BY <1>1, <2>1, MoveEpochs DEF drop, netVars
<1>2. CASE sendUp(k, b, ids)
  BY <1>2, SendUpEpochs
<1>3. CASE /\ id \in clients[b]
           /\ answered' = [answered EXCEPT ![k] = [broker |-> b, id |-> id, epoch |-> epoch[b]]]
           /\ msg' = [msg EXCEPT ![k] = [st |-> "done", at |-> b, ids |-> ids]]
           /\ UNCHANGED <<netVars, origin, disturbed>>
  <2>1. ASSUME NEW c \in Calls \ {k} PROVE Epochs(c)'
    <3>1. /\ msg'[c] = msg[c] /\ answered'[c] = answered[c] /\ origin'[c] = origin[c]
          /\ epoch' = epoch
      BY <1>3 DEF CallTypeOK, netVars
    <3> QED BY <3>1 DEF Epochs
  <2>2. Epochs(k)'
    <3>1. /\ origin'[k] = origin[k] /\ epoch' = epoch /\ answered'[k].epoch = epoch[b]
          /\ b = origin[k].broker /\ epoch[b] \in Nat
      BY <1>3 DEF CallTypeOK, netVars, NetTypeOK
    <3>2. origin[k].epoch <= epoch[b]
      BY <3>1 DEF Epochs
    <3> QED BY <3>1, <3>2 DEF Epochs
  <2> QED BY <2>1, <2>2
<1> QED BY <1>1, <1>2, <1>3 DEF sendResponse

\* A broker that is not the caller's has no client with the id of its master
\* connection, so what it sends there goes up.
LEMMA NoClientIsMaster ==
  ASSUME NetTypeOK, NEW b \in Brokers, NEW o \in Brokers, o <= b, NEW id,
         id = IF b = o THEN id ELSE MasterId, id \in clients[b]
  PROVE  b = o
<1>1. FirstId(b) <= id
  BY DEF NetTypeOK
<1> QED BY <1>1, BrokerRoutingAssumption DEF FirstId, MasterId, Brokers

\* The top caller id of a response names the caller at its broker and the
\* master connection at every broker below.
LEMMA TopIsTheWayUp ==
  ASSUME CallTypeOK, NEW k \in Calls, OnItsWay(k), msg[k].st = "response"
  PROVE  topCallerId(msg[k].ids) =
           IF msg[k].at = origin[k].broker THEN origin[k].id ELSE MasterId
<1>1. /\ msg[k].ids \in Seq(Nat) /\ msg[k].at \in Brokers
      /\ origin[k].broker \in Brokers /\ origin[k].broker <= msg[k].at
      /\ Way(k, msg[k].at - origin[k].broker + 1)
  BY DEF OnItsWay, CallTypeOK, Messages
<1>2. Len(msg[k].ids) = msg[k].at - origin[k].broker + 1 /\ msg[k].ids # <<>>
  BY <1>1 DEF Way, Brokers
<1>3. PICK n \in Nat \ {0} : n = msg[k].at - origin[k].broker + 1
  BY <1>1 DEF Brokers
<1>4. topCallerId(msg[k].ids) = IF n = 1 THEN origin[k].id ELSE MasterId
  BY <1>1, <1>2, <1>3 DEF topCallerId, Way
<1>5. n = 1 <=> msg[k].at = origin[k].broker
  BY <1>1, <1>3 DEF Brokers
<1> QED BY <1>4, <1>5

\* Every step keeps the order of processes of a caller's broker.
LEMMA EpochsNext ==
  ASSUME IInv, [Next]_vars
  PROVE  \A c \in Calls : Epochs(c)'
<1> USE BrokerRoutingAssumption
<1> USE DEF IInv, TypeOK
<1>0. CASE UNCHANGED <<epoch, msg, origin, answered>>
  BY <1>0 DEF Epochs
<1>1. ASSUME NEW b \in Brokers, connectClient(b) \/ deleteNode(b)
      PROVE \A c \in Calls : Epochs(c)'
  BY <1>0, <1>1 DEF connectClient, deleteNode
<1>2. ASSUME NEW cut, NEW gone, Lose(cut, gone), UNCHANGED <<origin, answered>>,
             epoch' \in [Brokers -> Nat], \A b \in Brokers : epoch[b] <= epoch'[b]
      PROVE \A c \in Calls : Epochs(c)'
  <2> SUFFICES ASSUME NEW c \in Calls PROVE Epochs(c)'
    OBVIOUS
  <2>1. /\ msg'[c].st # "new" => msg[c].st # "new"
        /\ msg'[c].st = "done" => msg[c].st = "done" /\ answered'[c] = answered[c]
    BY <1>2 DEF Lose, Carried, CallTypeOK, Messages
  <2> QED BY <1>2, <2>1, SameEpochs
<1>3. ASSUME NEW b \in Brokers, restart(b) PROVE \A c \in Calls : Epochs(c)'
  <2>1. epoch' = [epoch EXCEPT ![b] = epoch[b] + 1] /\ epoch \in [Brokers -> Nat]
    BY <1>3 DEF restart, NetTypeOK
  <2>2. epoch' \in [Brokers -> Nat] /\ \A c \in Brokers : epoch[c] <= epoch'[c]
    BY <2>1
  <2> QED BY <1>2, <1>3, <2>2 DEF restart
<1>4. epoch \in [Brokers -> Nat] /\ \A b \in Brokers : epoch[b] <= epoch[b]
  BY DEF NetTypeOK
<1>5. ASSUME NEW b \in Brokers, NEW i \in 1..MaxId, disconnectClient(b, i)
      PROVE \A c \in Calls : Epochs(c)'
  BY <1>2, <1>4, <1>5 DEF disconnectClient
<1>6. ASSUME NEW l \in Links, connectLink(l) \/ loginLink(l)
      PROVE \A c \in Calls : Epochs(c)'
  BY <1>0, <1>6 DEF connectLink, loginLink
<1>7. ASSUME NEW l \in Links, linkLost(l) PROVE \A c \in Calls : Epochs(c)'
  BY <1>2, <1>4, <1>7 DEF linkLost
<1>8. ASSUME NEW k \in Calls, NEW b \in Brokers,
             askMaster(k, b) \/ \E i \in 1..MaxId : call(k, b, i)
      PROVE \A c \in Calls : Epochs(c)'
  <2>1. /\ origin'[k].broker = b /\ origin'[k].epoch = epoch[b] /\ epoch' = epoch
        /\ msg'[k].st \in {"request", "answer"}
    BY <1>8 DEF askMaster, call, netVars, CallTypeOK
  <2>2. \A c \in Calls \ {k} : /\ origin'[c] = origin[c] /\ answered'[c] = answered[c]
                                 /\ msg'[c] = msg[c]
    BY <1>8 DEF askMaster, call, CallTypeOK
  <2> QED BY <1>4, <2>1, <2>2 DEF Epochs
<1>9. ASSUME NEW k \in Calls, forwardRequest(k) \/ takeRequest(k)
      PROVE \A c \in Calls : Epochs(c)'
  <2>1. /\ msg[k].st # "new" /\ msg'[k].st # "done"
        /\ \A c \in Calls \ {k} : msg'[c] = msg[c]
    BY <1>9 DEF forwardRequest, takeRequest, drop, CallTypeOK, Messages
  <2>2. UNCHANGED <<epoch, origin, answered>>
    BY <1>9 DEF forwardRequest, takeRequest, drop, netVars
  <2> QED BY <2>1, <2>2, MoveEpochs
<1>10. ASSUME NEW k \in Calls, respond(k) PROVE \A c \in Calls : Epochs(c)'
  BY <1>10, SendUpEpochs DEF respond
<1>11. ASSUME NEW k \in Calls, answerRequest(k) PROVE \A c \in Calls : Epochs(c)'
  <2>1. /\ msg[k].st # "new" /\ msg[k].at \in Brokers
        /\ origin[k].broker \in Brokers /\ origin[k].broker <= msg[k].at
    BY <1>11 DEF answerRequest, OnItsWay
  <2>2. Via(k) \in clients[msg[k].at] => msg[k].at = origin[k].broker
    BY <2>1, NoClientIsMaster DEF Via
  <2> QED BY <1>11, <2>1, <2>2, SendResponseEpochs DEF answerRequest
<1>12. ASSUME NEW k \in Calls, routeResponse(k), topCallerId(msg[k].ids) > 0
       PROVE \A c \in Calls : Epochs(c)'
  <2>1. /\ msg[k].st = "response" /\ msg[k].at \in Brokers
        /\ origin[k].broker \in Brokers /\ origin[k].broker <= msg[k].at
    BY <1>12 DEF routeResponse, OnItsWay, topCallerId, CallTypeOK
  <2>2. topCallerId(msg[k].ids) \in clients[msg[k].at] => msg[k].at = origin[k].broker
    BY <2>1, TopIsTheWayUp, NoClientIsMaster
  <2> QED BY <1>12, <2>1, <2>2, SendResponseEpochs DEF routeResponse
<1>13. ASSUME NEW k \in Calls, routeResponse(k), ~(topCallerId(msg[k].ids) > 0)
       PROVE \A c \in Calls : Epochs(c)'
  <2>1. drop(k) /\ msg[k].st # "new"
    BY <1>13 DEF routeResponse
  <2>2. msg'[k].st # "done" /\ \A c \in Calls \ {k} : msg'[c] = msg[c]
    BY <2>1 DEF drop, CallTypeOK, Messages
  <2> QED BY <2>1, <2>2, MoveEpochs DEF drop, netVars
<1>14. CASE UNCHANGED vars
  BY <1>0, <1>14 DEF vars
<1> QED
  BY <1>1, <1>3, <1>5, <1>6, <1>7, <1>8, <1>9, <1>10, <1>11, <1>12, <1>13, <1>14 DEF Next

\* The initial state satisfies the inductive invariant.
LEMMA IInvInit == Init => IInv
<1> SUFFICES ASSUME Init PROVE \A k \in Calls : OnItsWay(k) /\ Epochs(k)
  BY TypeInit DEF IInv
<1> QED BY DEF Init, OnItsWay, Epochs, Idle

\* Every step preserves it.
LEMMA IInvNext ==
  ASSUME IInv, [Next]_vars
  PROVE  IInv'
<1> USE BrokerRoutingAssumption
<1> USE DEF IInv, TypeOK
<1> SUFFICES \A c \in Calls : OnItsWay(c)'
  BY NetTypeNext, CallTypeNext, EpochsNext
<1>0. CASE UNCHANGED <<msg, origin, answered>>
  BY <1>0, SameWay
<1>1. ASSUME NEW b \in Brokers, connectClient(b) \/ deleteNode(b)
      PROVE \A c \in Calls : OnItsWay(c)'
  BY <1>0, <1>1 DEF connectClient, deleteNode
<1>2. ASSUME NEW b \in Brokers, restart(b)
      PROVE \A c \in Calls : OnItsWay(c)'
  BY <1>2, LoseWay DEF restart
<1>3. ASSUME NEW b \in Brokers, NEW i \in 1..MaxId, disconnectClient(b, i)
      PROVE \A c \in Calls : OnItsWay(c)'
  BY <1>3, LoseWay DEF disconnectClient
<1>4. ASSUME NEW l \in Links, connectLink(l) \/ loginLink(l)
      PROVE \A c \in Calls : OnItsWay(c)'
  BY <1>0, <1>4 DEF connectLink, loginLink
<1>5. ASSUME NEW l \in Links, linkLost(l)
      PROVE \A c \in Calls : OnItsWay(c)'
  BY <1>5, LoseWay DEF linkLost
<1>6. ASSUME NEW k \in Calls, NEW b \in Brokers, NEW i \in 1..MaxId, call(k, b, i)
      PROVE \A c \in Calls : OnItsWay(c)'
  <2>1. /\ msg'[k] = [st |-> "request", at |-> b, ids |-> <<>>]
        /\ origin'[k] = [broker |-> b, id |-> i, epoch |-> epoch[b]]
        /\ FirstId(b) <= i
    BY <1>6 DEF call, CallTypeOK, NetTypeOK
  <2>2. Way(k, 0)' /\ b - b = 0
    BY <2>1 DEF Way, Brokers
  <2>3. OnItsWay(k)'
    BY <2>1, <2>2 DEF OnItsWay, Brokers
  <2> QED BY <1>6, <2>3, OneWay DEF call, CallTypeOK
<1>7. ASSUME NEW k \in Calls, NEW b \in Brokers, askMaster(k, b)
      PROVE \A c \in Calls : OnItsWay(c)'
  <2>1. msg'[k] = [st |-> "answer", at |-> b, ids |-> <<>>] /\ b \in Links
    BY <1>7 DEF askMaster, CallTypeOK
  <2>2. OnItsWay(k)'
    BY <2>1 DEF OnItsWay
  <2> QED BY <1>7, <2>2, OneWay DEF askMaster, CallTypeOK
<1>8. ASSUME NEW k \in Calls, answerRequest(k)
      PROVE \A c \in Calls : OnItsWay(c)'
  <2>1. /\ msg[k].ids \in Seq(Nat)
        /\ origin[k].broker \in Brokers /\ origin[k].broker <= msg[k].at
        /\ FirstId(origin[k].broker) <= origin[k].id
        /\ Way(k, msg[k].at - origin[k].broker)
    BY <1>8 DEF answerRequest, OnItsWay, CallTypeOK, Messages
  <2> QED BY <1>8, <2>1, SendResponseWay DEF answerRequest, Way, Via
<1>9. ASSUME NEW k \in Calls, forwardRequest(k)
      PROVE \A c \in Calls : OnItsWay(c)'
  <2>1. CASE drop(k)
    BY <2>1, DropWay DEF drop
  <2>2. CASE /\ msg' = [msg EXCEPT ![k] = [st |-> "request", at |-> msg[k].at + 1,
                                           ids |-> pushCallerId(msg[k].ids, Via(k))]]
             /\ UNCHANGED <<netVars, origin, answered, disturbed>>
    <3>1. /\ msg[k].ids \in Seq(Nat) /\ Via(k) \in Nat /\ msg[k].at \in Brokers
          /\ origin[k].broker \in Brokers /\ origin[k].broker <= msg[k].at
          /\ FirstId(origin[k].broker) <= origin[k].id
          /\ Way(k, msg[k].at - origin[k].broker)
      BY <1>9 DEF forwardRequest, OnItsWay, CallTypeOK, Messages, Connections, Via, MasterId
    <3>2. msg'[k] = [st |-> "request", at |-> msg[k].at + 1, ids |-> Append(msg[k].ids, Via(k))]
      BY <2>2 DEF CallTypeOK, pushCallerId
    <3>3. Via(k) = IF Len(msg[k].ids) = 0 THEN origin[k].id ELSE MasterId
      BY <3>1 DEF Via, Way, Brokers
    <3>4. PICK n \in Nat : n = msg[k].at + 1 - origin[k].broker
      BY <3>1 DEF Brokers
    <3>5. Way(k, n)'
      <4>1. Len(msg[k].ids) = n - 1 /\ Len(Append(msg[k].ids, Via(k))) = n /\ n >= 1
        <5>1. Len(msg[k].ids) = msg[k].at - origin[k].broker
          BY <3>1 DEF Way
        <5>2. msg[k].at \in Int /\ origin[k].broker \in Int /\ Len(msg[k].ids) \in Nat
          BY <3>1 DEF Brokers
        <5>3. Len(msg[k].ids) = n - 1
          BY <3>4, <5>1, <5>2
        <5> QED BY <3>1, <5>2, <5>3
      <4>2. \A i \in 1..(n - 1) : Append(msg[k].ids, Via(k))[i] = IF i = 1 THEN origin[k].id ELSE MasterId
        BY <3>1, <4>1 DEF Way
      <4>3. Append(msg[k].ids, Via(k))[n] = IF n = 1 THEN origin[k].id ELSE MasterId
        BY <3>1, <3>3, <4>1
      <4>4. \A i \in 1..n : Append(msg[k].ids, Via(k))[i] = IF i = 1 THEN origin[k].id ELSE MasterId
        <5>1. \A i \in 1..n : i \in 1..(n - 1) \/ i = n
          OBVIOUS
        <5> QED BY <4>2, <4>3, <5>1
      <4>5. msg'[k].ids = Append(msg[k].ids, Via(k)) /\ origin' = origin
        BY <2>2, <3>2
      <4> QED BY <4>1, <4>4, <4>5 DEF Way, MasterId
    <3>6. n = msg'[k].at - origin'[k].broker
      <4>1. msg'[k].at = msg[k].at + 1 /\ origin'[k].broker = origin[k].broker
        BY <2>2, <3>2
      <4>2. msg[k].at \in Int /\ origin[k].broker \in Int
        BY <3>1 DEF Brokers
      <4> QED BY <3>4, <4>1, <4>2, Z3
    <3>7. OnItsWay(k)'
      BY <2>2, <3>1, <3>2, <3>5, <3>6 DEF OnItsWay, Brokers
    <3> QED BY <2>2, <3>7, OneWay DEF CallTypeOK
  <2> QED BY <1>9, <2>1, <2>2 DEF forwardRequest
<1>10. ASSUME NEW k \in Calls, takeRequest(k)
       PROVE \A c \in Calls : OnItsWay(c)'
  <2>1. msg'[k] = [msg[k] EXCEPT !.st = "held"] /\ msg[k].st = "request" /\ msg[k].at = N + 1
    BY <1>10 DEF takeRequest, CallTypeOK
  <2>2. /\ msg'[k].st = "held" /\ msg'[k].at = N + 1 /\ msg'[k].ids = msg[k].ids
        /\ origin' = origin
    BY <1>10, <2>1 DEF takeRequest, CallTypeOK, Messages
  <2>3. OnItsWay(k)'
    BY <2>1, <2>2 DEF OnItsWay, Way
  <2> QED BY <1>10, <2>3, OneWay DEF takeRequest, CallTypeOK
<1>11. ASSUME NEW k \in Calls, respond(k)
       PROVE \A c \in Calls : OnItsWay(c)'
  <2>1. /\ msg[k].ids \in Seq(Nat) /\ msg[k].at = N + 1
        /\ origin[k].broker \in Brokers
        /\ FirstId(origin[k].broker) <= origin[k].id
        /\ Way(k, msg[k].at - origin[k].broker)
    BY <1>11 DEF respond, OnItsWay, CallTypeOK, Messages
  <2>2. N + 1 \in Links /\ origin[k].broker < N + 1
    BY <2>1 DEF Links, Brokers
  <2> QED BY <1>11, <2>1, <2>2, SendUpWay DEF respond, Way
<1>12. ASSUME NEW k \in Calls, routeResponse(k), msg[k].st = "response"
       PROVE \A c \in Calls : OnItsWay(c)'
  <2> DEFINE b == msg[k].at
             ids == msg[k].ids
  <2>1. /\ ids \in Seq(Nat) /\ b \in Brokers
        /\ origin[k].broker \in Brokers /\ origin[k].broker <= b
        /\ FirstId(origin[k].broker) <= origin[k].id
        /\ Way(k, b - origin[k].broker + 1)
    BY <1>12 DEF OnItsWay, CallTypeOK, Messages
  <2>2. Len(ids) = b - origin[k].broker + 1 /\ ids # <<>>
    BY <2>1 DEF Way, Brokers
  <2>3. topCallerId(ids) = IF b = origin[k].broker THEN origin[k].id ELSE MasterId
    BY <1>12, TopIsTheWayUp
  <2>4. topCallerId(ids) > 0
    BY <2>1, <2>3 DEF FirstId, MasterId, CallTypeOK, Connections, Brokers
  <2>5. /\ popCallerId(ids) \in Seq(Nat)
        /\ Len(popCallerId(ids)) = b - origin[k].broker
        /\ \A i \in 1..Len(popCallerId(ids)) : popCallerId(ids)[i] = ids[i]
    <3>1. popCallerId(ids) = SubSeq(ids, 1, Len(ids) - 1)
      BY <2>2 DEF popCallerId
    <3>2. Len(ids) - 1 \in 0..Len(ids) /\ Len(ids) - 1 = b - origin[k].broker
      BY <2>1, <2>2 DEF Brokers
    <3> HIDE DEF ids, b
    <3> QED BY <2>1, <3>1, <3>2, SubSeqProperties
  <2>6. sendResponse(k, b, topCallerId(ids), popCallerId(ids))
    BY <1>12, <2>4 DEF routeResponse
  <2>7. \A i \in 1..Len(popCallerId(ids)) :
          popCallerId(ids)[i] = IF i = 1 THEN origin[k].id ELSE MasterId
    BY <2>1, <2>2, <2>5 DEF Way, Brokers
  <2> HIDE DEF b, ids
  <2> QED BY <2>1, <2>3, <2>5, <2>6, <2>7, SendResponseWay
<1>13. ASSUME NEW k \in Calls, routeResponse(k), msg[k].st = "answer"
       PROVE \A c \in Calls : OnItsWay(c)'
  <2>1. topCallerId(msg[k].ids) = 0
    BY <1>13 DEF OnItsWay, topCallerId
  <2> QED BY <1>13, <2>1, DropWay DEF routeResponse, drop
<1>14. ASSUME NEW k \in Calls, routeResponse(k)
       PROVE \A c \in Calls : OnItsWay(c)'
  BY <1>12, <1>13, <1>14 DEF routeResponse
<1> QED
  BY <1>0, <1>1, <1>2, <1>3, <1>4, <1>5, <1>6, <1>7, <1>8, <1>9, <1>10, <1>11, <1>14
  DEF Next, vars

\* ResponsesAreRight for chains of brokers of any length, restarts
\* included: connection ids of a broker are below its counter and never that
\* of its master connection, and the caller ids BrokerApp::onRpcFrameReceived() pushes and pops
\* lead every response back to the connection its request came on, or, when
\* the broker of the caller restarted, to the connection with its id.
THEOREM CallersGetTheirResponses == Spec => []ResponsesAreRight
<1>1. Init => IInv
  BY IInvInit
<1>2. IInv /\ [Next]_vars => IInv'
  BY IInvNext
<1>3. IInv => ResponseReachesItsCaller
  <2> SUFFICES ASSUME IInv, NEW k \in Calls, msg[k].st = "done"
               PROVE  /\ answered[k].broker = origin[k].broker /\ answered[k].id = origin[k].id
                      /\ epoch[origin[k].broker] = origin[k].epoch => answered[k] = origin[k]
                      /\ msg[k].ids = <<>>
    BY DEF ResponseReachesItsCaller
  <2>1. answered[k].broker = origin[k].broker /\ answered[k].id = origin[k].id /\ msg[k].ids = <<>>
    BY DEF IInv, OnItsWay
  <2>2. /\ origin[k].epoch <= answered[k].epoch /\ answered[k].epoch <= epoch[origin[k].broker]
        /\ origin[k] \in Connections /\ answered[k] \in Connections
    BY DEF IInv, Epochs, TypeOK, CallTypeOK
  <2>3. epoch[origin[k].broker] = origin[k].epoch => answered[k].epoch = origin[k].epoch
    BY <2>2 DEF Connections
  <2>4. answered[k].epoch = origin[k].epoch => answered[k] = origin[k]
    BY <2>1, <2>2 DEF Connections
  <2> QED BY <2>1, <2>3, <2>4
<1>4. IInv => ResponsesAreRight
  BY <1>3 DEF IInv, ResponsesAreRight
<1> QED BY <1>1, <1>2, <1>4, PTL DEF Spec

(***************************************************************************)
(* Why a call is left without an answer.  As long as nothing on its way    *)
(* was lost, its client is connected and every link below its broker is    *)
(* up; a link that is up has its node mounted, so no broker on the way     *)
(* drops the message.                                                      *)
(***************************************************************************)
LinksAreMounted == \A l \in Links : link[l] = "up" => node[l - 1] = "mounted"

WayIsUp(k) ==
  InFlight(k) /\ origin[k].id > 0 /\ k \notin disturbed =>
    /\ msg[k].st # "answer"
    /\ origin[k].id \in clients[origin[k].broker]
    /\ \A l \in Links : l > origin[k].broker => link[l] = "up"

DropIsDisturbed(k) == msg[k].st = "dropped" /\ origin[k].id > 0 => k \in disturbed

WaysAreUp == LinksAreMounted /\ \A k \in Calls : WayIsUp(k) /\ DropIsDisturbed(k)

\* Every step keeps a link that is up mounted.
LEMMA LinksAreMountedNext ==
  ASSUME IInv, LinksAreMounted, [Next]_vars
  PROVE  LinksAreMounted'
<1> USE BrokerRoutingAssumption DEF IInv, TypeOK, NetTypeOK
<1>0. CASE UNCHANGED <<link, node>>
  BY <1>0 DEF LinksAreMounted
<1>1. ASSUME NEW b \in Brokers, connectClient(b) \/ \E i \in 1..MaxId : disconnectClient(b, i)
      PROVE LinksAreMounted'
  BY <1>0, <1>1 DEF connectClient, disconnectClient
<1>2. ASSUME NEW b \in Brokers, deleteNode(b) PROVE LinksAreMounted'
  BY <1>2 DEF LinksAreMounted, deleteNode
<1>3. ASSUME NEW b \in Brokers, restart(b) PROVE LinksAreMounted'
  BY <1>3 DEF LinksAreMounted, restart, Brokers, Links
<1>4. ASSUME NEW l \in Links, connectLink(l) PROVE LinksAreMounted'
  BY <1>4 DEF LinksAreMounted, connectLink
<1>5. ASSUME NEW l \in Links, loginLink(l) PROVE LinksAreMounted'
  BY <1>5 DEF LinksAreMounted, loginLink, Brokers, Links
<1>6. ASSUME NEW l \in Links, linkLost(l) PROVE LinksAreMounted'
  BY <1>6 DEF LinksAreMounted, linkLost, Unmount, Brokers, Links
<1>7. ASSUME NEW k \in Calls, NEW l \in Links, NEW ids, sendUp(k, l, ids) PROVE LinksAreMounted'
  BY <1>0, <1>7 DEF LinksAreMounted, sendUp, drop, netVars
<1>8. ASSUME NEW k \in Calls, answerRequest(k) \/ routeResponse(k) \/ respond(k)
      PROVE LinksAreMounted'
  <2>1. N + 1 \in Links
    BY DEF Links
  <2> QED BY <1>0, <1>7, <1>8, <2>1
          DEF answerRequest, routeResponse, respond, sendResponse, drop, netVars
<1>9. ASSUME NEW k \in Calls,
             \/ \E b \in Brokers : askMaster(k, b) \/ \E i \in 1..MaxId : call(k, b, i)
             \/ forwardRequest(k) \/ takeRequest(k)
      PROVE LinksAreMounted'
  BY <1>0, <1>9 DEF askMaster, call, forwardRequest, takeRequest, drop, netVars
<1>10. CASE UNCHANGED vars
  BY <1>0, <1>10 DEF vars
<1> QED
  BY <1>1, <1>2, <1>3, <1>4, <1>5, <1>6, <1>8, <1>9, <1>10 DEF Next

\* What a lost link or connection carried was on its way over it.
LEMMA LoseDisturbs ==
  ASSUME IInv, WaysAreUp, NEW cut, NEW gone, Lose(cut, gone), UNCHANGED origin,
         \A b \in Brokers : \A i \in clients[b] : i \in clients'[b] \/ <<b, i>> \in gone,
         \A l \in Links : link[l] = "up" => link'[l] = "up" \/ l \in cut
  PROVE  \A k \in Calls : WayIsUp(k)' /\ DropIsDisturbed(k)'
<1> USE BrokerRoutingAssumption
<1> SUFFICES ASSUME NEW k \in Calls PROVE WayIsUp(k)' /\ DropIsDisturbed(k)'
  OBVIOUS
<1> USE DEF IInv, TypeOK
<1>1. /\ \/ msg'[k] = msg[k]
         \/ msg'[k].st = "dropped" /\ Carried(k, cut, gone)
      /\ k \in disturbed => k \in disturbed'
      /\ InFlight(k) /\ <<origin[k].broker, origin[k].id>> \in gone => k \in disturbed'
      /\ \A l \in cut : InFlight(k) /\ OnWay(k, l) => k \in disturbed'
  BY DEF Lose, CallTypeOK, Messages
<1>2. OnItsWay(k) /\ WayIsUp(k) /\ DropIsDisturbed(k) /\ Epochs(k)
  BY DEF WaysAreUp
<1>3. msg[k].at \in Int /\ origin[k].broker \in Int
  BY DEF CallTypeOK, Messages, Connections
<1>4. ASSUME Carried(k, cut, gone), origin[k].id > 0, k \notin disturbed PROVE k \in disturbed'
  <2>1. InFlight(k)
    BY <1>4 DEF Carried, InFlight
  <2>2. msg[k].st # "answer"
    BY <1>2, <1>4, <2>1 DEF WayIsUp
  <2>3. origin[k].broker <= msg[k].at
    BY <1>4, <1>2, <2>2 DEF Carried, OnItsWay
  <2>4. CASE msg[k].st = "request" /\ msg[k].at # origin[k].broker /\ msg[k].at \in cut
    BY <1>1, <1>3, <2>1, <2>3, <2>4 DEF OnWay
  <2>5. CASE msg[k].st = "response" /\ msg[k].at + 1 \in cut
    BY <1>1, <1>3, <2>1, <2>3, <2>5 DEF OnWay
  <2> QED BY <1>1, <1>4, <2>1, <2>2, <2>4, <2>5 DEF Carried
<1>5. DropIsDisturbed(k)'
  BY <1>1, <1>2, <1>4 DEF DropIsDisturbed
<1>6. WayIsUp(k)'
  <2> SUFFICES ASSUME InFlight(k)', origin[k].id > 0, k \notin disturbed'
               PROVE /\ msg'[k].st # "answer"
                     /\ origin[k].id \in clients'[origin[k].broker]
                     /\ \A l \in Links : l > origin[k].broker => link'[l] = "up"
    BY DEF WayIsUp
  <2>1. msg'[k] = msg[k] /\ InFlight(k) /\ k \notin disturbed
    BY <1>1 DEF InFlight
  <2>2. /\ msg[k].st # "answer" /\ origin[k].id \in clients[origin[k].broker]
        /\ \A l \in Links : l > origin[k].broker => link[l] = "up"
    BY <1>2, <2>1 DEF WayIsUp
  <2>3. origin[k].broker \in Brokers
    BY <1>2, <2>1 DEF Epochs, InFlight
  <2>4. \A l \in Links : l > origin[k].broker => l \notin cut
    BY <1>1, <2>1, <2>2 DEF OnWay
  <2> QED BY <1>1, <2>1, <2>2, <2>3, <2>4
<1> QED BY <1>5, <1>6

\* A step that leaves the network as it is or better, and changes at most the
\* message of call k, which it does not drop.
LEMMA MoveKeepsWays ==
  ASSUME IInv, WaysAreUp, NEW k \in Calls,
         \A c \in Calls \ {k} : msg'[c] = msg[c],
         UNCHANGED <<origin, clients, disturbed>>,
         \A l \in Links : link[l] = "up" => link'[l] = "up",
         InFlight(k)' => InFlight(k), msg'[k].st = "answer" => msg[k].st = "answer",
         msg'[k].st = "dropped" => msg[k].st = "dropped" \/ origin[k].id = 0 \/ k \in disturbed
  PROVE  \A c \in Calls : WayIsUp(c)' /\ DropIsDisturbed(c)'
<1> SUFFICES ASSUME NEW c \in Calls PROVE WayIsUp(c)' /\ DropIsDisturbed(c)'
  OBVIOUS
<1>1. InFlight(c)' => InFlight(c)
  BY DEF InFlight
<1>2. msg'[c].st = "answer" => msg[c].st = "answer"
  OBVIOUS
<1>3. WayIsUp(c) /\ DropIsDisturbed(c)
  BY DEF WaysAreUp
<1> QED BY <1>1, <1>2, <1>3 DEF WayIsUp, DropIsDisturbed

\* A response is dropped on its way up only if the link is not up, or it
\* belongs to a call that was disturbed.
LEMMA SendUpKeepsWays ==
  ASSUME IInv, WaysAreUp, NEW k \in Calls, NEW l \in Links, NEW ids, sendUp(k, l, ids),
         InFlight(k), origin[k].id > 0 /\ k \notin disturbed => link[l] = "up"
  PROVE  \A c \in Calls : WayIsUp(c)' /\ DropIsDisturbed(c)'
<1> USE DEF IInv, TypeOK
<1>1. /\ UNCHANGED <<origin, clients, disturbed>>
      /\ \A c \in Calls \ {k} : msg'[c] = msg[c]
      /\ msg'[k].st \in {"response", "dropped"}
      /\ msg'[k].st = "dropped" => link[l] # "up"
      /\ \A m \in Links : link[m] = "up" => link'[m] = "up"
  BY DEF sendUp, drop, netVars, CallTypeOK, NetTypeOK, Messages
<1>2. origin[k].id \in Nat
  BY DEF CallTypeOK, Connections
<1> QED BY <1>1, <1>2, MoveKeepsWays DEF InFlight

\* A response that finds its connection keeps the other ways up, and one that does
\* not is disturbed.
LEMMA SendResponseKeepsWays ==
  ASSUME IInv, WaysAreUp, NEW k \in Calls, NEW b \in Brokers, NEW id, NEW ids,
         sendResponse(k, b, id, ids), InFlight(k), msg[k].st # "answer",
         origin[k].broker \in Brokers, origin[k].broker <= b,
         id = IF b = origin[k].broker THEN origin[k].id ELSE MasterId
  PROVE  \A c \in Calls : WayIsUp(c)' /\ DropIsDisturbed(c)'
<1> USE BrokerRoutingAssumption DEF IInv, TypeOK
<1>0. origin[k].id \in Nat /\ WayIsUp(k)
  BY DEF CallTypeOK, Connections, WaysAreUp
<1>1. CASE b \in Links /\ id = MasterId /\ sendUp(k, b, ids)
  <2>1. ASSUME origin[k].id > 0, k \notin disturbed PROVE link[b] = "up"
    <3>1. /\ origin[k].id \in clients[origin[k].broker]
          /\ \A l \in Links : l > origin[k].broker => link[l] = "up"
      BY <1>0, <2>1 DEF WayIsUp
    <3>2. b # 1 /\ \A i \in clients[b] : FirstId(b) <= i
      BY <1>1 DEF NetTypeOK, Links
    <3>3. b # origin[k].broker
      BY <1>1, <3>1, <3>2 DEF FirstId, MasterId
    <3> QED BY <1>1, <3>1, <3>3 DEF Brokers
  <2> QED BY <1>1, <2>1, SendUpKeepsWays
<1>2. CASE id \notin clients[b] /\ (b \in Links => id # MasterId) /\ drop(k)
  <2>1. origin[k].id = 0 \/ k \in disturbed
    <3> SUFFICES ASSUME origin[k].id > 0, k \notin disturbed PROVE FALSE
      BY <1>0
    <3>1. origin[k].id \in clients[origin[k].broker]
      BY <1>0 DEF WayIsUp
    <3>2. b # origin[k].broker
      BY <1>2, <3>1
    <3> QED BY <1>2, <3>2 DEF Brokers, Links
  <2>2. /\ UNCHANGED <<origin, clients, disturbed, link>>
        /\ \A c \in Calls \ {k} : msg'[c] = msg[c]
        /\ msg'[k].st = "dropped"
    BY <1>2 DEF drop, netVars, CallTypeOK, Messages
  <2> QED BY <2>1, <2>2, MoveKeepsWays DEF InFlight
<1>3. CASE /\ id \in clients[b]
           /\ answered' = [answered EXCEPT ![k] = [broker |-> b, id |-> id, epoch |-> epoch[b]]]
           /\ msg' = [msg EXCEPT ![k] = [st |-> "done", at |-> b, ids |-> ids]]
           /\ UNCHANGED <<netVars, origin, disturbed>>
  <2>1. /\ UNCHANGED <<origin, clients, disturbed, link>>
        /\ \A c \in Calls \ {k} : msg'[c] = msg[c]
        /\ msg'[k].st = "done"
    BY <1>3 DEF netVars, CallTypeOK
  <2> QED BY <2>1, MoveKeepsWays DEF InFlight
<1> QED BY <1>1, <1>2, <1>3 DEF sendResponse

\* Every step keeps the ways of undisturbed calls up.
LEMMA WaysAreUpNext ==
  ASSUME IInv, WaysAreUp, [Next]_vars
  PROVE  WaysAreUp'
<1> USE BrokerRoutingAssumption DEF IInv, TypeOK
<1> DEFINE Ways == \A c \in Calls : WayIsUp(c) /\ DropIsDisturbed(c)
<1> SUFFICES Ways'
  BY LinksAreMountedNext DEF WaysAreUp
<1>0. ASSUME UNCHANGED <<msg, origin, disturbed>>,
             \A b \in Brokers : clients[b] \subseteq clients'[b],
             \A l \in Links : link[l] = "up" => link'[l] = "up"
      PROVE Ways'
  <2> SUFFICES ASSUME NEW c \in Calls PROVE WayIsUp(c)' /\ DropIsDisturbed(c)'
    OBVIOUS
  <2>1. InFlight(c) => origin[c].broker \in Brokers
    BY DEF InFlight, Epochs
  <2> QED BY <1>0, <2>1 DEF WaysAreUp, WayIsUp, DropIsDisturbed, InFlight
<1>1. ASSUME NEW b \in Brokers, connectClient(b) PROVE Ways'
  BY <1>0, <1>1 DEF connectClient, NetTypeOK
<1>2. ASSUME NEW b \in Brokers, deleteNode(b) PROVE Ways'
  BY <1>0, <1>2 DEF deleteNode
<1>3. ASSUME NEW b \in Brokers, restart(b) PROVE Ways'
  <2> DEFINE cut == {b, b + 1} \cap Links
             gone == {<<b, i>> : i \in clients[b]}
  <2>1. Lose(cut, gone) /\ UNCHANGED origin
    BY <1>3 DEF restart
  <2>2. \A c \in Brokers : \A i \in clients[c] : i \in clients'[c] \/ <<c, i>> \in gone
    BY <1>3 DEF restart, NetTypeOK
  <2>3. \A l \in Links : link[l] = "up" => link'[l] = "up" \/ l \in cut
    BY <1>3 DEF restart, NetTypeOK
  <2> HIDE DEF cut, gone
  <2> QED BY <2>1, <2>2, <2>3, LoseDisturbs
<1>4. ASSUME NEW b \in Brokers, NEW i \in 1..MaxId, disconnectClient(b, i) PROVE Ways'
  <2>1. Lose({}, {<<b, i>>}) /\ UNCHANGED <<origin, link>>
    BY <1>4 DEF disconnectClient
  <2>2. \A c \in Brokers : \A j \in clients[c] : j \in clients'[c] \/ <<c, j>> \in {<<b, i>>}
    BY <1>4 DEF disconnectClient, NetTypeOK
  <2> QED BY <2>1, <2>2, LoseDisturbs
<1>5. ASSUME NEW l \in Links, connectLink(l) \/ loginLink(l) PROVE Ways'
  BY <1>0, <1>5 DEF connectLink, loginLink, NetTypeOK
<1>6. ASSUME NEW l \in Links, linkLost(l) PROVE Ways'
  <2>1. Lose({l}, {}) /\ UNCHANGED <<origin, clients>>
    BY <1>6 DEF linkLost
  <2>2. \A m \in Links : link[m] = "up" => link'[m] = "up" \/ m \in {l}
    BY <1>6 DEF linkLost, Unmount, NetTypeOK
  <2> QED BY <2>1, <2>2, LoseDisturbs
<1>7. ASSUME NEW k \in Calls, NEW b \in Brokers, NEW i \in 1..MaxId, call(k, b, i) PROVE Ways'
  <2>1. /\ \A c \in Calls \ {k} : msg'[c] = msg[c] /\ origin'[c] = origin[c]
        /\ clients' = clients /\ link' = link
        /\ disturbed' = disturbed \/ disturbed' = disturbed \cup {k}
    BY <1>7 DEF call, netVars, CallTypeOK
  <2>2. ASSUME NEW c \in Calls \ {k} PROVE WayIsUp(c)' /\ DropIsDisturbed(c)'
    BY <2>1 DEF WaysAreUp, WayIsUp, DropIsDisturbed, InFlight
  <2>3. /\ msg'[k].st = "request" /\ origin'[k].broker = b /\ origin'[k].id = i
        /\ i \in clients[b]
        /\ k \notin disturbed' => \A l \in Links : l > b => link[l] = "up"
    BY <1>7 DEF call, CallTypeOK
  <2>4. WayIsUp(k)' /\ DropIsDisturbed(k)'
    BY <2>1, <2>3 DEF WayIsUp, DropIsDisturbed
  <2> QED BY <2>2, <2>4
<1>8. ASSUME NEW k \in Calls, NEW b \in Brokers, askMaster(k, b) PROVE Ways'
  <2>1. /\ \A c \in Calls \ {k} : msg'[c] = msg[c] /\ origin'[c] = origin[c]
        /\ UNCHANGED <<clients, link, disturbed>>
        /\ origin'[k].id = 0
    BY <1>8 DEF askMaster, netVars, CallTypeOK
  <2>2. ASSUME NEW c \in Calls \ {k} PROVE WayIsUp(c)' /\ DropIsDisturbed(c)'
    BY <2>1 DEF WaysAreUp, WayIsUp, DropIsDisturbed, InFlight
  <2>3. WayIsUp(k)' /\ DropIsDisturbed(k)'
    BY <2>1 DEF WayIsUp, DropIsDisturbed
  <2> QED BY <2>2, <2>3
<1>9. ASSUME NEW k \in Calls, answerRequest(k) PROVE Ways'
  <2>1. /\ InFlight(k) /\ msg[k].st # "answer" /\ msg[k].at \in Brokers
        /\ origin[k].broker \in Brokers /\ origin[k].broker <= msg[k].at
    BY <1>9 DEF answerRequest, InFlight, OnItsWay
  <2> QED BY <1>9, <2>1, SendResponseKeepsWays DEF answerRequest, Via
<1>10. ASSUME NEW k \in Calls, forwardRequest(k) PROVE Ways'
  <2>1. /\ InFlight(k) /\ msg[k].at \in Brokers /\ origin[k].id \in Nat
        /\ origin[k].broker \in Brokers /\ origin[k].broker <= msg[k].at
        /\ WayIsUp(k)
    BY <1>10 DEF forwardRequest, InFlight, OnItsWay, WaysAreUp, CallTypeOK, Connections
  <2>2. ASSUME origin[k].id > 0, k \notin disturbed PROVE node[msg[k].at] = "mounted"
    <3>1. msg[k].at + 1 \in Links /\ msg[k].at + 1 > origin[k].broker
      BY <2>1 DEF Links, Brokers
    <3>2. link[msg[k].at + 1] = "up"
      BY <2>1, <2>2, <3>1 DEF WayIsUp
    <3>3. (msg[k].at + 1) - 1 = msg[k].at
      BY <2>1 DEF Brokers
    <3> QED BY <3>1, <3>2, <3>3 DEF WaysAreUp, LinksAreMounted
  <2>3. /\ UNCHANGED <<origin, clients, disturbed, link>>
        /\ \A c \in Calls \ {k} : msg'[c] = msg[c]
        /\ msg'[k].st \in {"request", "dropped"}
        /\ msg'[k].st = "dropped" => node[msg[k].at] # "mounted"
    BY <1>10 DEF forwardRequest, drop, netVars, CallTypeOK, Messages
  <2> QED BY <2>1, <2>2, <2>3, MoveKeepsWays
<1>11. ASSUME NEW k \in Calls, takeRequest(k) PROVE Ways'
  <2>1. /\ UNCHANGED <<origin, clients, disturbed, link>>
        /\ \A c \in Calls \ {k} : msg'[c] = msg[c]
        /\ msg'[k].st = "held" /\ InFlight(k)
    BY <1>11 DEF takeRequest, netVars, CallTypeOK, Messages, InFlight
  <2> QED BY <2>1, MoveKeepsWays
<1>12. ASSUME NEW k \in Calls, respond(k) PROVE Ways'
  <2>1. /\ InFlight(k) /\ origin[k].broker \in Brokers /\ msg[k].st # "answer" /\ WayIsUp(k)
    BY <1>12 DEF respond, InFlight, OnItsWay, WaysAreUp
  <2>2. N + 1 \in Links /\ N + 1 > origin[k].broker
    BY <2>1 DEF Links, Brokers
  <2>3. origin[k].id > 0 /\ k \notin disturbed => link[N + 1] = "up"
    BY <2>1, <2>2 DEF WayIsUp
  <2> QED BY <1>12, <2>1, <2>2, <2>3, SendUpKeepsWays DEF respond
<1>13. ASSUME NEW k \in Calls, routeResponse(k), msg[k].st = "response" PROVE Ways'
  <2>1. /\ InFlight(k) /\ msg[k].at \in Brokers
        /\ origin[k].broker \in Brokers /\ origin[k].broker <= msg[k].at
        /\ FirstId(origin[k].broker) <= origin[k].id /\ origin[k].id \in Nat
    BY <1>13 DEF InFlight, OnItsWay, CallTypeOK, Connections
  <2>2. topCallerId(msg[k].ids) =
          IF msg[k].at = origin[k].broker THEN origin[k].id ELSE MasterId
    BY <1>13, TopIsTheWayUp
  <2>3. topCallerId(msg[k].ids) > 0
    BY <2>1, <2>2 DEF FirstId, MasterId
  <2> QED BY <1>13, <2>1, <2>2, <2>3, SendResponseKeepsWays DEF routeResponse
<1>14. ASSUME NEW k \in Calls, routeResponse(k), msg[k].st = "answer" PROVE Ways'
  <2>1. drop(k) /\ InFlight(k) /\ WayIsUp(k) /\ origin[k].id \in Nat
    BY <1>14 DEF OnItsWay, topCallerId, routeResponse, InFlight, WaysAreUp,
                 CallTypeOK, Connections
  <2>2. origin[k].id = 0 \/ k \in disturbed
    BY <1>14, <2>1 DEF WayIsUp
  <2>3. /\ UNCHANGED <<origin, clients, disturbed, link>>
        /\ \A c \in Calls \ {k} : msg'[c] = msg[c]
        /\ msg'[k].st = "dropped"
    BY <2>1 DEF drop, netVars, CallTypeOK, Messages
  <2> QED BY <2>1, <2>2, <2>3, MoveKeepsWays
<1>15. ASSUME NEW k \in Calls, routeResponse(k) PROVE Ways'
  BY <1>13, <1>14, <1>15 DEF routeResponse
<1>16. CASE UNCHANGED vars
  BY <1>0, <1>16 DEF vars
<1> QED
  BY <1>1, <1>2, <1>3, <1>4, <1>5, <1>6, <1>7, <1>8, <1>9, <1>10, <1>11, <1>12, <1>15, <1>16
  DEF Next

\* UnansweredOnlyIfDisturbed for every chain: a broker that forwards a request
\* or routes a response (BrokerApp::onRpcFrameReceived()) drops it only if a
\* link below the caller's broker or the caller's own connection was lost, or
\* a link was not up when the call was made.
THEOREM OnlyDisturbedCallsAreLost == Spec => []UnansweredOnlyIfDisturbed
<1>1. Init => IInv /\ WaysAreUp
  <2> SUFFICES ASSUME Init PROVE WaysAreUp
    BY IInvInit
  <2> QED BY DEF Init, WaysAreUp, LinksAreMounted, WayIsUp, DropIsDisturbed, InFlight, Idle
<1>2. IInv /\ WaysAreUp /\ [Next]_vars => IInv' /\ WaysAreUp'
  BY IInvNext, WaysAreUpNext
<1>3. WaysAreUp => UnansweredOnlyIfDisturbed
  BY DEF WaysAreUp, DropIsDisturbed, UnansweredOnlyIfDisturbed
<1> QED BY <1>1, <1>2, <1>3, PTL DEF Spec

(***************************************************************************)
(* The chain implements RpcDelivery.  A call that is made is an Ask, one   *)
(* whose response is sent to a client an Answer, and every other step a    *)
(* Disturb, if only of no call.                                            *)
(***************************************************************************)
\* The calls that wait are those in flight.
LEMMA InFlightWaits ==
  ASSUME CallTypeOK
  PROVE  \A k \in Calls : k \in Delivery!In("waiting") <=> InFlight(k)
<1>1. \A k \in Calls : msg[k].st \in {"new", "request", "held", "response", "answer", "done", "dropped"}
  BY DEF CallTypeOK, Messages
<1>2. \A k \in Calls : Phase(msg[k].st) = "waiting" <=> InFlight(k)
  BY <1>1 DEF Phase, InFlight
<1> QED BY <1>2 DEF Delivery!In

\* A step that answers and makes no call disturbs some and loses some; the lost
\* ones are disturbed, or calls of a broker.
LEMMA QuietSteps ==
  ASSUME CallTypeOK, CallTypeOK', \A k \in Calls : DropIsDisturbed(k)',
         UNCHANGED <<origin, answered>>,
         \A k \in Calls : \/ Phase(msg'[k].st) = Phase(msg[k].st)
                          \/ InFlight(k) /\ msg'[k].st = "dropped",
         NEW now \in SUBSET {k \in Calls : InFlight(k)}, disturbed' = disturbed \cup now,
         epoch' = epoch \/ \E b \in Brokers : epoch' = [epoch EXCEPT ![b] = @ + 1]
  PROVE  Delivery!Next
<1> DEFINE gone == {k \in Calls : InFlight(k) /\ msg'[k].st = "dropped"}
<1>1. gone \in SUBSET Delivery!In("waiting") /\ now \in SUBSET Delivery!In("waiting")
  BY InFlightWaits
<1>2. Delivery!Disturb(now, gone)
  <2>1. \A k \in gone : k \in disturbed' \/ Delivery!Own(k)
    <3> TAKE k \in gone
    <3>1. DropIsDisturbed(k)' /\ msg'[k].st = "dropped" /\ origin'[k] = origin[k]
      OBVIOUS
    <3>2. origin[k].id \in Nat
      BY DEF CallTypeOK, Connections
    <3> QED BY <3>1, <3>2 DEF DropIsDisturbed, Delivery!Own
  <2>2. \A k \in Calls : Phase(msg'[k].st) = IF k \in gone THEN "lost" ELSE Phase(msg[k].st)
    <3>1. Phase("dropped") = "lost"
      BY DEF Phase
    <3> QED BY <3>1
  <2> HIDE DEF gone
  <2> QED BY <2>1, <2>2 DEF Delivery!Disturb
<1>3. UNCHANGED epoch \/ \E b \in Brokers : Delivery!StartAgain(b)
  BY DEF Delivery!StartAgain
<1> HIDE DEF gone
<1> QED BY <1>1, <1>2, <1>3, Zenon DEF Delivery!Next

\* A step that keeps the phase of every call but perhaps that of k, which it
\* may drop.
LEMMA OneIsLost ==
  ASSUME CallTypeOK, CallTypeOK', \A c \in Calls : DropIsDisturbed(c)',
         NEW k \in Calls, InFlight(k), InFlight(k)' \/ msg'[k].st = "dropped",
         \A c \in Calls \ {k} : msg'[c] = msg[c],
         UNCHANGED <<epoch, origin, answered, disturbed>>
  PROVE  Delivery!Next
<1>1. Phase(msg[k].st) = "waiting" /\ (InFlight(k)' => Phase(msg'[k].st) = "waiting")
  BY DEF Phase, InFlight
<1>2. \A c \in Calls : \/ Phase(msg'[c].st) = Phase(msg[c].st)
                       \/ InFlight(c) /\ msg'[c].st = "dropped"
  BY <1>1
<1>3. {} \in SUBSET {c \in Calls : InFlight(c)} /\ disturbed' = disturbed \cup {}
  OBVIOUS
<1> QED BY <1>2, <1>3, QuietSteps

\* What a loss carries away is disturbed.
LEMMA LossesDisturb ==
  ASSUME CallTypeOK, CallTypeOK', \A k \in Calls : DropIsDisturbed(k)',
         NEW cut, NEW gone, Lose(cut, gone), UNCHANGED <<origin, answered>>,
         epoch' = epoch \/ \E b \in Brokers : epoch' = [epoch EXCEPT ![b] = @ + 1]
  PROVE  Delivery!Next
<1> DEFINE now == {k \in Calls : InFlight(k) /\ \/ \E l \in cut : OnWay(k, l)
                                                \/ <<origin[k].broker, origin[k].id>> \in gone}
<1>1. disturbed' = disturbed \cup now
  BY DEF Lose
<1>2. now \in SUBSET {k \in Calls : InFlight(k)}
  OBVIOUS
<1>3. \A k \in Calls : \/ Phase(msg'[k].st) = Phase(msg[k].st)
                       \/ InFlight(k) /\ msg'[k].st = "dropped"
  <2> TAKE k \in Calls
  <2>1. msg'[k] = msg[k] \/ (Carried(k, cut, gone) /\ msg'[k].st = "dropped")
    BY DEF Lose, CallTypeOK, Messages
  <2>2. Carried(k, cut, gone) => InFlight(k)
    BY DEF Carried, InFlight
  <2> QED BY <2>1, <2>2
<1> HIDE DEF now
<1> QED BY <1>1, <1>2, <1>3, QuietSteps

\* A call is made on a connection, or by a broker.
LEMMA CallsAreAsks ==
  ASSUME CallTypeOK, NEW k \in Calls, msg[k] = Idle, NEW b \in Brokers, NEW i \in 0..MaxId,
         NEW st \in {"request", "answer"},
         msg' = [msg EXCEPT ![k] = [st |-> st, at |-> b, ids |-> <<>>]],
         origin' = [origin EXCEPT ![k] = [broker |-> b, id |-> i, epoch |-> epoch[b]]],
         disturbed' = disturbed \/ disturbed' = disturbed \cup {k},
         UNCHANGED <<answered, epoch>>
  PROVE  Delivery!Next
<1>1. /\ \A c \in Calls : c # k => msg'[c] = msg[c]
      /\ msg'[k] = [st |-> st, at |-> b, ids |-> <<>>]
  BY DEF CallTypeOK
<1>2. Phase(msg[k].st) = "new" /\ Phase(msg'[k].st) = "waiting"
  BY <1>1 DEF Phase, Idle
<1>3. k \in Delivery!In("new")
  BY <1>2 DEF Delivery!In
<1>4. [c \in Calls |-> Phase(msg'[c].st)]
        = [[c \in Calls |-> Phase(msg[c].st)] EXCEPT ![k] = "waiting"]
  <2>1. \A c \in Calls : Phase(msg'[c].st) = IF c = k THEN "waiting" ELSE Phase(msg[c].st)
    BY <1>1, <1>2
  <2> QED BY <2>1
<1>5. origin' = [origin EXCEPT ![k] = Delivery!Connection(b, i)]
  BY DEF Delivery!Connection
<1>6. Delivery!Ask(k, b, i)
  BY <1>3, <1>4, <1>5 DEF Delivery!Ask
<1> QED BY <1>6, Zenon DEF Delivery!Next

\* A response that is sent to a client goes to where its call came from.
LEMMA ResponsesAreAnswers ==
  ASSUME IInv, CallTypeOK', \A c \in Calls : DropIsDisturbed(c)', \A c \in Calls : OnItsWay(c)',
         NEW k \in Calls, NEW b \in Brokers, NEW id, NEW ids,
         msg[k].st \in {"request", "response"}, sendResponse(k, b, id, ids)
  PROVE  Delivery!Next
<1> USE BrokerRoutingAssumption
<1>0. CallTypeOK /\ OnItsWay(k) /\ InFlight(k)
  BY DEF IInv, TypeOK, InFlight
<1>1. CASE drop(k) \/ \E l \in Links : sendUp(k, l, ids)
  <2>1. UNCHANGED <<epoch, origin, answered, disturbed>>
    BY <1>1 DEF drop, sendUp, netVars
  <2>2. \A c \in Calls \ {k} : msg'[c] = msg[c]
    BY <1>0, <1>1 DEF drop, sendUp, CallTypeOK
  <2>3. msg'[k].st \in {"response", "dropped"}
    BY <1>0, <1>1 DEF drop, sendUp, CallTypeOK, Messages
  <2>4. InFlight(k)' \/ msg'[k].st = "dropped"
    BY <2>3 DEF InFlight
  <2> QED BY <1>0, <2>1, <2>2, <2>4, OneIsLost
<1>2. CASE /\ id \in clients[b]
           /\ answered' = [answered EXCEPT ![k] = [broker |-> b, id |-> id, epoch |-> epoch[b]]]
           /\ msg' = [msg EXCEPT ![k] = [st |-> "done", at |-> b, ids |-> ids]]
           /\ UNCHANGED <<netVars, origin, disturbed>>
  <2>1. /\ \A c \in Calls : c # k => msg'[c] = msg[c]
        /\ msg'[k].st = "done" /\ origin' = origin /\ epoch' = epoch
        /\ answered'[k] = [broker |-> b, id |-> id, epoch |-> epoch[b]]
    BY <1>0, <1>2 DEF CallTypeOK, netVars
  <2>2. b = origin[k].broker /\ id = origin[k].id
    BY <2>1 DEF OnItsWay
  <2>3. answered' = [answered EXCEPT ![k] = Delivery!Connection(origin[k].broker, origin[k].id)]
    BY <1>2, <2>2 DEF Delivery!Connection
  <2>4. ~Delivery!Own(k)
    <3>1. FirstId(origin[k].broker) <= origin[k].id
      BY <1>0 DEF OnItsWay
    <3>2. origin[k].id # 0
      BY <3>1 DEF FirstId, MasterId
    <3> QED BY <3>2 DEF Delivery!Own
  <2>5. k \in Delivery!In("waiting")
    BY <1>0, InFlightWaits
  <2>6. [c \in Calls |-> Phase(msg'[c].st)]
          = [[c \in Calls |-> Phase(msg[c].st)] EXCEPT ![k] = "answered"]
    <3>1. Phase("done") = "answered"
      BY DEF Phase
    <3>2. \A c \in Calls : Phase(msg'[c].st) = IF c = k THEN "answered" ELSE Phase(msg[c].st)
      BY <2>1, <3>1
    <3> QED BY <3>2
  <2>7. UNCHANGED disturbed
    BY <1>2
  <2>8. Delivery!Answer(k)
    BY <2>1, <2>3, <2>4, <2>5, <2>6, <2>7 DEF Delivery!Answer
  <2> QED BY <2>8, Zenon DEF Delivery!Next
<1> QED BY <1>1, <1>2 DEF sendResponse

\* Every step of the chain is a step of the delivery or leaves it alone.
LEMMA DeliveryNext ==
  ASSUME IInv, IInv', WaysAreUp', [Next]_vars
  PROVE  [Delivery!Next]_(Delivery!vars)
<1> USE BrokerRoutingAssumption
<1>a. CallTypeOK /\ NetTypeOK /\ CallTypeOK'
  BY DEF IInv, TypeOK
<1>b. \A k \in Calls : DropIsDisturbed(k)' /\ OnItsWay(k)'
  BY DEF WaysAreUp, IInv
<1>0. CASE UNCHANGED <<epoch, msg, origin, answered, disturbed>>
  BY <1>0 DEF Delivery!vars
<1>1. ASSUME NEW b \in Brokers, connectClient(b) \/ deleteNode(b)
      PROVE  [Delivery!Next]_(Delivery!vars)
  BY <1>0, <1>1 DEF connectClient, deleteNode
<1>2. ASSUME NEW b \in Brokers, restart(b) PROVE Delivery!Next
  BY <1>a, <1>b, <1>2, LossesDisturb DEF restart
<1>3. ASSUME NEW b \in Brokers, NEW i \in 1..MaxId, disconnectClient(b, i) PROVE Delivery!Next
  BY <1>a, <1>b, <1>3, LossesDisturb DEF disconnectClient
<1>4. ASSUME NEW l \in Links, connectLink(l) \/ loginLink(l)
      PROVE  [Delivery!Next]_(Delivery!vars)
  BY <1>0, <1>4 DEF connectLink, loginLink
<1>5. ASSUME NEW l \in Links, linkLost(l) PROVE Delivery!Next
  BY <1>a, <1>b, <1>5, LossesDisturb DEF linkLost
<1>6. ASSUME NEW k \in Calls, NEW b \in Brokers, NEW i \in 1..MaxId, call(k, b, i)
      PROVE  Delivery!Next
  <2>1. /\ msg[k] = Idle /\ msg' = [msg EXCEPT ![k] = [st |-> "request", at |-> b, ids |-> <<>>]]
        /\ origin' = [origin EXCEPT ![k] = [broker |-> b, id |-> i, epoch |-> epoch[b]]]
        /\ disturbed' = disturbed \/ disturbed' = disturbed \cup {k}
        /\ UNCHANGED <<answered, epoch>>
    BY <1>6 DEF call, netVars
  <2>2. i \in 0..MaxId
    OBVIOUS
  <2> QED BY <1>a, <2>1, <2>2, CallsAreAsks
<1>7. ASSUME NEW k \in Calls, NEW b \in Brokers, askMaster(k, b) PROVE Delivery!Next
  <2>1. /\ msg[k] = Idle /\ msg' = [msg EXCEPT ![k] = [st |-> "answer", at |-> b, ids |-> <<>>]]
        /\ origin' = [origin EXCEPT ![k] = [broker |-> b, id |-> 0, epoch |-> epoch[b]]]
        /\ UNCHANGED <<answered, epoch, disturbed>>
    BY <1>7 DEF askMaster, netVars
  <2>2. 0 \in 0..MaxId
    OBVIOUS
  <2> QED BY <1>a, <2>1, <2>2, CallsAreAsks
<1>8. ASSUME NEW k \in Calls, answerRequest(k) PROVE Delivery!Next
  BY <1>b, <1>a, <1>8, ResponsesAreAnswers DEF answerRequest
<1>9. ASSUME NEW k \in Calls, forwardRequest(k) \/ takeRequest(k) PROVE Delivery!Next
  <2>1. InFlight(k) /\ UNCHANGED <<epoch, origin, answered, disturbed>>
    BY <1>9 DEF forwardRequest, takeRequest, drop, netVars, InFlight
  <2>2. msg'[k].st \in {"request", "held", "dropped"} /\ \A c \in Calls \ {k} : msg'[c] = msg[c]
    BY <1>a, <1>9 DEF forwardRequest, takeRequest, drop, CallTypeOK, Messages
  <2>3. InFlight(k)' \/ msg'[k].st = "dropped"
    BY <2>2 DEF InFlight
  <2> QED BY <1>a, <1>b, <2>1, <2>2, <2>3, OneIsLost
<1>10. ASSUME NEW k \in Calls, respond(k) PROVE Delivery!Next
  <2>1. InFlight(k) /\ UNCHANGED <<epoch, origin, answered, disturbed>>
    BY <1>10 DEF respond, sendUp, drop, netVars, InFlight
  <2>2. msg'[k].st \in {"response", "dropped"} /\ \A c \in Calls \ {k} : msg'[c] = msg[c]
    BY <1>a, <1>10 DEF respond, sendUp, drop, CallTypeOK, Messages
  <2>3. InFlight(k)' \/ msg'[k].st = "dropped"
    BY <2>2 DEF InFlight
  <2> QED BY <1>a, <1>b, <2>1, <2>2, <2>3, OneIsLost
<1>11. ASSUME NEW k \in Calls, routeResponse(k) PROVE Delivery!Next
  <2>1. InFlight(k) /\ msg[k].at \in Brokers
    BY <1>a, <1>11 DEF routeResponse, InFlight, CallTypeOK
  <2>2. CASE msg[k].st = "response" /\ topCallerId(msg[k].ids) > 0
    BY <1>a, <1>b, <1>11, <2>1, <2>2, ResponsesAreAnswers DEF routeResponse
  <2>3. CASE drop(k)
    <3>1. /\ UNCHANGED <<epoch, origin, answered, disturbed>>
          /\ msg'[k].st = "dropped" /\ \A c \in Calls \ {k} : msg'[c] = msg[c]
      BY <1>a, <2>3 DEF drop, netVars, CallTypeOK, Messages
    <3> QED BY <1>a, <1>b, <2>1, <3>1, OneIsLost
  <2>4. msg[k].st = "answer" => topCallerId(msg[k].ids) = 0
    BY DEF IInv, OnItsWay, topCallerId
  <2> QED BY <1>11, <2>2, <2>3, <2>4 DEF routeResponse
<1>12. CASE UNCHANGED vars
  BY <1>0, <1>12 DEF vars
<1> QED
  BY <1>1, <1>2, <1>3, <1>4, <1>5, <1>6, <1>7, <1>8, <1>9, <1>10, <1>11, <1>12 DEF Next

\* For every chain, the brokers (BrokerApp::onRpcFrameReceived()) deliver what
\* RpcDelivery promises.
THEOREM BrokersDeliver == Spec => CallsAreDelivered
<1>1. Init => Delivery!Init
  BY DEF Init, Idle, Phase, Delivery!Init
<1>2. Init => IInv /\ WaysAreUp
  <2> SUFFICES ASSUME Init PROVE WaysAreUp
    BY IInvInit
  <2> QED BY DEF Init, WaysAreUp, LinksAreMounted, WayIsUp, DropIsDisturbed, InFlight, Idle
<1>3. IInv /\ WaysAreUp /\ [Next]_vars => IInv' /\ WaysAreUp'
  BY IInvNext, WaysAreUpNext
<1>4. IInv /\ IInv' /\ WaysAreUp' /\ [Next]_vars => [Delivery!Next]_(Delivery!vars)
  BY DeliveryNext
<1> QED BY <1>1, <1>2, <1>3, <1>4, PTL DEF Spec, CallsAreDelivered, Delivery!Spec
=============================================================================
