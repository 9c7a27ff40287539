--------------------------- MODULE BrokerSignals ---------------------------
(***************************************************************************)
(* Subscriptions and signals between two brokers (libshvbroker): clients   *)
(* subscribe at the master broker, which forwards what they subscribe to   *)
(* to the slave broker mounted on Mount.  The slave sends the signals its  *)
(* copy of the subscriptions selects; the master answers a signal nobody   *)
(* is subscribed to with rejectNotSubscribed, which makes the slave forget *)
(* a subscription.  An unsubscription is never forwarded: the slave learns *)
(* of it by a rejection only.                                              *)
(*                                                                         *)
(* A path is the sequence of its directories.  The link is one TCP         *)
(* connection: a FIFO in each direction, empty after a loss.  The slave's  *)
(* subscriptions belong to the MasterBrokerConnection object and outlive a *)
(* lost connection.                                                        *)
(***************************************************************************)
EXTENDS Integers, Sequences, FiniteSets, SequencesExt

CONSTANTS
  Clients,    \* clients of the master broker
  Mount,      \* the path the slave broker is mounted on
  Exported,   \* exportedShvPath of the slave's master connection
  Subs,       \* subscriptions the clients make: [path, method, source]
  Signals,    \* signals of the slave, as its master connection names them
  MaxQueue,   \* bound: messages in flight in one direction
  MaxLosses   \* bound: how often the connection is lost

\* The empty method or source of a subscription stands for any.
AnyOne == ""

\* What a subscription selects, and what a signal is: a path, a method and a
\* source.
Filters ==
  [path : Seq(STRING), method : STRING \cup {AnyOne}, source : STRING \cup {AnyOne}]

ASSUME BrokerSignalsAssumption ==
  /\ Mount \in Seq(STRING) \ {<<>>} /\ Exported \in Seq(STRING)
  /\ IsFiniteSet(Subs) /\ \A s \in Subs \cup Signals : s \in Filters
  /\ MaxQueue \in Nat /\ MaxLosses \in Nat

VARIABLES
  subs,        \* m_subscriptions of every client connection of the master
  link,        \* the slave's connection at the master
  slave,       \* the state of the slave's MasterBrokerConnection
  slaveSubs,   \* m_subscriptions of the MasterBrokerConnection
  toSlave,     \* messages from the master to the slave
  toMaster,    \* signals from the slave to the master
  losses       \* connection losses so far

vars == <<subs, link, slave, slaveSubs, toSlave, toMaster, losses>>

LoginResponse == [type |-> "login"]
Message(type, path, method) ==
  [type |-> type, what |-> [path |-> path, method |-> method, source |-> AnyOne]]

(***************************************************************************)
(* Subscriptions of one connection.                                        *)
(***************************************************************************)

\* Subscription::match(); a signal without source is one of method get.
match(s, sig) ==
  /\ IsPrefix(s.path, sig.path)
  /\ s.method \in {AnyOne, sig.method}
  /\ s.source \in {AnyOne, IF sig.source = AnyOne THEN "get" ELSE sig.source}

\* CommonRpcClientHandle::isSubscribed()
isSubscribed(ss, sig) == \E s \in ss : match(s, sig)

\* CommonRpcClientHandle::addSubscription()
addSubscription(ss, s) == IF s \in ToSet(ss) THEN ss ELSE Append(ss, s)

\* CommonRpcClientHandle::rejectNotSubscribedSignal(): the subscription it
\* erases is the first one for any method, else the first of those with the
\* longest path, if that path is not empty.
rejected(ss, sig) ==
  LET hits == {i \in DOMAIN ss : match(ss[i], sig)}
      wild == {i \in hits : ss[i].method = AnyOne}
  IN IF wild # {}
     THEN {i \in wild : \A j \in wild : i <= j}
     ELSE {i \in hits : /\ ss[i].path # <<>>
                        /\ \A j \in hits : \/ Len(ss[j].path) < Len(ss[i].path)
                                           \/ Len(ss[j].path) = Len(ss[i].path) /\ i <= j}

rejectNotSubscribedSignal(ss, sig) ==
  IF rejected(ss, sig) = {} THEN ss
  ELSE RemoveAt(ss, CHOOSE i \in rejected(ss, sig) : TRUE)

(***************************************************************************)
(* Paths of the slave broker.                                              *)
(***************************************************************************)

\* masterExportedToLocalPath()
masterExportedToLocalPath(path) ==
  IF Exported = <<>> \/ IsPrefix(<<".broker">>, path) THEN path ELSE Exported \o path

\* A signal of the slave as the slave's own tree names it.
local(sig) == [sig EXCEPT !.path = masterExportedToLocalPath(sig.path)]

\* A signal of the slave as the master's clients see it.
global(sig) == [sig EXCEPT !.path = Mount \o @]

\* propagateSubscriptionToSlaveBroker(): the messages a subscription makes, the
\* path of which is cut after the mount point.  Until its login is accepted the
\* mount point of a connection is empty: what is left of a path does not begin
\* with a separator then and is not sent, unless nothing is left.
propagate(s, mountPoint) ==
  IF IsPrefix(mountPoint, s.path) /\ (mountPoint # <<>> \/ s.path = <<>>)
  THEN {Message("subscribe", SubSeq(s.path, Len(mountPoint) + 1, Len(s.path)), s.method)}
  ELSE IF IsPrefix(s.path, mountPoint) THEN {Message("subscribe", <<>>, s.method)} ELSE {}

(***************************************************************************)
(* The specification.                                                      *)
(***************************************************************************)
Messages == {LoginResponse}
              \cup (UNION {propagate(s, <<>>) \cup propagate(s, Mount) : s \in Subs})
              \cup {Message("reject", sig.path, sig.method) : sig \in Signals}

\* Every variable has its type.
TypeOK ==
  /\ subs \in [Clients -> SUBSET Subs]
  /\ link \in {"down", "login", "mounted", "up"}
  /\ slave \in {"off", "login", "connected"}
  /\ slaveSubs \in Seq(Filters) /\ IsInjective(slaveSubs)
  /\ toSlave \in Seq(Messages) /\ toMaster \in Seq(Signals)
  /\ losses \in 0..MaxLosses

Init ==
  /\ subs = [c \in Clients |-> {}]
  /\ link = "down" /\ slave = "off"
  /\ slaveSubs = <<>>
  /\ toSlave = <<>> /\ toMaster = <<>>
  /\ losses = 0

\* BrokerApp::addSubscription() at the master for client c.  Every connection
\* that announced itself as a slave broker is told; one that is not logged in
\* has no mount point yet and has to wait for onClientConnected().
subscribe(c, s) ==
  /\ s \notin subs[c] /\ Len(toSlave) < MaxQueue
  /\ subs' = [subs EXCEPT ![c] = @ \cup {s}]
  /\ LET msgs == CASE link = "down"  -> {}
                   [] link = "login" -> propagate(s, <<>>)
                   [] OTHER          -> propagate(s, Mount)
     IN toSlave' = toSlave \o SetToSeq(msgs)
  /\ UNCHANGED <<link, slave, slaveSubs, toMaster, losses>>

\* BrokerApp::removeSubscription()
unsubscribe(c, s) ==
  /\ s \in subs[c]
  /\ subs' = [subs EXCEPT ![c] = @ \ {s}]
  /\ UNCHANGED <<link, slave, slaveSubs, toSlave, toMaster, losses>>

\* The connection of a client is deleted with its subscriptions.
clientGone(c) ==
  /\ subs[c] # {}
  /\ subs' = [subs EXCEPT ![c] = {}]
  /\ UNCHANGED <<link, slave, slaveSubs, toSlave, toMaster, losses>>

\* The slave connects, and the master has its login with the options of the
\* connection and checks it.  Before that the master knows of no slave.
slaveLogin ==
  /\ link = "down" /\ slave = "off"
  /\ link' = "login" /\ slave' = "login"
  /\ UNCHANGED <<subs, slaveSubs, toSlave, toMaster, losses>>

\* setLoginResult() and onClientLogin(): the response is sent, the connection
\* is mounted and onClientConnected() is posted.
onClientLogin ==
  /\ link = "login"
  /\ link' = "mounted"
  /\ toSlave' = Append(toSlave, LoginResponse)
  /\ UNCHANGED <<subs, slave, slaveSubs, toMaster, losses>>

\* onClientConnected(): the subscriptions of all clients are forwarded.
onClientConnected ==
  /\ link = "mounted"
  /\ link' = "up"
  /\ \E order \in SetToSeqs(UNION {propagate(s, Mount) : s \in UNION {subs[c] : c \in Clients}}) :
       toSlave' = toSlave \o order
  /\ UNCHANGED <<subs, slave, slaveSubs, toMaster, losses>>

\* The connection is gone at both ends, with all that was in flight.
Lost ==
  /\ link' = "down" /\ slave' = "off"
  /\ toSlave' = <<>> /\ toMaster' = <<>>

connectionLost ==
  /\ link # "down" /\ losses < MaxLosses
  /\ losses' = losses + 1
  /\ Lost
  /\ UNCHANGED <<subs, slaveSubs>>

\* The slave takes a message.  While it waits for the login response, any
\* other message is an invalid handshake and the connection is dropped.
slaveReceive ==
  /\ toSlave # <<>>
  /\ LET m == Head(toSlave)
     IN IF slave = "login" /\ m # LoginResponse
        THEN Lost /\ UNCHANGED slaveSubs
        ELSE /\ slave' = "connected"
             /\ slaveSubs' =
                  CASE m.type = "login"     -> slaveSubs
                    [] m.type = "subscribe" -> addSubscription(slaveSubs, local(m.what))
                    [] m.type = "reject"    -> rejectNotSubscribedSignal(slaveSubs, local(m.what))
             /\ toSlave' = Tail(toSlave)
             /\ UNCHANGED <<link, toMaster>>
  /\ UNCHANGED <<subs, losses>>

\* The slave emits a signal its master connection is subscribed to.
emit(sig) ==
  /\ slave = "connected" /\ Len(toMaster) < MaxQueue
  /\ isSubscribed(ToSet(slaveSubs), local(sig))
  /\ toMaster' = Append(toMaster, sig)
  /\ UNCHANGED <<subs, link, slave, slaveSubs, toSlave, losses>>

\* A client of the master is subscribed to the signal.
wanted(sig) == \E c \in Clients : isSubscribed(subs[c], global(sig))

\* BrokerApp::onRpcFrameReceived() for a signal: it goes to the subscribed
\* clients; without any the slave is told to stop sending it.
masterReceiveAlwaysRejecting ==
  /\ toMaster # <<>> /\ Len(toSlave) < MaxQueue
  /\ toMaster' = Tail(toMaster)
  /\ toSlave' = Append(toSlave, Message("reject", Head(toMaster).path, Head(toMaster).method))
  /\ UNCHANGED <<subs, link, slave, slaveSubs, losses>>
masterReceiveNeverRejecting ==
  /\ toMaster # <<>> /\ Len(toSlave) < MaxQueue
  /\ toMaster' = Tail(toMaster)
  /\ UNCHANGED <<subs, link, slave, slaveSubs, toSlave, losses>>
masterReceive ==
  /\ toMaster # <<>> /\ Len(toSlave) < MaxQueue
  /\ LET sig == Head(toMaster)
     IN toSlave' = IF wanted(sig) THEN toSlave
                   ELSE Append(toSlave, Message("reject", sig.path, sig.method))
  /\ toMaster' = Tail(toMaster)
  /\ UNCHANGED <<subs, link, slave, slaveSubs, losses>>

Next ==
  \/ \E c \in Clients, s \in Subs : subscribe(c, s) \/ unsubscribe(c, s)
  \/ \E c \in Clients : clientGone(c)
  \/ slaveLogin \/ onClientLogin \/ onClientConnected
  \/ connectionLost
  \/ slaveReceive
  \/ \E sig \in Signals : emit(sig)
  \/ masterReceive

\* Both brokers read what is in their sockets and run their posted events;
\* nothing is assumed of clients, devices and the network.
Fairness ==
  /\ WF_vars(slaveReceive) /\ WF_vars(masterReceive)
  /\ WF_vars(onClientLogin) /\ WF_vars(onClientConnected)
  /\ WF_vars(slaveLogin)

Spec == Init /\ [][Next]_vars /\ Fairness

(***************************************************************************)
(* Properties.                                                             *)
(***************************************************************************)

\* Once the slave is connected and has read what the master sent, it sends
\* every signal some client of the master is subscribed to: no order of
\* subscriptions, stale rejections, unsubscriptions and reconnections makes
\* the slave forget a subscription that is still needed.
SubscribedSignalsAreSent ==
  link = "up" /\ toSlave = <<>> =>
    \A sig \in Signals : wanted(sig) => isSubscribed(ToSet(slaveSubs), local(sig))

\* A signal nobody is subscribed to any more stops being sent: the rejections
\* remove every subscription of the slave that selects it.
UnwantedSignalsStop ==
  \A sig \in Signals : (<>[]~wanted(sig)) => ~([]<><<emit(sig)>>_vars)

\* The slave holds every subscription once and, between messages, none that is
\* needed is missing (addSubscription(), rejectNotSubscribedSignal()).
SlaveSendsWhatIsWanted == TypeOK /\ SubscribedSignalsAreSent
=============================================================================
