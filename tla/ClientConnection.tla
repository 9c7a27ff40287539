-------------------------- MODULE ClientConnection --------------------------
(***************************************************************************)
(* How a client, a device or a slave broker keeps its connection to a      *)
(* broker (ClientConnection): opening and closing, the handshake, the      *)
(* check timer that reconnects, the login time-out, the heart-beat and the *)
(* OAuth2 authorization by the user.                                       *)
(*                                                                         *)
(* Time is discrete.  It goes on only when no timer is due, and, when the  *)
(* network is good, when every answer has arrived.  A flaky network may    *)
(* delay answers, refuse and lose connections; a dead one carries nothing. *)
(***************************************************************************)
EXTENDS Integers

CONSTANTS
  CheckInterval,  \* m_checkBrokerConnectedInterval, 0 if not auto-connecting
  RpcTimeout,     \* rpcTimeoutMsec(), the time-out of the login
  HeartBeat,      \* heartBeatInterval(), 0 if there is none
  MaxLogins       \* bound: logins begun in one instant when the program opens

ASSUME ClientConnectionAssumption ==
  /\ CheckInterval \in Nat /\ HeartBeat \in Nat /\ RpcTimeout \in Nat \ {0}
  /\ MaxLogins \in Nat

VARIABLES
  auth,     \* how it logs in: not at all, with a password or with a token
  opened,   \* history: whether the program wants to be connected
  check,    \* m_checkBrokerConnectedTimer: time to its next time-out, or Off
  dying,    \* whether its deletion is posted
  login,    \* how many login time-outs are due in 0..RpcTimeout
  net,      \* the network and the broker
  c         \* the connection: m_connectionState, the socket, the heart-beat

vars == <<auth, opened, check, dying, login, net, c>>

Off == -1

NoLogin == auth = "none"   \* loginType() is None
Azure == auth = "azure"    \* oauth2Azure(): the user authorizes the login

Requests == {"hello", "workflows", "login", "ping"}

Connection ==
  [sock    : {"unconnected", "connecting", "cancelled", "connected", "closing"},
   state   : {"NotConnected", "Connecting", "SocketConnected",
              "BrokerConnected", "ConnectionError"},
   pending : SUBSET Requests,   \* requests the broker has to answer
   ping    : BOOLEAN,           \* pingRqId > 0
   heart   : Off..HeartBeat,    \* m_heartBeatTimer
   waiting : BOOLEAN,           \* oAuth2WaitingForUser
   token   : BOOLEAN,           \* token.has_value()
   asked   : BOOLEAN,           \* the user has the authorization page open
   told    : BOOLEAN]           \* the last brokerConnectedChanged()

\* Every variable has its type; answers come only to the socket that asked.
TypeOK ==
  /\ auth \in {"none", "plain", "azure"}
  /\ opened \in BOOLEAN /\ dying \in BOOLEAN
  /\ check \in Off..CheckInterval
  /\ login \in [0..RpcTimeout -> Nat]
  /\ net \in {"good", "flaky", "dead"}
  /\ c \in Connection
  /\ c.pending # {} => c.sock = "connected"

Fresh == [sock |-> "unconnected", state |-> "NotConnected", pending |-> {},
          ping |-> FALSE, heart |-> Off, waiting |-> FALSE, token |-> FALSE,
          asked |-> FALSE, told |-> FALSE]

Init ==
  /\ auth \in {"none", "plain", "azure"}
  /\ opened = FALSE /\ check = Off /\ dying = FALSE
  /\ login = [t \in 0..RpcTimeout |-> 0]
  /\ net \in {"good", "flaky", "dead"}
  /\ c = Fresh

(***************************************************************************)
(* What the functions of the class do to the connection d.                 *)
(***************************************************************************)
\* setState() and whenBrokerConnectedChanged().
setState(d, s) ==
  LET e == [d EXCEPT !.state = s]
  IN CASE d.state = s -> d
       [] d.state # s /\ d.state = "BrokerConnected" ->
            [e EXCEPT !.heart = Off, !.told = FALSE]
       [] d.state # s /\ s = "BrokerConnected" ->
            [e EXCEPT !.heart = IF HeartBeat > 0 THEN HeartBeat ELSE Off, !.told = TRUE]
       [] OTHER -> e

\* onSocketConnectedChanged(false).
disconnected(d) == IF d.waiting THEN d ELSE setState(d, "NotConnected")

\* The socket is aborted, or found to be lost; a socket that was never
\* connected does not signal that it is disconnected.
abortSocket(d) ==
  LET e == [d EXCEPT !.sock = "unconnected", !.pending = {}]
  IN IF d.sock \in {"connected", "closing"} THEN disconnected(e) ELSE e

\* The outcomes of closing the socket.  A connected socket closes at once or
\* when its buffer is written; one that is connecting will close then.
closeSocket(d) ==
  CASE d.sock = "connected" -> {abortSocket(d), [d EXCEPT !.sock = "closing", !.pending = {}]}
    [] d.sock = "connecting" -> {[d EXCEPT !.sock = "cancelled"]}
    [] OTHER -> {d}

\* restartIfAutoConnect(): with a check timer it closes the socket only;
\* without one close() does the same, and sets the state.
restartIfAutoConnect(d) ==
  IF CheckInterval > 0 THEN closeSocket(d)
  ELSE {setState(e, "NotConnected") : e \in closeSocket(d)}

connectToHost(d) == IF d.sock = "unconnected" THEN [d EXCEPT !.sock = "connecting"] ELSE d

isBrokerConnectedIgnoringSocket(d) == d.state = "BrokerConnected"
isBrokerConnected(d) == d.sock = "connected" /\ d.state = "BrokerConnected"

\* checkBrokerConnected(): m_connectionState is overwritten without a signal.
reset(d) == [d EXCEPT !.state = "NotConnected", !.ping = FALSE,
                      !.waiting = FALSE, !.token = FALSE]
checkOnlyNotConnected(d) ==
  IF d.waiting \/ d.state # "NotConnected" THEN d
  ELSE connectToHost(setState(reset(abortSocket(d)), "Connecting"))
checkResettingFirst(d) ==
  IF d.waiting \/ isBrokerConnected(d) THEN d
  ELSE connectToHost(setState(abortSocket(reset(d)), "Connecting"))
checkWhileAsking(d) ==
  IF isBrokerConnected(d) THEN d
  ELSE connectToHost(setState(reset(abortSocket(d)), "Connecting"))
checkBrokerConnected(d) ==
  IF d.waiting \/ isBrokerConnected(d) THEN d
  ELSE connectToHost(setState(reset(abortSocket(d)), "Connecting"))

\* doAzureAuth(): the user gets an authorization page.
doAzureAuth(d) == [d EXCEPT !.waiting = TRUE, !.asked = TRUE]

\* sendLogin() and createLoginParams(): a login by token without a token asks
\* the user.
sendLogin(d) ==
  IF Azure /\ ~(d.waiting /\ d.token) THEN doAzureAuth(d)
  ELSE [d EXCEPT !.pending = @ \cup {"login"}, !.waiting = FALSE]

(***************************************************************************)
(* The program and the user.                                               *)
(***************************************************************************)
\* open() is called when the connection is closed: it does not look.  A new
\* socket replaces the old one.
open ==
  /\ ~opened /\ ~dying /\ login[RpcTimeout] < MaxLogins
  /\ opened' = TRUE
  /\ c' = checkBrokerConnected(abortSocket(c))
  /\ check' = IF CheckInterval > 0 THEN CheckInterval ELSE Off
  /\ UNCHANGED <<auth, dying, login, net>>

\* closeOrAbort(): close() and abort().  The check timer is deleted later.
closeLeavingTimer ==
  /\ opened
  /\ opened' = FALSE
  /\ \E d \in closeSocket(c) \cup {abortSocket(c)} : c' = setState(d, "NotConnected")
  /\ UNCHANGED <<auth, check, dying, login, net>>
closeOrAbort ==
  /\ opened
  /\ opened' = FALSE
  /\ \E d \in closeSocket(c) \cup {abortSocket(c)} : c' = setState(d, "NotConnected")
  /\ dying' = (check # Off)
  /\ UNCHANGED <<auth, check, login, net>>

\* The user authorizes the login: the token is sent, or a socket that is gone
\* is connected again.
granted ==
  /\ c.asked
  /\ LET d == [c EXCEPT !.asked = FALSE, !.token = TRUE]
     IN c' = IF d.sock = "connected"
             THEN [d EXCEPT !.pending = @ \cup {"login"}, !.waiting = FALSE]
             ELSE connectToHost(d)
  /\ UNCHANGED <<auth, opened, check, dying, login, net>>

refused ==
  /\ c.asked
  /\ c' = setState([c EXCEPT !.asked = FALSE], "ConnectionError")
  /\ UNCHANGED <<auth, opened, check, dying, login, net>>

(***************************************************************************)
(* Timers.                                                                 *)
(***************************************************************************)
onCheckTimeout ==
  /\ check = 0
  /\ check' = CheckInterval
  /\ c' = checkBrokerConnected(c)
  /\ UNCHANGED <<auth, opened, dying, login, net>>

deleteCheckTimer ==
  /\ dying
  /\ check' = Off /\ dying' = FALSE
  /\ UNCHANGED <<auth, opened, login, net, c>>

\* The single shot of onSocketConnectedChanged(true): nothing cancels it.
onLoginTimeout ==
  /\ login[0] > 0
  /\ login' = [login EXCEPT ![0] = @ - 1]
  /\ c' \in IF c.state = "BrokerConnected" THEN {c} ELSE restartIfAutoConnect(c)
  /\ UNCHANGED <<auth, opened, check, dying, net>>

onHeartBeat ==
  /\ c.heart = 0
  /\ LET d == [c EXCEPT !.heart = HeartBeat]
     IN c' \in IF c.ping THEN restartIfAutoConnect(d)
               ELSE {[d EXCEPT !.ping = TRUE,
                               !.pending = IF c.sock = "connected" THEN @ \cup {"ping"} ELSE @]}
  /\ UNCHANGED <<auth, opened, check, dying, login, net>>

(***************************************************************************)
(* The network.                                                            *)
(***************************************************************************)
\* onSocketConnectedChanged(true).
onSocketConnected ==
  /\ c.sock = "connecting" /\ net # "dead"
  /\ LET d == setState([c EXCEPT !.sock = "connected"], "SocketConnected")
     IN IF NoLogin THEN c' = setState(d, "BrokerConnected") /\ UNCHANGED login
        ELSE /\ c' = [d EXCEPT !.pending = {"hello"} \cup
                        IF Azure /\ ~d.waiting THEN {"workflows"} ELSE {}]
             /\ login' = [login EXCEPT ![RpcTimeout] = @ + 1]
  /\ UNCHANGED <<auth, opened, check, dying, net>>

\* A socket that was closed while it was connecting says that it is connected
\* and that it is disconnected, or neither.
onCancelled ==
  /\ c.sock = "cancelled"
  /\ \/ c' = [c EXCEPT !.sock = "unconnected"] /\ UNCHANGED login
     \/ /\ net # "dead"
        /\ LET d == setState([c EXCEPT !.sock = "connected"], "SocketConnected")
           IN c' = abortSocket(IF NoLogin THEN setState(d, "BrokerConnected") ELSE d)
        /\ login' = IF NoLogin THEN login ELSE [login EXCEPT ![RpcTimeout] = @ + 1]
  /\ UNCHANGED <<auth, opened, check, dying, net>>

\* The buffer of a closing socket is written.
onClosed ==
  /\ c.sock = "closing" /\ net # "dead"
  /\ c' = abortSocket(c)
  /\ UNCHANGED <<auth, opened, check, dying, login, net>>

\* A connection is refused or lost.
onSocketError ==
  /\ c.sock # "unconnected" /\ net # "good"
  /\ c' = abortSocket(c)
  /\ UNCHANGED <<auth, opened, check, dying, login, net>>

\* The broker answers the requests of the handshake in their order.
Answered(q) ==
  q \in c.pending /\ net # "dead" /\ (q = "workflows" => "hello" \notin c.pending)

\* Answers in the login phase: processLoginPhase().
onLoginError(q) ==
  /\ Answered(q) /\ net = "flaky" /\ c.state = "SocketConnected"
  /\ c' \in restartIfAutoConnect(setState([c EXCEPT !.pending = @ \ {q}], "ConnectionError"))
  /\ UNCHANGED <<auth, opened, check, dying, login, net>>

onHello ==
  /\ Answered("hello") /\ c.state = "SocketConnected"
  /\ LET d == [c EXCEPT !.pending = @ \ {"hello"}]
     IN c' = IF Azure /\ ~d.token THEN d ELSE sendLogin(d)
  /\ UNCHANGED <<auth, opened, check, dying, login, net>>

\* A workflow with scopes of a wrong type is an error, and yet goes on.
onWorkflows ==
  /\ Answered("workflows") /\ c.state = "SocketConnected"
  /\ LET d == [c EXCEPT !.pending = @ \ {"workflows"}]
     IN \/ c' = sendLogin(d)
        \/ net = "flaky" /\ c' = d
        \/ net = "flaky" /\ c' = setState(d, "ConnectionError")
        \/ net = "flaky" /\ c' = sendLogin(setState(d, "ConnectionError"))
  /\ UNCHANGED <<auth, opened, check, dying, login, net>>

onLogin ==
  /\ Answered("login") /\ c.state = "SocketConnected"
  /\ c' = setState([c EXCEPT !.pending = @ \ {"login"}], "BrokerConnected")
  /\ UNCHANGED <<auth, opened, check, dying, login, net>>

\* Answers after the login phase: onRpcMessageReceived().
onResponse(q) ==
  /\ Answered(q) /\ c.state # "SocketConnected"
  /\ c' = [c EXCEPT !.pending = @ \ {q}, !.ping = @ /\ q # "ping"]
  /\ UNCHANGED <<auth, opened, check, dying, login, net>>

changeNet ==
  /\ net' \in {"good", "flaky", "dead"} \ {net}
  /\ UNCHANGED <<auth, opened, check, dying, login, c>>

Down(t) == IF t = Off THEN Off ELSE t - 1

Tick ==
  /\ check # 0 /\ c.heart # 0 /\ login[0] = 0 /\ ~dying
  /\ net = "good" => c.pending = {} /\ c.sock \in {"unconnected", "connected"}
  /\ check' = Down(check)
  /\ c' = [c EXCEPT !.heart = Down(@)]
  /\ login' = [t \in 0..RpcTimeout |-> IF t = RpcTimeout THEN 0 ELSE login[t + 1]]
  /\ UNCHANGED <<auth, opened, dying, net>>

Timers == onCheckTimeout \/ deleteCheckTimer \/ onLoginTimeout \/ onHeartBeat
Answers ==
  \/ onHello \/ onWorkflows \/ onLogin
  \/ \E q \in Requests : onLoginError(q) \/ onResponse(q)
Sockets == onSocketConnected \/ onCancelled \/ onClosed \/ onSocketError
User == granted \/ refused

Next == open \/ closeOrAbort \/ User \/ Timers \/ Answers \/ Sockets \/ changeNet \/ Tick

\* Timers fire, a good network delivers, and time goes on; nothing is assumed
\* of the program and the user.
Fairness == WF_vars(Timers) /\ WF_vars(net = "good" /\ (Answers \/ Sockets)) /\ WF_vars(Tick)

Spec == Init /\ [][Next]_vars /\ Fairness

(***************************************************************************)
(* Properties.                                                             *)
(***************************************************************************)

\* The program is told that it is connected exactly while the state says so,
\* the socket is still there and heart-beats are sent.
ToldWhatIs ==
  /\ c.told <=> c.state = "BrokerConnected"
  /\ c.told => c.sock \in {"connected", "closing"}
  /\ HeartBeat > 0 => (c.told <=> c.heart # Off)

\* What the program was told, the socket, the timers and the answers that are
\* still to come agree (setState(), abortSocket()).
ConnectionIsSound == TypeOK /\ ToldWhatIs

\* Once the network stays good a connection that is open is connected in the
\* end and stays so, if it does not wait for the user
\* (checkBrokerConnected(), clientconnection.cpp).
Reconnects ==
  <>[](net = "good" /\ opened /\ ~c.waiting) => <>[](c.state = "BrokerConnected")

\* The same when the user has answered: nothing keeps it from connecting
\* ("Reconnect to broker if connection lost at least after reconnect-interval
\* seconds", clientappclioptions.cpp).  Does not hold for this code (README,
\* section 4).
ReconnectsWhenAnswered ==
  <>[](net = "good" /\ opened /\ ~c.asked) => <>[](c.state = "BrokerConnected")

\* A connection the program keeps open is given up when its network is dead
\* (the heart-beat of whenBrokerConnectedChanged(), clientconnection.cpp).
DeadPeerIsNoticed ==
  c.state = "BrokerConnected" /\ net = "dead" /\ opened
    ~> c.state # "BrokerConnected" \/ net # "dead" \/ ~opened

\* As long as the user is being asked no check of the connection starts over,
\* which would ask once more ("Still waiting for OAuth2 user interaction").
UserIsAskedOnce == c.asked => c.waiting

\* A connection the program closed does not connect to the broker again, once
\* its check timer is deleted and unless the user still has to authorize it
\* (closeOrAbort(), clientconnection.cpp).
ClosedStaysClosed ==
  [][~opened /\ ~opened' /\ ~dying /\ ~c.asked /\ c.sock = "unconnected"
       => c'.sock = "unconnected"]_vars
=============================================================================
