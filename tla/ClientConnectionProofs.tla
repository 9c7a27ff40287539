----------------------- MODULE ClientConnectionProofs -----------------------
(***************************************************************************)
(* What a ClientConnection tells its program is right, and the user is     *)
(* asked once, for every choice of its intervals and options.              *)
(***************************************************************************)
EXTENDS ClientConnection, TLAPS

\* The inductive invariant, as a property of a connection.
Typed(d) == d \in Connection /\ (d.pending # {} => d.sock = "connected")

Told(d) ==
  /\ d.told <=> d.state = "BrokerConnected"
  /\ d.told => d.sock \in {"connected", "closing"}
  /\ HeartBeat > 0 => (d.told <=> d.heart # Off)

\* While the user is being asked, and until the token is sent, nothing but the
\* authorization drives the connection.
Asking(d) ==
  /\ ~Azure => ~d.waiting /\ ~d.asked /\ "workflows" \notin d.pending
  /\ d.asked => d.waiting /\ d.sock \notin {"connecting", "cancelled"}
                /\ d.pending \cap {"hello", "workflows"} = {}
  /\ d.waiting => d.state # "BrokerConnected" /\ d.pending \cap {"workflows", "login"} = {}
  /\ d.token /\ d.sock \in {"connecting", "cancelled"} => d.waiting
  /\ d.token /\ "hello" \in d.pending => d.waiting
  /\ "login" \in d.pending => d.pending \cap {"hello", "workflows"} = {}

Inv(d) == Typed(d) /\ Told(d) /\ Asking(d)

IInv == TypeOK /\ Inv(c)

States == {"NotConnected", "Connecting", "SocketConnected", "BrokerConnected", "ConnectionError"}

\* What setState() changes and what it leaves alone.
LEMMA SetStateFrame ==
  ASSUME NEW d \in Connection, NEW s \in States
  PROVE  LET e == setState(d, s)
         IN /\ e \in Connection /\ e.state = s
            /\ e.sock = d.sock /\ e.pending = d.pending /\ e.waiting = d.waiting
            /\ e.token = d.token /\ e.asked = d.asked /\ e.ping = d.ping
            /\ d.state = s => e = d
<1>0. Off \in Off..HeartBeat /\ HeartBeat \in Off..HeartBeat
  BY ClientConnectionAssumption DEF Off
<1>1. CASE d.state = s
  <2>1. setState(d, s) = d
    BY <1>1 DEF setState
  <2> QED BY <2>1, <1>1
<1>2. CASE d.state # s /\ d.state = "BrokerConnected"
  <2>1. setState(d, s) = [d EXCEPT !.state = s, !.heart = Off, !.told = FALSE]
    BY <1>2 DEF setState
  <2> QED BY <2>1, <1>0, <1>2 DEF Connection, States
<1>3. CASE d.state # s /\ d.state # "BrokerConnected" /\ s = "BrokerConnected"
  <2>1. setState(d, s) = [d EXCEPT !.state = s, !.told = TRUE,
                            !.heart = IF HeartBeat > 0 THEN HeartBeat ELSE Off]
    BY <1>3 DEF setState, Connection
  <2> QED BY <2>1, <1>0, <1>3 DEF Connection, States
<1>4. CASE d.state # s /\ d.state # "BrokerConnected" /\ s # "BrokerConnected"
  <2>1. setState(d, s) = [d EXCEPT !.state = s]
    BY <1>4 DEF setState
  <2> QED BY <2>1, <1>4 DEF Connection, States
<1> QED BY <1>1, <1>2, <1>3, <1>4

\* The program is told what setState() makes of the connection.
LEMMA SetStateTold ==
  ASSUME NEW d \in Connection, NEW s \in States, d.told <=> d.state = "BrokerConnected",
         HeartBeat > 0 => (d.told <=> d.heart # Off)
  PROVE  LET e == setState(d, s)
         IN (e.told <=> s = "BrokerConnected") /\ (HeartBeat > 0 => (e.told <=> e.heart # Off))
BY ClientConnectionAssumption DEF setState, Connection, States, Off

\* setState() keeps the invariant; only a socket that is connected and waits
\* for no user may be set to BrokerConnected.
LEMMA SetStateInv ==
  ASSUME NEW d, Inv(d), NEW s \in States,
         s = "BrokerConnected" => d.sock = "connected" /\ ~d.waiting
  PROVE  Inv(setState(d, s))
BY SetStateFrame, SetStateTold DEF Inv, Typed, Told, Asking

\* abortSocket() leaves an unconnected socket and asks for nothing.
LEMMA AbortInv ==
  ASSUME NEW d, Inv(d)
  PROVE  LET e == abortSocket(d)
         IN Inv(e) /\ e.sock = "unconnected" /\ e.pending = {} /\ e.waiting = d.waiting
<1> DEFINE f == [d EXCEPT !.sock = "unconnected", !.pending = {}]
<1>1. /\ f \in Connection /\ f.sock = "unconnected" /\ f.pending = {}
      /\ f.state = d.state /\ f.told = d.told /\ f.heart = d.heart
      /\ f.waiting = d.waiting /\ f.token = d.token /\ f.asked = d.asked
  BY DEF Inv, Typed, Connection
<1>2. CASE d.sock \in {"connected", "closing"} /\ ~d.waiting
  <2>1. abortSocket(d) = setState(f, "NotConnected")
    BY <1>1, <1>2 DEF abortSocket, disconnected
  <2>2. /\ f.told <=> f.state = "BrokerConnected"
        /\ HeartBeat > 0 => (f.told <=> f.heart # Off)
    BY <1>1 DEF Inv, Told
  <2> DEFINE g == setState(f, "NotConnected")
  <2>3. /\ g \in Connection /\ g.sock = "unconnected" /\ g.pending = {}
        /\ g.state = "NotConnected" /\ g.waiting = d.waiting /\ g.asked = d.asked
        /\ ~g.told /\ (HeartBeat > 0 => (g.told <=> g.heart # Off))
    <3>1. "NotConnected" \in States
      BY DEF States
    <3> HIDE DEF f
    <3> QED BY <3>1, <2>2, <1>1, <1>2, SetStateFrame, SetStateTold
  <2> HIDE DEF g
  <2>4. Inv(g)
    BY <2>3, <1>2 DEF Inv, Typed, Told, Asking
  <2> QED BY <2>1, <2>3, <2>4 DEF g
<1>3. CASE ~(d.sock \in {"connected", "closing"} /\ ~d.waiting)
  <2>1. abortSocket(d) = f
    BY <1>1, <1>3 DEF abortSocket, disconnected
  <2> QED BY <2>1, <1>1, <1>3 DEF Inv, Typed, Told, Asking
<1> QED BY <1>2, <1>3

\* Every outcome of closing the socket keeps the invariant.
LEMMA CloseInv ==
  ASSUME NEW d, Inv(d), NEW e \in closeSocket(d)
  PROVE  Inv(e) /\ e.waiting = d.waiting
<1>1. CASE d.sock = "connected" /\ e = abortSocket(d)
  BY <1>1, AbortInv
<1>2. CASE d.sock = "connected" /\ e = [d EXCEPT !.sock = "closing", !.pending = {}]
  BY <1>2 DEF Inv, Typed, Told, Asking, Connection
<1>3. CASE d.sock = "connecting" /\ e = [d EXCEPT !.sock = "cancelled"]
  BY <1>3 DEF Inv, Typed, Told, Asking, Connection
<1>4. CASE e = d
  BY <1>4
<1> QED BY <1>1, <1>2, <1>3, <1>4 DEF closeSocket

\* restartIfAutoConnect() keeps the invariant.
LEMMA RestartInv ==
  ASSUME NEW d, Inv(d), NEW e \in restartIfAutoConnect(d)
  PROVE  Inv(e)
BY CloseInv, SetStateInv DEF restartIfAutoConnect, States

\* checkBrokerConnected() starts over from a connection that is not connected.
LEMMA CheckInv ==
  ASSUME NEW d, Inv(d)
  PROVE  Inv(checkBrokerConnected(d))
<1>1. CASE d.waiting \/ isBrokerConnected(d)
  BY <1>1 DEF checkBrokerConnected
<1>2. CASE ~d.waiting /\ ~isBrokerConnected(d)
  <2> DEFINE a == abortSocket(d)
             r == reset(a)
             s == setState(r, "Connecting")
  <2>1. Inv(a) /\ a.sock = "unconnected" /\ a.pending = {} /\ ~a.waiting
    BY <1>2, AbortInv
  <2>2. /\ Inv(r) /\ r.sock = "unconnected" /\ r.pending = {} /\ ~r.waiting /\ ~r.token
    <3>1. ~a.told /\ a.state # "BrokerConnected" /\ ~a.asked
      BY <2>1 DEF Inv, Told, Asking
    <3> QED BY <2>1, <3>1 DEF Inv, Typed, Told, Asking, Connection, reset
  <2>3. /\ Inv(s) /\ s.sock = "unconnected" /\ s.pending = {} /\ ~s.waiting /\ ~s.token
        /\ s.state = "Connecting" /\ ~s.asked
    <3>1. r \in Connection /\ "Connecting" \in States /\ ~r.asked
      BY <2>2 DEF Inv, Typed, Asking, States
    <3> HIDE DEF r
    <3> QED BY <2>2, <3>1, SetStateInv, SetStateFrame
  <2>4. checkBrokerConnected(d) = connectToHost(s)
    BY <1>2 DEF checkBrokerConnected
  <2> HIDE DEF s
  <2> QED BY <2>3, <2>4 DEF connectToHost, Inv, Typed, Told, Asking, Connection
<1> QED BY <1>1, <1>2

\* sendLogin() is called when no hello and no workflows are left to be answered
\* and the user is not being asked.
LEMMA SendLoginInv ==
  ASSUME NEW d, Inv(d), d.sock = "connected", d.state # "BrokerConnected",
         d.pending \cap {"hello", "workflows", "login"} = {}, ~d.asked
  PROVE  Inv(sendLogin(d))
<1>1. CASE Azure /\ ~(d.waiting /\ d.token)
  BY <1>1 DEF sendLogin, doAzureAuth, Inv, Typed, Told, Asking, Connection
<1>2. CASE ~(Azure /\ ~(d.waiting /\ d.token))
  <2> DEFINE e == [d EXCEPT !.pending = @ \cup {"login"}, !.waiting = FALSE]
  <2>1. sendLogin(d) = e
    BY <1>2 DEF sendLogin
  <2>2. /\ e \in Connection /\ e.pending = d.pending \cup {"login"} /\ e.waiting = FALSE
        /\ e.sock = d.sock /\ e.state = d.state /\ e.told = d.told /\ e.heart = d.heart
        /\ e.asked = d.asked /\ e.token = d.token
    BY DEF Inv, Typed, Connection, Requests
  <2> HIDE DEF e
  <2>4. Typed(e) /\ Told(e)
    BY <2>2 DEF Inv, Typed, Told
  <2>5. Asking(e)
    BY <2>2 DEF Asking
  <2> QED BY <2>1, <2>4, <2>5 DEF Inv
<1> QED BY <1>1, <1>2

\* Every step keeps the invariant of the connection.
LEMMA StepInv == IInv /\ [Next]_vars => Inv(c')
<1> SUFFICES ASSUME IInv, [Next]_vars PROVE Inv(c')
  OBVIOUS
<1> USE DEF IInv
<1>1. CASE open
  BY <1>1, AbortInv, CheckInv DEF open
<1>2. CASE closeOrAbort
  <2>1. PICK d \in closeSocket(c) \cup {abortSocket(c)} : c' = setState(d, "NotConnected")
    BY <1>2 DEF closeOrAbort
  <2>2. Inv(d)
    BY CloseInv, AbortInv
  <2> QED BY <2>1, <2>2, SetStateInv DEF States
<1>3. CASE granted
  <2> DEFINE d == [c EXCEPT !.asked = FALSE, !.token = TRUE]
  <2>1. CASE c.sock = "connected"
    <3>1. c' = [d EXCEPT !.pending = @ \cup {"login"}, !.waiting = FALSE]
      BY <1>3, <2>1 DEF granted, Inv, Typed, Connection
    <3>2. /\ c' \in Connection /\ c'.pending = c.pending \cup {"login"} /\ c'.waiting = FALSE
          /\ c'.sock = c.sock /\ c'.state = c.state /\ c'.told = c.told /\ c'.heart = c.heart
          /\ c'.asked = FALSE /\ c'.token = TRUE
      BY <3>1 DEF Inv, Typed, Connection, Requests
    <3>3. Azure /\ c.pending \cap {"hello", "workflows"} = {}
      BY <1>3 DEF granted, Inv, Asking
    <3>4. Typed(c') /\ Told(c')
      BY <3>2, <2>1 DEF Inv, Typed, Told
    <3>5. Asking(c')
      BY <3>2, <3>3, <2>1 DEF Asking
    <3> QED BY <3>4, <3>5 DEF Inv
  <2>2. CASE c.sock # "connected"
    <3>1. c' = connectToHost(d)
      BY <1>3, <2>2 DEF granted, Inv, Typed, Connection
    <3>2. /\ c' \in Connection /\ c'.pending = c.pending /\ c'.waiting = c.waiting
          /\ c'.sock \in {c.sock, "connecting"} /\ (c'.sock # c.sock => c.sock = "unconnected")
          /\ c'.state = c.state /\ c'.told = c.told /\ c'.heart = c.heart
          /\ c'.asked = FALSE /\ c'.token = TRUE
      <4>1. /\ d \in Connection /\ d.pending = c.pending /\ d.waiting = c.waiting
            /\ d.sock = c.sock /\ d.state = c.state /\ d.told = c.told /\ d.heart = c.heart
            /\ d.asked = FALSE /\ d.token = TRUE
        BY DEF Inv, Typed, Connection
      <4> HIDE DEF d
      <4> QED BY <3>1, <4>1 DEF connectToHost, Connection
    <3>3. c.waiting /\ c.pending = {}
      BY <1>3, <2>2 DEF granted, Inv, Typed, Asking
    <3> QED BY <3>2, <3>3 DEF Inv, Typed, Told, Asking
  <2> QED BY <2>1, <2>2
<1>4. CASE refused
  <2> DEFINE d == [c EXCEPT !.asked = FALSE]
  <2>1. /\ d \in Connection /\ d.sock = c.sock /\ d.state = c.state /\ d.told = c.told
        /\ d.heart = c.heart /\ d.waiting = c.waiting /\ d.token = c.token
        /\ d.asked = FALSE /\ d.pending = c.pending
    BY DEF Inv, Typed, Connection
  <2>2. c' = setState(d, "ConnectionError")
    BY <1>4 DEF refused
  <2> HIDE DEF d
  <2>3. Typed(d) /\ Told(d)
    BY <2>1 DEF Inv, Typed, Told
  <2>4. Asking(d)
    BY <2>1 DEF Inv, Asking
  <2>5. Inv(d)
    BY <2>3, <2>4 DEF Inv
  <2> QED BY <2>2, <2>5, SetStateInv DEF States
<1>5. CASE onCheckTimeout
  BY <1>5, CheckInv DEF onCheckTimeout
<1>6. CASE deleteCheckTimer
  BY <1>6 DEF deleteCheckTimer
<1>7. CASE onLoginTimeout
  BY <1>7, RestartInv DEF onLoginTimeout
<1>8. CASE onHeartBeat
  <2> DEFINE d == [c EXCEPT !.heart = HeartBeat]
  <2>1. Inv(d) /\ d.sock = c.sock /\ d.state = c.state /\ d.pending = c.pending
    BY <1>8, ClientConnectionAssumption DEF onHeartBeat, Inv, Typed, Told, Asking, Connection, Off
  <2>2. CASE c.ping
    <3>1. c' \in restartIfAutoConnect(d)
      BY <1>8, <2>2 DEF onHeartBeat
    <3> HIDE DEF d
    <3> QED BY <2>1, <3>1, RestartInv
  <2>3. CASE ~c.ping
    <3>1. c' = [d EXCEPT !.ping = TRUE,
                         !.pending = IF c.sock = "connected" THEN @ \cup {"ping"} ELSE @]
      BY <1>8, <2>3 DEF onHeartBeat
    <3> HIDE DEF d
    <3>2. /\ c' \in Connection /\ c'.sock = d.sock /\ c'.state = d.state /\ c'.told = d.told
          /\ c'.heart = d.heart /\ c'.waiting = d.waiting /\ c'.token = d.token
          /\ c'.asked = d.asked
          /\ c'.pending = IF c.sock = "connected" THEN d.pending \cup {"ping"} ELSE d.pending
      BY <2>1, <3>1 DEF Inv, Typed, Connection, Requests
    <3>3. Typed(c') /\ Told(c')
      BY <2>1, <3>2 DEF Inv, Typed, Told
    <3>4. Asking(c')
      BY <2>1, <3>2 DEF Inv, Asking
    <3> QED BY <3>3, <3>4 DEF Inv
  <2> QED BY <2>2, <2>3
<1>9. CASE onSocketConnected
  <2> DEFINE d == [c EXCEPT !.sock = "connected"]
             e == setState(d, "SocketConnected")
  <2>1. /\ Inv(d) /\ d.sock = "connected" /\ d.waiting = c.waiting /\ d.pending = {}
        /\ d.token => d.waiting
        /\ ~d.asked
    BY <1>9 DEF onSocketConnected, Inv, Typed, Told, Asking, Connection
  <2>2. /\ Inv(e) /\ e.sock = "connected" /\ e.waiting = c.waiting /\ e.pending = {}
        /\ e.token => e.waiting
        /\ ~e.asked /\ e.state = "SocketConnected"
    <3>1. d \in Connection /\ "SocketConnected" \in States
      BY <2>1 DEF Inv, Typed, States
    <3> HIDE DEF d
    <3> QED BY <2>1, <3>1, SetStateInv, SetStateFrame
  <2>3. CASE NoLogin
    <3>1. c' = setState(e, "BrokerConnected") /\ ~e.waiting
      BY <1>9, <2>2, <2>3 DEF onSocketConnected, Inv, Asking, NoLogin, Azure
    <3> HIDE DEF e
    <3> QED BY <2>2, <3>1, SetStateInv DEF States
  <2>4. CASE ~NoLogin
    <3>1. c' = [e EXCEPT !.pending = {"hello"} \cup
                           IF Azure /\ ~e.waiting THEN {"workflows"} ELSE {}]
      BY <1>9, <2>4 DEF onSocketConnected
    <3> HIDE DEF e
    <3> QED BY <2>2, <3>1 DEF Inv, Typed, Told, Asking, Connection, Requests
  <2> QED BY <2>3, <2>4
<1>10. CASE onCancelled
  <2> DEFINE d == [c EXCEPT !.sock = "connected"]
             e == setState(d, "SocketConnected")
  <2>1. CASE c' = [c EXCEPT !.sock = "unconnected"]
    BY <1>10, <2>1 DEF onCancelled, Inv, Typed, Told, Asking, Connection
  <2>2. CASE c' = abortSocket(IF NoLogin THEN setState(e, "BrokerConnected") ELSE e)
    <3>1. Inv(d) /\ d.sock = "connected" /\ d.waiting = c.waiting
      BY <1>10 DEF onCancelled, Inv, Typed, Told, Asking, Connection
    <3>2. Inv(e) /\ e.sock = "connected" /\ e.waiting = c.waiting
      <4>1. d \in Connection /\ "SocketConnected" \in States
        BY <3>1 DEF Inv, Typed, States
      <4> HIDE DEF d
      <4> QED BY <3>1, <4>1, SetStateInv, SetStateFrame
    <3>3. NoLogin => ~e.waiting
      BY <3>2 DEF Inv, Asking, NoLogin, Azure
    <3> HIDE DEF e
    <3>4. Inv(IF NoLogin THEN setState(e, "BrokerConnected") ELSE e)
      BY <3>2, <3>3, SetStateInv DEF States
    <3> QED BY <2>2, <3>4, AbortInv
  <2> QED BY <1>10, <2>1, <2>2 DEF onCancelled
<1>11. CASE onClosed
  BY <1>11, AbortInv DEF onClosed
<1>12. CASE onSocketError
  BY <1>12, AbortInv DEF onSocketError
<1>13. ASSUME NEW q \in Requests, onLoginError(q) PROVE Inv(c')
  <2> DEFINE d == [c EXCEPT !.pending = @ \ {q}]
  <2>1. Inv(d)
    BY DEF Inv, Typed, Told, Asking, Connection
  <2>2. c' \in restartIfAutoConnect(setState(d, "ConnectionError"))
    BY <1>13 DEF onLoginError
  <2> HIDE DEF d
  <2>3. Inv(setState(d, "ConnectionError"))
    BY <2>1, SetStateInv DEF States
  <2> QED BY <2>2, <2>3, RestartInv
<1>14. CASE onHello
  <2> DEFINE d == [c EXCEPT !.pending = @ \ {"hello"}]
  <2>1. /\ Inv(d) /\ d.sock = "connected" /\ d.state = "SocketConnected"
        /\ d.pending = c.pending \ {"hello"} /\ d.waiting = c.waiting /\ d.token = c.token
        /\ d.asked = c.asked
    BY <1>14 DEF onHello, Answered, Inv, Typed, Told, Asking, Connection
  <2>2. CASE Azure /\ ~d.token
    BY <1>14, <2>1, <2>2 DEF onHello
  <2>3. CASE ~(Azure /\ ~d.token)
    <3>1. c' = sendLogin(d)
      BY <1>14, <2>3 DEF onHello
    <3>2. d.pending \cap {"hello", "workflows", "login"} = {} /\ ~d.asked
      <4>1. "hello" \in c.pending
        BY <1>14 DEF onHello, Answered
      <4>2. "login" \notin c.pending /\ ~c.asked
        BY <4>1 DEF Inv, Asking
      <4>3. "workflows" \notin c.pending
        BY <4>1, <2>1, <2>3 DEF Inv, Asking
      <4> QED BY <2>1, <4>2, <4>3
    <3> HIDE DEF d
    <3> QED BY <2>1, <3>1, <3>2, SendLoginInv
  <2> QED BY <2>2, <2>3
<1>15. CASE onWorkflows
  <2> DEFINE d == [c EXCEPT !.pending = @ \ {"workflows"}]
             e == setState(d, "ConnectionError")
  <2>1. /\ Inv(d) /\ d.sock = "connected" /\ d.state = "SocketConnected"
        /\ d.pending \cap {"hello", "workflows", "login"} = {} /\ ~d.asked
    BY <1>15 DEF onWorkflows, Answered, Inv, Typed, Told, Asking, Connection
  <2>2. /\ Inv(e) /\ e.sock = "connected" /\ e.state = "ConnectionError"
        /\ e.pending \cap {"hello", "workflows", "login"} = {} /\ ~e.asked
    <3>1. d \in Connection /\ "ConnectionError" \in States
      BY <2>1 DEF Inv, Typed, States
    <3> HIDE DEF d
    <3> QED BY <2>1, <3>1, SetStateInv, SetStateFrame
  <2>3. c' \in {sendLogin(d), d, e, sendLogin(e)}
    BY <1>15 DEF onWorkflows
  <2> HIDE DEF d, e
  <2> QED BY <2>1, <2>2, <2>3, SendLoginInv
<1>16. CASE onLogin
  <2> DEFINE d == [c EXCEPT !.pending = @ \ {"login"}]
  <2>1. Inv(d) /\ d.sock = "connected" /\ ~d.waiting
    BY <1>16 DEF onLogin, Answered, Inv, Typed, Told, Asking, Connection
  <2>2. c' = setState(d, "BrokerConnected")
    BY <1>16 DEF onLogin
  <2> HIDE DEF d
  <2> QED BY <2>1, <2>2, SetStateInv DEF States
<1>17. ASSUME NEW q \in Requests, onResponse(q) PROVE Inv(c')
  BY <1>17 DEF onResponse, Answered, Inv, Typed, Told, Asking, Connection
<1>18. CASE changeNet
  BY <1>18 DEF changeNet
<1>19. CASE Tick
  <2> DEFINE h == Down(c.heart)
  <2>1. c \in Connection /\ c.heart # 0 /\ c.heart \in Off..HeartBeat
    BY <1>19 DEF Tick, Inv, Typed, Connection
  <2>2. h \in Off..HeartBeat /\ (h = Off <=> c.heart = Off)
    BY <2>1, ClientConnectionAssumption DEF Down, Off
  <2>3. c' = [c EXCEPT !.heart = h]
    BY <1>19 DEF Tick
  <2> HIDE DEF h
  <2>4. Typed(c') /\ Asking(c')
    BY <2>1, <2>2, <2>3 DEF Inv, Typed, Asking, Connection
  <2>5. Told(c')
    BY <2>1, <2>2, <2>3 DEF Inv, Told, Connection
  <2> QED BY <2>4, <2>5 DEF Inv
<1>20. CASE UNCHANGED vars
  BY <1>20 DEF vars
<1> QED
  BY <1>1, <1>2, <1>3, <1>4, <1>5, <1>6, <1>7, <1>8, <1>9, <1>10, <1>11, <1>12, <1>13,
     <1>14, <1>15, <1>16, <1>17, <1>18, <1>19, <1>20
  DEF Next, User, Timers, Answers, Sockets

\* The timers, the network and the program keep their types.
TimersTyped ==
  /\ auth \in {"none", "plain", "azure"}
  /\ opened \in BOOLEAN /\ dying \in BOOLEAN
  /\ check \in Off..CheckInterval
  /\ login \in [0..RpcTimeout -> Nat]
  /\ net \in {"good", "flaky", "dead"}

\* How it logs in does not change.
LEMMA SameAuth == [Next]_vars => auth' = auth
<1> SUFFICES ASSUME [Next]_vars PROVE auth' = auth
  OBVIOUS
<1>1. CASE open \/ closeOrAbort \/ changeNet \/ Tick \/ UNCHANGED vars
  BY <1>1 DEF open, closeOrAbort, changeNet, Tick, vars
<1>2. CASE User \/ Timers
  BY <1>2 DEF User, granted, refused, Timers, onCheckTimeout, deleteCheckTimer,
              onLoginTimeout, onHeartBeat
<1>3. CASE Answers
  BY <1>3 DEF Answers, onHello, onWorkflows, onLogin, onLoginError, onResponse
<1>4. CASE Sockets
  BY <1>4 DEF Sockets, onSocketConnected, onCancelled, onClosed, onSocketError
<1> QED BY <1>1, <1>2, <1>3, <1>4 DEF Next

\* The timers keep their types.
LEMMA StepTimers == TimersTyped /\ [Next]_vars => TimersTyped'
<1> SUFFICES ASSUME TimersTyped, [Next]_vars PROVE TimersTyped'
  OBVIOUS
<1> USE ClientConnectionAssumption DEF TimersTyped, Off
<1>1. CASE open \/ closeOrAbort
  <2>1. CASE open
    BY <2>1 DEF open
  <2>2. CASE closeOrAbort
    <3>1. dying' \in BOOLEAN
      BY <2>2, Zenon DEF closeOrAbort
    <3>2. opened' \in BOOLEAN
      BY <2>2 DEF closeOrAbort
    <3> QED BY <2>2, <3>1, <3>2 DEF closeOrAbort
  <2> QED BY <1>1, <2>1, <2>2
<1>2. CASE User
  BY <1>2 DEF User, granted, refused
<1>3. CASE Timers
  <2>1. CASE onCheckTimeout
    BY <2>1 DEF onCheckTimeout
  <2>2. CASE deleteCheckTimer
    <3>1. Off \in Off..CheckInterval
      OBVIOUS
    <3>2. check' \in Off..CheckInterval
      BY <2>2, <3>1 DEF deleteCheckTimer
    <3> QED BY <2>2, <3>2 DEF deleteCheckTimer
  <2>3. CASE onLoginTimeout
    BY <2>3 DEF onLoginTimeout
  <2>4. CASE onHeartBeat
    BY <2>4 DEF onHeartBeat
  <2> QED BY <1>3, <2>1, <2>2, <2>3, <2>4 DEF Timers
<1>4. CASE Answers
  BY <1>4 DEF Answers, onHello, onWorkflows, onLogin, onLoginError, onResponse
<1>5. CASE Sockets
  BY <1>5 DEF Sockets, onSocketConnected, onCancelled, onClosed, onSocketError
<1>6. CASE changeNet
  BY <1>6 DEF changeNet
<1>7. CASE Tick
  <2>1. opened' \in BOOLEAN /\ dying' \in BOOLEAN /\ net' \in {"good", "flaky", "dead"}
    BY <1>7 DEF Tick
  <2>2. check' \in Off..CheckInterval
    BY <1>7 DEF Tick, Down
  <2>3. login' \in [0..RpcTimeout -> Nat]
    BY <1>7 DEF Tick
  <2> QED BY <2>1, <2>2, <2>3, SameAuth
<1>8. CASE UNCHANGED vars
  BY <1>8 DEF vars
<1> QED BY <1>1, <1>2, <1>3, <1>4, <1>5, <1>6, <1>7, <1>8 DEF Next

\* The initial state satisfies the inductive invariant.
LEMMA InitInv == Init => IInv
<1> SUFFICES ASSUME Init PROVE IInv
  OBVIOUS
<1>1. Fresh \in Connection
  BY ClientConnectionAssumption DEF Fresh, Connection, Off
<1>2. Inv(Fresh)
  BY <1>1 DEF Fresh, Inv, Typed, Told, Asking
<1>3. TypeOK
  <2>1. check \in Off..CheckInterval
    BY ClientConnectionAssumption DEF Init, Off
  <2>2. login \in [0..RpcTimeout -> Nat]
    BY DEF Init
  <2>3. c \in Connection /\ (c.pending # {} => c.sock = "connected")
    BY <1>1 DEF Init, Fresh
  <2> QED BY <2>1, <2>2, <2>3 DEF Init, TypeOK
<1> QED BY <1>2, <1>3 DEF Init, IInv

\* IInv is an invariant of the specification.
LEMMA Invariance == Spec => []IInv
<1>1. IInv /\ [Next]_vars => IInv'
  <2> SUFFICES ASSUME IInv, [Next]_vars PROVE IInv'
    OBVIOUS
  <2>1. Inv(c')
    BY StepInv
  <2>2. TimersTyped'
    BY StepTimers DEF IInv, TypeOK, TimersTyped
  <2>3. Inv(c)'
    BY <2>1, SameAuth DEF Inv, Typed, Told, Asking, Azure
  <2> QED BY <2>1, <2>2, <2>3 DEF IInv, TypeOK, TimersTyped, Inv, Typed
<1> QED BY <1>1, InitInv, PTL DEF Spec

\* For every check interval, time-out and heart-beat interval, with or without
\* a login and OAuth2, the program is told exactly what the connection is:
\* the order of abortSocket() and the reset in checkBrokerConnected() and the
\* unconditional setState() of closeOrAbort() leave no gap.
THEOREM ProgramIsToldWhatIs == Spec => []ConnectionIsSound
<1>1. IInv => ConnectionIsSound
  BY DEF IInv, Inv, Told, ToldWhatIs, ConnectionIsSound
<1> QED BY <1>1, Invariance, PTL

\* Whatever the intervals are, checkBrokerConnected() never starts over while
\* the user has an authorization page open.
THEOREM UserIsNotAskedTwice == Spec => []UserIsAskedOnce
<1>1. IInv => UserIsAskedOnce
  BY DEF IInv, Inv, Asking, UserIsAskedOnce
<1> QED BY <1>1, Invariance, PTL

(***************************************************************************)
(* A connection that was closed.                                           *)
(***************************************************************************)
\* The check timer runs while the program wants to be connected, and until it
\* is deleted.
CheckTimer == check # Off => opened \/ dying

\* The check timer of a closed connection is one that is about to be deleted.
LEMMA StepCheckTimer == IInv /\ CheckTimer /\ [Next]_vars => CheckTimer'
<1> SUFFICES ASSUME TypeOK, CheckTimer, [Next]_vars PROVE CheckTimer'
  BY DEF IInv
<1>1. CASE open
  BY <1>1 DEF open, CheckTimer
<1>2. CASE closeOrAbort
  <2>1. check' = check /\ (dying' <=> check # Off)
    BY <1>2 DEF closeOrAbort
  <2> QED BY <2>1 DEF CheckTimer
<1>3. CASE onCheckTimeout
  BY <1>3 DEF onCheckTimeout, CheckTimer, Off
<1>4. CASE deleteCheckTimer
  BY <1>4 DEF deleteCheckTimer, CheckTimer
<1>5. CASE Tick
  <2>1. check' # Off => check # Off
    BY <1>5 DEF Tick, Down
  <2>2. opened' = opened /\ dying' = dying
    BY <1>5 DEF Tick
  <2> QED BY <2>1, <2>2 DEF CheckTimer
<1>6. CASE UNCHANGED <<opened, check, dying>>
  BY <1>6 DEF CheckTimer
<1>7. CASE User \/ onLoginTimeout \/ onHeartBeat
  BY <1>6, <1>7 DEF User, granted, refused, onLoginTimeout, onHeartBeat
<1>8. CASE Answers
  BY <1>6, <1>8 DEF Answers, onHello, onWorkflows, onLogin, onLoginError, onResponse
<1>9. CASE Sockets
  BY <1>6, <1>9 DEF Sockets, onSocketConnected, onCancelled, onClosed, onSocketError
<1>10. CASE changeNet \/ UNCHANGED vars
  BY <1>6, <1>10 DEF changeNet, vars
<1> QED
  BY <1>1, <1>2, <1>3, <1>4, <1>5, <1>7, <1>8, <1>9, <1>10 DEF Next, Timers

\* Closing a socket that is not connected does nothing to it.
LEMMA RestartUnconnected ==
  ASSUME NEW d \in Connection, d.sock = "unconnected", NEW e \in restartIfAutoConnect(d)
  PROVE  e.sock = "unconnected"
<1>1. closeSocket(d) = {d}
  BY DEF closeSocket
<1>2. CASE CheckInterval > 0
  BY <1>1, <1>2 DEF restartIfAutoConnect
<1>3. CASE ~(CheckInterval > 0)
  <2>1. e = setState(d, "NotConnected") /\ "NotConnected" \in States
    BY <1>1, <1>3 DEF restartIfAutoConnect, States
  <2> QED BY <2>1, SetStateFrame
<1> QED BY <1>2, <1>3

\* Without a check timer, an open page and a connected socket no step connects it.
LEMMA StepClosed ==
  ASSUME IInv, CheckTimer, [Next]_vars,
         ~opened, ~opened', ~dying, ~c.asked, c.sock = "unconnected"
  PROVE  c'.sock = "unconnected"
<1>1. c \in Connection /\ c.pending = {} /\ check = Off
  BY DEF IInv, TypeOK, CheckTimer
<1>2. \A q : ~Answered(q)
  BY <1>1 DEF Answered
<1>3. ~open /\ ~closeOrAbort /\ ~User /\ ~onCheckTimeout /\ ~deleteCheckTimer
  BY <1>1 DEF open, closeOrAbort, User, granted, refused, onCheckTimeout, deleteCheckTimer, Off
<1>4. ~Answers
  BY <1>2 DEF Answers, onHello, onWorkflows, onLogin, onLoginError, onResponse
<1>5. ~Sockets
  BY DEF Sockets, onSocketConnected, onCancelled, onClosed, onSocketError
<1>6. CASE onLoginTimeout
  <2>1. c' = c \/ c' \in restartIfAutoConnect(c)
    BY <1>6 DEF onLoginTimeout
  <2> QED BY <1>1, <2>1, RestartUnconnected
<1>7. CASE onHeartBeat
  <2> DEFINE d == [c EXCEPT !.heart = HeartBeat]
             e == [d EXCEPT !.ping = TRUE,
                            !.pending = IF c.sock = "connected" THEN @ \cup {"ping"} ELSE @]
  <2>1. d \in Connection /\ d.sock = "unconnected" /\ e.sock = "unconnected"
    BY <1>1, ClientConnectionAssumption DEF Connection, Off
  <2>2. c' = e \/ c' \in restartIfAutoConnect(d)
    BY <1>7 DEF onHeartBeat
  <2> HIDE DEF d, e
  <2> QED BY <2>1, <2>2, RestartUnconnected
<1>8. CASE Tick
  BY <1>1, <1>8 DEF Tick, Connection
<1>9. CASE changeNet \/ UNCHANGED vars
  BY <1>9 DEF changeNet, vars
<1> QED BY <1>3, <1>4, <1>5, <1>6, <1>7, <1>8, <1>9 DEF Next, Timers

\* Once a connection is closed, its check timer deleted and no authorization
\* page open, nothing connects its socket again: no login time-out or
\* heart-beat that is still due, and no answer that comes late
\* (closeOrAbort(), restartIfAutoConnect()).
THEOREM ClosedConnectionsStayClosed == Spec => ClosedStaysClosed
<1>1. Init => CheckTimer
  BY DEF Init, CheckTimer
<1>2. IInv /\ CheckTimer /\ [Next]_vars
        => [~opened /\ ~opened' /\ ~dying /\ ~c.asked /\ c.sock = "unconnected"
              => c'.sock = "unconnected"]_vars
  BY StepClosed
<1> QED BY <1>1, <1>2, Invariance, StepCheckTimer, PTL DEF Spec, ClosedStaysClosed
=============================================================================
