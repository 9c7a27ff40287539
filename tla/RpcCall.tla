------------------------------ MODULE RpcCall ------------------------------
(***************************************************************************)
(* RpcCall and its RpcResponseCallBack (libshviotqt/src/rpc/rpccall.cpp):  *)
(* one RPC request, its response time-out and the deferred deletion of the *)
(* two QObjects, driven by the signals of the connection the call runs on. *)
(*                                                                         *)
(* The connection is a byte stream of frames.  A frame is known by what    *)
(* the call sees of it: the request id in its meta data and its kind.      *)
(*   result  a response that completes the request                         *)
(*   delay   a response with the Delay meta key: the answer comes later    *)
(*   routed  a response with caller ids: it belongs to somebody else       *)
(*   bad     a response whose body cannot be parsed                        *)
(*   crc     a response dropped by the serial reader for its checksum      *)
(*   other   any frame with no response id (a signal, a request)           *)
(* Qt delivers events one at a time; a deleteLater() is a posted event, so *)
(* other events may come between the end of a call and its deletion.       *)
(***************************************************************************)
EXTENDS Integers, Sequences, FiniteSets

CONSTANTS
  Calls,        \* the calls, each known by its request id
  Other,        \* the id of frames that answer no call
  Timeout,      \* the response time-out in ticks of the model's clock
  MaxWire,      \* bound: frames in flight or waiting
  MaxChunks,    \* bound: reads one frame is split into
  MaxAnswers,   \* bound: frames the peer sends with the id of a call
  MaxLosses,    \* bound: how often the connection is lost
  Abortable     \* the calls RpcResponseCallBack::abort() may be called on

ASSUME RpcCallAssumption ==
  /\ Other \notin Calls
  /\ Timeout \in Nat \ {0}
  /\ MaxWire \in Nat /\ MaxChunks \in Nat /\ MaxAnswers \in Nat
  /\ MaxLosses \in Nat
  /\ Abortable \subseteq Calls

VARIABLES
  obj,            \* life of the RpcCall object and its callback child
  isFinished,     \* m_isFinished
  metaReceived,   \* m_responseMetaReceived
  frameReceived,  \* m_responseFrameReceived
  timer,          \* remaining time of m_timeoutTimer, NoTimer when stopped
  results,        \* history: how many times maybeResult was emitted
  connected,      \* isBrokerConnected()
  wire,           \* frames sent by the peer and not yet completely read
  chunks,         \* reads that delivered a part of Head(wire)
  metaRead,       \* m_dataStart.has_value(): the meta of Head(wire) was read
  frames,         \* m_frames: the complete frames waiting for onReadyRead
  answers,        \* frames sent so far with the id of a call
  losses          \* connection losses so far

callVars == <<obj, isFinished, metaReceived, frameReceived, timer, results>>
wireVars == <<connected, wire, chunks, metaRead, frames, answers, losses>>
vars == <<callVars, wireVars>>

NoTimer == -1
Kinds == {"result", "delay", "routed", "bad", "crc"}
Frames == [rq : Calls, kind : Kinds] \cup [rq : {Other}, kind : {"other"}]

CallTypeOK ==
  /\ obj \in [Calls -> {"new", "started", "deleting", "gone"}]
  /\ isFinished \in [Calls -> BOOLEAN]
  /\ metaReceived \in [Calls -> BOOLEAN]
  /\ frameReceived \in [Calls -> BOOLEAN]
  /\ timer \in [Calls -> {NoTimer} \cup 0..Timeout]
  /\ results \in [Calls -> Nat]
  /\ \A c \in Calls : frameReceived[c] => metaReceived[c]

WireTypeOK ==
  /\ connected \in BOOLEAN /\ metaRead \in BOOLEAN
  /\ wire \in Seq(Frames) /\ frames \subseteq Frames
  /\ chunks \in Nat /\ answers \in Nat /\ losses \in Nat

\* Every variable has its type; the timer never exceeds the time-out, and a
\* response counts as received only after its meta data.
TypeOK == CallTypeOK /\ WireTypeOK

Init ==
  /\ obj = [c \in Calls |-> "new"]
  /\ isFinished = [c \in Calls |-> FALSE]
  /\ metaReceived = [c \in Calls |-> FALSE]
  /\ frameReceived = [c \in Calls |-> FALSE]
  /\ timer = [c \in Calls |-> NoTimer]
  /\ results = [c \in Calls |-> 0]
  /\ connected = TRUE
  /\ wire = <<>> /\ chunks = 0 /\ metaRead = FALSE /\ frames = {}
  /\ answers = 0 /\ losses = 0

(***************************************************************************)
(* The application.                                                        *)
(***************************************************************************)

\* RpcCall::start(): without a connection the call fails at once, otherwise
\* the callback is created and its timer runs before the request is sent.
start(c) ==
  /\ obj[c] = "new"
  /\ IF connected
     THEN /\ obj' = [obj EXCEPT ![c] = "started"]
          /\ timer' = [timer EXCEPT ![c] = Timeout]
          /\ UNCHANGED results
     ELSE /\ obj' = [obj EXCEPT ![c] = "deleting"]
          /\ results' = [results EXCEPT ![c] = @ + 1]
          /\ UNCHANGED timer
  /\ UNCHANGED <<isFinished, metaReceived, frameReceived, wireVars>>

\* RpcResponseCallBack::abort(), called on a running call: reports
\* "cancelled"; the timer is left running until the object is deleted.
abort(c) ==
  /\ c \in Abortable /\ obj[c] = "started"
  /\ isFinished' = [isFinished EXCEPT ![c] = TRUE]
  /\ results' = [results EXCEPT ![c] = @ + 1]
  /\ obj' = [obj EXCEPT ![c] = "deleting"]
  /\ UNCHANGED <<metaReceived, frameReceived, timer, wireVars>>

\* The owner deletes the RpcCall; its child callback and the timer go with it.
destroy(c) ==
  /\ obj[c] = "started"
  /\ obj' = [obj EXCEPT ![c] = "gone"]
  /\ timer' = [timer EXCEPT ![c] = NoTimer]
  /\ UNCHANGED <<isFinished, metaReceived, frameReceived, results, wireVars>>

\* The DeferredDelete event posted by deleteLater().
deferredDelete(c) ==
  /\ obj[c] = "deleting"
  /\ obj' = [obj EXCEPT ![c] = "gone"]
  /\ timer' = [timer EXCEPT ![c] = NoTimer]
  /\ UNCHANGED <<isFinished, metaReceived, frameReceived, results, wireVars>>

(***************************************************************************)
(* Time.                                                                   *)
(***************************************************************************)
\* Time passes; a timer at 0 is due, a stopped one stays stopped.
Tick ==
  /\ \E c \in Calls : timer[c] > 0
  /\ timer' = [c \in Calls |-> IF timer[c] > 0 THEN timer[c] - 1 ELSE timer[c]]
  /\ UNCHANGED <<obj, isFinished, metaReceived, frameReceived, results, wireVars>>

\* The time-out lambda of RpcResponseCallBack::start() (single shot).
onTimeout(c) ==
  /\ timer[c] = 0
  /\ timer' = [timer EXCEPT ![c] = NoTimer]
  /\ isFinished' = [isFinished EXCEPT ![c] = TRUE]
  /\ results' = [results EXCEPT ![c] = @ + 1]
  /\ obj' = [obj EXCEPT ![c] = "deleting"]
  /\ UNCHANGED <<metaReceived, frameReceived, wireVars>>

(***************************************************************************)
(* The connection.                                                         *)
(***************************************************************************)

\* The callback reacts to the signals of the connection until it is finished.
Listening(c) == obj[c] = "started" /\ ~isFinished[c]

\* The peer sends a frame; it knows the ids of the requests sent to it.
PeerSend(f) ==
  /\ connected /\ Len(wire) + Cardinality(frames) < MaxWire
  /\ f.rq \in Calls => answers < MaxAnswers /\ obj[f.rq] # "new"
  /\ wire' = Append(wire, f)
  /\ answers' = IF f.rq \in Calls THEN answers + 1 ELSE answers
  /\ UNCHANGED <<callVars, connected, chunks, metaRead, frames, losses>>

\* Calls whose response meta data a read uncovers that completes the first n
\* frames and, if more is true, also reads the meta of the frame after them.
MetaIds(n, more) ==
  {wire[i].rq : i \in {j \in 1..Len(wire) : \/ j \in 1..n /\ (j = 1 => ~metaRead)
                                            \/ j = n + 1 /\ more /\ (j = 1 => ~metaRead)}}

\* onDataChunkReceived(): the calls whose response is being received, that is
\* from its meta data until a frame has been received.
ReceivingAnyFrame(ids) ==
  {c \in Calls : Listening(c) /\ (metaReceived[c] \/ c \in ids)}
Receiving(ids) ==
  {c \in Calls : Listening(c) /\ ~frameReceived[c] /\ (metaReceived[c] \/ c \in ids)}

\* onRpcMessageReceived() for the calls in ended, the timers being t so far.
EndLeavingTimer(ended, t) ==
  /\ isFinished' = [c \in Calls |-> isFinished[c] \/ c \in ended]
  /\ timer' = t
  /\ results' = [c \in Calls |-> IF c \in ended THEN results[c] + 1 ELSE results[c]]
  /\ obj' = [c \in Calls |-> IF c \in ended THEN "deleting" ELSE obj[c]]
End(ended, t) ==
  /\ isFinished' = [c \in Calls |-> isFinished[c] \/ c \in ended]
  /\ timer' = [c \in Calls |-> IF c \in ended THEN NoTimer ELSE t[c]]
  /\ results' = [c \in Calls |-> IF c \in ended THEN results[c] + 1 ELSE results[c]]
  /\ obj' = [c \in Calls |-> IF c \in ended THEN "deleting" ELSE obj[c]]

\* A read that completes the first n frames.  The socket emits
\* responseMetaReceived for every response meta it could read, then
\* dataChunkReceived, then responseReceiveError for the frames the checksum
\* refuses; the other complete frames wait for the queued onReadyRead.
onDataReadyRead(n, more) ==
  /\ wire # <<>> /\ n \in 0..Len(wire)
  /\ n = 0 => chunks < MaxChunks /\ (metaRead => more)
  /\ more => n < Len(wire)
  /\ LET ids    == MetaIds(n, more)
         meta   == {c \in Calls : Listening(c) /\ c \in ids}
         failed == {c \in Calls : Listening(c) /\
                      \E i \in 1..n : wire[i] = [rq |-> c, kind |-> "crc"]}
     IN /\ metaReceived' = [c \in Calls |-> metaReceived[c] \/ c \in meta]
        /\ End(failed, [c \in Calls |->
               IF c \in meta \cup Receiving(ids) THEN Timeout ELSE timer[c]])
  /\ frames' = frames \cup {f \in {wire[i] : i \in 1..n} : f.kind # "crc"}
  /\ wire' = SubSeq(wire, n + 1, Len(wire))
  /\ metaRead' = more
  /\ chunks' = IF n = 0 THEN chunks + 1 ELSE IF more THEN 1 ELSE 0
  /\ UNCHANGED <<frameReceived, connected, answers, losses>>

\* SocketRpcConnection::onReadyRead(), a queued call: every waiting frame is
\* announced by rpcFrameReceived and, if it parses, by rpcMessageReceived.  A
\* call sees only which frames there are: it takes the first that ends it.
onReadyReadAnyFrame ==
  /\ frames # {}
  /\ frameReceived' = [c \in Calls |-> frameReceived[c] \/ Listening(c)]
  /\ End({c \in Calls : Listening(c) /\ [rq |-> c, kind |-> "result"] \in frames}, timer)
  /\ frames' = {}
  /\ UNCHANGED <<metaReceived, connected, wire, chunks, metaRead, answers, losses>>
onReadyRead ==
  /\ frames # {}
  /\ LET done == {c \in Calls : Listening(c) /\ [rq |-> c, kind |-> "result"] \in frames}
     IN /\ frameReceived' = [c \in Calls |-> frameReceived[c]
                                               \/ (Listening(c) /\ metaReceived[c])]
        /\ End(done, timer)
  /\ frames' = {}
  /\ UNCHANGED <<metaReceived, connected, wire, chunks, metaRead, answers, losses>>

\* The socket is lost: what was in flight is gone, a frame may be cut short.
ConnectionLost ==
  /\ connected /\ losses < MaxLosses
  /\ connected' = FALSE
  /\ wire' = <<>>
  /\ losses' = losses + 1
  /\ UNCHANGED <<callVars, chunks, metaRead, frames, answers>>

\* The connection is back; onSocketConnectedChanged resets the frame reader.
Reconnected ==
  /\ ~connected
  /\ connected' = TRUE
  /\ chunks' = 0 /\ metaRead' = FALSE /\ frames' = {}
  /\ UNCHANGED <<callVars, wire, answers, losses>>

Next ==
  \/ \E c \in Calls : \/ start(c) \/ abort(c) \/ destroy(c)
                      \/ deferredDelete(c) \/ onTimeout(c)
  \/ Tick
  \/ \E f \in Frames : PeerSend(f)
  \/ \E n \in 0..MaxWire, more \in BOOLEAN : onDataReadyRead(n, more)
  \/ onReadyRead
  \/ ConnectionLost
  \/ Reconnected

\* The event loop runs the timers and the posted events; nothing is assumed
\* of the application, of the peer or of the network.
Fairness ==
  /\ WF_vars(Tick)
  /\ WF_vars(onReadyRead)
  /\ \A c \in Calls : WF_vars(onTimeout(c)) /\ WF_vars(deferredDelete(c))

Spec == Init /\ [][Next]_vars /\ Fairness

(***************************************************************************)
(* Properties.                                                             *)
(***************************************************************************)

\* A call that is not aborted reports at most one result: a response, an error
\* or a time-out (rpccall.cpp).  abort() leaves the timer running, which may
\* report once more.
AtMostOneResult == \A c \in Calls \ Abortable : results[c] <= 1

\* What an owner sees of the calls nobody aborts, in the terms of the contract.
Phases == [new |-> "idle", started |-> "running", deleting |-> "over", gone |-> "over"]
Contract == INSTANCE RpcCallContract WITH
  Asked   <- Calls \ Abortable,
  phase   <- [c \in Calls \ Abortable |-> Phases[obj[c]]],
  reports <- [c \in Calls \ Abortable |-> results[c]]

\* For the calls nobody aborts, the objects of rpccall.cpp, their timer, the
\* stream reader and the queued frames keep the contract of a call: whatever
\* arrives between its end and its deferred deletion, the owner is told once,
\* by the event that ends the call, and never after it has deleted the call.
KeepsItsContract == Contract!Spec

\* A started call ends, whatever else the connection carries: only its owner
\* can take it away before it has reported a result.
EveryCallEnds ==
  \A c \in Calls : obj[c] = "started" ~> (results[c] > 0 \/ obj[c] = "gone")
=============================================================================
