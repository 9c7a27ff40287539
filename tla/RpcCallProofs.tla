--------------------------- MODULE RpcCallProofs ---------------------------
(***************************************************************************)
(* Proofs about RpcCall for every set of calls, time-out and bound.        *)
(*                                                                         *)
(* That a call reports at most one result is not inductive: it needs to    *)
(* know that a call which has reported listens to nothing any more and has *)
(* no timer left to fire before its deferred deletion (OneShot).           *)
(***************************************************************************)
EXTENDS RpcCall, TLAPS

\* A call that has not ended has reported nothing, one that ended reported at
\* most once, and only a running call has a timer.  abort() breaks this, so it
\* is said of the calls nobody aborts.
OneShot ==
  \A c \in Calls \ Abortable :
    /\ obj[c] \in {"new", "started"} => results[c] = 0 /\ ~isFinished[c]
    /\ obj[c] # "started" => timer[c] = NoTimer
    /\ results[c] <= 1

IInv == CallTypeOK /\ OneShot

\* The initial state satisfies the inductive invariant.
LEMMA IInvInit == Init => IInv
  BY RpcCallAssumption DEF Init, IInv, CallTypeOK, OneShot, NoTimer

\* Every step preserves it, RpcResponseCallBack::abort() on other calls
\* included.
LEMMA IInvNext ==
  ASSUME IInv, [Next]_vars
  PROVE  IInv'
<1> USE RpcCallAssumption DEF IInv, CallTypeOK, OneShot, NoTimer
<1>1. CASE \E c \in Calls : start(c)
  BY <1>1 DEF start
<1>2. CASE \E c \in Calls : abort(c)
  BY <1>2 DEF abort
<1>3. CASE \E c \in Calls : destroy(c)
  BY <1>3 DEF destroy
<1>4. CASE \E c \in Calls : deferredDelete(c)
  BY <1>4 DEF deferredDelete
<1>5. CASE \E c \in Calls : onTimeout(c)
  BY <1>5 DEF onTimeout
<1>6. CASE Tick
  BY <1>6 DEF Tick
<1>7. CASE \E f \in Frames : PeerSend(f)
  BY <1>7 DEF PeerSend, callVars
<1>8. CASE \E n \in 0..MaxWire, more \in BOOLEAN : onDataReadyRead(n, more)
  <2>1. PICK n \in 0..MaxWire, more \in BOOLEAN : onDataReadyRead(n, more)
    BY <1>8
  <2> DEFINE ids    == MetaIds(n, more)
             meta   == {c \in Calls : Listening(c) /\ c \in ids}
             failed == {c \in Calls : Listening(c) /\
                          \E i \in 1..n : wire[i] = [rq |-> c, kind |-> "crc"]}
             t      == [c \in Calls |->
                          IF c \in meta \cup Receiving(ids) THEN Timeout ELSE timer[c]]
  <2>2. End(failed, t)
    BY <2>1 DEF onDataReadyRead
  <2>3. \A c \in failed : c \in Calls /\ Listening(c)
    OBVIOUS
  <2>4. /\ t \in [Calls -> {NoTimer} \cup 0..Timeout]
        /\ \A c \in Calls : ~Listening(c) => t[c] = timer[c]
    BY DEF Receiving
  <2> HIDE DEF failed, t
  <2>5. CallTypeOK'
    <3>1. /\ metaReceived' \in [Calls -> BOOLEAN]
          /\ frameReceived' \in [Calls -> BOOLEAN]
          /\ \A c \in Calls : frameReceived'[c] => metaReceived'[c]
      BY <2>1 DEF onDataReadyRead
    <3> QED
      BY <2>2, <2>4, <3>1 DEF End
  <2>6. OneShot'
    BY <2>2, <2>3, <2>4 DEF End, Listening
  <2> QED
    BY <2>5, <2>6
<1>9. CASE onReadyRead
  BY <1>9 DEF onReadyRead, Listening, End
<1>10. CASE ConnectionLost
  BY <1>10 DEF ConnectionLost, callVars
<1>11. CASE Reconnected
  BY <1>11 DEF Reconnected, callVars
<1>12. CASE UNCHANGED vars
  BY <1>12 DEF vars, callVars
<1> QED
  BY <1>1, <1>2, <1>3, <1>4, <1>5, <1>6, <1>7, <1>8, <1>9, <1>10, <1>11, <1>12
  DEF Next

\* However responses, checksum errors, time-outs and lost connections
\* interleave, a call that nobody aborts reports at most one result: the
\* guards of rpccall.cpp on m_isFinished and the stopped timer cover the time
\* until the deferred deletion.
THEOREM OneResultPerCall == Spec => []AtMostOneResult
<1>1. Init => IInv
  BY IInvInit
<1>2. IInv /\ [Next]_vars => IInv'
  BY IInvNext
<1>3. IInv => AtMostOneResult
  BY DEF IInv, OneShot, AtMostOneResult
<1> QED
  BY <1>1, <1>2, <1>3, PTL DEF Spec

\* A frame that waits or is in flight stays a frame: every step keeps the type
\* of the stream reader's state.
LEMMA WireTypeNext ==
  ASSUME WireTypeOK, [Next]_vars
  PROVE  WireTypeOK'
<1> USE DEF WireTypeOK
<1>1. CASE \E c \in Calls : \/ start(c) \/ abort(c) \/ destroy(c)
                             \/ deferredDelete(c) \/ onTimeout(c)
  BY <1>1 DEF start, abort, destroy, deferredDelete, onTimeout, wireVars
<1>2. CASE Tick \/ UNCHANGED vars
  BY <1>2 DEF Tick, vars, wireVars
<1>3. CASE \E f \in Frames : PeerSend(f)
  BY <1>3 DEF PeerSend
<1>4. ASSUME NEW n \in 0..MaxWire, NEW more \in BOOLEAN, onDataReadyRead(n, more)
      PROVE  WireTypeOK'
  <2> USE RpcCallAssumption
  <2>1. n \in 0..Len(wire)
    BY <1>4 DEF onDataReadyRead
  <2>2. \A i \in 1..n : wire[i] \in Frames
    BY <2>1
  <2>3. frames' \subseteq Frames
    BY <1>4, <2>2 DEF onDataReadyRead
  <2>4. wire' \in Seq(Frames)
    <3>1. wire' = SubSeq(wire, n + 1, Len(wire))
      BY <1>4 DEF onDataReadyRead
    <3> QED
      BY <2>1, <3>1
  <2> QED
    BY <1>4, <2>3, <2>4 DEF onDataReadyRead
<1>5. CASE onReadyRead \/ Reconnected
  <2>1. connected' \in BOOLEAN /\ metaRead' \in BOOLEAN
    BY <1>5, Zenon DEF onReadyRead, Reconnected
  <2> QED
    BY <1>5, <2>1 DEF onReadyRead, Reconnected
<1>6. CASE ConnectionLost
  <2>1. wire' = <<>> /\ <<>> \in Seq(Frames)
    BY <1>6 DEF ConnectionLost
  <2>2. wire' \in Seq(Frames)
    BY <2>1, Zenon
  <2>3. connected' \in BOOLEAN /\ metaRead' \in BOOLEAN
    BY <1>6, Zenon DEF ConnectionLost
  <2> QED
    BY <1>6, <2>2, <2>3 DEF ConnectionLost
<1> QED
  BY <1>1, <1>2, <1>3, <1>4, <1>5, <1>6 DEF Next

\* The state of a call keeps its type.
LEMMA CallTypeNext ==
  ASSUME CallTypeOK, [Next]_vars
  PROVE  CallTypeOK'
<1> USE RpcCallAssumption DEF CallTypeOK, NoTimer
<1>1. CASE \E c \in Calls : start(c)
  BY <1>1 DEF start
<1>2. CASE \E c \in Calls : abort(c)
  BY <1>2 DEF abort
<1>3. CASE \E c \in Calls : destroy(c) \/ deferredDelete(c)
  BY <1>3 DEF destroy, deferredDelete
<1>4. CASE \E c \in Calls : onTimeout(c)
  BY <1>4 DEF onTimeout
<1>5. CASE Tick
  BY <1>5 DEF Tick
<1>6. CASE \E n \in 0..MaxWire, more \in BOOLEAN : onDataReadyRead(n, more)
  BY <1>6 DEF onDataReadyRead, End
<1>7. CASE onReadyRead
  BY <1>7 DEF onReadyRead, End
<1>8. CASE \/ \E f \in Frames : PeerSend(f)
           \/ ConnectionLost \/ Reconnected \/ UNCHANGED vars
  BY <1>8 DEF PeerSend, ConnectionLost, Reconnected, vars, callVars
<1> QED
  BY <1>1, <1>2, <1>3, <1>4, <1>5, <1>6, <1>7, <1>8 DEF Next

\* Every variable of RpcCall keeps its type, aborted calls included.
THEOREM TypeCorrect == Spec => []TypeOK
<1>1. ASSUME Init PROVE TypeOK
  <2>1. CallTypeOK
    BY <1>1, RpcCallAssumption DEF Init, CallTypeOK, NoTimer
  <2>2. wire = <<>> /\ <<>> \in Seq(Frames)
    BY <1>1 DEF Init
  <2>3. wire \in Seq(Frames) /\ frames \subseteq Frames
    BY <1>1, <2>2, Zenon DEF Init
  <2>4. connected \in BOOLEAN /\ metaRead \in BOOLEAN
    BY <1>1, Zenon DEF Init
  <2>5. chunks \in Nat /\ answers \in Nat /\ losses \in Nat
    BY <1>1 DEF Init
  <2> QED
    BY <2>1, <2>3, <2>4, <2>5 DEF TypeOK, WireTypeOK
<1>2. TypeOK /\ [Next]_vars => TypeOK'
  BY CallTypeNext, WireTypeNext DEF TypeOK
<1> QED
  BY <1>1, <1>2, PTL DEF Spec

(***************************************************************************)
(* RpcCall implements RpcCallContract.  Every event maps to a step of the  *)
(* contract or to none; that it maps at all needs the inductive invariant, *)
(* for an event that reports must find each call it reports running.       *)
(***************************************************************************)
Kept == Calls \ Abortable

\* The calls were not asked for at first.
LEMMA ContractInit == Init => Contract!Init
  BY DEF Init, Contract!Init, Phases

\* An event that ends running calls and reports each of them once, whatever it
\* does to calls that may be aborted, is one report of the contract.
LEMMA EndsAreReports ==
  ASSUME CallTypeOK, NEW ended, \A c \in ended : obj[c] = "started",
         obj' = [c \in Calls |-> IF c \in ended THEN "deleting" ELSE obj[c]],
         results' = [c \in Calls |-> IF c \in ended THEN results[c] + 1 ELSE results[c]]
  PROVE  Contract!Next
<1> DEFINE told == ended \cap Kept
<1>1. told \in SUBSET Contract!In("running")
  BY DEF Contract!In, Kept, Phases
<1>2. Contract!Report(told)
  BY DEF Contract!Report, Kept, Phases, CallTypeOK
<1> QED
  BY <1>1, <1>2, Zenon DEF Contract!Next

\* An event that changes neither the objects nor the reports is no step.
LEMMA NothingToTell ==
  ASSUME obj' = obj, results' = results
  PROVE  UNCHANGED Contract!vars
  BY DEF Contract!vars

\* Every step of RpcCall is a step of the contract or leaves it alone.
LEMMA ContractNext ==
  ASSUME IInv, [Next]_vars
  PROVE  [Contract!Next]_(Contract!vars)
<1> USE RpcCallAssumption DEF IInv, CallTypeOK
<1>1. ASSUME NEW c \in Calls, start(c)
      PROVE  [Contract!Next]_(Contract!vars)
  <2>1. CASE c \in Abortable
    BY <1>1, <2>1 DEF start, Contract!vars, Phases
  <2>2. CASE c \in Kept /\ connected
    <3> DEFINE phase == [k \in Kept |-> Phases[obj[k]]]
    <3>a. c \in Contract!In("idle")
      BY <1>1, <2>2 DEF start, Contract!In, Kept, Phases
    <3>b. phase' = [phase EXCEPT ![c] = "running"]
      <4>1. /\ obj'[c] = "started"
            /\ \A k \in Kept : k # c => obj'[k] = obj[k]
        BY <1>1, <2>2 DEF start, Kept
      <4>2. \A k \in Kept : Phases[obj'[k]] = IF k = c THEN "running" ELSE Phases[obj[k]]
        BY <4>1 DEF Phases
      <4> HIDE DEF Kept, Phases
      <4> QED
        BY <4>2
    <3>c. results' = results
      BY <1>1, <2>2 DEF start
    <3>1. Contract!Begin(c)
      BY <3>a, <3>b, <3>c DEF Contract!Begin, Kept
    <3> QED
      BY <2>2, <3>1 DEF Contract!Next, Kept
  <2>3. CASE c \in Kept /\ ~connected
    <3>1. Contract!Refuse(c)
      BY <1>1, <2>3 DEF start, Contract!Refuse, Contract!Report, Contract!In, Kept, Phases
    <3> QED
      BY <2>3, <3>1 DEF Contract!Next, Kept
  <2> QED
    BY <2>1, <2>2, <2>3 DEF Kept
<1>2. ASSUME NEW c \in Calls, abort(c)
      PROVE  [Contract!Next]_(Contract!vars)
  BY <1>2 DEF abort, Contract!vars, Phases
<1>3. ASSUME NEW c \in Calls, destroy(c)
      PROVE  [Contract!Next]_(Contract!vars)
  <2>1. CASE c \in Abortable
    BY <1>3, <2>1 DEF destroy, Contract!vars, Phases
  <2>2. CASE c \in Kept
    <3> DEFINE phase == [k \in Kept |-> Phases[obj[k]]]
    <3>a. c \in Contract!In("running")
      BY <1>3, <2>2 DEF destroy, Contract!In, Kept, Phases
    <3>b. phase' = [phase EXCEPT ![c] = "over"]
      BY <1>3, <2>2 DEF destroy, Kept, Phases
    <3>c. results' = results
      BY <1>3 DEF destroy
    <3>1. Contract!TakeBack(c)
      BY <3>a, <3>b, <3>c DEF Contract!TakeBack, Kept
    <3> QED
      BY <2>2, <3>1 DEF Contract!Next, Kept
  <2> QED
    BY <2>1, <2>2 DEF Kept
<1>4. ASSUME NEW c \in Calls, deferredDelete(c)
      PROVE  [Contract!Next]_(Contract!vars)
  BY <1>4 DEF deferredDelete, Contract!vars, Phases
<1>5. ASSUME NEW c \in Calls, onTimeout(c)
      PROVE  [Contract!Next]_(Contract!vars)
  <2>1. CASE c \in Abortable
    BY <1>5, <2>1 DEF onTimeout, Contract!vars
  <2>2. CASE c \in Kept
    <3>1. obj[c] = "started"
      BY <1>5, <2>2 DEF onTimeout, OneShot, Kept, NoTimer
    <3> DEFINE ended == {c}
    <3>2. /\ obj' = [k \in Calls |-> IF k \in ended THEN "deleting" ELSE obj[k]]
          /\ results' = [k \in Calls |-> IF k \in ended THEN results[k] + 1 ELSE results[k]]
      BY <1>5 DEF onTimeout
    <3>3. \A k \in ended : obj[k] = "started"
      BY <3>1
    <3> HIDE DEF ended
    <3> QED
      BY <3>2, <3>3, EndsAreReports
  <2> QED
    BY <2>1, <2>2 DEF Kept
<1>6. ASSUME NEW n \in 0..MaxWire, NEW more \in BOOLEAN, onDataReadyRead(n, more)
      PROVE  [Contract!Next]_(Contract!vars)
  <2> DEFINE failed == {c \in Calls : Listening(c) /\
                          \E i \in 1..n : wire[i] = [rq |-> c, kind |-> "crc"]}
  <2>1. \A c \in failed : obj[c] = "started"
    BY DEF Listening
  <2>2. /\ obj' = [c \in Calls |-> IF c \in failed THEN "deleting" ELSE obj[c]]
        /\ results' = [c \in Calls |-> IF c \in failed THEN results[c] + 1 ELSE results[c]]
    BY <1>6 DEF onDataReadyRead, End
  <2> QED
    BY <2>1, <2>2, EndsAreReports
<1>7. CASE onReadyRead
  <2> DEFINE done == {c \in Calls : Listening(c) /\
                        [rq |-> c, kind |-> "result"] \in frames}
  <2>1. \A c \in done : obj[c] = "started"
    BY DEF Listening
  <2>2. /\ obj' = [c \in Calls |-> IF c \in done THEN "deleting" ELSE obj[c]]
        /\ results' = [c \in Calls |-> IF c \in done THEN results[c] + 1 ELSE results[c]]
    BY <1>7 DEF onReadyRead, End
  <2> QED
    BY <2>1, <2>2, EndsAreReports
<1>8. CASE \/ Tick \/ \E f \in Frames : PeerSend(f)
           \/ ConnectionLost \/ Reconnected \/ UNCHANGED vars
  BY <1>8, NothingToTell
  DEF Tick, PeerSend, ConnectionLost, Reconnected, vars, callVars
<1> QED
  BY <1>1, <1>2, <1>3, <1>4, <1>5, <1>6, <1>7, <1>8 DEF Next

\* RpcCall keeps its contract for every set of calls, time-out and bound: to
\* an owner the objects, timers and queued frames of rpccall.cpp look like a
\* call that is refused at once, or runs until it reports or is taken back.
THEOREM CallsKeepTheirContract == Spec => KeepsItsContract
<1>1. Init => Contract!Init
  BY ContractInit
<1>2. Init => IInv
  BY IInvInit
<1>3. IInv /\ [Next]_vars => IInv'
  BY IInvNext
<1>4. IInv /\ [Next]_vars => [Contract!Next]_(Contract!vars)
  BY ContractNext
<1> QED
  BY <1>1, <1>2, <1>3, <1>4, PTL DEF Spec, KeepsItsContract, Contract!Spec
=============================================================================
