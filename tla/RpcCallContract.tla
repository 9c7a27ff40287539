-------------------------- MODULE RpcCallContract --------------------------
(***************************************************************************)
(* What RpcCall promises its owner about each call (maybeResult, declared  *)
(* in libshviotqt/include/shv/iotqt/rpc/rpccall.h): it reports once, when  *)
(* the call ends or when it cannot be made, and never for a call its owner *)
(* has already taken back.                                                 *)
(***************************************************************************)
EXTENDS Naturals

CONSTANT Asked        \* the calls the promise is given for

VARIABLES
  phase,              \* idle, running, or over
  reports             \* how many results the owner was told

vars == <<phase, reports>>

Init ==
  /\ phase = [c \in Asked |-> "idle"]
  /\ reports = [c \in Asked |-> 0]

In(p) == {c \in Asked : phase[c] = p}

\* The owner asks for a call.
Begin(c) ==
  /\ c \in In("idle")
  /\ phase' = [phase EXCEPT ![c] = "running"]
  /\ UNCHANGED reports

\* The calls in ended are over and their owners told, all by one event.
Report(ended) ==
  /\ phase' = [c \in Asked |-> IF c \in ended THEN "over" ELSE phase[c]]
  /\ reports' = [c \in Asked |-> IF c \in ended THEN reports[c] + 1 ELSE reports[c]]

\* A call that cannot be made is reported at once.
Refuse(c) == c \in In("idle") /\ Report({c})

\* The owner takes a running call back and is told nothing of it.
TakeBack(c) ==
  /\ c \in In("running")
  /\ phase' = [phase EXCEPT ![c] = "over"]
  /\ UNCHANGED reports

Next ==
  \/ \E c \in Asked : Begin(c) \/ Refuse(c) \/ TakeBack(c)
  \/ \E ended \in SUBSET In("running") : Report(ended)

Spec == Init /\ [][Next]_vars
=============================================================================
