---------------------------- MODULE RpcDelivery ----------------------------
(***************************************************************************)
(* What a chain of brokers promises whoever calls through it: a call that  *)
(* waits is answered at most once, on the connection it was made on (or on *)
(* the one that has its id, when the broker it was made on has started     *)
(* again), or it is lost for good; the call of a client is lost only if it *)
(* was disturbed while it waited.  Of what happens in between, messages,   *)
(* links and caller ids, nothing is said.                                  *)
(***************************************************************************)
EXTENDS Naturals

CONSTANTS
  Calls,     \* the calls
  Brokers,   \* the brokers of the chain
  Ids,       \* the ids of connections; a broker calls itself as id 0
  Nowhere    \* no connection

VARIABLES
  phase,      \* new, waiting, answered or lost
  caller,     \* the connection a call was made on
  answered,   \* the connection the response was sent to
  epoch,      \* how often every broker has started again
  disturbed   \* the calls that may be lost

vars == <<phase, caller, answered, epoch, disturbed>>

Init ==
  /\ phase = [k \in Calls |-> "new"]
  /\ caller = [k \in Calls |-> Nowhere]
  /\ answered = [k \in Calls |-> Nowhere]
  /\ epoch = [b \in Brokers |-> 0]
  /\ disturbed = {}

In(p) == {k \in Calls : phase[k] = p}
Own(k) == caller[k].id = 0

\* The connection that has id i at broker b now.
Connection(b, i) == [broker |-> b, id |-> i, epoch |-> epoch[b]]

\* A call is made on connection i of broker b, undisturbed or not.
Ask(k, b, i) ==
  /\ k \in In("new")
  /\ phase' = [phase EXCEPT ![k] = "waiting"]
  /\ caller' = [caller EXCEPT ![k] = Connection(b, i)]
  /\ disturbed' \in {disturbed, disturbed \cup {k}}
  /\ UNCHANGED <<answered, epoch>>

\* The response is sent to where the call came from.
Answer(k) ==
  /\ k \in In("waiting") /\ ~Own(k)
  /\ phase' = [phase EXCEPT ![k] = "answered"]
  /\ answered' = [answered EXCEPT ![k] = Connection(caller[k].broker, caller[k].id)]
  /\ UNCHANGED <<caller, epoch, disturbed>>

\* Some of the calls that wait are disturbed, and some lost, by one event: what
\* a broker asks for itself may be lost at any time.
Disturb(now, gone) ==
  /\ disturbed' = disturbed \cup now
  /\ \A k \in gone : k \in disturbed' \/ Own(k)
  /\ phase' = [k \in Calls |-> IF k \in gone THEN "lost" ELSE phase[k]]
  /\ UNCHANGED <<caller, answered>>

\* A broker starts again and counts its connections from the first id.
StartAgain(b) == epoch' = [epoch EXCEPT ![b] = @ + 1]

Next ==
  \/ \E k \in Calls : Answer(k) \/ \E b \in Brokers, i \in Ids : Ask(k, b, i)
  \/ \E now \in SUBSET In("waiting") : \E gone \in SUBSET In("waiting") :
       /\ Disturb(now, gone)
       /\ UNCHANGED epoch \/ \E b \in Brokers : StartAgain(b)

Spec == Init /\ [][Next]_vars
=============================================================================
