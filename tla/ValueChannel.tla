---------------------------- MODULE ValueChannel ----------------------------
(***************************************************************************)
(* What sending a value promises: the receiver gets the value the sender   *)
(* had when it was sent, or nothing, once, whatever the sender does with   *)
(* its own value in the meantime.                                          *)
(***************************************************************************)
CONSTANTS None
VARIABLES mine, sent, got

Init == sent = None /\ got = None

Change == mine' # mine /\ UNCHANGED <<sent, got>>
Send == sent = None /\ sent' = mine /\ UNCHANGED <<mine, got>>
Receive == sent # None /\ got = None /\ got' = sent /\ UNCHANGED <<mine, sent>>

Next == Change \/ Send \/ Receive

Spec == Init /\ [][Next]_<<mine, sent, got>>
=============================================================================
