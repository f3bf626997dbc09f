------------------------------ MODULE Delivery ------------------------------
(***************************************************************************)
(* What a receiving client promises about a message a relay holds for it:  *)
(* it is shown to the user, and only once, however many copies arrive over *)
(* however many channels.                                                  *)
(***************************************************************************)
EXTENDS Naturals

CONSTANT Msg            \* the messages that may be addressed to us

VARIABLES arrived,      \* those a relay has held for us
          shown         \* how often each was shown

vars == <<arrived, shown>>

Init == /\ arrived = {}
        /\ shown = [m \in Msg |-> 0]

\* A relay takes a message for us.
Arrive(m) == /\ m \notin arrived
             /\ arrived' = arrived \cup {m}
             /\ UNCHANGED shown

\* Some messages that arrived are shown together, each for the first time.
Show(S) == /\ \A m \in S : m \in arrived /\ shown[m] = 0
           /\ shown' = [m \in Msg |-> IF m \in S THEN 1 ELSE shown[m]]
           /\ UNCHANGED arrived

Next == \/ \E m \in Msg : Arrive(m)
        \/ \E S \in SUBSET Msg : Show(S)

Spec == Init /\ [][Next]_vars

\* What has arrived is eventually shown.
FairSpec ==
    /\ Spec
    /\ \A m \in Msg : WF_vars(\E S \in SUBSET Msg : m \in S /\ Show(S))
=============================================================================
