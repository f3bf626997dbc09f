-------------------------- MODULE StoreAndForward --------------------------
(***************************************************************************)
(* What the client promises about a message it has accepted for sending:   *)
(* it stays owed until a relay holds it.  The relay may come to hold it    *)
(* without the client learning so, in which case it stays owed and may be  *)
(* handed over again; it is never forgotten before it is stored.           *)
(***************************************************************************)
CONSTANT Msg            \* the messages a client may ever accept

VARIABLES owed,         \* accepted, and not yet known to be stored
          stored        \* held by some relay

vars == <<owed, stored>>

Init == /\ owed = {}
        /\ stored = {}

\* A new message is taken on.
Accept(m) == /\ m \notin owed \cup stored
             /\ owed' = owed \cup {m}
             /\ UNCHANGED stored

\* A relay keeps the message but its answer does not reach the client.
Deposit(m) == /\ m \in owed
              /\ stored' = stored \cup {m}
              /\ UNCHANGED owed

\* A relay keeps the message and the client learns of it.
HandOver(m) == /\ m \in owed
               /\ stored' = stored \cup {m}
               /\ owed' = owed \ {m}

Next == \E m \in Msg : Accept(m) \/ Deposit(m) \/ HandOver(m)

Spec == Init /\ [][Next]_vars

\* A message that stays owed is eventually handed over.
FairSpec == Spec /\ \A m \in Msg : WF_vars(HandOver(m))
=============================================================================
