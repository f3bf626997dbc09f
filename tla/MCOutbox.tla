------------------------------ MODULE MCOutbox ------------------------------
\* Outbox on a small instance: three messages for one recipient, whose queue
\* holds two, two relays, and two tasks that flush.
EXTENDS Outbox, TLC

CONSTANTS m1, m2, m3, alice, r1, r2, daemon, caller

MCMsg == {m1, m2, m3}
MCRecipient == {alice}
MCTo == [m \in MCMsg |-> alice]
MCRelay == {r1, r2}
MCTask == {daemon, caller}
=============================================================================
