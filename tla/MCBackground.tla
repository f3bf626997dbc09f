---------------------------- MODULE MCBackground ----------------------------
\* The background of a client on small instances: a triangle of devices, and
\* a line of two on from it; three relays, two of which can be reached.
EXTENDS Background, TLC

MCNear == <<{2, 3}, {1, 3}, {1, 2, 4}, {3, 5}, {4}>>
MCDevice == 1 .. 5
MCLatency == [r1 |-> 1, r2 |-> 2, r3 |-> 3]
MCBootSignals == <<"r3">>
MCLists == [r1 |-> {"r1"}, r2 |-> {"r1", "r2"}, r3 |-> {}]
=============================================================================
