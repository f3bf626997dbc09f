---------------------------- MODULE MCFrontEnds ----------------------------
\* The front ends on small instances: a call between two devices; a group with
\* two others; two bots; two names, a rival and two threads; two calls of
\* cipher_init; two processes; two runs of a command; two peers.
EXTENDS FrontEnds, TLC

CONSTANTS n1, n2, t1, t2

MCAddressee == [m1 |-> "i", m2 |-> "i", m3 |-> "j"]
MCTo == [mine |-> "alice", receipt |-> "bob"]
MCBundle == <<"n1", "n2">>
MCSender == [m1 |-> "p", m2 |-> "q"]
\* No definition tells the names from each other, nor the threads.
MCSymmetry == Permutations(Name) \cup Permutations(AppThread)
=============================================================================
