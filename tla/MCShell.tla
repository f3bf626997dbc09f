------------------------------ MODULE MCShell ------------------------------
\* The shell on a small instance: a text of each of two peers.
EXTENDS Shell, TLC

CONSTANTS m1, m2, p, q

MCMsg == {m1, m2}
MCPeer == {p, q}
MCSender == (m1 :> p) @@ (m2 :> q)
=============================================================================
