-------------------------- MODULE MCFederatedPools --------------------------
\* The pools and the WebSocket loop of a client whose bundle names one HTTP
\* relay and no WebSocket: the relay serves both.
EXTENDS FederatedPools, TLC

CONSTANTS r1, r2

MCRelay == {r1, r2}
MCUp == {r1, r2}
MCLatency == (r1 :> 1) @@ (r2 :> 2)
MCBootBases == {r1}
MCBootSignals == <<>>
MCLists == (r1 :> {r1, r2}) @@ (r2 :> {r1, r2})
=============================================================================
