----------------------------- MODULE Background -----------------------------
(***************************************************************************)
(* What goes on in the background of a client: the presence notices, the   *)
(* Bluetooth mesh, the relay pools with the WebSocket loop, and the router *)
(* that starts up while messages are sent.                                 *)
(*                                                                         *)
(* Their state is apart, and each is to make progress by the fairness of   *)
(* its own steps, so that it is enough to let each run while the others    *)
(* rest.                                                                   *)
(***************************************************************************)
EXTENDS Presence, BleMesh, FederatedPools, TransportModes

VARIABLE part  \* the component that runs

vars == <<part, presenceVars, meshVars, poolsVars, modesVars>>

Init ==
    /\ part \in {"presence", "mesh", "pools", "modes"}
    /\ PresenceInit
    /\ MeshInit
    /\ PoolsInit
    /\ ModesInit

\* One component runs; the others stay as they began.
Rest(p) ==
    /\ UNCHANGED part
    /\ p # "presence" => UNCHANGED presenceVars
    /\ p # "mesh" => UNCHANGED meshVars
    /\ p # "pools" => UNCHANGED poolsVars
    /\ p # "modes" => UNCHANGED modesVars

PresenceStep ==
    part = "presence" /\ PresenceNext /\ Rest("presence")
MeshStep ==
    part = "mesh" /\ MeshNext /\ Rest("mesh")
PoolsStep ==
    part = "pools" /\ PoolsNext /\ Rest("pools")
ModesStep ==
    part = "modes" /\ ModesNext /\ Rest("modes")

Next ==
    \/ PresenceStep
    \/ MeshStep
    \/ PoolsStep
    \/ ModesStep

Spec == Init /\ [][Next]_vars

\* The fairness of each component, while it is the one that runs.
On(p) == part = p
FairPresence ==
    /\ WF_presenceVars(On("presence") /\ Tick)
    /\ WF_presenceVars(On("presence") /\ ReadFlag)
    /\ WF_presenceVars(On("presence") /\ Heartbeat)
    /\ WF_presenceVars(On("presence") /\ BroadcastOptOut)
    /\ WF_presenceVars(On("presence") /\ Sweep)
FairMesh == WF_meshVars(On("mesh") /\ Forward)
FairPools ==
    /\ WF_poolsVars(On("pools") /\ WantRefresh("periodic"))
    /\ WF_poolsVars(On("pools") /\ \E t \in Task : Lock(t))
    /\ WF_poolsVars(On("pools") /\ \E t \in Task : Refresh(t))
    /\ SF_poolsVars(On("pools") /\ \E t \in Task : ChainAnswers(t))
    /\ WF_poolsVars(On("pools") /\ WsStep)
    /\ WF_poolsVars(On("pools") /\ RefreshExpires)
    /\ WF_poolsVars(On("pools") /\ RankExpires)
FairModes ==
    /\ \A m \in Msg : WF_modesVars(On("modes") /\ EndQueue(m))
    /\ WF_modesVars(On("modes") /\ Flush)

FairSpec ==
    /\ Spec
    /\ FairPresence
    /\ FairMesh
    /\ FairPools
    /\ FairModes

-----------------------------------------------------------------------------
TypeOK ==
    /\ PresenceTypeOK
    /\ MeshTypeOK
    /\ PoolsTypeOK
    /\ ModesTypeOK

\* ChainIsKnown, when it is the pools that run.
PoolKnowsChain == part = "pools" => ChainIsKnown
=============================================================================
