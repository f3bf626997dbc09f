------------------------------- MODULE BleMesh -------------------------------
(***************************************************************************)
(* Flooding over Bluetooth (transport/ble_mesh.rs).  Each device queues    *)
(* the messages it sends or relays; the platform drains the queue and      *)
(* broadcasts to the devices in range, which hand what they hear to        *)
(* handle_received.  Nobody remembers what it relayed before, and ttl_secs *)
(* is never read: only the hop count ends a flood.                         *)
(*                                                                         *)
(* One message is followed; copies of it with the same hop count merge.    *)
(***************************************************************************)
EXTENDS Naturals

CONSTANTS
    Device,       \* the devices
    Origin,       \* the device that sends
    Target,       \* msg.destination
    Near,         \* Near[d]: the devices in range of d
    MaxHops       \* max_hops (7)

ASSUME BleAssumption ==
    /\ {Origin, Target} \subseteq Device
    /\ Near \in [Device -> SUBSET Device]
    /\ MaxHops \in Nat

VARIABLES
    sent,         \* send_mesh_message was called
    relay_queue,  \* per device, the hop counts of the copies it has queued
    air,          \* broadcasts not yet handled: receivers and hop counts
    received      \* the target has the message

meshVars == <<sent, relay_queue, air, received>>

MeshInit == /\ sent = FALSE
            /\ relay_queue = [d \in Device |-> {}]
            /\ air = {}
            /\ received = FALSE

\* Queued alike whether or not the destination is in range.
SendMeshMessage ==
    /\ ~sent
    /\ sent' = TRUE
    /\ relay_queue' = [relay_queue EXCEPT ![Origin] = @ \cup {0}]
    /\ UNCHANGED <<air, received>>

\* drain_relay_queue, and the platform broadcasts what it got.
Drain(d) ==
    /\ relay_queue[d] # {}
    /\ air' = air \cup (Near[d] \X relay_queue[d])
    /\ relay_queue' = [relay_queue EXCEPT ![d] = {}]
    /\ UNCHANGED <<sent, received>>

\* Slip: one hop more.
RelayedBeyond(hops) == IF hops <= MaxHops THEN {hops + 1} ELSE {}
\* Slip: the last hop is not used.
RelayedBelow(hops) == IF hops + 1 < MaxHops THEN {hops + 1} ELSE {}
\* Slip: the hop count is not counted up.
RelayedAsIs(hops) == IF hops < MaxHops THEN {hops} ELSE {}
\* Relayed with one more hop, or dropped.
Relayed(hops) == IF hops < MaxHops THEN {hops + 1} ELSE {}

HandleReceived(d, hops) ==
    /\ <<d, hops>> \in air
    /\ air' = air \ {<<d, hops>>}
    /\ IF d = Target
       THEN received' = TRUE /\ UNCHANGED relay_queue
       ELSE /\ relay_queue' = [relay_queue EXCEPT ![d] = @ \cup Relayed(hops)]
            /\ UNCHANGED received
    /\ UNCHANGED sent

Forward == \/ \E d \in Device : Drain(d)
           \/ \E d \in Device, hops \in 0 .. MaxHops : HandleReceived(d, hops)

MeshNext == SendMeshMessage \/ Forward

MeshSpec == MeshInit /\ [][MeshNext]_meshVars

\* Queues are drained and what is heard is handled.
MeshFairness == WF_meshVars(Forward)

MeshFairSpec == MeshSpec /\ MeshFairness

-----------------------------------------------------------------------------
(* Properties *)

MeshTypeOK == /\ sent \in BOOLEAN
              /\ relay_queue \in [Device -> SUBSET (0 .. MaxHops)]
              /\ air \in SUBSET (Device \X (0 .. MaxHops))
              /\ received \in BOOLEAN

\* The devices that at most n broadcasts reach.
Within[n \in Nat] ==
    IF n = 0 THEN {Origin}
    ELSE Within[n - 1] \cup UNION {Near[d] : d \in Within[n - 1]}

\* Every flood ends, in a network with cycles too, where copies come back to
\* devices that relayed them.
FloodEnds == <>[](air = {} /\ \A d \in Device : relay_queue[d] = {})

\* A target that max_hops relays can reach gets the message.
ReachesTarget == Target \in Within[MaxHops + 1] => (sent ~> received)
=============================================================================
