------------------------------ MODULE Presence ------------------------------
(***************************************************************************)
(* Online and offline notices between two SwarmClients (swarm_client.rs).  *)
(* A publisher broadcasts a heartbeat stamped with its clock every 30 s,   *)
(* unless its user opted out; a watcher keeps the last notice it handled   *)
(* and marks it offline when its stamp is more than 45 s old.  A notice is *)
(* a message like any other: it travels through relays, at any pace and in *)
(* any order, or not at all.                                               *)
(*                                                                         *)
(* Time is counted in ticks of 15 s, and a stamp is known by its age.  The *)
(* two clocks are taken to agree.                                          *)
(***************************************************************************)
EXTENDS Naturals, FiniteSets

CONSTANTS
    Period,       \* the sleep of the heartbeat loop, in ticks
    Cutoff,       \* the age past which a notice is stale, in ticks
    MaxWire       \* bound: the notices in flight

ASSUME PresenceAssumption == Period \in Nat /\ Cutoff \in Nat /\ MaxWire \in Nat

VARIABLES
    enabled,      \* presence_enabled
    optingOut,    \* set_presence_enabled(false) has yet to broadcast
    beat,         \* the publisher's loop: asleep, or the flag as it read it
    beatSleep,    \* ticks the publisher's loop still sleeps
    wire,         \* the notices in flight
    entry,        \* the watcher's peer_presence of the publisher
    sweepSleep    \* ticks the watcher's loop still sleeps

presenceVars == <<enabled, optingOut, beat, beatSleep, wire, entry, sweepSleep>>

Old == Cutoff + 1
Notice == [is_online : BOOLEAN, age : 0 .. Old]
Offline == [is_online |-> FALSE, age |-> Old]

PresenceInit ==
    /\ enabled = TRUE
    /\ optingOut = FALSE
    /\ beat = "asleep"
    /\ beatSleep = Period
    /\ wire = {}
    /\ entry = Offline
    /\ sweepSleep = Period

Older(n) == [n EXCEPT !.age = IF @ < Old THEN @ + 1 ELSE Old]
Sooner(t) == IF t > 0 THEN t - 1 ELSE 0

\* A sleep lasts its time or longer: nothing hurries a loop.
Tick ==
    /\ wire' = {Older(n) : n \in wire}
    /\ entry' = Older(entry)
    /\ beatSleep' = Sooner(beatSleep)
    /\ sweepSleep' = Sooner(sweepSleep)
    /\ UNCHANGED <<enabled, optingOut, beat>>

\* broadcast_presence: the notice is stamped now and queued; it may be lost.
Broadcast(is_online) ==
    LET n == [is_online |-> is_online, age |-> 0] IN
    \/ wire' = wire
    \/ Cardinality(wire \cup {n}) <= MaxWire /\ wire' = wire \cup {n}

\* The heartbeat loop wakes and reads the flag.
ReadFlag ==
    /\ beat = "asleep"
    /\ beatSleep = 0
    /\ beat' = IF enabled THEN "enabled" ELSE "disabled"
    /\ UNCHANGED <<enabled, optingOut, beatSleep, wire, entry, sweepSleep>>

\* It acts on what it read, whatever the flag is by now, and sleeps.
Heartbeat ==
    /\ beat # "asleep"
    /\ IF beat = "enabled" THEN Broadcast(TRUE) ELSE wire' = wire
    /\ beat' = "asleep"
    /\ beatSleep' = Period
    /\ UNCHANGED <<enabled, optingOut, entry, sweepSleep>>

SetEnabled(e) ==
    /\ ~optingOut
    /\ enabled' = e
    /\ optingOut' = ~e
    /\ UNCHANGED <<beat, beatSleep, wire, entry, sweepSleep>>

BroadcastOptOut ==
    /\ optingOut
    /\ Broadcast(FALSE)
    /\ optingOut' = FALSE
    /\ UNCHANGED <<enabled, beat, beatSleep, entry, sweepSleep>>

\* cipher_go_offline: the flag stays, so the heartbeats go on.
GoOffline ==
    /\ Broadcast(FALSE)
    /\ UNCHANGED <<enabled, optingOut, beat, beatSleep, entry, sweepSleep>>

\* process_incoming: whatever was stored is overwritten, by an older notice
\* too.
Receive ==
    \E n \in wire :
        /\ entry' = n
        /\ wire' = wire \ {n}
        /\ UNCHANGED <<enabled, optingOut, beat, beatSleep, sweepSleep>>

\* Slip: a fresh look at the entry counts as having seen the peer.
SweptOnLook == [entry EXCEPT !.age = 0]
\* A stale entry goes offline.
Swept == IF entry.age > Cutoff THEN [entry EXCEPT !.is_online = FALSE]
         ELSE entry

Sweep ==
    /\ sweepSleep = 0
    /\ entry' = Swept
    /\ sweepSleep' = Period
    /\ UNCHANGED <<enabled, optingOut, beat, beatSleep, wire>>

Publisher == \/ ReadFlag
             \/ Heartbeat
             \/ \E e \in BOOLEAN : SetEnabled(e)
             \/ BroadcastOptOut
             \/ GoOffline

PresenceNext == Tick \/ Publisher \/ Receive \/ Sweep

PresenceSpec == PresenceInit /\ [][PresenceNext]_presenceVars

\* Time passes, the loops go round and a call that was begun ends; nothing is
\* assumed of the network.
PresenceFairness ==
    /\ WF_presenceVars(Tick)
    /\ WF_presenceVars(ReadFlag)
    /\ WF_presenceVars(Heartbeat)
    /\ WF_presenceVars(BroadcastOptOut)
    /\ WF_presenceVars(Sweep)

PresenceFairSpec == PresenceSpec /\ PresenceFairness

-----------------------------------------------------------------------------
PresenceTypeOK ==
    /\ enabled \in BOOLEAN
    /\ optingOut \in BOOLEAN
    /\ beat \in {"asleep", "enabled", "disabled"}
    /\ beatSleep \in 0 .. Period
    /\ wire \in SUBSET Notice
    /\ entry \in Notice
    /\ sweepSleep \in 0 .. Period

\* Who opts out for good is in the end seen offline for good, though the
\* notice that says so may be lost, be overtaken by a heartbeat sent before
\* it, or be followed by the heartbeat of a loop that had read the flag
\* already.
OptOutShows == <>[]~enabled => <>[]~entry.is_online
=============================================================================
