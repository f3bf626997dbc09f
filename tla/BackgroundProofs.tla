-------------------------- MODULE BackgroundProofs --------------------------
(***************************************************************************)
(* What goes on in the background of a client keeps to its types, and the  *)
(* refresh of the relay pools is done once: for any relays and devices.    *)
(***************************************************************************)
EXTENDS Background, FiniteSetTheorems, SequenceTheorems, TLAPS

-----------------------------------------------------------------------------
(***************************************************************************)
(* One refresh per expiry: OneRefreshPerExpiry of module FederatedPools,   *)
(* for any relays and any answers of the network.  A task that waited for  *)
(* the lock finds the pool fresh, because whoever refreshed it held the    *)
(* lock until after last_refresh was set, and the pool cannot expire       *)
(* before it is fresh.                                                     *)
(***************************************************************************)

\* The steps of a refresh before last_refresh is set.
Early == {"chain", "discovery"}

\* The WebSocket loop connects only when it is done with the pools.
WsApart == ws \in {"connect", "connected"} => stage["ws"] = "idle"

\* A refresh that was counted is done, or under way.
CountedIsFresh ==
    ensured # 0 => fresh \/ \E t \in Task : stage[t] \in Early

PoolsInv == /\ DOMAIN stage = Task
            /\ ensured \in {0, 1}
            /\ WsApart
            /\ CountedIsFresh

\* A step that moves a task from one place outside the early ones to another
\* leaves all of it as it was.
LEMMA Moves ==
  ASSUME PoolsInv, NEW t \in Task, NEW s, At(t, s), stage[t] \notin Early,
         UNCHANGED <<fresh, ensured>>,
         ws' \in {"connect", "connected"} => stage'["ws"] = "idle"
  PROVE  PoolsInv'
<1>1. DOMAIN stage' = Task
  BY DEF At, PoolsInv
<1>2. \A u \in Task : stage[u] \in Early => stage'[u] \in Early
  BY DEF At, PoolsInv
<1>3. CountedIsFresh'
  BY <1>2 DEF PoolsInv, CountedIsFresh
<1> QED
  BY <1>1, <1>3 DEF PoolsInv, WsApart

\* Each step of a refresh, of the ranking and of the WebSocket loop keeps it.
LEMMA PoolsInvStep == ASSUME PoolsInv, [PoolsNext]_poolsVars PROVE PoolsInv'
<1> USE DEF wsVars, poolVars
<1>1. ASSUME NEW t \in Task, WantRefresh(t)
      PROVE  PoolsInv'
  <2>1. t # "ws" /\ At(t, "waiting") /\ stage[t] = "idle"
        /\ UNCHANGED <<fresh, ensured, ws>>
    BY <1>1 DEF WantRefresh
  <2>2. stage'["ws"] = stage["ws"]
    BY <2>1 DEF At, PoolsInv, Task
  <2> QED
    BY <2>1, <2>2, Moves DEF PoolsInv, WsApart, Early
<1>2. ASSUME NEW t \in Task, Lock(t)
      PROVE  PoolsInv'
  <2>1. /\ stage[t] = "waiting"
        /\ \A u \in Task : stage[u] \notin Early
        /\ UNCHANGED <<fresh, ws>>
    BY <1>2 DEF Lock, Free, Refreshing, Early
  <2>2. WsApart'
    <3>1. \E s \in {"chain", "idle"} : At(t, s)
      BY <1>2 DEF Lock
    <3>2. stage["ws"] = "idle" => stage'["ws"] = "idle"
      BY <2>1, <3>1 DEF At, PoolsInv
    <3> QED
      BY <2>1, <3>2 DEF PoolsInv, WsApart
  <2>3. CASE StillWanted(t) /\ t # "periodic"
    <3>1. ensured = 0
      BY <2>1, <2>3 DEF StillWanted, PoolsInv, CountedIsFresh
    <3>2. At(t, "chain") /\ ensured' = 1
      BY <1>2, <2>3, <3>1 DEF Lock
    <3>3. stage'[t] \in Early
      BY <3>2 DEF At, PoolsInv, Early
    <3> QED
      BY <2>2, <3>2, <3>3 DEF At, PoolsInv, CountedIsFresh
  <2>4. CASE ~(StillWanted(t) /\ t # "periodic")
    <3>1. /\ ensured' = ensured
          /\ \E s \in {"chain", "idle"} : At(t, s)
      BY <1>2, <2>4 DEF Lock
    <3> QED
      BY <2>1, <2>2, <3>1 DEF At, PoolsInv, CountedIsFresh, Early
  <2> QED
    BY <2>3, <2>4
<1>3. ASSUME NEW t \in Task, ChainAnswers(t) \/ ChainFails(t)
      PROVE  PoolsInv'
  <2>1. /\ At(t, "discovery") /\ stage[t] = "chain"
        /\ UNCHANGED <<fresh, ensured, ws>>
    BY <1>3 DEF ChainAnswers, ChainFails
  <2>2. \A u \in Task : stage[u] \in Early => stage'[u] \in Early
    BY <2>1 DEF At, PoolsInv, Early
  <2>3. WsApart'
    BY <2>1 DEF At, PoolsInv, WsApart
  <2> QED
    BY <2>1, <2>2, <2>3 DEF At, PoolsInv, CountedIsFresh
<1>4. ASSUME NEW t \in Task, Discover(t)
      PROVE  PoolsInv'
  BY <1>4 DEF Discover, At, PoolsInv, WsApart, CountedIsFresh
<1>5. ASSUME NEW t \in Task, MergeSignals(t)
      PROVE  PoolsInv'
  <2>1. /\ At(t, "rank_signals") /\ stage[t] = "signals"
        /\ UNCHANGED <<fresh, ensured, ws>>
    BY <1>5 DEF MergeSignals
  <2>2. stage["ws"] = "idle" => stage'["ws"] = "idle"
    BY <2>1 DEF At, PoolsInv
  <2> QED
    BY <2>1, <2>2, Moves DEF PoolsInv, WsApart, Early
<1>6. ASSUME NEW t \in Task, BeginRank(t)
      PROVE  PoolsInv'
  <2>1. /\ stage[t] \in {"rank", "rank_signals"}
        /\ At(t, "idle") \/ At(t, Probes(stage[t]))
        /\ UNCHANGED <<fresh, ensured, ws>>
    BY <1>6 DEF BeginRank
  <2>2. PICK s : s = Probes(stage[t])
    OBVIOUS
  <2>3. At(t, "idle") \/ At(t, s)
    BY <2>1, <2>2
  <2>4. stage["ws"] = "idle" => stage'["ws"] = "idle"
    <3>1. CASE At(t, "idle")
      BY <3>1 DEF At, PoolsInv
    <3>2. CASE At(t, s)
      <4>1. CASE t = "ws"
        BY <2>1, <4>1
      <4>2. CASE t # "ws"
        BY <3>2, <4>2 DEF At, PoolsInv
      <4> QED
        BY <4>1, <4>2
    <3> QED
      BY <2>3, <3>1, <3>2
  <2>5. stage[t] \notin Early
    BY <2>1 DEF Early
  <2>6. ws' \in {"connect", "connected"} => stage'["ws"] = "idle"
    BY <2>1, <2>4 DEF PoolsInv, WsApart
  <2>7. CASE At(t, "idle")
    BY <2>1, <2>5, <2>6, <2>7, Moves
  <2>8. CASE At(t, s)
    BY <2>1, <2>5, <2>6, <2>8, Moves
  <2> QED
    BY <2>3, <2>7, <2>8
<1>7. ASSUME NEW t \in Task, EndRank(t)
      PROVE  PoolsInv'
  <2>1. /\ stage[t] \in {"probe", "probe_signals"}
        /\ At(t, "idle")
        /\ UNCHANGED <<fresh, ensured, ws>>
    BY <1>7 DEF EndRank
  <2>2. stage["ws"] = "idle" => stage'["ws"] = "idle"
    BY <2>1 DEF At, PoolsInv
  <2> QED
    BY <2>1, <2>2, Moves DEF PoolsInv, WsApart, Early
<1>8. CASE WsList
  <2>1. /\ stage["ws"] = "idle" /\ "ws" \in Task
        /\ UNCHANGED <<fresh, ensured>>
        /\ \/ ws' = "connect" /\ UNCHANGED stage
           \/ ws' = "ensured" /\ \E s \in {"idle", "waiting"} : At("ws", s)
    BY <1>8 DEF WsList, Task
  <2> QED
    BY <2>1, Moves DEF PoolsInv, WsApart, CountedIsFresh, Early
<1>9. CASE WsEnsured \/ WsConnect \/ WsDrops
  <2>1. /\ stage["ws"] = "idle" /\ "ws" \in Task
        /\ UNCHANGED <<fresh, ensured>>
        /\ \/ ws' \in {"connect", "connected", "dead"} /\ UNCHANGED stage
           \/ ws' = "list" /\ At("ws", "rank")
    BY <1>9 DEF WsEnsured, WsConnect, WsDrops, Again, Task, PoolsInv, WsApart
  <2> QED
    BY <2>1, Moves DEF PoolsInv, WsApart, CountedIsFresh, Early
<1>10. CASE RefreshExpires
  BY <1>10 DEF RefreshExpires, PoolsInv, WsApart, CountedIsFresh
<1>11. CASE RankExpires
  BY <1>11 DEF RankExpires, PoolsInv, WsApart, CountedIsFresh
<1>12. CASE UNCHANGED poolsVars
  BY <1>12 DEF poolsVars, PoolsInv, WsApart, CountedIsFresh
<1> QED
  BY <1>1, <1>2, <1>3, <1>4, <1>5, <1>6, <1>7, <1>8, <1>9, <1>10, <1>11, <1>12
  DEF PoolsNext, Refresh, WsStep, Task

\* However many tasks found the pool stale, one of them refreshes it.
THEOREM RefreshedOnce == PoolsSpec => []OneRefreshPerExpiry
<1>1. PoolsInit => PoolsInv
  BY DEF PoolsInit, PoolsInv, WsApart, CountedIsFresh
<1>2. PoolsInv /\ [PoolsNext]_poolsVars => PoolsInv'
  BY PoolsInvStep
<1>3. PoolsInv => OneRefreshPerExpiry
  BY DEF PoolsInv, OneRefreshPerExpiry
<1> QED
  BY <1>1, <1>2, <1>3, PTL DEF PoolsSpec
-----------------------------------------------------------------------------
(***************************************************************************)
(* The types.  What is ranked and probed are sequences of known relays,    *)
(* whatever the answers of the network; hop counts and ages keep to their  *)
(* bounds.                                                                 *)
(***************************************************************************)

LEMMA ByLatencyIsAList ==
  ASSUME NEW list \in Seq(Relay)
  PROVE  ByLatency(list) \subseteq Seq(Relay)
<1> SUFFICES ASSUME NEW o \in [DOMAIN list -> DOMAIN list]
             PROVE  [k \in DOMAIN list |-> list[o[k]]] \in Seq(Relay)
  BY DEF ByLatency
<1>1. \A k \in DOMAIN list : list[o[k]] \in Relay
  OBVIOUS
<1> QED
  BY <1>1

LEMMA RelaySequences ==
  ASSUME NEW S, S \subseteq Relay
  PROVE  SetToSeqs(S) \subseteq Seq(Relay)
<1>1. IsFiniteSet(S) /\ Cardinality(S) \in Nat
  BY PoolsAssumption, FS_Subset, FS_CardinalityType
<1>2. SetToSeqs(S) \subseteq [1 .. Cardinality(S) -> S]
  BY DEF SetToSeqs
<1> QED
  BY <1>1, <1>2

LEMMA PoolsTypes ==
  ASSUME PoolsTypeOK, [PoolsNext]_poolsVars
  PROVE  PoolsTypeOK'
<1> USE DEF wsVars, poolVars
<1>0. \A t \in Task :
         \A s \in Refreshing \cup {"idle", "waiting", "rank", "probe"} :
            At(t, s) =>
               stage' \in [Task -> Refreshing \cup
                                     {"idle", "waiting", "rank", "probe"}]
  BY DEF At, PoolsTypeOK
<1>1. ASSUME NEW t \in Task, WantRefresh(t)
      PROVE  PoolsTypeOK'
  BY <1>0, <1>1 DEF WantRefresh, PoolsTypeOK
<1>2. ASSUME NEW t \in Task, Lock(t)
      PROVE  PoolsTypeOK'
  <2>1. /\ At(t, "chain") \/ At(t, "idle")
        /\ ensured' \in 0 .. 2
        /\ UNCHANGED <<bases, fresh, urls, ranked, rankFresh, probing, wsVars>>
    BY <1>2 DEF Lock, PoolsTypeOK
  <2> QED
    BY <1>0, <2>1 DEF PoolsTypeOK, Refreshing
<1>3. ASSUME NEW t \in Task, ChainAnswers(t) \/ ChainFails(t)
      PROVE  PoolsTypeOK'
  <2>1. /\ At(t, "discovery")
        /\ bases' = bases \/ bases' = bases \cup Validators
        /\ UNCHANGED <<fresh, urls, ranked, rankFresh, probing, ensured,
                       wsVars>>
    BY <1>3 DEF ChainAnswers, ChainFails, Merged
  <2> QED
    BY <1>0, <2>1, PoolsAssumption DEF PoolsTypeOK, Refreshing
<1>4. \A R \in SUBSET (bases \cap Up) : Discovered(R) \subseteq Relay
  BY PoolsAssumption DEF Discovered, PoolsTypeOK
<1>5. ASSUME NEW t \in Task, Discover(t)
      PROVE  PoolsTypeOK'
  <2>1. /\ At(t, "signals") /\ fresh' = TRUE
        /\ bases' \subseteq Relay
        /\ UNCHANGED <<urls, ranked, rankFresh, probing, ensured, wsVars>>
    BY <1>4, <1>5 DEF Discover, Merged, PoolsTypeOK
  <2> QED
    BY <1>0, <2>1 DEF PoolsTypeOK, Refreshing
<1>6. ASSUME NEW t \in Task, MergeSignals(t)
      PROVE  PoolsTypeOK'
  <2>1. /\ At(t, "rank_signals")
        /\ UNCHANGED <<bases, fresh, ranked, rankFresh, probing, ensured,
                       wsVars>>
    BY <1>6 DEF MergeSignals
  <2>2. PICK R \in SUBSET (bases \cap Up) :
           \E new \in SetToSeqs((bases \cup Range(BootSignals)
                                  \cup Discovered(R)) \ Range(urls)) :
              urls' = urls \o new
    BY <1>6 DEF MergeSignals
  <2>3. (bases \cup Range(BootSignals) \cup Discovered(R)) \ Range(urls)
           \subseteq Relay
    <3>1. \A i \in DOMAIN BootSignals : BootSignals[i] \in Relay
      BY PoolsAssumption
    <3>2. Range(BootSignals) \subseteq Relay
      BY <3>1 DEF Range
    <3> QED
      BY <1>4, <3>2 DEF PoolsTypeOK
  <2>4. PICK new \in Seq(Relay) : urls' = urls \o new
    BY <2>2, <2>3, RelaySequences
  <2>5. urls' \in Seq(Relay)
    BY <2>4 DEF PoolsTypeOK
  <2> QED
    BY <1>0, <2>1, <2>5 DEF PoolsTypeOK, Refreshing
<1>7. ASSUME NEW t \in Task, BeginRank(t)
      PROVE  PoolsTypeOK'
  <2>1. /\ At(t, "idle") \/ At(t, "probe") \/ At(t, "probe_signals")
        /\ probing' = probing \/ probing' = [probing EXCEPT ![t] = urls]
        /\ UNCHANGED <<bases, fresh, urls, ranked, rankFresh, ensured, wsVars>>
    BY <1>7 DEF BeginRank, Probes
  <2> QED
    BY <1>0, <2>1 DEF PoolsTypeOK, Refreshing
<1>8. ASSUME NEW t \in Task, EndRank(t)
      PROVE  PoolsTypeOK'
  <2>1. /\ At(t, "idle") /\ rankFresh' = TRUE
        /\ ranked' \in ByLatency(probing[t])
        /\ probing' = [probing EXCEPT ![t] = <<>>]
        /\ UNCHANGED <<bases, fresh, urls, ensured, wsVars>>
    BY <1>8 DEF EndRank
  <2>2. ranked' \in Seq(Relay)
    BY <2>1, ByLatencyIsAList DEF PoolsTypeOK
  <2>3. probing' \in [Task -> Seq(Relay)]
    BY <2>1 DEF PoolsTypeOK
  <2> QED
    BY <1>0, <2>1, <2>2, <2>3 DEF PoolsTypeOK
<1>9. "ws" \in Task
  BY DEF Task
<1>10. CASE WsList
  <2>1. /\ ws_urls' = ranked \/ ws_urls' = urls
        /\ ws' \in {"connect", "ensured"}
        /\ stage' = stage \/ At("ws", "idle") \/ At("ws", "waiting")
        /\ UNCHANGED <<bases, fresh, urls, ranked, rankFresh, probing, ensured,
                       ws_index>>
    BY <1>10 DEF WsList
  <2> QED
    BY <1>0, <1>9, <2>1 DEF PoolsTypeOK
<1>11. ws_urls # <<>> => Rotated \in Nat
  <2>1. ws_urls # <<>> => Len(ws_urls) \in Nat \ {0}
    BY EmptySeq DEF PoolsTypeOK
  <2>2. \A n \in Nat, k \in Nat \ {0} : (n + 1) % k \in Nat
    OBVIOUS
  <2> QED
    BY <2>1, <2>2 DEF Rotated, PoolsTypeOK
<1>12. CASE WsEnsured
  <2>1. /\ ws' \in {"list", "connect"}
        /\ stage' = stage \/ At("ws", "rank")
        /\ UNCHANGED <<bases, fresh, urls, ranked, rankFresh, probing, ensured,
                       ws_urls, ws_index>>
    BY <1>12 DEF WsEnsured, Again
  <2> QED
    BY <1>0, <1>9, <2>1 DEF PoolsTypeOK
<1>13. CASE WsConnect
  <2>1. /\ ws' \in {"list", "connected", "dead"}
        /\ stage' = stage \/ At("ws", "rank")
        /\ \/ ws_index' = ws_index
           \/ ws_urls # <<>> /\ ws_index' = Rotated
        /\ UNCHANGED <<bases, fresh, urls, ranked, rankFresh, probing, ensured,
                       ws_urls>>
    BY <1>13 DEF WsConnect, Again
  <2> QED
    BY <1>0, <1>9, <1>11, <2>1 DEF PoolsTypeOK
<1>14. CASE WsDrops
  <2>1. /\ ws' = "list" /\ At("ws", "rank") /\ ws_index' = Rotated
        /\ UNCHANGED <<bases, fresh, urls, ranked, rankFresh, probing, ensured,
                       ws_urls>>
    BY <1>14 DEF WsDrops, Again
  <2>2. Rotated \in Nat
    BY <1>11, EmptySeq DEF Rotated, PoolsTypeOK
  <2> QED
    BY <1>0, <1>9, <2>1, <2>2 DEF PoolsTypeOK
<1>15. CASE RefreshExpires
  <2>1. /\ fresh' = FALSE /\ ensured' = 0
        /\ UNCHANGED <<bases, urls, ranked, rankFresh, stage, probing, wsVars>>
    BY <1>15 DEF RefreshExpires
  <2>2. ensured' \in 0 .. 2
    BY <2>1, SMT
  <2>3. fresh' \in BOOLEAN
    BY <2>1, Zenon
  <2> QED
    BY <2>1, <2>2, <2>3 DEF PoolsTypeOK
<1>16. CASE RankExpires
  BY <1>16 DEF RankExpires, PoolsTypeOK
<1>17. CASE UNCHANGED poolsVars
  BY <1>17 DEF poolsVars, PoolsTypeOK
<1> QED
  BY <1>1, <1>2, <1>3, <1>5, <1>6, <1>7, <1>8, <1>9, <1>10, <1>12, <1>13,
     <1>14, <1>15, <1>16, <1>17
  DEF PoolsNext, Refresh, WsStep

LEMMA PresenceTypes ==
  ASSUME PresenceTypeOK, [PresenceNext]_presenceVars
  PROVE  PresenceTypeOK'
<1> USE PresenceAssumption DEF PresenceTypeOK
<1>1. \A n \in Notice : Older(n) \in Notice
  BY DEF Older, Notice, Old
<1>2. \A k \in 0 .. Period : Sooner(k) \in 0 .. Period
  BY DEF Sooner
<1>3. CASE Tick
  <2>1. wire' \in SUBSET Notice /\ entry' \in Notice
    BY <1>1, <1>3 DEF Tick
  <2> QED
    BY <1>2, <1>3, <2>1 DEF Tick
<1>4. \A e \in BOOLEAN : Broadcast(e) => wire' \in SUBSET Notice
  <2> SUFFICES ASSUME NEW e \in BOOLEAN, Broadcast(e)
               PROVE  wire' \in SUBSET Notice
    OBVIOUS
  <2>1. [is_online |-> e, age |-> 0] \in Notice
    BY DEF Notice, Old
  <2> QED
    BY <2>1 DEF Broadcast
<1>5. Period \in 0 .. Period
  OBVIOUS
<1>6. CASE ReadFlag
  BY <1>6 DEF ReadFlag
<1>7. CASE Heartbeat
  <2>1. wire' \in SUBSET Notice
    BY <1>4, <1>7 DEF Heartbeat
  <2> QED
    BY <1>5, <1>7, <2>1 DEF Heartbeat
<1>8. ASSUME NEW e \in BOOLEAN, SetEnabled(e)
      PROVE  PresenceTypeOK'
  BY <1>8 DEF SetEnabled
<1>9. CASE BroadcastOptOut \/ GoOffline
  <2>1. wire' \in SUBSET Notice
    BY <1>4, <1>9 DEF BroadcastOptOut, GoOffline
  <2> QED
    BY <1>9, <2>1 DEF BroadcastOptOut, GoOffline
<1>10. CASE Receive
  BY <1>10 DEF Receive
<1>11. CASE Sweep
  <2>1. entry' \in Notice
    BY <1>11 DEF Sweep, Swept, Notice
  <2> QED
    BY <1>5, <1>11, <2>1 DEF Sweep
<1>12. CASE UNCHANGED presenceVars
  BY <1>12 DEF presenceVars
<1> QED
  BY <1>3, <1>6, <1>7, <1>8, <1>9, <1>10, <1>11, <1>12
  DEF PresenceNext, Publisher

LEMMA MeshTypes ==
  ASSUME MeshTypeOK, [MeshNext]_meshVars
  PROVE  MeshTypeOK'
<1> USE BleAssumption DEF MeshTypeOK
<1>1. CASE SendMeshMessage
  <2>1. 0 \in 0 .. MaxHops
    OBVIOUS
  <2> QED
    BY <1>1, <2>1 DEF SendMeshMessage
<1>2. ASSUME NEW d \in Device, Drain(d)
      PROVE  MeshTypeOK'
  <2>1. Near[d] \X relay_queue[d] \subseteq Device \X (0 .. MaxHops)
    OBVIOUS
  <2> QED
    BY <1>2, <2>1 DEF Drain
<1>3. ASSUME NEW d \in Device, NEW hops \in 0 .. MaxHops,
             HandleReceived(d, hops)
      PROVE  MeshTypeOK'
  <2>1. Relayed(hops) \subseteq 0 .. MaxHops
    BY DEF Relayed
  <2>2. air' \in SUBSET (Device \X (0 .. MaxHops))
    BY <1>3 DEF HandleReceived
  <2>3. relay_queue' \in [Device -> SUBSET (0 .. MaxHops)]
    BY <1>3, <2>1 DEF HandleReceived
  <2>4. received' \in BOOLEAN /\ sent' \in BOOLEAN
    BY <1>3 DEF HandleReceived
  <2> QED
    BY <2>2, <2>3, <2>4
<1>4. CASE UNCHANGED meshVars
  BY <1>4 DEF meshVars
<1> QED
  BY <1>1, <1>2, <1>3, <1>4 DEF MeshNext, Forward

LEMMA ModesTypes ==
  ASSUME ModesTypeOK, [ModesNext]_modesVars
  PROVE  ModesTypeOK'
<1> USE DEF ModesTypeOK
<1>1. CASE ReadMode
  BY <1>1 DEF ReadMode, FirstLayer
<1>2. CASE InitIroh
  BY <1>2 DEF InitIroh
<1>3. CASE ConnectNym
  BY <1>3 DEF ConnectNym
<1>4. CASE BootstrapTor
  BY <1>4 DEF BootstrapTor
<1>5. ASSUME NEW m \in Mode, SetMode(m)
      PROVE  ModesTypeOK'
  BY <1>5 DEF SetMode, Set
<1>6. ASSUME NEW m \in Msg, BeginQueue(m)
      PROVE  ModesTypeOK'
  BY <1>6 DEF BeginQueue
<1>7. ASSUME NEW m \in Msg, EndQueue(m)
      PROVE  ModesTypeOK'
  <2>1. Outboxes(sending[m]) \subseteq {"direct", "iroh", "nym", "tor"}
    BY DEF Outboxes
  <2> QED
    BY <1>7, <2>1 DEF EndQueue
<1>8. CASE Flush
  BY <1>8 DEF Flush
<1>9. CASE UNCHANGED modesVars
  BY <1>9 DEF modesVars
<1> QED
  BY <1>1, <1>2, <1>3, <1>4, <1>5, <1>6, <1>7, <1>8, <1>9
  DEF ModesNext, Router

-----------------------------------------------------------------------------
(***************************************************************************)
(* The four components together.  What one does leaves the others alone,   *)
(* so that a behavior of Background is a behavior of each of them, and     *)
(* what was proved of one of them holds of Background.                     *)
(***************************************************************************)

\* The state of a component is changed by its own steps only.
THEOREM EachKeepsToItself ==
  Spec => PresenceSpec /\ MeshSpec /\ PoolsSpec /\ ModesSpec
<1>1. Init => PresenceInit /\ MeshInit /\ PoolsInit /\ ModesInit
  BY DEF Init
<1>2. [Next]_vars => /\ [PresenceNext]_presenceVars
                     /\ [MeshNext]_meshVars
                     /\ [PoolsNext]_poolsVars
                     /\ [ModesNext]_modesVars
  <2> SUFFICES ASSUME [Next]_vars
               PROVE  /\ [PresenceNext]_presenceVars
                      /\ [MeshNext]_meshVars
                      /\ [PoolsNext]_poolsVars
                      /\ [ModesNext]_modesVars
    OBVIOUS
  <2>1. CASE PresenceStep
    BY <2>1 DEF PresenceStep, Rest
  <2>2. CASE MeshStep
    BY <2>2 DEF MeshStep, Rest
  <2>3. CASE PoolsStep
    BY <2>3 DEF PoolsStep, Rest
  <2>4. CASE ModesStep
    BY <2>4 DEF ModesStep, Rest
  <2>5. CASE UNCHANGED vars
    BY <2>5 DEF vars
  <2> QED
    BY <2>1, <2>2, <2>3, <2>4, <2>5 DEF Next
<1> QED
  BY <1>1, <1>2, PTL
  DEF Spec, PresenceSpec, MeshSpec, PoolsSpec, ModesSpec

\* The types of presence, mesh, pools and modes hold in every behavior, for
\* any relays, devices, messages and bounds.
THEOREM TypesAreKept == Spec => []TypeOK
<1>1. PresenceInit => PresenceTypeOK
  <2>1. Period \in 0 .. Period
    BY PresenceAssumption
  <2>2. Offline \in Notice
    BY PresenceAssumption DEF Offline, Notice, Old
  <2> QED
    BY <2>1, <2>2 DEF PresenceInit, PresenceTypeOK
<1>2. MeshInit => MeshTypeOK
  BY DEF MeshInit, MeshTypeOK
<1>3. PoolsInit => PoolsTypeOK
  <2> SUFFICES ASSUME PoolsInit PROVE PoolsTypeOK
    OBVIOUS
  <2>1. <<>> \in Seq(Relay)
    OBVIOUS
  <2>2. stage \in [Task -> Refreshing \cup
                             {"idle", "waiting", "rank", "probe"}]
    BY DEF PoolsInit
  <2>3. probing \in [Task -> Seq(Relay)]
    BY <2>1 DEF PoolsInit
  <2>4. ensured \in 0 .. 2 /\ ws_index \in Nat
    BY DEF PoolsInit
  <2>5. fresh \in BOOLEAN /\ rankFresh \in BOOLEAN
    BY Zenon DEF PoolsInit
  <2>6. bases \in SUBSET Relay /\ urls \in Seq(Relay)
    BY PoolsAssumption DEF PoolsInit
  <2> QED
    BY <2>1, <2>2, <2>3, <2>4, <2>5, <2>6 DEF PoolsInit, PoolsTypeOK
<1>4. ModesInit => ModesTypeOK
  BY DEF ModesInit, ModesTypeOK, Mode
<1>5. PresenceSpec => []PresenceTypeOK
  BY <1>1, PresenceTypes, PTL DEF PresenceSpec
<1>6. MeshSpec => []MeshTypeOK
  BY <1>2, MeshTypes, PTL DEF MeshSpec
<1>7. PoolsSpec => []PoolsTypeOK
  BY <1>3, PoolsTypes, PTL DEF PoolsSpec
<1>8. ModesSpec => []ModesTypeOK
  BY <1>4, ModesTypes, PTL DEF ModesSpec
<1>9. PresenceTypeOK /\ MeshTypeOK /\ PoolsTypeOK /\ ModesTypeOK => TypeOK
  BY DEF TypeOK
<1> QED
  BY <1>5, <1>6, <1>7, <1>8, <1>9, EachKeepsToItself, PTL
=============================================================================
