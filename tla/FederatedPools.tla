--------------------------- MODULE FederatedPools ---------------------------
(***************************************************************************)
(* The RelayPool and the SignalPool of network_bundle.rs, the tasks that   *)
(* refresh them, and the loop of websocket_signal.rs that connects to what *)
(* the SignalPool lists.                                                   *)
(*                                                                         *)
(* A relay stands for its HTTP base and for the WebSocket URL derived from *)
(* it.  The answers of the chain, of GET /discovery and of the probes are  *)
(* the environment's; they may fail to come.  Shard hosts, which every     *)
(* merge leaves out, are not among the relays.                             *)
(***************************************************************************)
EXTENDS Naturals, Sequences, SequencesExt

CONSTANTS
    Relay,        \* the relays
    Up,           \* those whose HTTP API answers
    Pushes,       \* those that accept a WebSocket
    Latency,      \* what a probe of each measures
    BootBases,    \* http_relays of the bundle
    BootSignals,  \* signal_ws of the bundle, in its order
    Validators,   \* the active relays of tks_listSwarmValidators
    Lists         \* Lists[r]: the relays in r's answer to GET /discovery

ASSUME PoolsAssumption ==
    /\ IsFiniteSet(Relay)
    /\ Up \cup Pushes \cup BootBases \cup Validators \subseteq Relay
    /\ Latency \in [Relay -> Nat]
    /\ BootSignals \in Seq(Relay)
    /\ Lists \in [Relay -> SUBSET Relay]

\* The poll loop and a command that sends, which ask for a fresh pool;
\* spawn_periodic_refresh; and the WebSocket loop.
Task == {"poll", "send", "periodic", "ws"}

VARIABLES
    bases,        \* RelayPool::bases
    fresh,        \* last_refresh is not older than REFRESH_INTERVAL
    urls,         \* SignalPool::urls
    ranked,       \* SignalPool::ranked
    rankFresh,    \* last_rank is not older than RANK_INTERVAL
    stage,        \* where each task is in the pools
    probing,      \* the URLs a task is ranking
    ws,           \* where the WebSocket loop is
    ws_urls,      \* the list it works with
    ws_index,     \* ws_index
    ensured       \* history: refreshes by ensure_fresh since the last expiry

poolVars == <<bases, fresh, urls, ranked, rankFresh, stage, probing, ensured>>
wsVars == <<ws, ws_urls, ws_index>>
poolsVars == <<poolVars, wsVars>>

PoolsInit ==
    /\ bases = BootBases
    /\ fresh = FALSE
    /\ urls = BootSignals
    /\ ranked = <<>>
    /\ rankFresh = FALSE
    /\ stage = [t \in Task |-> IF t = "ws" THEN "rank" ELSE "idle"]
    /\ probing = [t \in Task |-> <<>>]
    /\ ws = "list"
    /\ ws_urls = <<>>
    /\ ws_index = 0
    /\ ensured = 0

At(t, s) == stage' = [stage EXCEPT ![t] = s]

-----------------------------------------------------------------------------
(* Refreshing *)

\* ensure_fresh of the poll loop and of a command, and refresh_network of the
\* periodic task.
WantRefresh(t) ==
    /\ stage[t] = "idle"
    /\ \/ t \in {"poll", "send"} /\ ~fresh
       \/ t = "periodic"
    /\ At(t, "waiting")
    /\ UNCHANGED <<bases, fresh, urls, ranked, rankFresh, probing, ensured,
                   wsVars>>

Refreshing == {"chain", "discovery", "signals", "rank_signals",
               "probe_signals"}
Free == \A t \in Task : stage[t] \notin Refreshing

\* Slip: the lock is taken and the pool refreshed.
TaskAlone(t) == TRUE
\* Under the lock ensure_fresh looks again; refresh_network does not.
StillWanted(t) == t = "periodic" \/ ~fresh

Lock(t) ==
    /\ stage[t] = "waiting"
    /\ Free
    /\ IF StillWanted(t)
       THEN /\ At(t, "chain")
            /\ ensured' = IF t = "periodic" \/ ensured = 2 THEN ensured
                          ELSE ensured + 1
       ELSE At(t, "idle") /\ UNCHANGED ensured
    /\ UNCHANGED <<bases, fresh, urls, ranked, rankFresh, probing, wsVars>>

\* Slip: the answer takes the place of what was known.
Replaced(found) == IF found = {} THEN bases ELSE found
\* merge_bases.
Merged(found) == bases \cup found

\* refresh_from_chain, when some RPC node answers, and when none does.
ChainAnswers(t) ==
    /\ stage[t] = "chain"
    /\ bases' = Merged(Validators)
    /\ At(t, "discovery")
    /\ UNCHANGED <<fresh, urls, ranked, rankFresh, probing, ensured, wsVars>>

ChainFails(t) ==
    /\ stage[t] = "chain"
    /\ At(t, "discovery")
    /\ UNCHANGED <<bases, fresh, urls, ranked, rankFresh, probing, ensured,
                   wsVars>>

Discovered(R) == UNION {Lists[r] : r \in R}

\* refresh_from_discovery; the refresh counts as done, whatever it found, and
\* before the signal pool is refreshed.
Discover(t) ==
    /\ stage[t] = "discovery"
    /\ \E R \in SUBSET (bases \cap Up) : bases' = Merged(Discovered(R))
    /\ fresh' = TRUE
    /\ At(t, "signals")
    /\ UNCHANGED <<urls, ranked, rankFresh, probing, ensured, wsVars>>

\* SignalPool::refresh_from_network: the bundle's URLs, those of the bases,
\* and those of another round of /discovery.
MergeSignals(t) ==
    /\ stage[t] = "signals"
    /\ \E R \in SUBSET (bases \cap Up) :
          \E new \in SetToSeqs((bases \cup Range(BootSignals)
                                 \cup Discovered(R)) \ Range(urls)) :
             urls' = urls \o new
    /\ At(t, "rank_signals")
    /\ UNCHANGED <<bases, fresh, ranked, rankFresh, probing, ensured, wsVars>>

-----------------------------------------------------------------------------
(* Ranking: ensure_ranked of a refresh, and of ordered_urls, which takes no  *)
(* lock.                                                                     *)

Probes(s) == IF s = "rank" THEN "probe" ELSE "probe_signals"

BeginRank(t) ==
    /\ stage[t] \in {"rank", "rank_signals"}
    /\ IF rankFresh \/ urls = <<>>
       THEN At(t, "idle") /\ UNCHANGED probing
       ELSE /\ At(t, Probes(stage[t]))
            /\ probing' = [probing EXCEPT ![t] = urls]
    /\ UNCHANGED <<bases, fresh, urls, ranked, rankFresh, ensured, wsVars>>

\* By what their probes measure, then those that do not answer: a stable sort.
\* (Latencies are taken to last, so that two relays do not change places each
\* time they are ranked.)
Faster(a, b) == a \in Up /\ (b \in Up => Latency[a] < Latency[b])
ByLatency(list) ==
    LET D == DOMAIN list
        before(i, j) == \/ Faster(list[i], list[j])
                        \/ ~Faster(list[j], list[i]) /\ i < j
        orders == {o \in [D -> D] :
                     \A j, k \in D : j < k => before(o[j], o[k])}
    IN {[k \in D |-> list[o[k]]] : o \in orders}

\* What is ranked is the list as it was when the probing began.
EndRank(t) ==
    /\ stage[t] \in {"probe", "probe_signals"}
    /\ ranked' \in ByLatency(probing[t])
    /\ rankFresh' = TRUE
    /\ probing' = [probing EXCEPT ![t] = <<>>]
    /\ At(t, "idle")
    /\ UNCHANGED <<bases, fresh, urls, ensured, wsVars>>

-----------------------------------------------------------------------------
(* connection_loop *)

\* ordered_urls returns; without a URL the loop asks for a fresh pool.
WsList ==
    /\ ws = "list"
    /\ stage["ws"] = "idle"
    /\ ws_urls' = IF ranked # <<>> THEN ranked ELSE urls
    /\ IF ws_urls' # <<>>
       THEN ws' = "connect" /\ UNCHANGED stage
       ELSE /\ ws' = "ensured"
            /\ At("ws", IF fresh THEN "idle" ELSE "waiting")
    /\ UNCHANGED <<bases, fresh, urls, ranked, rankFresh, probing, ensured,
                   ws_index>>

\* Slip: the index is not moved.
Kept == ws_index
\* The next URL of this list.
Rotated == IF Len(ws_urls) > 1 THEN (ws_index + 1) % Len(ws_urls)
           ELSE ws_index

Again == ws' = "list" /\ At("ws", "rank")

\* Still none: it sleeps and tries again.  Else it goes on, with the list it
\* has.
WsEnsured ==
    /\ ws = "ensured"
    /\ stage["ws"] = "idle"
    /\ IF urls = <<>> THEN Again ELSE ws' = "connect" /\ UNCHANGED stage
    /\ UNCHANGED <<bases, fresh, urls, ranked, rankFresh, probing, ensured,
                   ws_urls, ws_index>>

\* idx % 0 panics, and the task is gone.
WsConnect ==
    /\ ws = "connect"
    /\ \/ /\ ws_urls = <<>>
          /\ ws' = "dead"
          /\ UNCHANGED <<stage, ws_index>>
       \/ /\ ws_urls # <<>>
          /\ IF ws_urls[(ws_index % Len(ws_urls)) + 1] \in Pushes
             THEN ws' = "connected" /\ UNCHANGED <<stage, ws_index>>
             ELSE Again /\ ws_index' = Rotated
    /\ UNCHANGED <<bases, fresh, urls, ranked, rankFresh, probing, ensured,
                   ws_urls>>

\* The relay closes the connection, or reading fails.
WsDrops ==
    /\ ws = "connected"
    /\ Again
    /\ ws_index' = Rotated
    /\ UNCHANGED <<bases, fresh, urls, ranked, rankFresh, probing, ensured,
                   ws_urls>>

-----------------------------------------------------------------------------
RefreshExpires ==
    /\ fresh
    /\ fresh' = FALSE
    /\ ensured' = 0
    /\ UNCHANGED <<bases, urls, ranked, rankFresh, stage, probing, wsVars>>

RankExpires ==
    /\ rankFresh
    /\ rankFresh' = FALSE
    /\ UNCHANGED <<bases, fresh, urls, ranked, stage, probing, ensured, wsVars>>

\* A step of the refresh that holds the lock.
Refresh(t) ==
    /\ stage[t] \in Refreshing
    /\ \/ ChainAnswers(t) \/ ChainFails(t)
       \/ Discover(t)
       \/ MergeSignals(t)
       \/ BeginRank(t)
       \/ EndRank(t)

\* A step of the WebSocket loop, while nobody closes its connection.
WsStep ==
    \/ stage["ws"] \notin Refreshing /\ (BeginRank("ws") \/ EndRank("ws"))
    \/ WsList \/ WsEnsured \/ WsConnect

PoolsNext == \/ \E t \in Task : WantRefresh(t) \/ Lock(t) \/ Refresh(t)
             \/ WsStep \/ WsDrops
             \/ RefreshExpires \/ RankExpires

PoolsSpec == PoolsInit /\ [][PoolsNext]_poolsVars

\* The loops go round, every request of theirs has a timeout, the lock is let
\* go, and time passes.  The chain, asked again and again, at some time answers.
PoolsFairness ==
    /\ WF_poolsVars(WantRefresh("periodic"))
    /\ WF_poolsVars(\E t \in Task : Lock(t))
    /\ WF_poolsVars(\E t \in Task : Refresh(t))
    /\ SF_poolsVars(\E t \in Task : ChainAnswers(t))
    /\ WF_poolsVars(WsStep)
    /\ WF_poolsVars(RefreshExpires)
    /\ WF_poolsVars(RankExpires)

PoolsFairSpec == PoolsSpec /\ PoolsFairness

-----------------------------------------------------------------------------
(* Properties *)

PoolsTypeOK ==
    /\ bases \in SUBSET Relay
    /\ fresh \in BOOLEAN
    /\ urls \in Seq(Relay)
    /\ ranked \in Seq(Relay)
    /\ rankFresh \in BOOLEAN
    /\ stage \in [Task -> Refreshing
                            \cup {"idle", "waiting", "rank", "probe"}]
    /\ probing \in [Task -> Seq(Relay)]
    /\ ws \in {"list", "ensured", "connect", "connected", "dead"}
    /\ ws_urls \in Seq(Relay)
    /\ ws_index \in Nat
    /\ ensured \in 0 .. 2

\* However many sends, polls and loops find the pool stale at once, one of
\* them refreshes it; the others, which waited for it, do not.
OneRefreshPerExpiry == ensured <= 1

\* Every relay of the chain's list enters the pool and stays, though a refresh
\* that failed counts as a refresh, and is not repeated before it expires.
ChainIsKnown == <>[](Validators \subseteq bases)

\* The loop gets connected, and again after each loss, once a relay that
\* accepts WebSockets is known: though nearer ones do not accept them, pools
\* grow and expire at any time, and what is ranked may be an older list.
PushComesBack ==
    (\E i \in DOMAIN urls : urls[i] \in Pushes) ~> (ws = "connected")
=============================================================================
