----------------------------- MODULE SwarmInbox -----------------------------
(***************************************************************************)
(* How messages reach the user of a SwarmClient: relays hold copies in our *)
(* mailbox; poll_incoming (transport/direct.rs) fetches and acknowledges   *)
(* them; the WebSocket of transport/websocket_signal.rs pushes them;       *)
(* process_incoming (swarm_client.rs) drops what was seen before and moves *)
(* the rest to the inbox; receive_all hands the inbox to the caller.       *)
(*                                                                         *)
(* The sync daemon runs a polling loop and a processing loop, and a CLI    *)
(* command polls and processes beside it, so every operation runs in       *)
(* several tasks at once.  A step is the code between two awaits.          *)
(* Order plays no part in the properties: queues are bags.                 *)
(***************************************************************************)
EXTENDS Optional, Integers, FiniteSets, Functions, FiniteSetsExt

CONSTANTS
    Envelope,     \* the envelopes addressed to us, by CipherMessage id
    Shown,        \* those for the inbox: they decode and decrypt, and are
                  \* not CallMedia, Receipt or Presence
    Opaque,       \* those CipherMessage::from_bytes refuses
    Base,         \* the relays of the pool
    Poller,       \* the tasks that run poll_incoming
    Worker,       \* the tasks that run process_incoming
    SeenCap,      \* the size at which seen_ids is pruned (500)
    SeenPrune,    \* how many ids a pruning removes (250)
    WsCap,        \* the capacity of the WebSocket channel (500)
    MaxCopies,    \* bound: how often a message is stored, over all relays
    MaxUnread     \* bound: how many copies of a message wait in unread

ASSUME InboxAssumption ==
    /\ Shown \subseteq Envelope
    /\ Opaque \subseteq Envelope \ Shown
    /\ SeenCap \in Nat
    /\ SeenPrune \in 1 .. SeenCap + 1
    /\ WsCap \in Nat
    /\ MaxCopies \in Nat
    /\ MaxUnread \in Nat
    /\ None \notin Base \cup Envelope

VARIABLES
    mailbox,      \* what each relay holds for us (external)
    copies,       \* how often each message was stored (external)
    responses,    \* per poller: the fetched messages not yet pushed, by base
    acking,       \* per poller: the base whose /ack is in progress
    ackIds,       \* per poller: the message_ids that /ack carries
    wsAcks,       \* messages whose spawned /ack has not been answered
    wsQueue,      \* the WebSocket channel incoming_rx
    unread,       \* MessageInbox::unread
    drained,      \* per worker: the drained messages it still has to handle
    handling,     \* per worker: the message whose receipt is being queued
    seen,         \* seen_ids
    inbox,        \* SwarmClient::inbox
    shown         \* history: how often receive_all returned each message

netVars == <<mailbox, copies>>
pollVars == <<responses, acking, ackIds>>
wsVars == <<wsAcks, wsQueue>>
workVars == <<drained, handling, seen>>
inboxVars == <<netVars, pollVars, wsVars, unread, workVars, inbox, shown>>

Nothing == [m \in Envelope |-> 0]
Plus(p, q) == [m \in Envelope |-> p[m] + q[m]]
OneMore(p, S) == [m \in Envelope |-> IF m \in S THEN p[m] + 1 ELSE p[m]]
NoResponse == [b \in Base |-> {}]

InboxInit == /\ mailbox = [b \in Base |-> {}]
             /\ copies = Nothing
             /\ responses = [p \in Poller |-> NoResponse]
             /\ acking = [p \in Poller |-> None]
             /\ ackIds = [p \in Poller |-> {}]
             /\ wsAcks = {}
             /\ wsQueue = Nothing
             /\ unread = Nothing
             /\ drained = [w \in Worker |-> Nothing]
             /\ handling = [w \in Worker |-> None]
             /\ seen = {}
             /\ inbox = Nothing
             /\ shown = Nothing

-----------------------------------------------------------------------------
\* A sender's relay stores a message for us; a sender that retries may store
\* it again, there or elsewhere.
RelayStores(b, m) ==
    /\ m \notin mailbox[b]
    /\ copies[m] < MaxCopies
    /\ mailbox' = [mailbox EXCEPT ![b] = @ \cup {m}]
    /\ copies' = [copies EXCEPT ![m] = @ + 1]
    /\ UNCHANGED <<pollVars, wsVars, unread, workVars, inbox, shown>>

-----------------------------------------------------------------------------
(* poll_incoming *)

\* post_fetch_parallel: the bases in A answer with what they hold.
Fetch(p, A) ==
    /\ responses[p] = NoResponse
    /\ acking[p] = None
    /\ responses' = [responses EXCEPT ![p] =
                        [b \in Base |-> IF b \in A THEN mailbox[b] ELSE {}]]
    /\ UNCHANGED <<netVars, acking, ackIds, wsVars, unread, workVars, inbox,
                   shown>>

\* Slip: the fetched messages are acknowledged only.
PushNothing(S) == unread
\* The fetched messages join MessageInbox::unread.
Pushed(S) == OneMore(unread, S)

\* The messages of one response are pushed and its /ack is posted.
TakeResponse(p, b) ==
    /\ acking[p] = None
    /\ responses[p][b] # {}
    /\ \A m \in responses[p][b] : unread[m] < MaxUnread
    /\ unread' = Pushed(responses[p][b])
    /\ acking' = [acking EXCEPT ![p] = b]
    /\ ackIds' = [ackIds EXCEPT ![p] = responses[p][b]]
    /\ responses' = [responses EXCEPT ![p][b] = {}]
    /\ UNCHANGED <<netVars, wsVars, workVars, inbox, shown>>

\* Slip: ack_ids is declared before the loop over the responses.
CarriedIds(p) == ackIds[p]
\* ack_ids is local to the handling of one response.
ForgottenIds(p) == {}

\* The /ack ends, whether it reached the relay or not: its result is ignored.
AckEnds(p, reached) ==
    /\ acking[p] # None
    /\ mailbox' = IF reached THEN [mailbox EXCEPT ![acking[p]] = @ \ ackIds[p]]
                  ELSE mailbox
    /\ acking' = [acking EXCEPT ![p] = None]
    /\ ackIds' = [ackIds EXCEPT ![p] = ForgottenIds(p)]
    /\ UNCHANGED <<copies, responses, wsVars, unread, workVars, inbox, shown>>

-----------------------------------------------------------------------------
(* WebSocket push *)

\* A signal relay pushes a message it holds; the client queues it and spawns
\* an /ack.
WsPush(b, m) ==
    /\ m \in mailbox[b]
    /\ m \notin wsAcks
    /\ SumFunction(wsQueue) < WsCap
    /\ wsQueue' = OneMore(wsQueue, {m})
    /\ wsAcks' = wsAcks \cup {m}
    /\ UNCHANGED <<netVars, pollVars, unread, workVars, inbox, shown>>

\* post_json_failover posts the /ack to the first base that answers, which
\* need not be the one that holds the message.
WsAckEnds(m, A) ==
    /\ m \in wsAcks
    /\ wsAcks' = wsAcks \ {m}
    /\ mailbox' = [b \in Base |->
                     IF b \in A THEN mailbox[b] \ {m} ELSE mailbox[b]]
    /\ UNCHANGED <<copies, pollVars, wsQueue, unread, workVars, inbox, shown>>

\* At most one base answers the /ack.
AckedBases == {{}} \cup {{b} : b \in Base}

-----------------------------------------------------------------------------
(* process_incoming *)

\* drain_unread empties the WebSocket channel and the unread list.  (What came
\* over iroh's QUIC streams, which nobody acknowledges, it takes too; that is
\* left out.)
Drain(w) ==
    /\ drained[w] = Nothing
    /\ handling[w] = None
    /\ drained' = [drained EXCEPT ![w] = Plus(wsQueue, unread)]
    /\ wsQueue' = Nothing
    /\ unread' = Nothing
    /\ UNCHANGED <<netVars, pollVars, wsAcks, handling, seen, inbox, shown>>

\* Worker w takes one of its messages.
TakeCopy(w, m) ==
    /\ handling[w] = None
    /\ drained[w][m] > 0
    /\ drained' = [drained EXCEPT ![w][m] = @ - 1]
    /\ UNCHANGED <<netVars, pollVars, wsVars, unread, inbox, shown>>

\* Slip: only the inbox is searched for an earlier copy.
InInbox(m) == inbox[m] > 0
\* The id is in seen_ids.
AlreadySeen(m) == m \in seen

\* A copy that does not decode, or that was handled before, is dropped.
DropCopy(w, m) ==
    /\ TakeCopy(w, m)
    /\ m \in Opaque \/ AlreadySeen(m)
    /\ UNCHANGED <<handling, seen>>

\* Slip: the id is checked and never recorded.
RememberNothing(m) == seen' = seen
\* seen_ids takes the id and, when it has grown past the cap, loses any
\* SeenPrune of its ids: a HashSet iterates in arbitrary order.
Remember(m) ==
    LET more == seen \cup {m} IN
    IF Cardinality(more) > SeenCap
    THEN \E X \in kSubset(SeenPrune, more) : seen' = more \ X
    ELSE seen' = more

\* A copy not seen before is handled: one for the inbox goes on to queue its
\* receipt, any other is consumed here.
Handle(w, m) ==
    /\ TakeCopy(w, m)
    /\ m \notin Opaque
    /\ ~AlreadySeen(m)
    /\ Remember(m)
    /\ handling' = IF m \in Shown THEN [handling EXCEPT ![w] = m] ELSE handling

\* send_receipt returned, in whatever way; the message enters the inbox.
EnterInbox(w) ==
    /\ handling[w] # None
    /\ inbox' = OneMore(inbox, {handling[w]})
    /\ handling' = [handling EXCEPT ![w] = None]
    /\ UNCHANGED <<netVars, pollVars, wsVars, unread, drained, seen, shown>>

\* receive_all: the caller gets the inbox, which is emptied.
ReceiveAll ==
    /\ inbox # Nothing
    /\ shown' = Plus(shown, inbox)
    /\ inbox' = Nothing
    /\ UNCHANGED <<netVars, pollVars, wsVars, unread, workVars>>

-----------------------------------------------------------------------------
Poll(p) ==
    \/ \E A \in SUBSET Base : Fetch(p, A)
    \/ \E b \in Base : TakeResponse(p, b)
    \/ \E reached \in BOOLEAN : AckEnds(p, reached)

Process(w) ==
    \/ Drain(w)
    \/ \E m \in Envelope : DropCopy(w, m) \/ Handle(w, m)
    \/ EnterInbox(w)

WebSocket ==
    \/ \E b \in Base, m \in Envelope : WsPush(b, m)
    \/ \E m \in Envelope, A \in AckedBases : WsAckEnds(m, A)

InboxNext == \/ \E b \in Base, m \in Envelope : RelayStores(b, m)
             \/ \E p \in Poller : Poll(p)
             \/ WebSocket
             \/ \E w \in Worker : Process(w)
             \/ ReceiveAll

InboxSpec == InboxInit /\ [][InboxNext]_inboxVars

(***************************************************************************)
(* The loops of the daemon run for ever and the caller keeps calling       *)
(* receive_all.  Of the network it is assumed that a base that is asked    *)
(* again and again answers again and again.  Nothing is assumed of /ack    *)
(* reaching a relay, nor of the WebSocket.                                 *)
(***************************************************************************)
FetchFrom(p, b) == \E A \in SUBSET Base : b \in A /\ Fetch(p, A)

InboxFairSpec ==
    /\ InboxSpec
    /\ \A p \in Poller : /\ \A b \in Base : SF_inboxVars(FetchFrom(p, b))
                         /\ WF_inboxVars(\E b \in Base : TakeResponse(p, b))
                         /\ WF_inboxVars(\E ok \in BOOLEAN : AckEnds(p, ok))
    /\ \A w \in Worker : WF_inboxVars(Process(w))
    /\ WF_inboxVars(ReceiveAll)

-----------------------------------------------------------------------------
(* Properties *)

Counts == [Envelope -> Nat]

\* The types, and the phases of a poll: ids are acknowledged to one base, and
\* only those it sent.
InboxTypeOK ==
    /\ mailbox \in [Base -> SUBSET Envelope]
    /\ copies \in [Envelope -> 0 .. MaxCopies]
    /\ responses \in [Poller -> [Base -> SUBSET Envelope]]
    /\ acking \in [Poller -> Base \cup {None}]
    /\ ackIds \in [Poller -> SUBSET Envelope]
    /\ wsAcks \in SUBSET Envelope
    /\ wsQueue \in Counts
    /\ unread \in Counts
    /\ drained \in [Worker -> Counts]
    /\ handling \in [Worker -> Shown \cup {None}]
    /\ seen \in SUBSET (Envelope \ Opaque)
    /\ Cardinality(seen) <= SeenCap
    /\ inbox \in Counts
    /\ shown \in Counts
    /\ \A p \in Poller : ackIds[p] # {} <=> acking[p] # None

\* The process holds a copy of m.
InProcess(m) ==
    \/ wsQueue[m] > 0
    \/ unread[m] > 0
    \/ \E w \in Worker : drained[w][m] > 0 \/ handling[w] = m
    \/ inbox[m] > 0

\* A message that was stored for us is never lost by a running process: a
\* relay still has it, or the process does, or the user saw it, however the
\* polls, pushes, acknowledgements and workers interleave.
StoredIsHeld ==
    \A m \in Shown : copies[m] > 0 =>
        \/ \E b \in Base : m \in mailbox[b]
        \/ InProcess(m)
        \/ shown[m] > 0

\* A message is handled once: it can arrive over HTTP and the WebSocket, from
\* several relays and several times from each, and be drained by two workers,
\* and still only one of them receipts it and the user sees it once.  (While
\* seen_ids is not pruned: see RemembersLatest.)
HandledOnce ==
    \A m \in Shown :
        inbox[m] + shown[m] + Cardinality({w \in Worker : handling[w] = m}) <= 1

\* As the comment on the pruning has it ("keep last 500"): what was handled
\* last is remembered, so that a second copy that follows is dropped.
RemembersLatest ==
    [][\A w \in Worker, m \in Envelope : Handle(w, m) => m \in seen']_inboxVars

\* The abstract delivery, with its liveness, of the messages for the inbox.
Deliverer == INSTANCE Delivery
             WITH Msg <- Shown,
                  arrived <- {m \in Shown : copies[m] > 0},
                  shown <- [m \in Shown |-> shown[m]]

ImplementsDelivery == Deliverer!FairSpec
=============================================================================
