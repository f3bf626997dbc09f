------------------------------- MODULE Outbox -------------------------------
(***************************************************************************)
(* The outgoing half of DirectTransport (client-core/src/transport/        *)
(* direct.rs) with the failover POST of RelayPool (client-core/src/        *)
(* network_bundle.rs): messages are queued per recipient, and any number   *)
(* of tasks (the sync daemon, send_text, send_file, send_signal, a CLI     *)
(* command) flush the queues to the relays.                                *)
(*                                                                         *)
(* flush_outbox holds the write lock of the outbox over all its awaits, so *)
(* one flush is in progress at a time and its local variables are the      *)
(* variables taken .. stats below.  A step is the code between two awaits. *)
(***************************************************************************)
EXTENDS Optional, Integers, Sequences, FiniteSets, Functions

CONSTANTS
    Msg,          \* the messages, each queued at most once (a fresh uuid)
    Recipient,    \* the keys of the outbox
    To,           \* the recipient of each message
    Relay,        \* the HTTP relay bases that discovery may ever find
    Task,         \* the tasks that flush
    MaxStored     \* DirectTransportConfig::max_stored_messages

ASSUME OutboxAssumption ==
    /\ To \in [Msg -> Recipient]
    /\ MaxStored \in Nat
    /\ None \notin Task \cup Recipient

VARIABLES
    pending,        \* MessageOutbox::pending
    delivered,      \* MessageOutbox::delivered_count
    holder,         \* the task that holds the outbox write lock in a flush
    taken,          \* what mem::take left to the flush, recipients to come
    cur,            \* the recipient whose messages are being posted
    batch,          \* its messages not yet posted
    failed,         \* failed_messages: those that could not be stored
    posting,        \* a POST of Head(batch) is in progress
    untried,        \* the ranked bases that POST has not tried yet
    stats,          \* FlushStats of the flush
    result,         \* what the last flush of each task returned
    pool,           \* RelayPool::bases
    store,          \* the messages each relay holds (external)
    accepted,       \* history: the messages queue_message took, in order
    refused,        \* history: the messages it refused
    confirmed       \* history: the messages whose Stored answer was read

flushVars == <<holder, taken, cur, batch, failed, posting, untried, stats>>
historyVars == <<accepted, refused, confirmed>>
outboxVars == <<pending, delivered, flushVars, result, pool, store,
                historyVars>>

NoMessages == [r \in Recipient |-> <<>>]
NoStats == [delivered |-> 0, failed |-> 0]

OutboxInit == /\ pending = NoMessages
              /\ delivered = 0
              /\ holder = None
              /\ taken = NoMessages
              /\ cur = None
              /\ batch = <<>>
              /\ failed = <<>>
              /\ posting = FALSE
              /\ untried = {}
              /\ stats = NoStats
              /\ result = [t \in Task |-> "none"]
              /\ pool \in SUBSET Relay
              /\ store = [b \in Relay |-> {}]
              /\ accepted = <<>>
              /\ refused = {}
              /\ confirmed = {}

-----------------------------------------------------------------------------
(* queue_message *)

\* The write lock of the outbox is free for queue_message.
CanQueue == holder = None

\* Slip: > for >=.
FullOffByOne(r) == Len(pending[r]) > MaxStored
\* No more messages are taken for this recipient.
Full(r) == Len(pending[r]) >= MaxStored

QueueMessage(m) ==
    /\ CanQueue
    /\ m \notin Range(accepted) \cup refused
    /\ IF Full(To[m])
       THEN /\ refused' = refused \cup {m}
            /\ UNCHANGED <<pending, accepted>>
       ELSE /\ pending' = [pending EXCEPT ![To[m]] = Append(@, m)]
            /\ accepted' = Append(accepted, m)
            /\ UNCHANGED refused
    /\ UNCHANGED <<delivered, flushVars, result, pool, store, confirmed>>

-----------------------------------------------------------------------------
(* flush_outbox *)

\* Slip: the map is cloned instead of taken.
LeftByClone == pending
\* What mem::take leaves in the outbox.
LeftByTake == NoMessages

StartFlush(t) ==
    /\ holder = None
    /\ holder' = t
    /\ taken' = pending
    /\ pending' = LeftByTake
    /\ stats' = NoStats
    /\ UNCHANGED <<delivered, cur, batch, failed, posting, untried, result,
                   pool, store, historyVars>>

\* The recipients are visited in the arbitrary order of a HashMap.
NextRecipient(r) ==
    /\ holder # None
    /\ cur = None
    /\ taken[r] # <<>>
    /\ cur' = r
    /\ batch' = taken[r]
    /\ taken' = [taken EXCEPT ![r] = <<>>]
    /\ failed' = <<>>
    /\ UNCHANGED <<pending, delivered, holder, posting, untried, stats,
                   result, pool, store, historyVars>>

\* post_json_failover takes its snapshot of the pool.
BeginPost ==
    /\ cur # None
    /\ batch # <<>>
    /\ ~posting
    /\ posting' = TRUE
    /\ untried' = pool
    /\ UNCHANGED <<pending, delivered, holder, taken, cur, batch, failed,
                   stats, result, pool, store, historyVars>>

\* The relay keeps the message, or does not.
MayKeep(b, m) ==
    store' \in {store, [store EXCEPT ![b] = @ \cup {m}]}

\* A base answers and store_response_ok accepts the answer.
PostStored(b) ==
    /\ posting
    /\ b \in untried
    /\ store' = [store EXCEPT ![b] = @ \cup {Head(batch)}]
    /\ confirmed' = confirmed \cup {Head(batch)}
    /\ delivered' = delivered + 1
    /\ stats' = [stats EXCEPT !.delivered = @ + 1]
    /\ batch' = Tail(batch)
    /\ posting' = FALSE
    /\ untried' = {}
    /\ UNCHANGED <<pending, holder, taken, cur, failed, result, pool,
                   accepted, refused>>

\* Slip: a failed message is counted and not kept.
CountOnly == UNCHANGED failed
\* Slip: a failed message is put in front of the earlier ones.
KeepFailedFirst == failed' = <<Head(batch)>> \o failed
\* The message joins failed_messages.
KeepFailed == failed' = Append(failed, Head(batch))

\* Slip: any answer counts as stored.
CountAsStored ==
    /\ confirmed' = confirmed \cup {Head(batch)}
    /\ delivered' = delivered + 1
    /\ batch' = Tail(batch)
    /\ posting' = FALSE
    /\ untried' = {}
    /\ UNCHANGED <<pending, holder, taken, cur, failed, stats, result, pool,
                   accepted, refused>>
\* This flush is done with the message, which was not stored.
GiveUpHead ==
    /\ KeepFailed
    /\ stats' = [stats EXCEPT !.failed = @ + 1]
    /\ batch' = Tail(batch)
    /\ posting' = FALSE
    /\ untried' = {}
    /\ UNCHANGED <<pending, delivered, holder, taken, cur, result, pool,
                   historyVars>>

\* A base answers 2xx with a body store_response_ok does not accept: an
\* error object, or a body that could not be read to its end.
PostRejected(b) ==
    /\ posting
    /\ b \in untried
    /\ MayKeep(b, Head(batch))
    /\ GiveUpHead

\* A base does not answer 2xx in time; the next one is tried.
PostFailed(b) ==
    /\ posting
    /\ b \in untried
    /\ MayKeep(b, Head(batch))
    /\ untried' = untried \ {b}
    /\ UNCHANGED <<pending, delivered, holder, taken, cur, batch, failed,
                   posting, stats, result, pool, historyVars>>

\* post_json_failover has no base left and returns None.
PostExhausted ==
    /\ posting
    /\ untried = {}
    /\ GiveUpHead
    /\ UNCHANGED store

\* Slip: failed messages are dropped.
ReinsertNothing == pending
\* What is put back into the outbox for a recipient.
Reinsert == IF failed # <<>> THEN [pending EXCEPT ![cur] = failed] ELSE pending

EndRecipient ==
    /\ cur # None
    /\ batch = <<>>
    /\ pending' = Reinsert
    /\ failed' = <<>>
    /\ cur' = None
    /\ UNCHANGED <<delivered, holder, taken, batch, posting, untried, stats,
                   result, pool, store, historyVars>>

\* Slip: an empty flush counts as a failed one.
ErrUnlessStored == IF stats.delivered = 0 THEN "err" ELSE "ok"
\* Err only when nothing was stored and something failed.
FlushResult ==
    IF stats.delivered = 0 /\ stats.failed > 0 THEN "err" ELSE "ok"

\* Slip: the flush returns after one recipient.
DoneAfterOne == cur = None
\* Every recipient was visited.
AllDone == cur = None /\ taken = NoMessages

EndFlush ==
    /\ holder # None
    /\ AllDone
    /\ result' = [result EXCEPT ![holder] = FlushResult]
    /\ holder' = None
    /\ stats' = NoStats
    /\ UNCHANGED <<pending, delivered, taken, cur, batch, failed, posting,
                   untried, pool, store, historyVars>>

FlushStep ==
    \/ \E r \in Recipient : NextRecipient(r)
    \/ BeginPost
    \/ \E b \in Relay : PostStored(b) \/ PostRejected(b) \/ PostFailed(b)
    \/ PostExhausted
    \/ EndRecipient
    \/ EndFlush

-----------------------------------------------------------------------------
\* RelayPool::merge_bases: a base, once in the pool, is never removed.
MergeBase(b) ==
    /\ b \notin pool
    /\ pool' = pool \cup {b}
    /\ UNCHANGED <<pending, delivered, flushVars, result, store, historyVars>>

OutboxNext == \/ \E m \in Msg : QueueMessage(m)
              \/ \E t \in Task : StartFlush(t)
              \/ FlushStep
              \/ \E b \in Relay : MergeBase(b)

OutboxSpec == OutboxInit /\ [][OutboxNext]_outboxVars

(***************************************************************************)
(* The daemon flushes in an endless loop and every step of a flush is      *)
(* bounded by a timeout, so both are weakly fair.  Of the network it is    *)
(* assumed that it does not fail a message for ever: if that message is    *)
(* posted again and again, some relay stores it and says so.               *)
(***************************************************************************)
PostStoredMsg(m) == /\ batch # <<>>
                    /\ Head(batch) = m
                    /\ \E b \in Relay : PostStored(b)

OutboxFairSpec == /\ OutboxSpec
                  /\ WF_outboxVars(\E t \in Task : StartFlush(t))
                  /\ WF_outboxVars(FlushStep)
                  /\ WF_outboxVars(\E b \in Relay : MergeBase(b))
                  /\ \A m \in Msg : SF_outboxVars(PostStoredMsg(m))

-----------------------------------------------------------------------------
(* Properties *)

\* What is still owed to a recipient, in the order it will be posted.
Owed(r) == pending[r] \o taken[r] \o
           (IF cur = r THEN failed \o batch ELSE <<>>)

\* All that is still owed.
OwedMsgs ==
    {m \in Msg : \/ m \in Range(failed)
                 \/ m \in Range(batch)
                 \/ \E r \in Recipient : \/ m \in Range(pending[r])
                                        \/ m \in Range(taken[r])}
Stored == UNION {store[b] : b \in Relay}

\* The type of every variable, with the phases of a flush: a batch is in
\* progress only for a current recipient, and only while the lock is held.
OutboxTypeOK ==
    /\ pending \in [Recipient -> Seq(Msg)]
    /\ delivered \in Nat
    /\ holder \in Task \cup {None}
    /\ taken \in [Recipient -> Seq(Msg)]
    /\ cur \in Recipient \cup {None}
    /\ batch \in Seq(Msg)
    /\ failed \in Seq(Msg)
    /\ posting \in BOOLEAN
    /\ untried \in SUBSET Relay
    /\ stats \in [delivered : Nat, failed : Nat]
    /\ result \in [Task -> {"none", "ok", "err"}]
    /\ pool \in SUBSET Relay
    /\ store \in [Relay -> SUBSET Msg]
    /\ accepted \in Seq(Msg)
    /\ refused \in SUBSET Msg
    /\ confirmed \in SUBSET Msg
    /\ posting => cur # None /\ batch # <<>>
    /\ cur # None => holder # None
    /\ cur = None => batch = <<>> /\ failed = <<>>
    /\ holder = None => taken = NoMessages

\* A message queue_message accepted is owed until its Stored answer was
\* read: no failed POST, no flush that overwrites a queue, no message queued
\* during a flush is ever lost by the running process.
NothingLost == Range(accepted) \subseteq OwedMsgs \cup confirmed

\* A message known to be stored is not posted again, so delivered_count is
\* the number of messages stored and not of POSTs.
NoRetryAfterConfirm == /\ OwedMsgs \cap confirmed = {}
                       /\ delivered = Cardinality(confirmed)

\* A message counted as delivered is held by a relay.
ConfirmedIsStored == confirmed \subseteq Stored

\* What is owed to one recipient is in the order it was accepted, each message
\* once: messages that failed together are tried again in their order, and
\* before those queued since.  The order at the relays is another matter: after
\* a failure the flush goes on to the next message, which may be stored first.
KeepsOrder ==
    \A r \in Recipient : LET q == Owed(r) IN
        \A i, j \in DOMAIN q : i < j =>
            \E k, l \in DOMAIN accepted :
                k < l /\ accepted[k] = q[i] /\ accepted[l] = q[j]

\* A queue never outgrows max_stored_messages, although flush_outbox puts
\* messages back without looking at the limit.
WithinCapacity == \A r \in Recipient : Len(Owed(r)) <= MaxStored

\* The abstract promise of the outbox, with its liveness.
Promise == INSTANCE StoreAndForward WITH owed <- OwedMsgs, stored <- Stored

ImplementsStoreAndForward == Promise!FairSpec
=============================================================================
