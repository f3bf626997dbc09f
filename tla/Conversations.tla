--------------------------- MODULE Conversations ---------------------------
(***************************************************************************)
(* What two SwarmClients (client-core/src/swarm_client.rs) keep about the  *)
(* messages between them: send_text and send_file on one side, the         *)
(* branches of process_incoming for texts, files, chunks and receipts on   *)
(* the other, the delivery statuses that come of them, and the buffer in   *)
(* which files are put together.                                           *)
(*                                                                         *)
(* Between the two lie Outbox and SwarmInbox, by the promises they are     *)
(* shown to keep (StoreAndForward, Delivery): an envelope that was queued  *)
(* is handled once, whenever, in any order.                                *)
(* A step is the code between two awaits.  send_text holds the write lock  *)
(* of conversations over its flush; every other use of that lock ends      *)
(* within a step, and chunk_buffer is only used under it.  That send_text  *)
(* first looks for a ratchet, which no client ever has, is left out, and   *)
(* so are the unread counters, which nothing else depends on.              *)
(***************************************************************************)
EXTENDS Integers, FiniteSets

CONSTANTS
    Client,
    Item,         \* the texts and files that are sent
    File,         \* those sent with send_file
    Pieces,       \* into how many chunks the data of a file falls
    Author,       \* who sends an item
    Reader,       \* to whom
    Worker,       \* the tasks that run process_incoming
    Owner,        \* the client of each of them
    Opener,       \* the clients whose application sends read receipts
    MaxStored,    \* the envelopes an outbox takes for one recipient
    Idle          \* not an envelope

ASSUME ConversationsAssumption ==
    /\ File \subseteq Item
    /\ Pieces \in [File -> Nat]
    /\ Author \in [Item -> Client]
    /\ Reader \in [Item -> Client]
    /\ \A x \in Item : Author[x] # Reader[x]
    /\ Owner \in [Worker -> Client]
    /\ Opener \subseteq Client
    /\ MaxStored \in Nat

\* The ids of envelopes: a text or the header of a file is part 0 of an item,
\* the chunks are parts 1, 2, ...
Parts(x) == IF x \in File THEN 0 .. Pieces[x] ELSE {0}
Ids == UNION {{x} \X Parts(x) : x \in Item}

\* What receipts are about is known by the id in their payload.
Envelopes == [kind : {"original", "Delivered", "Read"}, id : Ids, to : Client]

Original(x, i) == [kind |-> "original", id |-> <<x, i>>, to |-> Reader[x]]
Peer(id, c) == IF Author[id[1]] = c THEN Reader[id[1]] ELSE Author[id[1]]
Receipt(kind, id, c) == [kind |-> kind, id |-> id, to |-> Peer(id, c)]

VARIABLES
    outbox,       \* the envelopes queued and not yet stored
    net,          \* those stored and not yet handled by their recipient
    phase,        \* per item: where the call that sends it is
    queued,       \* per item: how many of its parts were queued
    status,       \* per item: the author's delivery status
    messageIds,   \* per client: message_ids of its conversations
    buffer,       \* per file: the reader's chunk_buffer entry
    work,         \* per worker: what it has still to receipt and to push
    inbox,        \* per client: what was pushed to its inbox
    toRead,       \* per client: what send_read_receipts has still to send
    opened        \* history: the ids each send_read_receipts found

vars == <<outbox, net, phase, queued, status, messageIds, buffer, work, inbox,
          toRead, opened>>

NoAssembly == [total |-> 0, chunks |-> {}, header |-> FALSE]
Free == [stage |-> "idle", entry |-> Idle]

Init == /\ outbox = {}
        /\ net = {}
        /\ phase = [x \in Item |-> "queueing"]
        /\ queued = [x \in Item |-> 0]
        /\ status = [x \in Item |-> "none"]
        /\ messageIds = [c \in Client |-> {}]
        /\ buffer = [f \in File |-> NoAssembly]
        /\ work = [w \in Worker |-> Free]
        /\ inbox = [c \in Client |-> {}]
        /\ toRead = [c \in Client |-> {}]
        /\ opened = [c \in Client |-> {}]

-----------------------------------------------------------------------------
(* The outbox *)

\* The queue of c for the recipient of e is full.
Full(e, c) == Cardinality({o \in outbox : o.to = e.to /\ Peer(o.id, o.to) = c})
                  >= MaxStored

\* queue_message, by client c.
Queue(e, c) == outbox' = IF Full(e, c) THEN outbox ELSE outbox \cup {e}

\* A flush, of whichever task, stores an envelope.
Store(e) ==
    /\ e \in outbox
    /\ outbox' = outbox \ {e}
    /\ net' = net \cup {e}
    /\ UNCHANGED <<phase, queued, status, messageIds, buffer, work, inbox,
                   toRead, opened>>

\* The write lock of c's conversations is not held over a flush.
Unlocked(c) == \A x \in Item \ File : Author[x] = c => phase[x] # "flushing"

-----------------------------------------------------------------------------
(* send_text and send_file *)

\* Slip: chunks_exact for chunks, which leaves out the last.
AfterPartExact(x) ==
    IF queued[x] + 2 \in Parts(x) THEN "queueing"
    ELSE IF x \in File THEN "flushing" ELSE "tracking"
\* The call goes on to the next part, or to what follows the last.
AfterPart(x) ==
    IF queued[x] + 1 \in Parts(x) THEN "queueing"
    ELSE IF x \in File THEN "flushing" ELSE "tracking"

\* The text, or the next part of the file, is queued; a full outbox ends the
\* call with an error and leaves what was queued before.
QueuePart(x) ==
    LET e == Original(x, queued[x]) IN
    /\ phase[x] = "queueing"
    /\ Queue(e, Author[x])
    /\ IF Full(e, Author[x])
       THEN /\ phase' = [phase EXCEPT ![x] = "err"]
            /\ UNCHANGED queued
       ELSE /\ queued' = [queued EXCEPT ![x] = @ + 1]
            /\ phase' = [phase EXCEPT ![x] = AfterPart(x)]
    /\ UNCHANGED <<net, status, messageIds, buffer, work, inbox, toRead,
                   opened>>

\* The conversation takes the id, with status Queued: send_text goes on to
\* its flush, with the lock, and send_file returns.
Track(x) ==
    /\ phase[x] = "tracking"
    /\ Unlocked(Author[x])
    /\ status' = [status EXCEPT ![x] = "Queued"]
    /\ messageIds' = [messageIds EXCEPT ![Author[x]] = @ \cup {<<x, 0>>}]
    /\ phase' = [phase EXCEPT ![x] = IF x \in File THEN "ok" ELSE "flushing"]
    /\ UNCHANGED <<outbox, net, queued, buffer, work, inbox, toRead, opened>>

\* The flush of send_text ends, however it ended: the call returns.
TextFlushed(x) ==
    /\ x \notin File
    /\ phase[x] = "flushing"
    /\ phase' = [phase EXCEPT ![x] = "ok"]
    /\ UNCHANGED <<outbox, net, queued, status, messageIds, buffer, work,
                   inbox, toRead, opened>>

\* The flush of send_file ends; it can fail only with something still owed,
\* and then the call returns the error and tracks nothing.
FileFlushed(x) ==
    /\ x \in File
    /\ phase[x] = "flushing"
    /\ \/ phase' = [phase EXCEPT ![x] = "tracking"]
       \/ /\ \E e \in outbox : Peer(e.id, e.to) = Author[x]
          /\ phase' = [phase EXCEPT ![x] = "err"]
    /\ UNCHANGED <<outbox, net, queued, status, messageIds, buffer, work,
                   inbox, toRead, opened>>

Send(x) == QueuePart(x) \/ Track(x) \/ TextFlushed(x) \/ FileFlushed(x)

-----------------------------------------------------------------------------
(* process_incoming *)

\* Worker w, idle, takes envelope e under the lock.
Take(w, e) ==
    /\ work[w] = Free
    /\ e \in net
    /\ e.to = Owner[w]
    /\ Unlocked(Owner[w])
    /\ net' = net \ {e}
    /\ UNCHANGED <<outbox, phase, queued, inbox, toRead, opened>>

\* What enters the inbox, under which id, made of which chunks.
Entry(id, chunks) == [id |-> id, chunks |-> chunks]

\* The id joins message_ids, and the worker goes on to the receipt, or to
\* the inbox.
TrackIncoming(w, entry, stage) ==
    /\ messageIds' = [messageIds EXCEPT ![Owner[w]] = @ \cup {entry.id}]
    /\ work' = [work EXCEPT ![w] = [stage |-> stage, entry |-> entry]]

TakeText(w, x) ==
    /\ x \notin File
    /\ Take(w, Original(x, 0))
    /\ TrackIncoming(w, Entry(<<x, 0>>, {}), "receipt")
    /\ UNCHANGED <<status, buffer>>

\* Slip: a chunk index where a count is meant.
CompleteOffByOne(chunks, total) == total - 1 \in chunks
\* The assembly of f is complete with these chunks.
Complete(chunks, total) == Cardinality(chunks) = total

\* or_insert_with: total_chunks is of the envelope that came first.
WithChunk(a, i, total) ==
    [a EXCEPT !.chunks = @ \cup {i},
              !.total = IF a = NoAssembly THEN total ELSE @]

\* Slip: insert for entry().or_insert_with().
WithHeaderOnly(a) == [NoAssembly EXCEPT !.header = TRUE]
WithHeader(a) == [a EXCEPT !.header = TRUE]

\* The header or a chunk makes f complete: the file goes to the inbox, under
\* id; or it waits for the rest.
Assemble(w, f, a, complete, id, stage) ==
    IF complete
    THEN /\ TrackIncoming(w, Entry(id, a.chunks), stage)
         /\ buffer' = [buffer EXCEPT ![f] = NoAssembly]
    ELSE /\ buffer' = [buffer EXCEPT ![f] = a]
         /\ UNCHANGED <<messageIds, work>>

\* A chunk that completes a file without a header makes up a header of its
\* own, under the chunk's id, and sends no receipt.
TakeChunk(w, f, i) ==
    LET a == WithChunk(buffer[f], i, Pieces[f]) IN
    /\ Take(w, Original(f, i))
    /\ Assemble(w, f, a, Complete(a.chunks, Pieces[f]),
                IF a.header THEN <<f, 0>> ELSE <<f, i>>,
                IF a.header THEN "receipt" ELSE "push")
    /\ UNCHANGED status

TakeHeader(w, f) ==
    LET a == WithHeader(buffer[f]) IN
    /\ Take(w, Original(f, 0))
    /\ Assemble(w, f, a, a.total > 0 /\ Complete(a.chunks, a.total),
                <<f, 0>>, "receipt")
    /\ UNCHANGED status

\* Slip: a late Delivered overwrites Read.
UpdatedAnyway(old, kind) == IF old = "none" THEN old ELSE kind
\* What becomes of a status: only one that exists is updated, and Read stays.
Updated(old, kind) ==
    IF old = "none" \/ (kind = "Delivered" /\ old = "Read") THEN old ELSE kind

\* Slip: every message of the conversation is updated.
ConcernsAll(id, x) == TRUE
\* The receipt is about x, whose id is that of its text or header.
Concerns(id, x) == id = <<x, 0>>

TakeReceipt(w, e) ==
    /\ e.kind # "original"
    /\ Take(w, e)
    /\ status' = [x \in Item |-> IF Author[x] = Owner[w] /\ Concerns(e.id, x)
                                 THEN Updated(status[x], e.kind)
                                 ELSE status[x]]
    /\ UNCHANGED <<messageIds, buffer, work>>

\* The automatic receipt for the entry of w.
DeliveredBy(w) == Receipt("Delivered", work[w].entry.id, Owner[w])

\* Slip: `?` on send_receipt.
ReceiptedOrLost(w) == IF Full(DeliveredBy(w), Owner[w]) THEN Free
                      ELSE [work[w] EXCEPT !.stage = "push"]
\* That the receipt could not be queued is ignored.
Receipted(w) == [work[w] EXCEPT !.stage = "push"]

SendDelivered(w) ==
    /\ work[w].stage = "receipt"
    /\ Queue(DeliveredBy(w), Owner[w])
    /\ work' = [work EXCEPT ![w] = Receipted(w)]
    /\ UNCHANGED <<net, phase, queued, status, messageIds, buffer, inbox,
                   toRead, opened>>

PushInbox(w) ==
    /\ work[w].stage = "push"
    /\ inbox' = [inbox EXCEPT ![Owner[w]] = @ \cup {work[w].entry}]
    /\ work' = [work EXCEPT ![w] = Free]
    /\ UNCHANGED <<outbox, net, phase, queued, status, messageIds, buffer,
                   toRead, opened>>

-----------------------------------------------------------------------------
(* send_read_receipts *)

\* It copies message_ids of the conversation with p, sent and received ones.
OpenConversation(c, p) ==
    LET ids == {id \in messageIds[c] : Peer(id, c) = p} IN
    /\ toRead[c] = {}
    /\ ids # {}
    /\ Unlocked(c)
    /\ toRead' = [toRead EXCEPT ![c] = ids]
    /\ opened' = [opened EXCEPT ![c] = @ \cup ids]
    /\ UNCHANGED <<outbox, net, phase, queued, status, messageIds, buffer,
                   work, inbox>>

\* And sends a receipt for each.
SendRead(c, id) ==
    /\ id \in toRead[c]
    /\ Queue(Receipt("Read", id, c), c)
    /\ toRead' = [toRead EXCEPT ![c] = @ \ {id}]
    /\ UNCHANGED <<net, phase, queued, status, messageIds, buffer, work,
                   inbox, opened>>

-----------------------------------------------------------------------------
\* Worker w takes a part of x.
TakeItem(w, x) ==
    \/ TakeText(w, x)
    \/ x \in File /\ TakeHeader(w, x)
    \/ x \in File /\ \E i \in 1 .. Pieces[x] : TakeChunk(w, x, i)

Process(w) == \/ \E x \in Item : TakeItem(w, x)
              \/ \E e \in net : TakeReceipt(w, e)
              \/ SendDelivered(w)
              \/ PushInbox(w)

ReadReceipts(c) == \/ \E p \in Client : OpenConversation(c, p)
                   \/ \E id \in toRead[c] : SendRead(c, id)

Next == \/ \E x \in Item : Send(x)
        \/ \E e \in outbox : Store(e)
        \/ \E w \in Worker : Process(w)
        \/ \E c \in Opener : ReadReceipts(c)

Spec == Init /\ [][Next]_vars

(***************************************************************************)
(* The flush loop stores what is queued (the promise of StoreAndForward);  *)
(* process_incoming drains and handles all that is unread in each of its   *)
(* rounds, so that no envelope is passed over for ever, although the lock  *)
(* it needs comes and goes; and calls that were made go on.  Nothing is    *)
(* assumed of calls of send_read_receipts.                                 *)
(***************************************************************************)
FairSpec ==
    /\ Spec
    /\ \A e \in Envelopes : WF_vars(e \in outbox /\ Store(e))
    /\ \A w \in Worker : WF_vars(SendDelivered(w) \/ PushInbox(w))
    /\ \A x \in Item : /\ WF_vars(queued[x] > 0 /\ Send(x))
                       /\ SF_vars(\E w \in Worker : TakeItem(w, x))

-----------------------------------------------------------------------------
(* Properties *)

Entries == [id : Ids, chunks : SUBSET Nat]

Types ==
    /\ outbox \in SUBSET Envelopes
    /\ net \in SUBSET Envelopes
    /\ phase \in [Item -> {"queueing", "tracking", "flushing", "ok", "err"}]
    /\ queued \in [Item -> Nat]
    /\ status \in [Item -> {"none", "Queued", "Delivered", "Read"}]
    /\ messageIds \in [Client -> SUBSET Ids]
    /\ buffer \in [File -> [total : Nat, chunks : SUBSET Nat,
                            header : BOOLEAN]]
    /\ work \in [Worker -> [stage : {"receipt", "push"}, entry : Entries]
                              \cup {Free}]
    /\ inbox \in [Client -> SUBSET Entries]
    /\ toRead \in [Client -> SUBSET Ids]
    /\ opened \in [Client -> SUBSET Ids]

\* A call has parts left to queue, or gave up, or has queued them all.
CallPhases ==
    \A x \in Item :
        /\ phase[x] = "queueing" => queued[x] \in Parts(x)
        /\ phase[x] \in {"tracking", "flushing", "ok"} =>
               queued[x] = Cardinality(Parts(x))

\* The buffer holds chunks of the file.
BufferedChunks == \A f \in File : buffer[f].chunks \subseteq 1 .. Pieces[f]

\* The types, and what the phases of a call and of an assembly imply: a call
\* returns or tracks its item only when every part of it was queued.
TypeOK == Types /\ CallPhases /\ BufferedChunks

\* A status is true: Delivered only if the reader's client took the message
\* in, and Read only if it was there when the reader's application asked for
\* read receipts, although read receipts go out for every id of a
\* conversation, the reader's own messages and made-up files included.
StatusIsTrue ==
    \A x \in Item :
        /\ status[x] \in {"Delivered", "Read"} =>
               <<x, 0>> \in messageIds[Reader[x]]
        /\ status[x] = "Read" => <<x, 0>> \in opened[Reader[x]]

Rank == [none |-> 0, Queued |-> 1, Delivered |-> 2, Read |-> 3]

\* A status never goes back, in whatever order the receipts arrive and
\* whenever the call that sends the message comes to insert it.
NeverRegresses ==
    [][\A x \in Item : Rank[status'[x]] >= Rank[status[x]]]_vars

\* A file that is shown is whole, and shown once: not again when a header or
\* a chunk follows.
ShownWhole ==
    \A c \in Client : \A e \in inbox[c] :
        /\ e.id[1] \in File => e.chunks = 1 .. Pieces[e.id[1]]
        /\ \A o \in inbox[c] : o.id[1] = e.id[1] => o = e

\* The items that are shown when they have arrived: a file without data has
\* a header and no chunk, and is never put together.
NotEmpty == Item \ {f \in File : Pieces[f] = 0}

Shown(x) == \E e \in inbox[Reader[x]] : e.id[1] = x

\* Some part of x is on its way, or in the hands of a worker.
Underway(x) == \/ \E e \in outbox \cup net : e.kind = "original" /\ e.id[1] = x
               \/ \E w \in Worker : work[w] # Free /\ work[w].entry.id[1] = x

\* Once all parts were sent and none is underway the item was shown: no order
\* of header and chunks leaves a file in the buffer.
AllArrivedIsShown ==
    \A x \in NotEmpty :
        queued[x] = Cardinality(Parts(x)) /\ ~Underway(x) => Shown(x)

\* A text or file whose call returned its id is eventually shown, although
\* every send_text keeps process_incoming waiting on the lock.
SentIsShown ==
    \A x \in NotEmpty : phase[x] = "ok" ~> Shown(x)

\* The comment in process_incoming on receipts: "update delivery status on
\* our sent messages".  A receipt for a message of ours updates its status.
ReceiptUpdates ==
    [][\A w \in Worker, x \in Item : \A e \in net :
          TakeReceipt(w, e) /\ Author[x] = Owner[w] /\ e.id = <<x, 0>> =>
              status'[x] \in {"Delivered", "Read"}]_vars
=============================================================================
