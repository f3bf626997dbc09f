------------------------ MODULE ConversationsProofs ------------------------
(***************************************************************************)
(* What holds of Conversations for any clients, items, chunks and workers  *)
(* and every capacity of the outboxes.  A status is true because receipts  *)
(* are: the inductive invariant follows a receipt from the worker or the   *)
(* application that sends it through the outbox and the network to the     *)
(* author, and says at each place what its sender has seen.                *)
(***************************************************************************)
EXTENDS Conversations, FiniteSetTheorems, TLAPS

-----------------------------------------------------------------------------
(* Lemmas on the constants *)

\* The parts of an item are numbered from 0.
LEMMA PartsOf ==
  ASSUME NEW x \in Item
  PROVE  /\ 0 \in Parts(x)
         /\ Parts(x) \subseteq Nat
         /\ \A n \in Parts(x) : n + 1 \notin Parts(x) =>
                                    n + 1 = Cardinality(Parts(x))
<1>1. CASE x \in File
  <2>1. Pieces[x] \in Nat /\ Parts(x) = 0 .. Pieces[x]
    BY <1>1, ConversationsAssumption DEF Parts
  <2>2. Cardinality(0 .. Pieces[x]) = Pieces[x] + 1
    BY <2>1, FS_Interval
  <2> QED
    BY <2>1, <2>2
<1>2. CASE x \notin File
  <2>1. Parts(x) = {0}
    BY <1>2 DEF Parts
  <2>2. Cardinality({0}) = 1
    BY FS_Singleton
  <2> QED
    BY <2>1, <2>2
<1> QED
  BY <1>1, <1>2

\* The ids are those of the parts.
LEMMA IdsOf ==
  /\ \A x \in Item : \A i \in Parts(x) : <<x, i>> \in Ids
  /\ \A id \in Ids : id[1] \in Item
  BY DEF Ids

\* Who receipts an id and who gets the receipt are each other's peers.
LEMMA PeerOfPeer ==
  ASSUME NEW id \in Ids, NEW c \in {Author[id[1]], Reader[id[1]]}
  PROVE  /\ Peer(id, c) \in Client
         /\ Peer(id, Peer(id, c)) = c
  BY IdsOf, ConversationsAssumption DEF Peer

\* Receipts and the parts of an item are envelopes.
LEMMA EnvelopeTypes ==
  /\ \A x \in Item : \A i \in Parts(x) : Original(x, i) \in Envelopes
  /\ \A id \in Ids : \A c \in {Author[id[1]], Reader[id[1]]} :
         \A k \in {"Delivered", "Read"} : Receipt(k, id, c) \in Envelopes
  BY IdsOf, PeerOfPeer, ConversationsAssumption
     DEF Original, Receipt, Envelopes

Assemblies == [total : Nat, chunks : SUBSET Nat, header : BOOLEAN]

\* A chunk or a header leaves the other chunks of an assembly alone.
LEMMA AssemblyTypes ==
  ASSUME NEW a \in Assemblies
  PROVE  /\ \A i, n \in Nat :
               /\ WithChunk(a, i, n) \in Assemblies
               /\ WithChunk(a, i, n).chunks = a.chunks \cup {i}
         /\ WithHeader(a) \in Assemblies
         /\ WithHeader(a).chunks = a.chunks
<1>1. ASSUME NEW i \in Nat, NEW n \in Nat
      PROVE  /\ WithChunk(a, i, n) \in Assemblies
             /\ WithChunk(a, i, n).chunks = a.chunks \cup {i}
  <2>1. (IF a = NoAssembly THEN n ELSE a.total) \in Nat
    BY DEF Assemblies
  <2>2. ASSUME NEW t \in Nat
        PROVE  /\ [a EXCEPT !.chunks = @ \cup {i}, !.total = t] \in Assemblies
               /\ [a EXCEPT !.chunks = @ \cup {i}, !.total = t].chunks
                    = a.chunks \cup {i}
    BY DEF Assemblies
  <2> QED
    BY <2>1, <2>2 DEF WithChunk
<1>2. /\ WithHeader(a) \in Assemblies
      /\ WithHeader(a).chunks = a.chunks
  BY DEF WithHeader, Assemblies
<1> QED
  BY <1>1, <1>2

-----------------------------------------------------------------------------
(* Type correctness *)

\* A client knows only ids of its own conversations.
OwnIds ==
    \A c \in Client : \A id \in messageIds[c] :
        c \in {Author[id[1]], Reader[id[1]]}

\* A worker that has still to receipt or push something has tracked it.
TrackedFirst ==
    \A w \in Worker :
        work[w] # Free => work[w].entry.id \in messageIds[Owner[w]]

\* send_read_receipts works on a copy of what was tracked.
ReadTracked ==
    \A c \in Client : toRead[c] \subseteq opened[c]
                   /\ opened[c] \subseteq messageIds[c]

TypeInv == TypeOK /\ OwnIds /\ TrackedFirst /\ ReadTracked

\* Tracking what was taken keeps the invariant.
LEMMA TrackKeeps ==
  ASSUME TypeInv, NEW w \in Worker, NEW entry \in Entries,
         NEW stage \in {"receipt", "push"},
         Reader[entry.id[1]] = Owner[w],
         TrackIncoming(w, entry, stage),
         UNCHANGED <<toRead, opened>>
  PROVE  /\ messageIds' \in [Client -> SUBSET Ids]
         /\ work' \in [Worker -> [stage : {"receipt", "push"},
                                  entry : Entries] \cup {Free}]
         /\ OwnIds' /\ TrackedFirst' /\ ReadTracked'
<1> USE ConversationsAssumption
<1>1. entry.id \in Ids /\ Owner[w] \in Client
  BY DEF Entries
<1>2. messageIds' \in [Client -> SUBSET Ids]
  BY <1>1 DEF TypeInv, TypeOK, Types, TrackIncoming
<1>3. /\ [stage |-> stage, entry |-> entry] \in
            [stage : {"receipt", "push"}, entry : Entries]
      /\ [stage |-> stage, entry |-> entry].entry = entry
  OBVIOUS
<1>4. work' \in [Worker -> [stage : {"receipt", "push"},
                           entry : Entries] \cup {Free}]
  BY <1>3 DEF TypeInv, TypeOK, Types, TrackIncoming
<1>5. OwnIds'
  BY <1>1 DEF TypeInv, TypeOK, Types, OwnIds, TrackIncoming
<1>6. ASSUME NEW v \in Worker, work'[v] # Free
      PROVE  work'[v].entry.id \in messageIds'[Owner[v]]
  <2>1. CASE v = w
    BY <1>1, <1>3, <2>1 DEF TypeInv, TypeOK, Types, TrackIncoming
  <2>2. CASE v # w
    BY <1>1, <1>6, <2>2 DEF TypeInv, TypeOK, Types, TrackedFirst,
                            TrackIncoming
  <2> QED
    BY <2>1, <2>2
<1>7. ReadTracked'
  BY <1>1 DEF TypeInv, TypeOK, Types, ReadTracked, TrackIncoming
<1> QED
  BY <1>2, <1>4, <1>5, <1>6, <1>7 DEF TrackedFirst

\* A file that is complete, or waits for the rest, keeps the invariant.
LEMMA AssembleKeeps ==
  ASSUME TypeInv, NEW w \in Worker, NEW f \in File, NEW complete \in BOOLEAN,
         NEW a \in [total : Nat, chunks : SUBSET Nat, header : BOOLEAN],
         a.chunks \subseteq 1 .. Pieces[f],
         NEW i \in Parts(f), NEW stage \in {"receipt", "push"},
         Reader[f] = Owner[w],
         Assemble(w, f, a, complete, <<f, i>>, stage),
         UNCHANGED <<toRead, opened>>
  PROVE  /\ messageIds' \in [Client -> SUBSET Ids]
         /\ work' \in [Worker -> [stage : {"receipt", "push"},
                                  entry : Entries] \cup {Free}]
         /\ buffer' \in [File -> [total : Nat, chunks : SUBSET Nat,
                                  header : BOOLEAN]]
         /\ BufferedChunks' /\ OwnIds' /\ TrackedFirst' /\ ReadTracked'
<1>1. f \in Item
  BY ConversationsAssumption
<1>2. /\ Entry(<<f, i>>, a.chunks) \in Entries
      /\ Entry(<<f, i>>, a.chunks).id = <<f, i>>
  BY <1>1, IdsOf DEF Entry, Entries
<1>3. NoAssembly \in [total : Nat, chunks : SUBSET Nat, header : BOOLEAN]
  BY DEF NoAssembly
<1>4. CASE complete
  <2>1. /\ TrackIncoming(w, Entry(<<f, i>>, a.chunks), stage)
        /\ buffer' = [buffer EXCEPT ![f] = NoAssembly]
    BY <1>4 DEF Assemble
  <2>2. /\ buffer' \in [File -> [total : Nat, chunks : SUBSET Nat,
                                 header : BOOLEAN]]
        /\ BufferedChunks'
    BY <1>3, <2>1 DEF TypeInv, TypeOK, Types, BufferedChunks, NoAssembly
  <2> QED
    BY <1>2, <2>1, <2>2, TrackKeeps
<1>5. CASE ~complete
  <2>1. /\ buffer' = [buffer EXCEPT ![f] = a]
        /\ UNCHANGED <<messageIds, work>>
    BY <1>5 DEF Assemble
  <2>2. /\ buffer' \in [File -> [total : Nat, chunks : SUBSET Nat,
                                 header : BOOLEAN]]
        /\ BufferedChunks'
    BY <2>1 DEF TypeInv, TypeOK, Types, BufferedChunks
  <2> QED
    BY <2>1, <2>2 DEF TypeInv, TypeOK, Types, OwnIds, TrackedFirst,
                      ReadTracked
<1> QED
  BY <1>4, <1>5

\* Every step keeps the types and what clients and workers know.
LEMMA TypeStep == TypeInv /\ [Next]_vars => TypeInv'
<1> SUFFICES ASSUME TypeInv, [Next]_vars
             PROVE  TypeInv'
  OBVIOUS
<1> USE ConversationsAssumption
<1>1. ASSUME NEW x \in Item, QueuePart(x)
      PROVE  TypeInv'
  <2>1. queued[x] \in Parts(x)
    BY <1>1 DEF QueuePart, TypeInv, TypeOK, CallPhases
  <2>2. outbox' \in SUBSET Envelopes
    BY <1>1, <2>1, EnvelopeTypes DEF QueuePart, Queue, TypeInv, TypeOK, Types
  <2>3. CASE Full(Original(x, queued[x]), Author[x])
    BY <1>1, <2>2, <2>3
       DEF QueuePart, TypeInv, TypeOK, Types, CallPhases, BufferedChunks,
           OwnIds, TrackedFirst, ReadTracked
  <2>4. CASE ~Full(Original(x, queued[x]), Author[x])
    <3>1. /\ queued' = [queued EXCEPT ![x] = @ + 1]
          /\ phase' = [phase EXCEPT ![x] = AfterPart(x)]
      BY <1>1, <2>4 DEF QueuePart
    <3>2. /\ queued' \in [Item -> Nat]
          /\ phase' \in [Item -> {"queueing", "tracking", "flushing", "ok",
                                  "err"}]
      BY <3>1 DEF AfterPart, TypeInv, TypeOK, Types
    <3>3. CallPhases'
      BY <2>1, <3>1, PartsOf
         DEF AfterPart, TypeInv, TypeOK, Types, CallPhases, Parts
    <3> QED
      BY <1>1, <2>2, <3>2, <3>3
         DEF QueuePart, TypeInv, TypeOK, Types, BufferedChunks, OwnIds,
             TrackedFirst, ReadTracked
  <2> QED
    BY <2>3, <2>4
<1>2. ASSUME NEW x \in Item, Track(x)
      PROVE  TypeInv'
  <2>1. <<x, 0>> \in Ids /\ <<x, 0>>[1] = x
    BY PartsOf, IdsOf
  <2>2. Types'
    BY <1>2, <2>1 DEF Track, TypeInv, TypeOK, Types
  <2>3. ASSUME NEW c \in Client, NEW id \in messageIds'[c]
        PROVE  c \in {Author[id[1]], Reader[id[1]]}
    <3>1. \/ id \in messageIds[c]
          \/ id = <<x, 0>> /\ c = Author[x]
      BY <1>2, <2>3 DEF Track, TypeInv, TypeOK, Types
    <3> QED
      BY <2>1, <3>1 DEF TypeInv, OwnIds
  <2>4. CallPhases' /\ BufferedChunks'
    BY <1>2 DEF Track, TypeInv, TypeOK, Types, CallPhases, BufferedChunks,
                Parts
  <2>5. TrackedFirst' /\ ReadTracked'
    BY <1>2 DEF Track, TypeInv, TypeOK, Types, TrackedFirst, ReadTracked
  <2> QED
    BY <2>2, <2>3, <2>4, <2>5 DEF TypeInv, TypeOK, OwnIds
<1>3. ASSUME NEW x \in Item, TextFlushed(x) \/ FileFlushed(x)
      PROVE  TypeInv'
  <2>1. PICK p \in {"ok", "tracking", "err"} :
            /\ phase' = [phase EXCEPT ![x] = p]
            /\ phase[x] = "flushing"
    BY <1>3 DEF TextFlushed, FileFlushed
  <2>2. CallPhases'
    BY <1>3, <2>1 DEF TextFlushed, FileFlushed, TypeInv, TypeOK, Types,
                      CallPhases, Parts
  <2> QED
    BY <1>3, <2>1, <2>2
       DEF TextFlushed, FileFlushed, TypeInv, TypeOK, Types, BufferedChunks,
           OwnIds, TrackedFirst, ReadTracked
<1>4. ASSUME NEW e \in outbox, Store(e)
      PROVE  TypeInv'
  BY <1>4 DEF Store, TypeInv, TypeOK, Types, CallPhases, BufferedChunks,
              OwnIds, TrackedFirst, ReadTracked, Parts
<1>5. ASSUME NEW w \in Worker, NEW x \in Item, TakeText(w, x)
      PROVE  TypeInv'
  <2>1. /\ Entry(<<x, 0>>, {}) \in Entries
        /\ Entry(<<x, 0>>, {}).id = <<x, 0>>
    BY PartsOf, IdsOf DEF Entry, Entries
  <2>2. Reader[x] = Owner[w]
    BY <1>5 DEF TakeText, Take, Original
  <2>3. /\ messageIds' \in [Client -> SUBSET Ids]
        /\ work' \in [Worker -> [stage : {"receipt", "push"},
                                 entry : Entries] \cup {Free}]
        /\ OwnIds' /\ TrackedFirst' /\ ReadTracked'
    BY <1>5, <2>1, <2>2, TrackKeeps DEF TakeText, Take
  <2> QED
    BY <1>5, <2>3 DEF TakeText, Take, TypeInv, TypeOK, Types, CallPhases,
                      BufferedChunks, Parts
<1>6. ASSUME NEW w \in Worker, NEW f \in File, NEW i \in 1 .. Pieces[f],
             TakeChunk(w, f, i)
      PROVE  TypeInv'
  <2> DEFINE a == WithChunk(buffer[f], i, Pieces[f])
             id == IF a.header THEN <<f, 0>> ELSE <<f, i>>
             stage == IF a.header THEN "receipt" ELSE "push"
  <2>1. /\ a \in [total : Nat, chunks : SUBSET Nat, header : BOOLEAN]
        /\ a.chunks \subseteq 1 .. Pieces[f]
    <3>1. buffer[f] \in Assemblies /\ i \in Nat /\ Pieces[f] \in Nat
      BY DEF Assemblies, TypeInv, TypeOK, Types
    <3>2. buffer[f].chunks \cup {i} \subseteq 1 .. Pieces[f]
      BY DEF TypeInv, TypeOK, BufferedChunks
    <3> QED
      BY <3>1, <3>2, AssemblyTypes DEF Assemblies
  <2>2. Reader[f] = Owner[w]
    BY <1>6 DEF TakeChunk, Take, Original
  <2>3. PICK j \in Parts(f) : id = <<f, j>>
    BY PartsOf DEF Parts
  <2>4. Complete(a.chunks, Pieces[f]) \in BOOLEAN
    BY DEF Complete
  <2>5. Assemble(w, f, a, Complete(a.chunks, Pieces[f]), <<f, j>>, stage)
    BY <1>6, <2>3 DEF TakeChunk
  <2>6. /\ stage \in {"receipt", "push"}
        /\ UNCHANGED <<outbox, phase, queued, inbox, toRead, opened, status>>
        /\ net' \subseteq net
    BY <1>6 DEF TakeChunk, Take
  <2>7. /\ messageIds' \in [Client -> SUBSET Ids]
        /\ work' \in [Worker -> [stage : {"receipt", "push"},
                                 entry : Entries] \cup {Free}]
        /\ buffer' \in [File -> [total : Nat, chunks : SUBSET Nat,
                                 header : BOOLEAN]]
        /\ BufferedChunks' /\ OwnIds' /\ TrackedFirst' /\ ReadTracked'
    <3> HIDE DEF a, id, stage
    <3> QED
      BY <2>1, <2>2, <2>4, <2>5, <2>6, AssembleKeeps
  <2> QED
    BY <2>6, <2>7 DEF TypeInv, TypeOK, Types, CallPhases, Parts
<1>7. ASSUME NEW w \in Worker, NEW f \in File, TakeHeader(w, f)
      PROVE  TypeInv'
  <2> DEFINE a == WithHeader(buffer[f])
             complete == a.total > 0 /\ Complete(a.chunks, a.total)
  <2>1. /\ a \in [total : Nat, chunks : SUBSET Nat, header : BOOLEAN]
        /\ a.chunks \subseteq 1 .. Pieces[f]
    <3>1. buffer[f] \in Assemblies
      BY DEF Assemblies, TypeInv, TypeOK, Types
    <3>2. buffer[f].chunks \subseteq 1 .. Pieces[f]
      BY DEF TypeInv, TypeOK, BufferedChunks
    <3> QED
      BY <3>1, <3>2, AssemblyTypes DEF Assemblies
  <2>2. Reader[f] = Owner[w]
    BY <1>7 DEF TakeHeader, Take, Original
  <2>3. complete \in BOOLEAN /\ 0 \in Parts(f)
    BY PartsOf
  <2>4. /\ Assemble(w, f, a, complete, <<f, 0>>, "receipt")
        /\ UNCHANGED <<outbox, phase, queued, inbox, toRead, opened, status>>
        /\ net' \subseteq net
    BY <1>7 DEF TakeHeader, Take
  <2>5. /\ messageIds' \in [Client -> SUBSET Ids]
        /\ work' \in [Worker -> [stage : {"receipt", "push"},
                                 entry : Entries] \cup {Free}]
        /\ buffer' \in [File -> [total : Nat, chunks : SUBSET Nat,
                                 header : BOOLEAN]]
        /\ BufferedChunks' /\ OwnIds' /\ TrackedFirst' /\ ReadTracked'
    <3> HIDE DEF a, complete
    <3> QED
      BY <2>1, <2>2, <2>3, <2>4, AssembleKeeps
  <2> QED
    BY <2>4, <2>5 DEF TypeInv, TypeOK, Types, CallPhases, Parts
<1>8. ASSUME NEW w \in Worker, NEW e \in net, TakeReceipt(w, e)
      PROVE  TypeInv'
  <2>1. status' \in [Item -> {"none", "Queued", "Delivered", "Read"}]
    BY <1>8 DEF TakeReceipt, Updated, TypeInv, TypeOK, Types, Envelopes
  <2> QED
    BY <1>8, <2>1
       DEF TakeReceipt, Take, TypeInv, TypeOK, Types, CallPhases,
           BufferedChunks, OwnIds, TrackedFirst, ReadTracked, Parts
<1>9. ASSUME NEW w \in Worker, SendDelivered(w)
      PROVE  TypeInv'
  <2>1. work[w] \in [stage : {"receipt", "push"}, entry : Entries]
    BY <1>9 DEF SendDelivered, TypeInv, TypeOK, Types, Free
  <2>2. /\ work[w].entry.id \in messageIds[Owner[w]]
        /\ work[w].entry.id \in Ids
    BY <1>9, <2>1 DEF SendDelivered, TypeInv, TrackedFirst, Free, Entries
  <2>3. DeliveredBy(w) \in Envelopes
    BY <2>2, EnvelopeTypes DEF DeliveredBy, TypeInv, OwnIds
  <2>4. outbox' \in SUBSET Envelopes
    BY <1>9, <2>3 DEF SendDelivered, Queue, TypeInv, TypeOK, Types
  <2>5. /\ Receipted(w) \in [stage : {"receipt", "push"}, entry : Entries]
        /\ Receipted(w).entry = work[w].entry
    BY <2>1 DEF Receipted
  <2>6. /\ work' = [work EXCEPT ![w] = Receipted(w)]
        /\ UNCHANGED <<net, phase, queued, status, messageIds, buffer, inbox,
                       toRead, opened>>
    BY <1>9 DEF SendDelivered
  <2>7. Types'
    BY <2>4, <2>5, <2>6 DEF TypeInv, TypeOK, Types
  <2>8. TrackedFirst'
    BY <2>2, <2>5, <2>6 DEF TypeInv, TypeOK, Types, TrackedFirst
  <2> QED
    BY <2>6, <2>7, <2>8
       DEF TypeInv, TypeOK, CallPhases, BufferedChunks, OwnIds, ReadTracked,
           Parts
<1>10. ASSUME NEW w \in Worker, PushInbox(w)
       PROVE  TypeInv'
  <2>1. work[w].entry \in Entries
    BY <1>10 DEF PushInbox, TypeInv, TypeOK, Types, Free
  <2>2. Types'
    BY <1>10, <2>1 DEF PushInbox, TypeInv, TypeOK, Types
  <2>3. TrackedFirst'
    BY <1>10 DEF PushInbox, TypeInv, TypeOK, Types, TrackedFirst
  <2> QED
    BY <1>10, <2>2, <2>3
       DEF PushInbox, TypeInv, TypeOK, CallPhases, BufferedChunks, OwnIds,
           ReadTracked, Parts
<1>11. ASSUME NEW c \in Client, NEW p \in Client, OpenConversation(c, p)
       PROVE  TypeInv'
  BY <1>11 DEF OpenConversation, TypeInv, TypeOK, Types, CallPhases,
               BufferedChunks, OwnIds, TrackedFirst, ReadTracked, Parts
<1>12. ASSUME NEW c \in Client, NEW id \in toRead[c], SendRead(c, id)
       PROVE  TypeInv'
  <2>1. Receipt("Read", id, c) \in Envelopes
    BY EnvelopeTypes DEF TypeInv, TypeOK, Types, ReadTracked, OwnIds
  <2>2. Types'
    BY <1>12, <2>1 DEF SendRead, Queue, TypeInv, TypeOK, Types
  <2> QED
    BY <1>12, <2>2
       DEF SendRead, TypeInv, TypeOK, Types, CallPhases, BufferedChunks,
           OwnIds, TrackedFirst, ReadTracked, Parts
<1>13. CASE UNCHANGED vars
  BY <1>13 DEF vars, TypeInv, TypeOK, Types, CallPhases, BufferedChunks,
               OwnIds, TrackedFirst, ReadTracked, Parts
<1> QED
  BY <1>1, <1>2, <1>3, <1>4, <1>5, <1>6, <1>7, <1>8, <1>9, <1>10, <1>11,
     <1>12, <1>13 DEF Next, Send, Process, TakeItem, ReadReceipts

\* Every reachable state has the types and phases that TypeOK lists: a call
\* has queued every part of what it tracks, and the buffer has only chunks of
\* the file.
THEOREM TypeCorrect == Spec => []TypeOK
<1>1. Init => TypeInv
  BY PartsOf, ConversationsAssumption
     DEF Init, TypeInv, TypeOK, Types, CallPhases, BufferedChunks, OwnIds,
         TrackedFirst, ReadTracked, NoAssembly
<1>2. TypeInv => TypeOK
  BY DEF TypeInv
<1> QED
  BY <1>1, <1>2, TypeStep, PTL DEF Spec

-----------------------------------------------------------------------------
(* Statuses are true *)

\* What the sender of a receipt has seen of its message.
ReceiptIsTrue(e) ==
    /\ e.kind = "Delivered" => e.id \in messageIds[Peer(e.id, e.to)]
    /\ e.kind = "Read" => e.id \in opened[Peer(e.id, e.to)]

ReceiptsAreTrue == \A e \in outbox \cup net : ReceiptIsTrue(e)

\* A client forgets nothing it has tracked or asked receipts for.
LEMMA NothingForgotten ==
  ASSUME TypeInv, [Next]_vars, NEW c \in Client
  PROVE  /\ messageIds[c] \subseteq messageIds'[c]
         /\ opened[c] \subseteq opened'[c]
<1>1. ASSUME NEW w \in Worker, NEW entry, NEW stage,
             TrackIncoming(w, entry, stage)
      PROVE  messageIds[c] \subseteq messageIds'[c]
  BY <1>1 DEF TrackIncoming, TypeInv, TypeOK, Types
<1>2. ASSUME NEW x \in Item, Track(x)
      PROVE  messageIds[c] \subseteq messageIds'[c]
  BY <1>2 DEF Track, TypeInv, TypeOK, Types
<1>3. ASSUME NEW d \in Client, NEW p \in Client, OpenConversation(d, p)
      PROVE  opened[c] \subseteq opened'[c]
  BY <1>3 DEF OpenConversation, TypeInv, TypeOK, Types
<1>4. ASSUME NEW w \in Worker, NEW f, NEW a, NEW complete, NEW id, NEW stage,
             Assemble(w, f, a, complete, id, stage)
      PROVE  messageIds[c] \subseteq messageIds'[c]
  BY <1>1, <1>4 DEF Assemble
<1>5. \/ UNCHANGED messageIds
      \/ \E x \in Item : Track(x)
      \/ \E w \in Worker, x \in Item : TakeText(w, x)
      \/ \E w \in Worker, f \in Item : \E i \in 1 .. Pieces[f] :
             TakeChunk(w, f, i)
      \/ \E w \in Worker, f \in Item : TakeHeader(w, f)
  BY DEF Next, Send, QueuePart, TextFlushed, FileFlushed, Store, Process,
         TakeItem, TakeReceipt, SendDelivered, PushInbox, ReadReceipts,
         OpenConversation, SendRead, vars
<1>6. \/ UNCHANGED opened
      \/ \E d \in Client, p \in Client : OpenConversation(d, p)
  BY ConversationsAssumption
     DEF Next, Send, QueuePart, Track, TextFlushed, FileFlushed, Store,
         Process, TakeItem, TakeText, TakeChunk, TakeHeader, TakeReceipt,
         Take, SendDelivered, PushInbox, ReadReceipts, SendRead, vars
<1>7. messageIds[c] \subseteq messageIds'[c]
  BY <1>1, <1>2, <1>4, <1>5 DEF TakeText, TakeChunk, TakeHeader
<1> QED
  BY <1>3, <1>6, <1>7

\* A receipt that was true stays true, and those that are queued are true.
LEMMA ReceiptStep ==
  TypeInv /\ ReceiptsAreTrue /\ [Next]_vars => ReceiptsAreTrue'
<1> SUFFICES ASSUME TypeInv, ReceiptsAreTrue, [Next]_vars
             PROVE  ReceiptsAreTrue'
  OBVIOUS
<1> USE ConversationsAssumption
<1>1. ASSUME NEW e \in Envelopes, ReceiptIsTrue(e),
             Peer(e.id, e.to) \in Client
      PROVE  ReceiptIsTrue(e)'
  BY <1>1, NothingForgotten DEF ReceiptIsTrue
<1>2. ASSUME NEW e \in Envelopes
      PROVE  Peer(e.id, e.to) \in Client
  BY IdsOf DEF Envelopes, Peer
<1>3. ASSUME NEW new,
             outbox' \cup net' \subseteq outbox \cup net \cup {new},
             ReceiptIsTrue(new)'
      PROVE  ReceiptsAreTrue'
  BY <1>1, <1>2, <1>3 DEF ReceiptsAreTrue, TypeInv, TypeOK, Types
<1>4. ASSUME outbox' \cup net' \subseteq outbox \cup net
      PROVE  ReceiptsAreTrue'
  BY <1>1, <1>2, <1>4 DEF ReceiptsAreTrue, TypeInv, TypeOK, Types
<1>5. ASSUME NEW x \in Item, QueuePart(x)
      PROVE  ReceiptsAreTrue'
  <2>1. PICK new : new = Original(x, queued[x])
    OBVIOUS
  <2>2. ReceiptIsTrue(new)'
    BY <2>1 DEF ReceiptIsTrue, Original
  <2> QED
    BY <1>3, <1>5, <2>1, <2>2 DEF QueuePart, Queue
<1>6. ASSUME NEW w \in Worker, SendDelivered(w)
      PROVE  ReceiptsAreTrue'
  <2> DEFINE id == work[w].entry.id
  <2>1. id \in messageIds[Owner[w]]
    BY <1>6 DEF SendDelivered, TypeInv, TrackedFirst, Free
  <2>2. /\ id \in Ids
        /\ Owner[w] \in {Author[id[1]], Reader[id[1]]}
    BY <2>1 DEF TypeInv, TypeOK, Types, OwnIds
  <2>3. id \in messageIds'[Owner[w]]
    BY <1>6, <2>1 DEF SendDelivered
  <2>4. /\ DeliveredBy(w).kind = "Delivered"
        /\ DeliveredBy(w).id = id
        /\ DeliveredBy(w).to = Peer(id, Owner[w])
    BY DEF DeliveredBy, Receipt
  <2> HIDE DEF id
  <2>5. Peer(DeliveredBy(w).id, DeliveredBy(w).to) = Owner[w]
    BY <2>2, <2>4, PeerOfPeer
  <2>6. PICK new : new = DeliveredBy(w)
    OBVIOUS
  <2>7. ReceiptIsTrue(new)'
    BY <2>3, <2>4, <2>5, <2>6 DEF ReceiptIsTrue
  <2> QED
    BY <1>3, <1>6, <2>6, <2>7 DEF SendDelivered, Queue
<1>7. ASSUME NEW c \in Client, NEW id \in toRead[c], SendRead(c, id)
      PROVE  ReceiptsAreTrue'
  <2>1. id \in opened[c] /\ id \in opened'[c]
    BY <1>7 DEF SendRead, TypeInv, ReadTracked
  <2>2. id \in Ids /\ c \in {Author[id[1]], Reader[id[1]]}
    BY <2>1 DEF TypeInv, TypeOK, Types, OwnIds, ReadTracked
  <2>3. Peer(id, Peer(id, c)) = c
    BY <2>2, PeerOfPeer
  <2>4. ReceiptIsTrue(Receipt("Read", id, c))'
    BY <2>1, <2>3 DEF ReceiptIsTrue, Receipt
  <2> QED
    BY <1>3, <1>7, <2>4 DEF SendRead, Queue
<1>8. ASSUME NEW w \in Worker, NEW e, Take(w, e)
      PROVE  ReceiptsAreTrue'
  BY <1>4, <1>8 DEF Take
<1>9. ASSUME UNCHANGED <<outbox, net>>
      PROVE  ReceiptsAreTrue'
  BY <1>4, <1>9
<1>10. ASSUME NEW e \in outbox, Store(e)
       PROVE  ReceiptsAreTrue'
  BY <1>4, <1>10 DEF Store
<1> QED
  BY <1>5, <1>6, <1>7, <1>8, <1>9, <1>10
     DEF Next, Send, Track, TextFlushed, FileFlushed, Process, TakeItem,
         TakeText, TakeChunk, TakeHeader, TakeReceipt, PushInbox,
         ReadReceipts, OpenConversation, vars

\* A status changes only by a receipt that is true, or to Queued.
LEMMA StatusStep ==
  TypeInv /\ ReceiptsAreTrue /\ StatusIsTrue /\ [Next]_vars => StatusIsTrue'
<1> SUFFICES ASSUME TypeInv, ReceiptsAreTrue, StatusIsTrue, [Next]_vars,
                    NEW x \in Item
             PROVE  /\ status'[x] \in {"Delivered", "Read"} =>
                          <<x, 0>> \in messageIds'[Reader[x]]
                    /\ status'[x] = "Read" => <<x, 0>> \in opened'[Reader[x]]
  BY DEF StatusIsTrue
<1> USE ConversationsAssumption
<1>1. Reader[x] \in Client
  OBVIOUS
<1>2. CASE status'[x] \in {status[x], "Queued"}
  BY <1>1, <1>2, NothingForgotten DEF StatusIsTrue
<1>3. ASSUME NEW w \in Worker, NEW e \in net, TakeReceipt(w, e)
      PROVE  \/ status'[x] = status[x]
             \/ /\ status'[x] = e.kind
                /\ e.id = <<x, 0>>
                /\ e.to = Author[x]
  BY <1>3 DEF TakeReceipt, Take, Updated, Concerns, TypeInv, TypeOK, Types
<1>4. ASSUME NEW e \in net, status'[x] = e.kind, e.id = <<x, 0>>,
             e.to = Author[x]
      PROVE  /\ status'[x] \in {"Delivered", "Read"} =>
                   <<x, 0>> \in messageIds'[Reader[x]]
             /\ status'[x] = "Read" => <<x, 0>> \in opened'[Reader[x]]
  <2>1. Peer(e.id, e.to) = Reader[x]
    BY <1>4 DEF Peer
  <2>2. ReceiptIsTrue(e)
    BY DEF ReceiptsAreTrue
  <2>3. opened[Reader[x]] \subseteq messageIds[Reader[x]]
    BY <1>1 DEF TypeInv, ReadTracked
  <2> QED
    BY <1>1, <1>4, <2>1, <2>2, <2>3, NothingForgotten DEF ReceiptIsTrue
<1>5. ASSUME NEW y \in Item, Track(y)
      PROVE  status'[x] \in {status[x], "Queued"}
  BY <1>5 DEF Track, TypeInv, TypeOK, Types
<1>6. CASE UNCHANGED status
  BY <1>2, <1>6
<1>7. \/ UNCHANGED status
      \/ \E y \in Item : Track(y)
      \/ \E w \in Worker : \E e \in net : TakeReceipt(w, e)
  BY DEF Next, Send, QueuePart, TextFlushed, FileFlushed, Store, Process,
         TakeItem, TakeText, TakeChunk, TakeHeader, SendDelivered, PushInbox,
         ReadReceipts, OpenConversation, SendRead, vars
<1> QED
  BY <1>2, <1>3, <1>4, <1>5, <1>6, <1>7

\* Whatever overtakes what: a message with status Delivered was taken in by
\* its reader's client, and one with status Read was there when the reader's
\* application sent read receipts.
THEOREM StatusesAreTrue == Spec => []StatusIsTrue
<1>1. Init => TypeInv /\ ReceiptsAreTrue /\ StatusIsTrue
  BY PartsOf, ConversationsAssumption
     DEF Init, TypeInv, TypeOK, Types, CallPhases, BufferedChunks, OwnIds,
         TrackedFirst, ReadTracked, NoAssembly, ReceiptsAreTrue, StatusIsTrue
<1> QED
  BY <1>1, TypeStep, ReceiptStep, StatusStep, PTL DEF Spec

-----------------------------------------------------------------------------
(* Statuses never go back *)

\* The status is inserted once: an item that is yet to be tracked has none.
NoneBefore ==
    \A x \in Item :
        phase[x] \in {"queueing", "tracking", "err"}
            \/ (x \in File /\ phase[x] = "flushing") => status[x] = "none"

\* What a step does to a status and to the phase of its call.
LEMMA StatusChange ==
  ASSUME TypeInv, [Next]_vars, NEW x \in Item
  PROVE  \/ status'[x] = status[x]
         \/ Track(x)
         \/ \E kind \in {"Delivered", "Read"} :
                status'[x] = Updated(status[x], kind)
<1>1. ASSUME NEW w \in Worker, NEW e \in net, TakeReceipt(w, e)
      PROVE  \/ status'[x] = status[x]
             \/ \E kind \in {"Delivered", "Read"} :
                    status'[x] = Updated(status[x], kind)
  BY <1>1 DEF TakeReceipt, Take, TypeInv, TypeOK, Types, Envelopes
<1>2. ASSUME NEW y \in Item, y # x, Track(y)
      PROVE  status'[x] = status[x]
  BY <1>2 DEF Track, TypeInv, TypeOK, Types
<1>3. \/ UNCHANGED status
      \/ \E y \in Item : Track(y)
      \/ \E w \in Worker : \E e \in net : TakeReceipt(w, e)
  BY DEF Next, Send, QueuePart, TextFlushed, FileFlushed, Store, Process,
         TakeItem, TakeText, TakeChunk, TakeHeader, SendDelivered, PushInbox,
         ReadReceipts, OpenConversation, SendRead, vars
<1> QED
  BY <1>1, <1>2, <1>3

\* A receipt gives no status to an item that has none, and a call that has
\* tracked its item does not come back to that.
LEMMA NoneStep == TypeInv /\ NoneBefore /\ [Next]_vars => NoneBefore'
<1> SUFFICES ASSUME TypeInv, NoneBefore, [Next]_vars, NEW x \in Item,
                    \/ phase'[x] \in {"queueing", "tracking", "err"}
                    \/ x \in File /\ phase'[x] = "flushing"
             PROVE  status'[x] = "none"
  BY DEF NoneBefore
<1>1. ~Track(x)
  BY DEF Track, TypeInv, TypeOK, Types
<1>2. ASSUME status[x] = "none"
      PROVE  status'[x] = "none"
  BY <1>1, <1>2, StatusChange DEF Updated
<1>3. ASSUME phase'[x] # phase[x]
      PROVE  status[x] = "none"
  <2>1. ASSUME NEW y \in Item, Send(y)
        PROVE  status[x] = "none"
    BY <1>1, <1>3, <2>1
       DEF Send, QueuePart, Track, TextFlushed, FileFlushed, AfterPart,
           NoneBefore, TypeInv, TypeOK, Types
  <2>2. \E y \in Item : Send(y)
    BY <1>3 DEF Next, Store, Process, TakeItem, TakeText, TakeChunk,
                TakeHeader, TakeReceipt, Take, SendDelivered, PushInbox,
                ReadReceipts, OpenConversation, SendRead, vars
  <2> QED
    BY <2>1, <2>2
<1>4. ASSUME phase'[x] = phase[x]
      PROVE  status[x] = "none"
  BY <1>4 DEF NoneBefore
<1> QED
  BY <1>2, <1>3, <1>4

\* A status never goes back: a late Delivered does not undo Read, and the
\* insertion of Queued, however late it comes, overwrites nothing.
THEOREM StatusesNeverRegress == Spec => NeverRegresses
<1>1. Init => TypeInv /\ NoneBefore
  BY PartsOf, ConversationsAssumption
     DEF Init, TypeInv, TypeOK, Types, CallPhases, BufferedChunks, OwnIds,
         TrackedFirst, ReadTracked, NoAssembly, NoneBefore
<1>2. TypeInv /\ NoneBefore /\ [Next]_vars =>
          [\A x \in Item : Rank[status'[x]] >= Rank[status[x]]]_vars
  <2> SUFFICES ASSUME TypeInv, NoneBefore, [Next]_vars, NEW x \in Item
               PROVE  Rank[status'[x]] >= Rank[status[x]]
    OBVIOUS
  <2>1. status[x] \in {"none", "Queued", "Delivered", "Read"}
    BY DEF TypeInv, TypeOK, Types
  <2>2. /\ Rank["none"] = 0 /\ Rank["Queued"] = 1
        /\ Rank["Delivered"] = 2 /\ Rank["Read"] = 3
    BY DEF Rank
  <2>3. CASE status'[x] = status[x]
    BY <2>1, <2>2, <2>3
  <2>4. CASE Track(x)
    <3>1. status[x] = "none" /\ status'[x] = "Queued"
      BY <2>4 DEF Track, NoneBefore, TypeInv, TypeOK, Types
    <3> QED
      BY <2>2, <3>1
  <2>5. ASSUME NEW kind \in {"Delivered", "Read"},
               status'[x] = Updated(status[x], kind)
        PROVE  Rank[status'[x]] >= Rank[status[x]]
    BY <2>1, <2>2, <2>5 DEF Updated
  <2> QED
    BY <2>3, <2>4, <2>5, StatusChange
<1> QED
  BY <1>1, <1>2, TypeStep, NoneStep, PTL DEF Spec, NeverRegresses

-----------------------------------------------------------------------------
(* Files are shown whole and once, and whatever arrived is shown *)

\* The parts of x that its reader's client has handled.
Arrived(x) ==
    {i \in Parts(x) : i < queued[x] /\ Original(x, i) \notin outbox \cup net}

\* Each part is queued once, stored once, handled once.
PartOnce ==
    \A x \in Item : \A i \in Parts(x) :
        /\ Original(x, i) \in outbox \cup net => i < queued[x]
        /\ Original(x, i) \notin outbox \cap net

\* An entry that a worker is about to push, or that was pushed.
IsHeld(e) == \/ \E w \in Worker : work[w] # Free /\ work[w].entry = e
             \/ \E c \in Client : e \in inbox[c]

\* Entries are with the reader of their item.
WithReader ==
    /\ \A w \in Worker :
          work[w] # Free => Reader[work[w].entry.id[1]] = Owner[w]
    /\ \A c \in Client : \A e \in inbox[c] : Reader[e.id[1]] = c

\* The one entry of a text or of a whole file.
EntryWhole(x) ==
    \A e \in Entries : IsHeld(e) /\ e.id[1] = x =>
        /\ x \notin File => e = Entry(<<x, 0>>, {})
        /\ x \in File => /\ e.chunks = 1 .. Pieces[x]
                         /\ 1 .. Pieces[x] \subseteq Arrived(x)
                         /\ buffer[x].chunks = {}
        /\ \A o \in Entries : IsHeld(o) /\ o.id[1] = x => o = e

EntriesWhole == \A x \in Item : EntryWhole(x)

\* Some entry of x exists.
HasEntry(x) == \E e \in Entries : IsHeld(e) /\ e.id[1] = x

\* A text that arrived has its entry; a file has one, or what arrived of it
\* is in the buffer and is not all of it.
Kept(x) ==
    /\ x \notin File /\ 0 \in Arrived(x) => HasEntry(x)
    /\ x \in File =>
          /\ buffer[x].total \in {0, Pieces[x]}
          /\ ~HasEntry(x) =>
                /\ buffer[x].chunks = Arrived(x) \ {0}
                /\ Pieces[x] # 0 => Arrived(x) \ {0} # 1 .. Pieces[x]

ArrivedKept == \A x \in Item : Kept(x)

ShowInv == TypeInv /\ PartOnce /\ WithReader /\ EntriesWhole /\ ArrivedKept

\* The parts are told apart by item and number.
LEMMA OriginalInjective ==
  ASSUME NEW x, NEW y, NEW i, NEW j, Original(x, i) = Original(y, j)
  PROVE  x = y /\ i = j
  BY DEF Original

\* A worker that takes something up holds one entry more.
LEMMA HeldMore ==
  ASSUME TypeInv, NEW w \in Worker, NEW entry,
         NEW stage \in {"receipt", "push"},
         work[w] = Free, TrackIncoming(w, entry, stage), UNCHANGED inbox
  PROVE  \A e : IsHeld(e)' <=> IsHeld(e) \/ e = entry
<1>1. /\ work'[w] = [stage |-> stage, entry |-> entry]
      /\ work'[w] # Free
      /\ work'[w].entry = entry
      /\ \A v \in Worker : v # w => work'[v] = work[v]
  BY DEF TrackIncoming, TypeInv, TypeOK, Types, Free
<1> QED
  BY <1>1 DEF IsHeld

\* Pushing an entry moves it, and a receipt leaves it where it is.
LEMMA HeldSame ==
  ASSUME TypeInv, NEW w \in Worker, SendDelivered(w) \/ PushInbox(w)
  PROVE  /\ \A e : IsHeld(e)' <=> IsHeld(e)
         /\ WithReader => WithReader'
<1> USE ConversationsAssumption
<1>1. CASE SendDelivered(w)
  <2>1. work[w] \in [stage : {"receipt", "push"}, entry : Entries]
    BY <1>1 DEF SendDelivered, TypeInv, TypeOK, Types, Free
  <2>2. /\ work'[w].entry = work[w].entry
        /\ work'[w] # Free /\ work[w] # Free
        /\ \A v \in Worker : v # w => work'[v] = work[v]
        /\ inbox' = inbox
    BY <1>1, <2>1 DEF SendDelivered, Receipted, TypeInv, TypeOK, Types, Free
  <2> QED
    BY <2>2 DEF IsHeld, WithReader
<1>2. CASE PushInbox(w)
  <2>1. /\ work[w] # Free /\ work'[w] = Free
        /\ \A v \in Worker : v # w => work'[v] = work[v]
        /\ inbox' = [inbox EXCEPT ![Owner[w]] = @ \cup {work[w].entry}]
    BY <1>2 DEF PushInbox, TypeInv, TypeOK, Types, Free
  <2>2. \A c \in Client : \A e : e \in inbox'[c] <=>
            e \in inbox[c] \/ (c = Owner[w] /\ e = work[w].entry)
    BY <2>1 DEF TypeInv, TypeOK, Types
  <2> QED
    BY <2>1, <2>2 DEF IsHeld, WithReader
<1> QED
  BY <1>1, <1>2

\* What handling part i of x does to the parts.
LEMMA TakePart ==
  ASSUME TypeInv, PartOnce, NEW w \in Worker, NEW x \in Item,
         NEW i \in Parts(x), Take(w, Original(x, i))
  PROVE  /\ i \notin Arrived(x)
         /\ Arrived(x)' = Arrived(x) \cup {i}
         /\ \A y \in Item : y # x => Arrived(y)' = Arrived(y)
         /\ PartOnce'
         /\ Reader[x] = Owner[w]
<1>1. /\ Original(x, i) \in net
      /\ net' = net \ {Original(x, i)}
      /\ UNCHANGED <<outbox, queued>>
      /\ Reader[x] = Owner[w]
  BY DEF Take, Original
<1>2. i < queued[x] /\ Original(x, i) \notin outbox
  BY <1>1 DEF PartOnce
<1>3. \A y \in Item : \A j \in Parts(y) :
          /\ y # x \/ j # i =>
                (Original(y, j) \in net' <=> Original(y, j) \in net)
  BY <1>1, OriginalInjective
<1>4. \A y \in Item : Parts(y)' = Parts(y)
  BY DEF Parts
<1>5. Arrived(x)' = Arrived(x) \cup {i}
  BY <1>1, <1>2, <1>3 DEF Arrived, Parts, Original
<1>6. \A y \in Item : y # x => Arrived(y)' = Arrived(y)
  BY <1>1, <1>3 DEF Arrived, Parts, Original
<1>7. PartOnce'
  BY <1>1 DEF PartOnce, Parts, Original
<1> QED
  BY <1>1, <1>5, <1>6, <1>7 DEF Arrived

\* Receipts are not parts.
LEMMA ReceiptIsNoPart ==
  \A k \in {"Delivered", "Read"} :
      \A id, c, x, i : Receipt(k, id, c) # Original(x, i)
  BY DEF Receipt, Original

\* A step that handles no part of an item changes nothing that arrived, nor
\* the entries, nor the buffer.
LEMMA QuietStep ==
  ASSUME TypeInv, PartOnce, WithReader, [Next]_vars,
         \A w \in Worker, x \in Item : ~TakeItem(w, x)
  PROVE  /\ \A x \in Item : Arrived(x)' = Arrived(x)
         /\ \A e : IsHeld(e)' <=> IsHeld(e)
         /\ UNCHANGED buffer
         /\ PartOnce' /\ WithReader'
<1> DEFINE Quiet == /\ \A x \in Item : Arrived(x)' = Arrived(x)
                    /\ \A e : IsHeld(e)' <=> IsHeld(e)
                    /\ UNCHANGED buffer
                    /\ PartOnce' /\ WithReader'
<1> USE ConversationsAssumption
<1>1. ASSUME UNCHANGED queued,
             \A x \in Item : \A i \in Parts(x) :
                /\ Original(x, i) \in outbox' \cup net' <=>
                      Original(x, i) \in outbox \cup net
                /\ Original(x, i) \in outbox' \cap net' =>
                      Original(x, i) \in outbox \cap net
      PROVE  (\A x \in Item : Arrived(x)' = Arrived(x)) /\ PartOnce'
  BY <1>1 DEF Arrived, PartOnce, Parts, Original
<1>2. ASSUME UNCHANGED <<work, inbox>>
      PROVE  (\A e : IsHeld(e)' <=> IsHeld(e)) /\ WithReader'
  BY <1>2 DEF IsHeld, WithReader
<1>3. ASSUME NEW x \in Item, QueuePart(x)
      PROVE  Quiet
  <2> DEFINE p == Original(x, queued[x])
  <2>1. queued[x] \in Parts(x) /\ queued[x] \in Nat
    BY <1>3 DEF QueuePart, TypeInv, TypeOK, Types, CallPhases
  <2>2. UNCHANGED <<work, inbox, buffer, net>>
    BY <1>3 DEF QueuePart
  <2>3. CASE Full(p, Author[x])
    <3>1. UNCHANGED <<outbox, queued>>
      BY <1>3, <2>3 DEF QueuePart, Queue
    <3> QED
      BY <1>1, <1>2, <2>2, <3>1
  <2>4. CASE ~Full(p, Author[x])
    <3>1. /\ queued' = [queued EXCEPT ![x] = @ + 1]
          /\ outbox' = outbox \cup {p}
      BY <1>3, <2>4 DEF QueuePart, Queue
    <3>2. p \notin outbox \cup net
      BY <2>1 DEF PartOnce
    <3>3. \A y \in Item : \A i \in Parts(y) :
              (y # x \/ i # queued[x]) => Original(y, i) # p
      BY OriginalInjective
    <3>4. /\ queued'[x] = queued[x] + 1
          /\ \A y \in Item : y # x => queued'[y] = queued[y]
      BY <3>1 DEF TypeInv, TypeOK, Types
    <3>5. PartOnce'
      <4> SUFFICES ASSUME NEW y \in Item, NEW i \in Parts(y)
                   PROVE  /\ Original(y, i) \in outbox' \cup net' =>
                                i < queued'[y]
                          /\ Original(y, i) \notin outbox' \cap net'
        BY DEF PartOnce, Parts, Original
      <4>1. i \in Nat /\ queued[y] \in Nat
        BY PartsOf DEF TypeInv, TypeOK, Types
      <4>2. CASE y = x /\ i = queued[x]
        BY <2>2, <3>2, <3>4, <4>1, <4>2
      <4>3. CASE y # x \/ i # queued[x]
        <5>1. /\ Original(y, i) \in outbox' => Original(y, i) \in outbox
              /\ queued[y] <= queued'[y]
          BY <3>1, <3>3, <3>4, <4>1, <4>3
        <5>2. /\ Original(y, i) \in outbox \cup net => i < queued[y]
              /\ Original(y, i) \notin outbox \cap net
          BY DEF PartOnce
        <5>3. queued'[y] \in Nat
          BY <3>4, <4>1
        <5> QED
          BY <2>2, <4>1, <5>1, <5>2, <5>3
      <4> QED
        BY <4>2, <4>3
    <3>6. ASSUME NEW y \in Item
          PROVE  Arrived(y)' = Arrived(y)
      <4>1. ASSUME NEW i \in Parts(y)
            PROVE  /\ i < queued'[y]
                   /\ Original(y, i) \notin outbox' \cup net'
                 <=>
                   /\ i < queued[y]
                   /\ Original(y, i) \notin outbox \cup net
        <5>1. i \in Nat /\ queued[y] \in Nat
          BY PartsOf DEF TypeInv, TypeOK, Types
        <5>2. CASE y = x /\ i = queued[x]
          BY <3>1, <5>1, <5>2
        <5>3. CASE y # x
          BY <2>2, <3>1, <3>3, <3>4, <5>3
        <5>4. CASE y = x /\ i # queued[x]
          BY <2>2, <3>1, <3>3, <3>4, <5>1, <5>4
        <5> QED
          BY <5>2, <5>3, <5>4
      <4> QED
        BY <4>1 DEF Arrived, Parts, Original
    <3> QED
      BY <1>2, <2>2, <3>5, <3>6
  <2> QED
    BY <2>3, <2>4
<1>4. ASSUME NEW x \in Item, Track(x) \/ TextFlushed(x) \/ FileFlushed(x)
      PROVE  Quiet
  BY <1>1, <1>2, <1>4 DEF Track, TextFlushed, FileFlushed
<1>5. ASSUME NEW e \in outbox, Store(e)
      PROVE  Quiet
  <2>1. /\ outbox' = outbox \ {e}
        /\ net' = net \cup {e}
        /\ UNCHANGED <<queued, work, inbox, buffer>>
    BY <1>5 DEF Store
  <2>2. \A x \in Item : \A i \in Parts(x) :
           /\ Original(x, i) \in outbox' \cup net' <=>
                 Original(x, i) \in outbox \cup net
           /\ Original(x, i) \in outbox' \cap net' =>
                 Original(x, i) \in outbox \cap net
    BY <2>1
  <2> QED
    BY <1>1, <1>2, <2>1, <2>2
<1>6. ASSUME NEW w \in Worker, NEW e \in net, TakeReceipt(w, e)
      PROVE  Quiet
  <2>1. /\ \A x, i : Original(x, i) # e
        /\ net' = net \ {e}
        /\ UNCHANGED <<outbox, queued, work, inbox, buffer>>
    BY <1>6 DEF TakeReceipt, Take, Original
  <2> QED
    BY <1>1, <1>2, <2>1
<1>7. ASSUME NEW w \in Worker, SendDelivered(w)
      PROVE  Quiet
  <2>1. /\ \A x, i : Original(x, i) # DeliveredBy(w)
        /\ outbox' = outbox \/ outbox' = outbox \cup {DeliveredBy(w)}
        /\ UNCHANGED <<net, queued, buffer>>
    BY <1>7, ReceiptIsNoPart DEF SendDelivered, Queue, DeliveredBy
  <2>2. \A x \in Item : \A i \in Parts(x) :
           Original(x, i) \in outbox' <=> Original(x, i) \in outbox
    BY <2>1
  <2> QED
    BY <1>1, <1>7, <2>1, <2>2, HeldSame
<1>8. ASSUME NEW w \in Worker, PushInbox(w)
      PROVE  Quiet
  <2>1. UNCHANGED <<outbox, net, queued, buffer>>
    BY <1>8 DEF PushInbox
  <2> QED
    BY <1>1, <1>8, <2>1, HeldSame
<1>9. ASSUME NEW c \in Client, NEW p \in Client, OpenConversation(c, p)
      PROVE  Quiet
  BY <1>1, <1>2, <1>9 DEF OpenConversation
<1>10. ASSUME NEW c \in Client, NEW id \in toRead[c], SendRead(c, id)
       PROVE  Quiet
  <2>1. /\ \A x, i : Original(x, i) # Receipt("Read", id, c)
        /\ \/ outbox' = outbox
           \/ outbox' = outbox \cup {Receipt("Read", id, c)}
        /\ UNCHANGED <<net, queued, work, inbox, buffer>>
    BY <1>10, ReceiptIsNoPart DEF SendRead, Queue
  <2>2. \A x \in Item : \A i \in Parts(x) :
           Original(x, i) \in outbox' <=> Original(x, i) \in outbox
    BY <2>1
  <2> QED
    BY <1>1, <1>2, <2>1, <2>2
<1>11. CASE UNCHANGED vars
  BY <1>1, <1>2, <1>11 DEF vars
<1> QED
  BY <1>3, <1>4, <1>5, <1>6, <1>7, <1>8, <1>9, <1>10, <1>11
     DEF Next, Send, Process, ReadReceipts

\* An item of which nothing was handled, of which no entry came or went, and
\* whose buffer was not touched is as well kept as before.
LEMMA OthersKept ==
  ASSUME NEW x \in Item,
         EntryWhole(x), Kept(x),
         Arrived(x)' = Arrived(x),
         x \in File => buffer'[x] = buffer[x],
         \A e \in Entries : e.id[1] = x => (IsHeld(e)' <=> IsHeld(e))
  PROVE  EntryWhole(x)' /\ Kept(x)'
<1>1. HasEntry(x)' <=> HasEntry(x)
  BY DEF HasEntry
<1>2. Kept(x)'
  BY <1>1 DEF Kept
<1>3. ASSUME NEW e \in Entries, IsHeld(e)', e.id[1] = x
      PROVE  /\ x \notin File => e = Entry(<<x, 0>>, {})
             /\ x \in File => /\ e.chunks = 1 .. Pieces[x]
                              /\ 1 .. Pieces[x] \subseteq Arrived(x)'
                              /\ buffer'[x].chunks = {}
             /\ \A o \in Entries : IsHeld(o)' /\ o.id[1] = x => o = e
  BY <1>3 DEF EntryWhole
<1> QED
  BY <1>2, <1>3 DEF EntryWhole, Entry

\* A text that is handled has its entry from then on.
LEMMA TextStep ==
  ASSUME ShowInv, NEW w \in Worker, NEW x \in Item, TakeText(w, x)
  PROVE  PartOnce' /\ WithReader' /\ EntriesWhole' /\ ArrivedKept'
<1> USE ConversationsAssumption
<1> DEFINE entry == Entry(<<x, 0>>, {})
<1>0. TypeInv /\ PartOnce /\ WithReader /\ EntriesWhole /\ ArrivedKept
  BY DEF ShowInv
<1>1. /\ x \notin File
      /\ Take(w, Original(x, 0))
      /\ TrackIncoming(w, entry, "receipt")
      /\ work[w] = Free
      /\ UNCHANGED <<buffer, inbox>>
      /\ 0 \in Parts(x)
  BY PartsOf DEF TakeText, Take
<1>2. /\ Arrived(x)' = Arrived(x) \cup {0}
      /\ \A y \in Item : y # x => Arrived(y)' = Arrived(y)
      /\ PartOnce'
      /\ Reader[x] = Owner[w]
  BY <1>0, <1>1, TakePart
<1>3. entry \in Entries /\ entry.id = <<x, 0>> /\ entry.id[1] = x
  BY <1>1, IdsOf DEF Entry, Entries
<1>4. \A e : IsHeld(e)' <=> IsHeld(e) \/ e = entry
  <2> HIDE DEF entry
  <2> QED
    BY <1>0, <1>1, HeldMore
<1>5. WithReader'
  <2>1. /\ work'[w].entry = entry
        /\ \A v \in Worker : v # w => work'[v] = work[v]
    <3> HIDE DEF entry
    <3> QED
      BY <1>0, <1>1 DEF TrackIncoming, TypeInv, TypeOK, Types
  <2> HIDE DEF entry
  <2> QED
    BY <1>0, <1>1, <1>2, <1>3, <2>1 DEF WithReader
<1>6. ASSUME NEW y \in Item, y # x
      PROVE  EntryWhole(y)' /\ Kept(y)'
  <2> HIDE DEF entry
  <2>1. EntryWhole(y) /\ Kept(y)
    BY <1>0 DEF EntriesWhole, ArrivedKept
  <2> QED
    BY <1>1, <1>2, <1>3, <1>4, <1>6, <2>1, OthersKept
<1>7. EntryWhole(x)'
  <2>1. ASSUME NEW e \in Entries, IsHeld(e)', e.id[1] = x
        PROVE  e = entry
    BY <1>0, <1>1, <1>4, <2>1 DEF EntriesWhole, EntryWhole
  <2> QED
    BY <1>1, <2>1 DEF EntryWhole, Entry
<1>8. Kept(x)'
  BY <1>1, <1>3, <1>4 DEF Kept, HasEntry
<1> QED
  BY <1>2, <1>5, <1>6, <1>7, <1>8 DEF EntriesWhole, ArrivedKept

\* What is in the buffer of a file that has an entry, and of one that has
\* none.
LEMMA BufferOf ==
  ASSUME ShowInv, NEW f \in File
  PROVE  /\ f \in Item /\ EntryWhole(f) /\ Kept(f)
         /\ buffer[f] \in Assemblies
         /\ Pieces[f] \in Nat
         /\ buffer[f].total \in {0, Pieces[f]}
         /\ HasEntry(f) => /\ 1 .. Pieces[f] \subseteq Arrived(f)
                           /\ buffer[f].chunks = {}
         /\ ~HasEntry(f) =>
               /\ buffer[f].chunks = Arrived(f) \ {0}
               /\ Pieces[f] # 0 => Arrived(f) \ {0} # 1 .. Pieces[f]
<1>1. f \in Item /\ EntryWhole(f) /\ Kept(f)
  BY ConversationsAssumption DEF ShowInv, EntriesWhole, ArrivedKept
<1>2. buffer[f] \in Assemblies /\ Pieces[f] \in Nat
  BY ConversationsAssumption DEF ShowInv, TypeInv, TypeOK, Types, Assemblies
<1> QED
  BY <1>1, <1>2 DEF EntryWhole, Kept, HasEntry

\* A set of chunks is the whole file when there are as many.
LEMMA WholeFile ==
  ASSUME NEW n \in Nat, NEW C \in SUBSET (1 .. n)
  PROVE  Cardinality(C) = n <=> C = 1 .. n
<1>1. IsFiniteSet(1 .. n) /\ Cardinality(1 .. n) = n
  BY FS_Interval
<1> QED
  BY <1>1, FS_Subset

\* The header is never what completes a file: it stays in the buffer.
LEMMA HeaderStep ==
  ASSUME ShowInv, NEW w \in Worker, NEW f \in File, TakeHeader(w, f)
  PROVE  PartOnce' /\ WithReader' /\ EntriesWhole' /\ ArrivedKept'
<1> USE ConversationsAssumption
<1> DEFINE a == WithHeader(buffer[f])
<1>0. TypeInv /\ PartOnce /\ WithReader /\ EntriesWhole /\ ArrivedKept
  BY DEF ShowInv
<1>1. f \in Item /\ 0 \in Parts(f)
  BY PartsOf
<1>2. /\ Take(w, Original(f, 0))
      /\ Assemble(w, f, a, a.total > 0 /\ Complete(a.chunks, a.total),
                  <<f, 0>>, "receipt")
      /\ UNCHANGED inbox
  BY DEF TakeHeader, Take
<1>3. /\ Arrived(f)' = Arrived(f) \cup {0}
      /\ \A y \in Item : y # f => Arrived(y)' = Arrived(y)
      /\ PartOnce'
  BY <1>0, <1>1, <1>2, TakePart
<1>4. /\ a \in Assemblies
      /\ a.chunks = buffer[f].chunks
      /\ a.total = buffer[f].total
  BY BufferOf, AssemblyTypes DEF WithHeader, Assemblies
<1> HIDE DEF a
<1>5. a.chunks \subseteq 1 .. Pieces[f]
  BY <1>4 DEF ShowInv, TypeInv, TypeOK, BufferedChunks
<1>6. ~(a.total > 0 /\ Complete(a.chunks, a.total))
  <2> SUFFICES ASSUME a.total > 0, Cardinality(a.chunks) = a.total
               PROVE  FALSE
    BY DEF Complete
  <2>1. a.total = Pieces[f] /\ Pieces[f] # 0 /\ Pieces[f] \in Nat
    BY <1>4, BufferOf
  <2>2. a.chunks = 1 .. Pieces[f]
    <3>1. Cardinality(a.chunks) = Pieces[f]
      BY <2>1
    <3> QED
      BY <1>5, <2>1, <3>1, WholeFile
  <2>3. CASE HasEntry(f)
    <3>1. a.chunks = {}
      BY <1>4, <2>3, BufferOf
    <3>2. 1 \in 1 .. Pieces[f]
      BY <2>1
    <3> QED
      BY <2>2, <3>1, <3>2
  <2>4. CASE ~HasEntry(f)
    BY <1>4, <2>1, <2>2, <2>4, BufferOf
  <2> QED
    BY <2>3, <2>4
<1>7. /\ buffer' = [buffer EXCEPT ![f] = a]
      /\ UNCHANGED <<messageIds, work>>
  BY <1>2, <1>6 DEF Assemble, a
<1>8. /\ buffer'[f] = a
      /\ \A g \in File : g # f => buffer'[g] = buffer[g]
  BY <1>0, <1>7 DEF TypeInv, TypeOK, Types
<1>9. /\ \A e : IsHeld(e)' <=> IsHeld(e)
      /\ WithReader'
  BY <1>0, <1>2, <1>7 DEF IsHeld, WithReader
<1>10. HasEntry(f)' <=> HasEntry(f)
  BY <1>9 DEF HasEntry
<1>11. ASSUME NEW y \in Item, y # f
       PROVE  EntryWhole(y)' /\ Kept(y)'
  <2>1. EntryWhole(y) /\ Kept(y)
    BY <1>0 DEF EntriesWhole, ArrivedKept
  <2> QED
    BY <1>3, <1>8, <1>9, <1>11, <2>1, OthersKept
<1>12. EntryWhole(f)'
  <2>1. ASSUME NEW e \in Entries, IsHeld(e), e.id[1] = f
        PROVE  /\ e.chunks = 1 .. Pieces[f]
               /\ 1 .. Pieces[f] \subseteq Arrived(f)'
               /\ buffer'[f].chunks = {}
               /\ \A o \in Entries : IsHeld(o) /\ o.id[1] = f => o = e
    BY <1>3, <1>4, <1>8, <2>1, BufferOf DEF EntryWhole
  <2> QED
    BY <1>9, <2>1 DEF EntryWhole
<1>13. Kept(f)'
  <2>1. /\ buffer'[f].total \in {0, Pieces[f]}
        /\ ~HasEntry(f)' =>
              /\ buffer'[f].chunks = Arrived(f)' \ {0}
              /\ Pieces[f] # 0 => Arrived(f)' \ {0} # 1 .. Pieces[f]
    BY <1>3, <1>4, <1>8, <1>10, BufferOf
  <2> QED
    BY <2>1 DEF Kept
<1> QED
  BY <1>3, <1>9, <1>11, <1>12, <1>13 DEF EntriesWhole, ArrivedKept

\* A chunk that is not the last waits in the buffer; the last one makes the
\* one entry of its file.
LEMMA ChunkStep ==
  ASSUME ShowInv, NEW w \in Worker, NEW f \in File, NEW i \in 1 .. Pieces[f],
         TakeChunk(w, f, i)
  PROVE  PartOnce' /\ WithReader' /\ EntriesWhole' /\ ArrivedKept'
<1> USE ConversationsAssumption
<1> DEFINE a == WithChunk(buffer[f], i, Pieces[f])
           id == IF a.header THEN <<f, 0>> ELSE <<f, i>>
           stage == IF a.header THEN "receipt" ELSE "push"
           entry == Entry(id, a.chunks)
<1>0. TypeInv /\ PartOnce /\ WithReader /\ EntriesWhole /\ ArrivedKept
  BY DEF ShowInv
<1>1. /\ f \in Item /\ i \in Parts(f) /\ 0 \in Parts(f)
      /\ Pieces[f] \in Nat /\ Pieces[f] # 0 /\ i \in Nat /\ i # 0
  BY PartsOf DEF Parts
<1>2. /\ Take(w, Original(f, i))
      /\ Assemble(w, f, a, Complete(a.chunks, Pieces[f]), id, stage)
      /\ work[w] = Free
      /\ UNCHANGED inbox
  BY DEF TakeChunk, Take
<1>3. /\ i \notin Arrived(f)
      /\ Arrived(f)' = Arrived(f) \cup {i}
      /\ \A y \in Item : y # f => Arrived(y)' = Arrived(y)
      /\ PartOnce'
      /\ Reader[f] = Owner[w]
  BY <1>0, <1>1, <1>2, TakePart
<1>4. /\ ~HasEntry(f)
      /\ buffer[f].chunks = Arrived(f) \ {0}
  BY <1>3, BufferOf
<1>5. /\ a \in Assemblies
      /\ a.chunks = buffer[f].chunks \cup {i}
      /\ a.total \in {0, Pieces[f]}
  <2>1. a \in Assemblies /\ a.chunks = buffer[f].chunks \cup {i}
    BY <1>1, BufferOf, AssemblyTypes
  <2>2. a.total \in {buffer[f].total, Pieces[f]}
    BY BufferOf DEF WithChunk, Assemblies
  <2> QED
    BY <2>1, <2>2, BufferOf
<1>6. /\ a.chunks = Arrived(f)' \ {0}
      /\ a.chunks \subseteq 1 .. Pieces[f]
  BY <1>1, <1>3, <1>4, <1>5 DEF ShowInv, TypeInv, TypeOK, BufferedChunks
<1>7. /\ entry \in Entries /\ entry.id = id /\ entry.chunks = a.chunks
      /\ entry.id[1] = f
      /\ stage \in {"receipt", "push"}
  <2>1. id \in Ids /\ id[1] = f
    BY <1>1, IdsOf
  <2> QED
    BY <1>5, <2>1 DEF Entry, Entries, Assemblies
<1> HIDE DEF a, id, stage, entry
<1>8. CASE Complete(a.chunks, Pieces[f])
  <2>1. /\ TrackIncoming(w, entry, stage)
        /\ buffer' = [buffer EXCEPT ![f] = NoAssembly]
    BY <1>2, <1>8 DEF Assemble, entry
  <2>2. a.chunks = 1 .. Pieces[f]
    BY <1>1, <1>6, <1>8, WholeFile DEF Complete
  <2>3. \A e : IsHeld(e)' <=> IsHeld(e) \/ e = entry
    BY <1>0, <1>2, <1>7, <2>1, HeldMore
  <2>4. /\ buffer'[f].chunks = {} /\ buffer'[f].total = 0
        /\ \A g \in File : g # f => buffer'[g] = buffer[g]
    BY <1>0, <2>1 DEF TypeInv, TypeOK, Types, NoAssembly
  <2>5. WithReader'
    <3>1. /\ work'[w].entry = entry
          /\ \A v \in Worker : v # w => work'[v] = work[v]
      BY <1>0, <2>1 DEF TrackIncoming, TypeInv, TypeOK, Types
    <3> QED
      BY <1>0, <1>2, <1>3, <1>7, <3>1 DEF WithReader
  <2>6. ASSUME NEW y \in Item, y # f
        PROVE  EntryWhole(y)' /\ Kept(y)'
    <3>1. EntryWhole(y) /\ Kept(y)
      BY <1>0 DEF EntriesWhole, ArrivedKept
    <3>2. \A e \in Entries : e.id[1] = y => (IsHeld(e)' <=> IsHeld(e))
      BY <1>7, <2>3, <2>6
    <3> QED
      BY <1>3, <2>4, <2>6, <3>1, <3>2, OthersKept
  <2>7. ASSUME NEW e \in Entries, IsHeld(e)', e.id[1] = f
        PROVE  e = entry
    BY <1>4, <2>3, <2>7 DEF HasEntry
  <2>8. HasEntry(f)'
    BY <1>7, <2>3 DEF HasEntry
  <2>9. EntryWhole(f)'
    <3>1. ASSUME NEW e \in Entries, IsHeld(e)', e.id[1] = f
          PROVE  /\ e.chunks = 1 .. Pieces[f]
                 /\ 1 .. Pieces[f] \subseteq Arrived(f)'
                 /\ buffer'[f].chunks = {}
                 /\ \A o \in Entries : IsHeld(o)' /\ o.id[1] = f => o = e
      BY <1>6, <1>7, <2>2, <2>4, <2>7, <3>1
    <3> QED
      BY <3>1 DEF EntryWhole
  <2>10. Kept(f)'
    BY <1>1, <2>4, <2>8 DEF Kept
  <2> QED
    BY <1>3, <2>5, <2>6, <2>9, <2>10 DEF EntriesWhole, ArrivedKept
<1>9. CASE ~Complete(a.chunks, Pieces[f])
  <2>1. /\ buffer' = [buffer EXCEPT ![f] = a]
        /\ UNCHANGED <<messageIds, work>>
    BY <1>2, <1>9 DEF Assemble
  <2>2. a.chunks # 1 .. Pieces[f]
    BY <1>1, <1>6, <1>9, WholeFile DEF Complete
  <2>3. /\ \A e : IsHeld(e)' <=> IsHeld(e)
        /\ WithReader'
    BY <1>0, <1>2, <2>1 DEF IsHeld, WithReader
  <2>4. /\ buffer'[f] = a
        /\ \A g \in File : g # f => buffer'[g] = buffer[g]
    BY <1>0, <2>1 DEF TypeInv, TypeOK, Types
  <2>5. ASSUME NEW y \in Item, y # f
        PROVE  EntryWhole(y)' /\ Kept(y)'
    <3>1. EntryWhole(y) /\ Kept(y)
      BY <1>0 DEF EntriesWhole, ArrivedKept
    <3> QED
      BY <1>3, <2>3, <2>4, <2>5, <3>1, OthersKept
  <2>6. EntryWhole(f)'
    BY <1>4, <2>3 DEF HasEntry, EntryWhole
  <2>7. Kept(f)'
    BY <1>5, <1>6, <2>2, <2>4 DEF Kept
  <2> QED
    BY <1>3, <2>3, <2>5, <2>6, <2>7 DEF EntriesWhole, ArrivedKept
<1> QED
  BY <1>8, <1>9

\* Every step keeps the entries whole and what arrived accounted for.
LEMMA ShowStep == ShowInv /\ [Next]_vars => ShowInv'
<1> SUFFICES ASSUME ShowInv, [Next]_vars
             PROVE  PartOnce' /\ WithReader' /\ EntriesWhole' /\ ArrivedKept'
  BY TypeStep DEF ShowInv
<1>1. ASSUME NEW w \in Worker, NEW x \in Item, TakeItem(w, x)
      PROVE  PartOnce' /\ WithReader' /\ EntriesWhole' /\ ArrivedKept'
  BY <1>1, TextStep, HeaderStep, ChunkStep DEF TakeItem
<1>2. ASSUME \A w \in Worker, x \in Item : ~TakeItem(w, x)
      PROVE  PartOnce' /\ WithReader' /\ EntriesWhole' /\ ArrivedKept'
  <2>1. /\ \A x \in Item : Arrived(x)' = Arrived(x)
        /\ \A e : IsHeld(e)' <=> IsHeld(e)
        /\ UNCHANGED buffer
        /\ PartOnce' /\ WithReader'
    BY <1>2, QuietStep DEF ShowInv
  <2>2. ASSUME NEW x \in Item
        PROVE  EntryWhole(x)' /\ Kept(x)'
    <3>1. EntryWhole(x) /\ Kept(x)
      BY DEF ShowInv, EntriesWhole, ArrivedKept
    <3> QED
      BY <2>1, <3>1, OthersKept
  <2> QED
    BY <2>1, <2>2 DEF EntriesWhole, ArrivedKept
<1> QED
  BY <1>1, <1>2

\* The invariant of what is shown.
LEMMA ShowInvariant == Spec => []ShowInv
<1>1. Init => ShowInv
  <2> SUFFICES ASSUME Init
               PROVE  ShowInv
    OBVIOUS
  <2>1. TypeInv
    BY PartsOf, ConversationsAssumption
       DEF Init, TypeInv, TypeOK, Types, CallPhases, BufferedChunks, OwnIds,
           TrackedFirst, ReadTracked, NoAssembly
  <2>2. /\ PartOnce /\ WithReader
        /\ \A e : ~IsHeld(e)
    BY DEF Init, PartOnce, WithReader, IsHeld
  <2>3. \A x \in Item : Arrived(x) = {}
    BY PartsOf DEF Init, Arrived
  <2>4. /\ \A f \in File : buffer[f].total = 0 /\ buffer[f].chunks = {}
        /\ \A f \in File : Pieces[f] \in Nat
    BY ConversationsAssumption DEF Init, NoAssembly
  <2>5. ArrivedKept
    <3>1. \A f \in File : Pieces[f] # 0 => 1 .. Pieces[f] # {}
      BY <2>4
    <3> QED
      BY <2>3, <2>4, <3>1 DEF ArrivedKept, Kept
  <2> QED
    BY <2>1, <2>2, <2>5 DEF ShowInv, EntriesWhole, EntryWhole
<1> QED
  BY <1>1, ShowStep, PTL DEF Spec

\* A file that is shown has all its chunks, and neither a late header nor a
\* late chunk shows it again, whichever worker handles what.
THEOREM FilesAreShownWhole == Spec => []ShownWhole
<1>1. ShowInv => ShownWhole
  <2> SUFFICES ASSUME ShowInv, NEW c \in Client, NEW e \in inbox[c]
               PROVE  /\ e.id[1] \in File => e.chunks = 1 .. Pieces[e.id[1]]
                      /\ \A o \in inbox[c] : o.id[1] = e.id[1] => o = e
    BY DEF ShownWhole
  <2>1. \A o \in inbox[c] : o \in Entries /\ IsHeld(o)
    BY DEF ShowInv, TypeInv, TypeOK, Types, IsHeld
  <2>2. e.id[1] \in Item
    BY <2>1, IdsOf DEF Entries
  <2> QED
    BY <2>1, <2>2 DEF ShowInv, EntriesWhole, EntryWhole
<1> QED
  BY <1>1, ShowInvariant, PTL

\* When every part of an item was sent and none is underway, the item was
\* shown: no order of header and chunks leaves a file in the buffer.
THEOREM WhatArrivedIsShown == Spec => []AllArrivedIsShown
<1>1. ShowInv => AllArrivedIsShown
  <2> SUFFICES ASSUME ShowInv, NEW x \in NotEmpty,
                      queued[x] = Cardinality(Parts(x)), ~Underway(x)
               PROVE  Shown(x)
    BY DEF AllArrivedIsShown
  <2> USE ConversationsAssumption
  <2>1. x \in Item /\ (x \in File => Pieces[x] # 0)
    BY DEF NotEmpty
  <2>2. \A i : Original(x, i) \notin outbox \cup net
    BY DEF Underway, Original
  <2>3. HasEntry(x)
    <3>1. CASE x \in File
      <4>1. Pieces[x] \in Nat /\ Parts(x) = 0 .. Pieces[x]
        BY <3>1 DEF Parts
      <4>2. Cardinality(0 .. Pieces[x]) = Pieces[x] + 1
        BY <4>1, FS_Interval
      <4>3. Arrived(x) = 0 .. Pieces[x]
        BY <2>2, <4>1, <4>2 DEF Arrived
      <4>4. Arrived(x) \ {0} = 1 .. Pieces[x]
        BY <4>1, <4>3
      <4> QED
        BY <2>1, <3>1, <4>4, BufferOf
    <3>2. CASE x \notin File
      <4>1. Parts(x) = {0} /\ Cardinality({0}) = 1
        BY <3>2, FS_Singleton DEF Parts
      <4>2. 0 \in Arrived(x)
        BY <2>2, <4>1 DEF Arrived
      <4> QED
        BY <2>1, <3>2, <4>2 DEF ShowInv, ArrivedKept, Kept
    <3> QED
      BY <3>1, <3>2
  <2>4. PICK e \in Entries : IsHeld(e) /\ e.id[1] = x
    BY <2>3 DEF HasEntry
  <2>5. PICK c \in Client : e \in inbox[c]
    BY <2>4 DEF IsHeld, Underway
  <2>6. Reader[x] = c
    BY <2>4, <2>5 DEF ShowInv, WithReader
  <2> QED
    BY <2>4, <2>5, <2>6 DEF Shown
<1> QED
  BY <1>1, ShowInvariant, PTL
=============================================================================
