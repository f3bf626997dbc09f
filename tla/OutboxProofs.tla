---------------------------- MODULE OutboxProofs ----------------------------
(***************************************************************************)
(* What holds of Outbox for every set of messages, recipients, relays and  *)
(* tasks and every capacity.  The inductive invariant adds to the          *)
(* properties one fact, Exclusive: a recipient whose messages a flush      *)
(* holds has nothing in the outbox.  It is what makes it safe that         *)
(* flush_outbox puts failed messages back with HashMap::insert, which      *)
(* replaces the queue.                                                     *)
(***************************************************************************)
EXTENDS CliSend, SequenceTheorems, FiniteSetTheorems, TLAPS

-----------------------------------------------------------------------------
(* Lemmas on the data *)

\* The empty outbox is a map of queues.
LEMMA NoMessagesType == NoMessages \in [Recipient -> Seq(Msg)]
<1>1. <<>> \in Seq(Msg)
  BY EmptySeq
<1> QED
  BY <1>1 DEF NoMessages

\* Counting keeps the counters natural numbers.
LEMMA StatsCount ==
  ASSUME NEW st \in [delivered : Nat, failed : Nat]
  PROVE  /\ [st EXCEPT !.delivered = @ + 1] \in [delivered : Nat, failed : Nat]
         /\ [st EXCEPT !.failed = @ + 1] \in [delivered : Nat, failed : Nat]
  OBVIOUS

\* Posting leaves a first message to post.
LEMMA HeadOfBatch ==
  ASSUME OutboxTypeOK, posting
  PROVE  /\ cur \in Recipient
         /\ batch # <<>>
         /\ Head(batch) \in Msg
         /\ Tail(batch) \in Seq(Msg)
  BY HeadTailProperties DEF OutboxTypeOK

-----------------------------------------------------------------------------
(* Type correctness *)

\* Every reachable state has the types and the phases that TypeOK lists,
\* whatever the interleaving of callers, flushes and relay answers.
THEOREM TypeCorrect == OutboxSpec => []OutboxTypeOK
<1>1. OutboxInit => OutboxTypeOK
  <2>1. <<>> \in Seq(Msg)
    BY EmptySeq
  <2>2. OutboxInit => /\ result \in [Task -> {"none", "ok", "err"}]
                      /\ store \in [Relay -> SUBSET Msg]
                      /\ stats \in [delivered : Nat, failed : Nat]
    BY DEF OutboxInit, NoStats
  <2>3. OutboxInit => /\ pending \in [Recipient -> Seq(Msg)]
                      /\ taken \in [Recipient -> Seq(Msg)]
    BY NoMessagesType DEF OutboxInit
  <2>4. OutboxInit => posting = FALSE /\ untried = {} /\ delivered \in Nat
    BY DEF OutboxInit
  <2> QED
    BY <2>1, <2>2, <2>3, <2>4 DEF OutboxInit, OutboxTypeOK
<1>2. OutboxTypeOK /\ [OutboxNext]_outboxVars => OutboxTypeOK'
  <2> SUFFICES ASSUME OutboxTypeOK, [OutboxNext]_outboxVars
               PROVE  OutboxTypeOK'
    OBVIOUS
  <2> USE OutboxAssumption DEF OutboxTypeOK, flushVars, historyVars
  <2>1. ASSUME NEW m \in Msg, QueueMessage(m)
        PROVE  OutboxTypeOK'
    <3>1. CASE Full(To[m])
      BY <2>1, <3>1 DEF QueueMessage
    <3>2. CASE ~Full(To[m])
      <4>1. Append(pending[To[m]], m) \in Seq(Msg)
        BY AppendProperties
      <4>2. Append(accepted, m) \in Seq(Msg)
        BY AppendProperties
      <4> QED
        BY <2>1, <3>2, <4>1, <4>2 DEF QueueMessage
    <3> QED
      BY <3>1, <3>2
  <2>2. ASSUME NEW t \in Task, StartFlush(t)
        PROVE  OutboxTypeOK'
    BY <2>2, NoMessagesType DEF StartFlush, LeftByTake, NoStats
  <2>3. ASSUME NEW r \in Recipient, NextRecipient(r)
        PROVE  OutboxTypeOK'
    BY <2>3 DEF NextRecipient
  <2>4. CASE BeginPost
    BY <2>4 DEF BeginPost
  <2>5. ASSUME NEW b \in Relay, PostStored(b)
        PROVE  OutboxTypeOK'
    <3>1. stats' \in [delivered : Nat, failed : Nat]
      BY <2>5, StatsCount DEF PostStored
    <3>2. /\ store' \in [Relay -> SUBSET Msg]
          /\ confirmed' \in SUBSET Msg
      BY <2>5, HeadOfBatch DEF PostStored
    <3>3. delivered' \in Nat
      BY <2>5 DEF PostStored
    <3>4. /\ batch' \in Seq(Msg)
          /\ posting' = FALSE
          /\ untried' = {}
          /\ cur' = cur
          /\ cur # None
      BY <2>5, HeadOfBatch DEF PostStored
    <3>5. UNCHANGED <<pending, holder, taken, failed, result, pool, accepted,
                      refused>>
      BY <2>5 DEF PostStored
    <3> QED
      BY <3>1, <3>2, <3>3, <3>4, <3>5
  <2>6. ASSUME posting, GiveUpHead, store' \in [Relay -> SUBSET Msg]
        PROVE  OutboxTypeOK'
    <3>1. Append(failed, Head(batch)) \in Seq(Msg)
      BY <2>6, HeadOfBatch, AppendProperties
    <3> QED
      BY <2>6, <3>1, HeadOfBatch, StatsCount DEF GiveUpHead, KeepFailed
  <2>7. ASSUME NEW b \in Relay, posting, MayKeep(b, Head(batch))
        PROVE  store' \in [Relay -> SUBSET Msg]
    <3>1. [store EXCEPT ![b] = @ \cup {Head(batch)}] \in [Relay -> SUBSET Msg]
      BY <2>7, HeadOfBatch
    <3> QED
      BY <2>7, <3>1 DEF MayKeep
  <2>8. ASSUME NEW b \in Relay, PostRejected(b)
        PROVE  OutboxTypeOK'
    BY <2>6, <2>7, <2>8 DEF PostRejected
  <2>9. ASSUME NEW b \in Relay, PostFailed(b)
        PROVE  OutboxTypeOK'
    BY <2>7, <2>9 DEF PostFailed
  <2>10. CASE PostExhausted
    BY <2>6, <2>10 DEF PostExhausted
  <2>11. CASE EndRecipient
    BY <2>11 DEF EndRecipient, Reinsert
  <2>12. CASE EndFlush
    BY <2>12 DEF EndFlush, AllDone, FlushResult, NoStats
  <2>13. ASSUME NEW b \in Relay, MergeBase(b)
         PROVE  OutboxTypeOK'
    BY <2>13 DEF MergeBase
  <2>14. CASE UNCHANGED outboxVars
    BY <2>14 DEF outboxVars
  <2> QED
    BY <2>1, <2>2, <2>3, <2>4, <2>5, <2>8, <2>9, <2>10, <2>11, <2>12, <2>13,
       <2>14 DEF OutboxNext, FlushStep
<1> QED
  BY <1>1, <1>2, PTL DEF OutboxSpec

-----------------------------------------------------------------------------
(* Nothing is lost *)

\* The range of a queue that grows at its end or shrinks at its head.
LEMMA RangeSteps ==
  ASSUME NEW S, NEW q \in Seq(S), NEW e \in S
  PROVE  /\ Range(Append(q, e)) = Range(q) \cup {e}
         /\ q # <<>> => Range(q) = {Head(q)} \cup Range(Tail(q))
<1>1. Range(<<e>>) = {e}
  BY DEF Range
<1>2. Range(Append(q, e)) = Range(q) \cup {e}
  <2>1. <<e>> \in Seq(S)
    OBVIOUS
  <2>2. Append(q, e) = q \o <<e>>
    BY AppendIsConcat
  <2>3. Range(q \o <<e>>) = Range(q) \cup Range(<<e>>)
    BY <2>1, RangeConcatenation
  <2> QED
    BY <1>1, <2>2, <2>3
<1>3. ASSUME q # <<>>
      PROVE  Range(q) = {Head(q)} \cup Range(Tail(q))
  <2>1. /\ Tail(q) \in Seq(S)
        /\ Len(Tail(q)) = Len(q) - 1
        /\ \A i \in 1 .. Len(Tail(q)) : Tail(q)[i] = q[i + 1]
        /\ Len(q) \in Nat \ {0}
        /\ Head(q) = q[1]
    BY <1>3, HeadTailProperties, EmptySeq
  <2>2. /\ Range(q) = {q[i] : i \in 1 .. Len(q)}
        /\ Range(Tail(q)) = {Tail(q)[i] : i \in 1 .. Len(Tail(q))}
    BY <2>1, RangeEquality
  <2>3. ASSUME NEW i \in 1 .. Len(q)
        PROVE  q[i] \in {Head(q)} \cup Range(Tail(q))
    <3>1. CASE i = 1
      BY <2>1, <3>1
    <3>2. CASE i # 1
      <4>1. /\ i - 1 \in 1 .. Len(Tail(q))
            /\ Tail(q)[i - 1] = q[i]
        BY <2>1, <2>3, <3>2
      <4> QED
        BY <2>2, <4>1
    <3> QED
      BY <3>1, <3>2
  <2>4. ASSUME NEW i \in 1 .. Len(Tail(q))
        PROVE  Tail(q)[i] \in Range(q)
    <3>1. /\ i + 1 \in 1 .. Len(q)
          /\ Tail(q)[i] = q[i + 1]
      BY <2>1, <2>4
    <3> QED
      BY <2>2, <3>1
  <2>5. Head(q) \in Range(q)
    BY <2>1, <2>2
  <2> QED
    BY <2>2, <2>3, <2>4, <2>5
<1> QED
  BY <1>2, <1>3

\* A recipient whose messages a flush holds has nothing in the outbox.
Exclusive ==
  /\ \A r \in Recipient : taken[r] # <<>> => pending[r] = <<>>
  /\ cur # None => pending[cur] = <<>> /\ taken[cur] = <<>>

\* No step separates the outbox from a recipient it is exclusive to: while
\* the lock is held only EndRecipient writes to the outbox.
LEMMA ExclusiveStep ==
  OutboxTypeOK /\ Exclusive /\ [OutboxNext]_outboxVars => Exclusive'
<1> SUFFICES ASSUME OutboxTypeOK, Exclusive, [OutboxNext]_outboxVars
             PROVE  Exclusive'
  OBVIOUS
<1> USE DEF flushVars, historyVars
<1>1. ASSUME NEW m \in Msg, QueueMessage(m)
      PROVE  Exclusive'
  BY <1>1 DEF QueueMessage, CanQueue, OutboxTypeOK, Exclusive, NoMessages
<1>2. ASSUME NEW t \in Task, StartFlush(t)
      PROVE  Exclusive'
  BY <1>2 DEF StartFlush, LeftByTake, OutboxTypeOK, Exclusive, NoMessages
<1>3. ASSUME NEW r \in Recipient, NextRecipient(r)
      PROVE  Exclusive'
  BY <1>3 DEF NextRecipient, OutboxTypeOK, Exclusive
<1>4. CASE EndRecipient
  BY <1>4, OutboxAssumption DEF EndRecipient, Reinsert, OutboxTypeOK, Exclusive
<1>5. CASE UNCHANGED <<pending, taken, cur>>
  BY <1>5 DEF Exclusive
<1>6. CASE EndFlush
  BY <1>6 DEF EndFlush, AllDone, Exclusive
<1> QED
  BY <1>1, <1>2, <1>3, <1>4, <1>5, <1>6
     DEF OutboxNext, FlushStep, BeginPost, PostStored, PostRejected, PostFailed,
         PostExhausted, GiveUpHead, MergeBase, outboxVars

\* What is owed or confirmed stays owed or confirmed in every step of the
\* program, whoever takes it.
LEMMA KeptStep ==
  OutboxTypeOK /\ Exclusive /\ [OutboxNext]_outboxVars =>
    OwedMsgs \cup confirmed \subseteq OwedMsgs' \cup confirmed'
<1> SUFFICES ASSUME OutboxTypeOK, Exclusive, [OutboxNext]_outboxVars
             PROVE  OwedMsgs \cup confirmed \subseteq OwedMsgs' \cup confirmed'
  OBVIOUS
<1> USE DEF flushVars, historyVars
<1>0. Range(<<>>) = {}
  BY DEF Range
<1>1. ASSUME NEW m \in Msg, QueueMessage(m)
      PROVE  OwedMsgs \cup confirmed \subseteq OwedMsgs' \cup confirmed'
  <2>1. ASSUME NEW r \in Recipient
        PROVE  Range(pending[r]) \subseteq Range(pending'[r])
    <3>1. pending'[r] = pending[r] \/ pending'[r] = Append(pending[r], m)
      BY <1>1 DEF QueueMessage, OutboxTypeOK
    <3>2. pending[r] \in Seq(Msg)
      BY DEF OutboxTypeOK
    <3>3. Range(Append(pending[r], m)) = Range(pending[r]) \cup {m}
      BY <3>2, RangeSteps
    <3> QED
      BY <3>1, <3>3
  <2> QED
    BY <1>1, <2>1 DEF QueueMessage, OwedMsgs
<1>2. ASSUME NEW t \in Task, StartFlush(t)
      PROVE  OwedMsgs \cup confirmed \subseteq OwedMsgs' \cup confirmed'
  <2>1. taken = NoMessages
    BY <1>2 DEF StartFlush, OutboxTypeOK
  <2>2. ASSUME NEW r \in Recipient
        PROVE  Range(taken[r]) = {}
    BY <1>0, <2>1 DEF NoMessages
  <2> QED
    BY <1>2, <2>2 DEF StartFlush, OwedMsgs
<1>3. ASSUME NEW r \in Recipient, NextRecipient(r)
      PROVE  OwedMsgs \cup confirmed \subseteq OwedMsgs' \cup confirmed'
  <2>1. batch = <<>> /\ failed = <<>>
    BY <1>3 DEF NextRecipient, OutboxTypeOK
  <2>2. ASSUME NEW p \in Recipient
        PROVE  taken[p] = taken'[p] \/ taken[p] = batch'
    BY <1>3 DEF NextRecipient, OutboxTypeOK
  <2> QED
    BY <1>0, <1>3, <2>1, <2>2 DEF NextRecipient, OwedMsgs
<1>4. ASSUME posting, batch' = Tail(batch),
             UNCHANGED <<pending, taken>>,
             \/ failed' = failed /\ confirmed' = confirmed \cup {Head(batch)}
             \/ failed' = Append(failed, Head(batch)) /\ confirmed' = confirmed
      PROVE  OwedMsgs \cup confirmed \subseteq OwedMsgs' \cup confirmed'
  <2>1. Range(batch) = {Head(batch)} \cup Range(batch')
    BY <1>4, HeadOfBatch, RangeSteps DEF OutboxTypeOK
  <2>2. Range(Append(failed, Head(batch))) = Range(failed) \cup {Head(batch)}
    BY <1>4, HeadOfBatch, RangeSteps DEF OutboxTypeOK
  <2> QED
    BY <1>4, <2>1, <2>2 DEF OwedMsgs
<1>5. CASE EndRecipient
  <2>1. /\ pending[cur] = <<>>
        /\ cur \in Recipient
    BY <1>5 DEF EndRecipient, Exclusive, OutboxTypeOK
  <2>2. ASSUME NEW r \in Recipient
        PROVE  Range(pending[r]) \subseteq Range(pending'[r])
    BY <1>0, <1>5, <2>1 DEF EndRecipient, Reinsert, OutboxTypeOK
  <2>3. failed # <<>> => pending'[cur] = failed
    BY <1>5, <2>1 DEF EndRecipient, Reinsert, OutboxTypeOK
  <2> QED
    BY <1>0, <1>5, <2>1, <2>2, <2>3 DEF EndRecipient, OwedMsgs
<1>6. CASE UNCHANGED <<pending, taken, failed, batch, confirmed>>
  BY <1>6 DEF OwedMsgs
<1> QED
  BY <1>1, <1>2, <1>3, <1>4, <1>5, <1>6
     DEF OutboxNext, FlushStep, BeginPost, PostStored, PostRejected, PostFailed,
         PostExhausted, GiveUpHead, KeepFailed, EndFlush, MergeBase, outboxVars

\* What the loss-freedom of the outbox rests on.
LossInv == OutboxTypeOK /\ Exclusive /\ NothingLost

\* No message that queue_message accepted is ever lost by the running
\* process: until its Stored answer was read it is in the outbox or in the
\* hands of the flush.
THEOREM NothingIsLost == OutboxSpec => []NothingLost
<1>1. OutboxInit => Exclusive /\ NothingLost
  BY DEF OutboxInit, Exclusive, NothingLost, NoMessages, Range
<1>2. LossInv /\ [OutboxNext]_outboxVars => Exclusive' /\ NothingLost'
  <2> SUFFICES ASSUME LossInv, [OutboxNext]_outboxVars
               PROVE  NothingLost'
    BY ExclusiveStep DEF LossInv
  <2> USE DEF LossInv, historyVars
  <2>1. OwedMsgs \cup confirmed \subseteq OwedMsgs' \cup confirmed'
    BY KeptStep
  <2>2. ASSUME NEW m \in Msg, QueueMessage(m), ~Full(To[m])
        PROVE  NothingLost'
    <3> DEFINE q == pending[To[m]]
    <3>1. /\ accepted \in Seq(Msg)
          /\ To[m] \in Recipient
          /\ q \in Seq(Msg)
      BY OutboxAssumption DEF OutboxTypeOK
    <3>2. /\ Range(Append(accepted, m)) = Range(accepted) \cup {m}
          /\ Range(Append(q, m)) = Range(q) \cup {m}
      <4> HIDE DEF q
      <4> QED
        BY <3>1, RangeSteps
    <3>3. /\ accepted' = Append(accepted, m)
          /\ pending'[To[m]] = Append(q, m)
      BY <2>2, <3>1 DEF QueueMessage, OutboxTypeOK
    <3>4. m \in OwedMsgs'
      BY <3>1, <3>2, <3>3 DEF OwedMsgs
    <3> QED
      BY <2>1, <3>2, <3>3, <3>4 DEF NothingLost
  <2>3. CASE UNCHANGED accepted
    BY <2>1, <2>3 DEF NothingLost
  <2> QED
    BY <2>2, <2>3
       DEF OutboxNext, FlushStep, QueueMessage, StartFlush, NextRecipient,
           BeginPost,
           PostStored, PostRejected, PostFailed, PostExhausted, GiveUpHead,
           EndRecipient, EndFlush, MergeBase, outboxVars
<1> QED
  BY <1>1, <1>2, TypeCorrect, PTL DEF OutboxSpec, LossInv

-----------------------------------------------------------------------------
(* The capacity *)

\* Each place where messages of a recipient wait respects the capacity; with
\* Exclusive, only one of them is not empty.
PartsFit ==
  /\ \A r \in Recipient : /\ Len(pending[r]) <= MaxStored
                          /\ Len(taken[r]) <= MaxStored
  /\ Len(failed) + Len(batch) <= MaxStored

\* The whole of what is owed to a recipient is one of its queues, or what a
\* flush has failed to post followed by what it has yet to post.
LEMMA OwedIsOnePart ==
  ASSUME OutboxTypeOK, Exclusive, NEW r \in Recipient
  PROVE  \/ cur = r /\ Owed(r) = failed \o batch
         \/ cur # r /\ Owed(r) = pending[r] /\ taken[r] = <<>>
         \/ cur # r /\ Owed(r) = taken[r] /\ pending[r] = <<>>
<1>1. /\ pending[r] \in Seq(Msg)
      /\ taken[r] \in Seq(Msg)
      /\ failed \o batch \in Seq(Msg)
  BY ConcatProperties DEF OutboxTypeOK
<1>2. /\ <<>> \o <<>> = <<>>
      /\ pending[r] \o <<>> = pending[r]
      /\ <<>> \o taken[r] = taken[r]
      /\ taken[r] \o <<>> = taken[r]
      /\ <<>> \o (failed \o batch) = failed \o batch
  BY <1>1, ConcatEmptySeq, EmptySeq
<1>3. CASE cur = r
  <2>1. pending[r] = <<>> /\ taken[r] = <<>>
    BY <1>3, OutboxAssumption DEF Exclusive
  <2> QED
    BY <1>2, <1>3, <2>1 DEF Owed
<1>4. CASE cur # r
  BY <1>2, <1>4 DEF Owed, Exclusive
<1> QED
  BY <1>3, <1>4

\* One non-empty part within the capacity makes the whole within it.
LEMMA PartsSuffice ==
  OutboxTypeOK /\ Exclusive /\ PartsFit => WithinCapacity
<1> SUFFICES ASSUME OutboxTypeOK, Exclusive, PartsFit, NEW r \in Recipient
             PROVE  Len(Owed(r)) <= MaxStored
  BY DEF WithinCapacity
<1>1. Len(failed \o batch) = Len(failed) + Len(batch)
  BY ConcatProperties DEF OutboxTypeOK
<1> QED
  BY <1>1, OwedIsOnePart DEF PartsFit

\* No step overfills a part: only queue_message makes one longer, and what
\* EndRecipient puts back replaces an empty queue.
LEMMA PartsFitStep ==
  OutboxTypeOK /\ Exclusive /\ PartsFit /\ [OutboxNext]_outboxVars => PartsFit'
<1> SUFFICES ASSUME OutboxTypeOK, Exclusive, PartsFit, [OutboxNext]_outboxVars
             PROVE  PartsFit'
  OBVIOUS
<1> USE DEF flushVars, historyVars
<1>0. /\ Len(<<>>) = 0
      /\ 0 <= MaxStored
      /\ Len(failed) \in Nat
      /\ Len(batch) \in Nat
      /\ MaxStored \in Nat
  BY OutboxAssumption, LenProperties DEF OutboxTypeOK
<1>1. ASSUME NEW m \in Msg, QueueMessage(m)
      PROVE  PartsFit'
  <2>1. ASSUME NEW r \in Recipient
        PROVE  Len(pending'[r]) <= MaxStored
    <3>1. CASE pending'[r] = pending[r]
      BY <3>1 DEF PartsFit
    <3>2. CASE pending'[r] = Append(pending[r], m) /\ ~Full(r)
      <4>1. /\ Len(Append(pending[r], m)) = Len(pending[r]) + 1
            /\ Len(pending[r]) \in Nat
        BY AppendProperties, LenProperties DEF OutboxTypeOK
      <4> QED
        BY <1>0, <3>2, <4>1 DEF Full
    <3> QED
      BY <1>1, <3>1, <3>2 DEF QueueMessage, OutboxTypeOK
  <2> QED
    BY <1>1, <2>1 DEF QueueMessage, PartsFit
<1>2. ASSUME NEW t \in Task, StartFlush(t)
      PROVE  PartsFit'
  BY <1>0, <1>2 DEF StartFlush, LeftByTake, NoMessages, PartsFit
<1>3. ASSUME NEW r \in Recipient, NextRecipient(r)
      PROVE  PartsFit'
  <2>1. /\ Len(batch') <= MaxStored
        /\ Len(batch') \in Nat
        /\ failed' = <<>>
    BY <1>3, LenProperties DEF NextRecipient, PartsFit, OutboxTypeOK
  <2>2. ASSUME NEW p \in Recipient
        PROVE  Len(taken'[p]) <= MaxStored
    BY <1>0, <1>3 DEF NextRecipient, PartsFit, OutboxTypeOK
  <2> QED
    BY <1>0, <1>3, <2>1, <2>2 DEF NextRecipient, PartsFit
<1>4. ASSUME posting, batch' = Tail(batch), UNCHANGED <<pending, taken>>,
             failed' = failed \/ failed' = Append(failed, Head(batch))
      PROVE  PartsFit'
  <2>1. /\ Len(Tail(batch)) = Len(batch) - 1
        /\ Len(Append(failed, Head(batch))) = Len(failed) + 1
    BY <1>4, HeadOfBatch, HeadTailProperties, AppendProperties DEF OutboxTypeOK
  <2> QED
    BY <1>0, <1>4, <2>1 DEF PartsFit
<1>5. CASE EndRecipient
  <2>1. Len(failed) <= MaxStored
    BY <1>0 DEF PartsFit
  <2>2. ASSUME NEW r \in Recipient
        PROVE  Len(pending'[r]) <= MaxStored
    BY <1>5, <2>1 DEF EndRecipient, Reinsert, PartsFit, OutboxTypeOK
  <2> QED
    BY <1>0, <1>5, <2>2 DEF EndRecipient, PartsFit
<1>6. CASE UNCHANGED <<pending, taken, failed, batch>>
  BY <1>6 DEF PartsFit
<1> QED
  BY <1>1, <1>2, <1>3, <1>4, <1>5, <1>6
     DEF OutboxNext, FlushStep, BeginPost, PostStored, PostRejected, PostFailed,
         PostExhausted, GiveUpHead, KeepFailed, EndFlush, MergeBase, outboxVars

\* A queue never outgrows max_stored_messages, although flush_outbox puts
\* messages back without looking at the limit: they replace an empty queue.
THEOREM CapacityHolds == OutboxSpec => []WithinCapacity
<1>1. OutboxInit => Exclusive /\ PartsFit
  BY OutboxAssumption, EmptySeq
     DEF OutboxInit, Exclusive, PartsFit, NoMessages
<1> QED
  BY <1>1, ExclusiveStep, PartsFitStep, PartsSuffice, TypeCorrect,
     PTL DEF OutboxSpec

-----------------------------------------------------------------------------
(* What is counted as delivered is stored *)

\* The relays never lose what they hold, in any step.
LEMMA StoreGrows ==
  ASSUME OutboxTypeOK, [OutboxNext]_outboxVars
  PROVE  \A b \in Relay : store[b] \subseteq store'[b]
<1>1. ASSUME NEW b \in Relay, NEW m, MayKeep(b, m)
      PROVE  \A c \in Relay : store[c] \subseteq store'[c]
  BY <1>1 DEF MayKeep, OutboxTypeOK
<1>2. ASSUME NEW b \in Relay, PostStored(b)
      PROVE  \A c \in Relay : store[c] \subseteq store'[c]
  BY <1>2 DEF PostStored, OutboxTypeOK
<1>3. ASSUME UNCHANGED store
      PROVE  \A c \in Relay : store[c] \subseteq store'[c]
  BY <1>3
<1> QED
  BY <1>1, <1>2, <1>3
     DEF OutboxNext, FlushStep, QueueMessage, StartFlush, NextRecipient,
         BeginPost,
         PostRejected, PostFailed, PostExhausted, EndRecipient, EndFlush,
         MergeBase, outboxVars

\* Only an accepted answer confirms, and it confirms what was just stored.
LEMMA ConfirmStep ==
  OutboxTypeOK /\ ConfirmedIsStored /\ [OutboxNext]_outboxVars =>
      ConfirmedIsStored'
<1> SUFFICES ASSUME OutboxTypeOK, ConfirmedIsStored, [OutboxNext]_outboxVars,
                    NEW m \in confirmed'
             PROVE  \E b \in Relay : m \in store'[b]
  BY DEF ConfirmedIsStored, Stored
<1>1. CASE m \in confirmed
  <2>1. PICK b \in Relay : m \in store[b]
    BY <1>1 DEF ConfirmedIsStored, Stored
  <2> QED
    BY <2>1, StoreGrows
<1>2. CASE m \notin confirmed
  <2>1. PICK b \in Relay : PostStored(b)
    BY <1>2 DEF OutboxNext, FlushStep, QueueMessage, StartFlush, NextRecipient,
                BeginPost, PostRejected, PostFailed, PostExhausted,
                GiveUpHead, EndRecipient, EndFlush, MergeBase, outboxVars,
                historyVars
  <2>2. m = Head(batch) /\ m \in store'[b]
    BY <1>2, <2>1 DEF PostStored, OutboxTypeOK
  <2> QED
    BY <2>1, <2>2
<1> QED
  BY <1>1, <1>2

\* Every message counted as delivered is held by a relay, whichever answers
\* were lost and whichever bases were tried before.
THEOREM ConfirmedMeansStored == OutboxSpec => []ConfirmedIsStored
<1>1. OutboxInit => ConfirmedIsStored
  BY DEF OutboxInit, ConfirmedIsStored
<1> QED
  BY <1>1, ConfirmStep, TypeCorrect, PTL DEF OutboxSpec

-----------------------------------------------------------------------------
(* Order *)

\* One message was accepted before another.
Before(s, a, b) ==
  \E k, l \in DOMAIN s : k < l /\ s[k] = a /\ s[l] = b

\* A queue holds its messages in the order in which they were accepted.
InOrder(s, q) ==
  \A i, j \in DOMAIN q : i < j => Before(s, q[i], q[j])

\* Nothing was accepted twice.
Distinct(s) == \A k, l \in DOMAIN s : s[k] = s[l] => k = l

\* What was accepted later changes nothing in the order of the earlier ones,
\* and comes after all of them.
LEMMA BeforeAppend ==
  ASSUME NEW s \in Seq(Msg), NEW m \in Msg
  PROVE  /\ \A a, b : Before(s, a, b) => Before(Append(s, m), a, b)
         /\ \A a \in Range(s) : Before(Append(s, m), a, m)
<1> DEFINE t == Append(s, m)
<1>1. /\ DOMAIN s = 1 .. Len(s)
      /\ DOMAIN t = 1 .. Len(s) + 1
      /\ Len(s) \in Nat
      /\ \A i \in 1 .. Len(s) : t[i] = s[i]
      /\ t[Len(s) + 1] = m
  BY AppendProperties, LenProperties
<1> HIDE DEF t
<1>2. ASSUME NEW a, NEW b, Before(s, a, b)
      PROVE  Before(t, a, b)
  <2>1. PICK k, l \in DOMAIN s : k < l /\ s[k] = a /\ s[l] = b
    BY <1>2 DEF Before
  <2> QED
    BY <1>1, <2>1 DEF Before
<1>3. ASSUME NEW a \in Range(s)
      PROVE  Before(t, a, m)
  <2>1. PICK k \in 1 .. Len(s) : s[k] = a
    BY <1>3, RangeEquality
  <2>2. k \in DOMAIN t /\ Len(s) + 1 \in DOMAIN t /\ k < Len(s) + 1
    BY <1>1
  <2> QED
    BY <1>1, <2>1, <2>2 DEF Before
<1> QED
  BY <1>2, <1>3 DEF t

\* Accepting a new message keeps the accepted ones distinct.
LEMMA DistinctAppend ==
  ASSUME NEW s \in Seq(Msg), NEW m \in Msg, Distinct(s), m \notin Range(s)
  PROVE  Distinct(Append(s, m))
<1> DEFINE t == Append(s, m)
<1>1. /\ DOMAIN s = 1 .. Len(s)
      /\ DOMAIN t = 1 .. Len(s) + 1
      /\ Len(s) \in Nat
      /\ \A i \in 1 .. Len(s) : t[i] = s[i] /\ s[i] # m
      /\ t[Len(s) + 1] = m
  BY AppendProperties, LenProperties, RangeEquality
<1> HIDE DEF t
<1>2. ASSUME NEW k \in DOMAIN t, NEW l \in DOMAIN t, t[k] = t[l]
      PROVE  k = l
  <2>1. CASE k \in 1 .. Len(s) /\ l \in 1 .. Len(s)
    BY <1>1, <1>2, <2>1 DEF Distinct
  <2>2. CASE k = Len(s) + 1 \/ l = Len(s) + 1
    BY <1>1, <1>2, <2>2
  <2> QED
    BY <1>1, <1>2, <2>1, <2>2
<1> QED
  BY <1>2 DEF Distinct, t

\* Nothing precedes itself.
LEMMA BeforeIrreflexive ==
  ASSUME NEW s \in Seq(Msg), Distinct(s), NEW a
  PROVE  ~Before(s, a, a)
<1> DOMAIN s = 1 .. Len(s) /\ Len(s) \in Nat
  BY LenProperties
<1> QED
  BY DEF Before, Distinct

\* A queue stays in order when a later message joins it at the end.
LEMMA InOrderAppend ==
  ASSUME NEW s \in Seq(Msg), NEW q \in Seq(Msg), NEW m \in Msg,
         InOrder(s, q),
         \A a \in Range(q) : Before(s, a, m)
  PROVE  InOrder(s, Append(q, m))
<1> DEFINE t == Append(q, m)
<1>1. /\ DOMAIN q = 1 .. Len(q)
      /\ DOMAIN t = 1 .. Len(q) + 1
      /\ Len(q) \in Nat
      /\ \A i \in 1 .. Len(q) : t[i] = q[i] /\ q[i] \in Range(q)
      /\ t[Len(q) + 1] = m
  BY AppendProperties, LenProperties, RangeEquality
<1> HIDE DEF t
<1>2. ASSUME NEW i \in DOMAIN t, NEW j \in DOMAIN t, i < j
      PROVE  Before(s, t[i], t[j])
  <2>1. CASE j = Len(q) + 1
    BY <1>1, <1>2, <2>1
  <2>2. CASE j \in 1 .. Len(q)
    BY <1>1, <1>2, <2>2 DEF InOrder
  <2> QED
    BY <1>1, <1>2, <2>1, <2>2
<1> QED
  BY <1>2 DEF InOrder, t

\* A queue stays in order when its first message leaves it, and that message
\* precedes the others.
LEMMA InOrderTail ==
  ASSUME NEW s \in Seq(Msg), NEW q \in Seq(Msg), q # <<>>, InOrder(s, q)
  PROVE  /\ InOrder(s, Tail(q))
         /\ \A a \in Range(Tail(q)) : Before(s, Head(q), a)
<1> DEFINE t == Tail(q)
<1>1. /\ t \in Seq(Msg)
      /\ DOMAIN q = 1 .. Len(q)
      /\ DOMAIN t = 1 .. Len(q) - 1
      /\ Len(t) = Len(q) - 1
      /\ Len(q) \in Nat \ {0}
      /\ \A i \in 1 .. Len(q) - 1 : t[i] = q[i + 1]
      /\ Head(q) = q[1]
  BY HeadTailProperties, LenProperties, EmptySeq
<1> HIDE DEF t
<1>2. InOrder(s, t)
  <2>1. ASSUME NEW i \in DOMAIN t, NEW j \in DOMAIN t, i < j
        PROVE  Before(s, t[i], t[j])
    <3>1. i + 1 \in DOMAIN q /\ j + 1 \in DOMAIN q /\ i + 1 < j + 1
      BY <1>1, <2>1
    <3>2. Before(s, q[i + 1], q[j + 1])
      BY <3>1 DEF InOrder
    <3> QED
      BY <1>1, <3>2
  <2> QED
    BY <2>1 DEF InOrder
<1>3. ASSUME NEW a \in Range(t)
      PROVE  Before(s, Head(q), a)
  <2>1. PICK i \in 1 .. Len(t) : t[i] = a
    BY <1>1, <1>3, RangeEquality
  <2>2. 1 \in DOMAIN q /\ i + 1 \in DOMAIN q /\ 1 < i + 1 /\ a = q[i + 1]
    BY <1>1, <2>1
  <2> QED
    BY <1>1, <2>2 DEF InOrder
<1> QED
  BY <1>2, <1>3 DEF t

\* Two queues in order, the one wholly before the other, make one in order.
LEMMA InOrderConcat ==
  ASSUME NEW s \in Seq(Msg), NEW p \in Seq(Msg), NEW q \in Seq(Msg),
         InOrder(s, p), InOrder(s, q),
         \A a \in Range(p), b \in Range(q) : Before(s, a, b)
  PROVE  InOrder(s, p \o q)
<1> DEFINE t == p \o q
<1>1. /\ DOMAIN p = 1 .. Len(p)
      /\ DOMAIN q = 1 .. Len(q)
      /\ DOMAIN t = 1 .. Len(p) + Len(q)
      /\ Len(p) \in Nat
      /\ Len(q) \in Nat
      /\ \A i \in 1 .. Len(p) + Len(q) :
            t[i] = IF i <= Len(p) THEN p[i] ELSE q[i - Len(p)]
      /\ \A i \in 1 .. Len(p) : p[i] \in Range(p)
      /\ \A i \in 1 .. Len(q) : q[i] \in Range(q)
  BY ConcatProperties, LenProperties, RangeEquality
<1> HIDE DEF t
<1>2. ASSUME NEW i \in DOMAIN t, NEW j \in DOMAIN t, i < j
      PROVE  Before(s, t[i], t[j])
  <2>1. CASE j <= Len(p)
    BY <1>1, <1>2, <2>1 DEF InOrder
  <2>2. CASE i <= Len(p) /\ ~(j <= Len(p))
    <3>1. i \in 1 .. Len(p) /\ j - Len(p) \in 1 .. Len(q)
      BY <1>1, <1>2, <2>2
    <3> QED
      BY <1>1, <1>2, <2>2, <3>1
  <2>3. CASE ~(i <= Len(p)) /\ ~(j <= Len(p))
    <3>1. /\ i - Len(p) \in DOMAIN q
          /\ j - Len(p) \in DOMAIN q
          /\ i - Len(p) < j - Len(p)
      BY <1>1, <1>2, <2>3
    <3>2. Before(s, q[i - Len(p)], q[j - Len(p)])
      BY <3>1 DEF InOrder
    <3> QED
      BY <1>1, <1>2, <2>3, <3>2
  <2> QED
    BY <1>1, <1>2, <2>1, <2>2, <2>3
<1> QED
  BY <1>2 DEF InOrder, t

\* Where a message may wait: in the queues of its recipient, and only if it
\* was accepted.
Placed ==
  /\ \A r \in Recipient :
        \A m \in Range(pending[r]) \cup Range(taken[r]) :
           To[m] = r /\ m \in Range(accepted)
  /\ \A m \in Range(failed) \cup Range(batch) :
        To[m] = cur /\ m \in Range(accepted)
  /\ confirmed \subseteq Range(accepted)
  /\ refused \cap Range(accepted) = {}

\* Each queue is in the order of acceptance, and what this flush failed to
\* post precedes what it has yet to post.
QueuesInOrder ==
  /\ Distinct(accepted)
  /\ \A r \in Recipient : /\ InOrder(accepted, pending[r])
                          /\ InOrder(accepted, taken[r])
  /\ InOrder(accepted, failed)
  /\ InOrder(accepted, batch)
  /\ \A a \in Range(failed), b \in Range(batch) : Before(accepted, a, b)

\* Of KeepsOrder the part that is inductive.
OrderInv == OutboxTypeOK /\ Exclusive /\ Placed /\ QueuesInOrder

\* Messages move only between places where they may wait.
LEMMA PlacedStep ==
  OutboxTypeOK /\ Exclusive /\ Placed /\ [OutboxNext]_outboxVars => Placed'
<1> SUFFICES ASSUME OutboxTypeOK, Exclusive, Placed, [OutboxNext]_outboxVars
             PROVE  Placed'
  OBVIOUS
<1> USE DEF flushVars, historyVars
<1>0. Range(<<>>) = {}
  BY DEF Range
<1>1. ASSUME NEW m \in Msg, QueueMessage(m)
      PROVE  Placed'
  <2>1. CASE Full(To[m])
    BY <1>1, <2>1 DEF QueueMessage, Placed
  <2>2. CASE ~Full(To[m])
    <3>1. /\ Range(accepted') = Range(accepted) \cup {m}
          /\ m \notin refused
      <4>1. accepted' = Append(accepted, m) /\ m \notin refused
        BY <1>1, <2>2 DEF QueueMessage
      <4>2. Range(Append(accepted, m)) = Range(accepted) \cup {m}
        BY RangeSteps DEF OutboxTypeOK
      <4> QED
        BY <4>1, <4>2
    <3>2. ASSUME NEW r \in Recipient, r # To[m]
          PROVE  pending'[r] = pending[r]
      BY <1>1, <2>2, <3>2 DEF QueueMessage, OutboxTypeOK
    <3>3. Range(pending'[To[m]]) = Range(pending[To[m]]) \cup {m}
      <4>1. To[m] \in Recipient /\ pending[To[m]] \in Seq(Msg)
        BY OutboxAssumption DEF OutboxTypeOK
      <4>2. pending'[To[m]] = Append(pending[To[m]], m)
        BY <1>1, <2>2, <4>1 DEF QueueMessage, OutboxTypeOK
      <4> QED
        BY <4>1, <4>2, RangeSteps
    <3>4. /\ UNCHANGED <<taken, failed, batch, cur, confirmed, refused>>
      BY <1>1, <2>2 DEF QueueMessage
    <3> QED
      BY <3>1, <3>2, <3>3, <3>4 DEF Placed
  <2> QED
    BY <2>1, <2>2
<1>2. ASSUME NEW t \in Task, StartFlush(t)
      PROVE  Placed'
  <2>1. /\ \A r \in Recipient : pending'[r] = <<>> /\ taken'[r] = pending[r]
        /\ UNCHANGED <<failed, batch, cur, accepted, confirmed, refused>>
    BY <1>2 DEF StartFlush, LeftByTake, NoMessages, OutboxTypeOK
  <2> QED
    BY <1>0, <2>1 DEF Placed
<1>3. ASSUME NEW r \in Recipient, NextRecipient(r)
      PROVE  Placed'
  <2>1. /\ \A p \in Recipient : taken'[p] = taken[p] \/ taken'[p] = <<>>
        /\ UNCHANGED <<pending, accepted, confirmed, refused>>
        /\ cur' = r /\ batch' = taken[r] /\ failed' = <<>>
    BY <1>3 DEF NextRecipient, OutboxTypeOK
  <2> QED
    BY <1>0, <2>1 DEF Placed
<1>4. ASSUME posting, batch' = Tail(batch),
             UNCHANGED <<pending, taken, cur, accepted, refused>>,
             \/ failed' = failed /\ confirmed' = confirmed \cup {Head(batch)}
             \/ failed' = Append(failed, Head(batch)) /\ confirmed' = confirmed
      PROVE  Placed'
  <2>1. Range(batch) = {Head(batch)} \cup Range(batch')
    BY <1>4, HeadOfBatch, RangeSteps DEF OutboxTypeOK
  <2>2. Range(Append(failed, Head(batch))) = Range(failed) \cup {Head(batch)}
    BY <1>4, HeadOfBatch, RangeSteps DEF OutboxTypeOK
  <2> QED
    BY <1>4, <2>1, <2>2 DEF Placed
<1>5. CASE EndRecipient
  <2>1. /\ cur \in Recipient
        /\ \A r \in Recipient : \/ pending'[r] = pending[r]
                                \/ r = cur /\ pending'[r] = failed
        /\ UNCHANGED <<taken, accepted, confirmed, refused>>
        /\ failed' = <<>> /\ batch' = <<>>
    BY <1>5 DEF EndRecipient, Reinsert, OutboxTypeOK
  <2> QED
    BY <1>0, <2>1 DEF Placed
<1>6. CASE UNCHANGED <<pending, taken, failed, batch, cur, accepted, confirmed,
                       refused>>
  BY <1>6 DEF Placed
<1> QED
  BY <1>1, <1>2, <1>3, <1>4, <1>5, <1>6
     DEF OutboxNext, FlushStep, BeginPost, PostStored, PostRejected, PostFailed,
         PostExhausted, GiveUpHead, KeepFailed, EndFlush, MergeBase, outboxVars

\* No step takes a queue out of order: a new message comes after all that
\* were accepted, a failed one after those that failed before it, and what
\* is put back replaces an empty queue.
LEMMA InOrderStep ==
  OrderInv /\ [OutboxNext]_outboxVars => QueuesInOrder'
<1> SUFFICES ASSUME OutboxTypeOK, Exclusive, Placed, QueuesInOrder,
                    [OutboxNext]_outboxVars
             PROVE  QueuesInOrder'
  BY DEF OrderInv
<1> USE DEF flushVars, historyVars
<1>0. /\ Range(<<>>) = {}
      /\ InOrder(accepted, <<>>)
      /\ accepted \in Seq(Msg)
  BY DEF Range, InOrder, OutboxTypeOK
<1>1. ASSUME NEW m \in Msg, QueueMessage(m)
      PROVE  QueuesInOrder'
  <2>1. CASE Full(To[m])
    BY <1>1, <2>1 DEF QueueMessage, QueuesInOrder
  <2>2. CASE ~Full(To[m])
    <3> DEFINE s == Append(accepted, m)
    <3>1. /\ accepted' = s
          /\ m \notin Range(accepted)
          /\ UNCHANGED <<taken, failed, batch>>
      BY <1>1, <2>2 DEF QueueMessage
    <3>2. /\ \A a, b : Before(accepted, a, b) => Before(s, a, b)
          /\ \A a \in Range(accepted) : Before(s, a, m)
      BY <1>0, BeforeAppend
    <3>3. /\ Distinct(s)
          /\ s \in Seq(Msg)
      BY <1>0, <3>1, DistinctAppend, AppendProperties DEF QueuesInOrder
    <3> HIDE DEF s
    <3>4. \A q : InOrder(accepted, q) => InOrder(s, q)
      BY <3>2 DEF InOrder
    <3>5. ASSUME NEW r \in Recipient
          PROVE  InOrder(s, pending'[r])
      <4>1. CASE r # To[m]
        <5>1. pending'[r] = pending[r]
          BY <1>1, <2>2, <4>1 DEF QueueMessage, OutboxTypeOK
        <5> QED
          BY <3>4, <5>1 DEF QueuesInOrder
      <4>2. CASE r = To[m]
        <5>1. pending'[r] = Append(pending[r], m)
          BY <1>1, <2>2, <4>2 DEF QueueMessage, OutboxTypeOK
        <5>2. pending[r] \in Seq(Msg) /\ InOrder(s, pending[r])
          BY <3>4 DEF QueuesInOrder, OutboxTypeOK
        <5>3. \A a \in Range(pending[r]) : Before(s, a, m)
          BY <3>2 DEF Placed
        <5> QED
          BY <3>3, <5>1, <5>2, <5>3, InOrderAppend
      <4> QED
        BY <4>1, <4>2
    <3> QED
      BY <3>1, <3>2, <3>3, <3>4, <3>5 DEF QueuesInOrder
  <2> QED
    BY <2>1, <2>2
<1>2. ASSUME NEW t \in Task, StartFlush(t)
      PROVE  QueuesInOrder'
  <2>1. /\ \A r \in Recipient : pending'[r] = <<>> /\ taken'[r] = pending[r]
        /\ UNCHANGED <<failed, batch, accepted>>
    BY <1>2 DEF StartFlush, LeftByTake, NoMessages, OutboxTypeOK
  <2> QED
    BY <1>0, <2>1 DEF QueuesInOrder
<1>3. ASSUME NEW r \in Recipient, NextRecipient(r)
      PROVE  QueuesInOrder'
  <2>1. /\ \A p \in Recipient : taken'[p] = taken[p] \/ taken'[p] = <<>>
        /\ UNCHANGED <<pending, accepted>>
        /\ batch' = taken[r] /\ failed' = <<>>
    BY <1>3 DEF NextRecipient, OutboxTypeOK
  <2> QED
    BY <1>0, <2>1 DEF QueuesInOrder
<1>4. ASSUME posting, batch' = Tail(batch),
             UNCHANGED <<pending, taken, accepted>>,
             failed' = failed \/ failed' = Append(failed, Head(batch))
      PROVE  QueuesInOrder'
  <2> DEFINE h == Head(batch)
  <2>1. /\ batch \in Seq(Msg) /\ batch # <<>>
        /\ failed \in Seq(Msg)
        /\ h \in Msg
        /\ Range(batch) = {h} \cup Range(batch')
        /\ Range(Append(failed, h)) = Range(failed) \cup {h}
    BY <1>4, HeadOfBatch, RangeSteps DEF OutboxTypeOK
  <2>2. /\ InOrder(accepted, batch')
        /\ \A b \in Range(batch') : Before(accepted, h, b)
    BY <1>0, <1>4, <2>1, InOrderTail DEF QueuesInOrder
  <2>3. \A a \in Range(failed) : Before(accepted, a, h)
    BY <2>1 DEF QueuesInOrder
  <2>4. InOrder(accepted, Append(failed, h))
    BY <1>0, <2>1, <2>3, InOrderAppend DEF QueuesInOrder
  <2> HIDE DEF h
  <2>5. failed' = failed \/ failed' = Append(failed, h)
    BY <1>4 DEF h
  <2> QED
    BY <1>4, <2>1, <2>2, <2>4, <2>5 DEF QueuesInOrder
<1>5. CASE EndRecipient
  <2>1. /\ \A r \in Recipient : \/ pending'[r] = pending[r]
                                \/ pending'[r] = failed
        /\ UNCHANGED <<taken, accepted>>
        /\ failed' = <<>> /\ batch' = <<>>
    BY <1>5 DEF EndRecipient, Reinsert, OutboxTypeOK
  <2> QED
    BY <1>0, <2>1 DEF QueuesInOrder
<1>6. CASE UNCHANGED <<pending, taken, failed, batch, accepted>>
  BY <1>6 DEF QueuesInOrder
<1> QED
  BY <1>1, <1>2, <1>3, <1>4, <1>5, <1>6
     DEF OutboxNext, FlushStep, BeginPost, PostStored, PostRejected, PostFailed,
         PostExhausted, GiveUpHead, KeepFailed, EndFlush, MergeBase, outboxVars

\* Nothing waits anywhere at the start.
LEMMA InitOrder == OutboxInit => Exclusive /\ Placed /\ QueuesInOrder
<1>1. /\ Range(<<>>) = {}
      /\ DOMAIN <<>> = {}
  BY DEF Range
<1> QED
  BY <1>1 DEF OutboxInit, Exclusive, Placed, QueuesInOrder, NoMessages, InOrder,
              Distinct

\* The invariant that the next three theorems use.
LEMMA OrderInvariant == OutboxSpec => []OrderInv
  BY InitOrder, ExclusiveStep, PlacedStep, InOrderStep, TypeCorrect, PTL
     DEF OutboxSpec, OrderInv

\* What is owed to one recipient stays in the order queue_message accepted it,
\* each message once, although flush_outbox puts failed messages back.
THEOREM OrderIsKept == OutboxSpec => []KeepsOrder
<1>1. OrderInv => KeepsOrder
  <2> SUFFICES ASSUME OrderInv, NEW r \in Recipient
               PROVE  InOrder(accepted, Owed(r))
    BY DEF KeepsOrder, InOrder, Before
  <2>1. InOrder(accepted, failed \o batch)
    BY InOrderConcat DEF OrderInv, OutboxTypeOK, QueuesInOrder
  <2> QED
    BY <2>1, OwedIsOnePart DEF OrderInv, QueuesInOrder
<1> QED
  BY <1>1, OrderInvariant, PTL

-----------------------------------------------------------------------------
(* Confirmed once *)

\* A message is in one place only: the one that is being posted is in no
\* queue, and not among those that come after it or have failed.
LEMMA HeadIsNowhereElse ==
  ASSUME OrderInv, posting
  PROVE  /\ Head(batch) \notin Range(failed) \cup Range(Tail(batch))
         /\ \A r \in Recipient :
               Head(batch) \notin Range(pending[r]) \cup Range(taken[r])
<1>1. /\ batch \in Seq(Msg) /\ batch # <<>>
      /\ cur \in Recipient
      /\ accepted \in Seq(Msg)
      /\ Range(batch) = {Head(batch)} \cup Range(Tail(batch))
  BY HeadOfBatch, RangeSteps DEF OrderInv, OutboxTypeOK
<1>2. ~Before(accepted, Head(batch), Head(batch))
  BY <1>1, BeforeIrreflexive DEF OrderInv, QueuesInOrder
<1>3. Head(batch) \notin Range(failed) \cup Range(Tail(batch))
  BY <1>1, <1>2, InOrderTail DEF OrderInv, QueuesInOrder
<1>4. ASSUME NEW r \in Recipient
      PROVE  Head(batch) \notin Range(pending[r]) \cup Range(taken[r])
  <2>1. CASE r = cur
    <3>1. Range(<<>>) = {}
      BY DEF Range
    <3> QED
      BY <2>1, <3>1, OutboxAssumption DEF OrderInv, Exclusive
  <2>2. CASE r # cur
    <3>1. To[Head(batch)] = cur
      BY <1>1 DEF OrderInv, Placed
    <3> QED
      BY <2>2, <3>1 DEF OrderInv, Placed
  <2> QED
    BY <2>1, <2>2
<1> QED
  BY <1>3, <1>4

\* What a step leaves owed was owed before, or has just been accepted.
LEMMA OwedStep ==
  OutboxTypeOK /\ [OutboxNext]_outboxVars =>
    \A m \in OwedMsgs' : m \in OwedMsgs \/ m \notin Range(accepted)
<1> SUFFICES ASSUME OutboxTypeOK, [OutboxNext]_outboxVars, NEW m \in OwedMsgs'
             PROVE  m \in OwedMsgs \/ m \notin Range(accepted)
  OBVIOUS
<1> USE DEF flushVars, historyVars
<1>0. /\ Range(<<>>) = {}
      /\ m \in Msg
      /\ \/ m \in Range(failed')
         \/ m \in Range(batch')
         \/ \E r \in Recipient : \/ m \in Range(pending'[r])
                                 \/ m \in Range(taken'[r])
  BY DEF Range, OwedMsgs
<1>1. ASSUME NEW n \in Msg, QueueMessage(n)
      PROVE  m \in OwedMsgs \/ m \notin Range(accepted)
  <2>1. ASSUME NEW r \in Recipient
        PROVE  Range(pending'[r]) \subseteq Range(pending[r]) \cup {n}
    <3>1. pending'[r] = pending[r] \/ pending'[r] = Append(pending[r], n)
      BY <1>1 DEF QueueMessage, OutboxTypeOK
    <3>2. pending[r] \in Seq(Msg)
      BY DEF OutboxTypeOK
    <3>3. Range(Append(pending[r], n)) = Range(pending[r]) \cup {n}
      BY <3>2, RangeSteps
    <3> QED
      BY <3>1, <3>3
  <2> QED
    BY <1>0, <1>1, <2>1 DEF QueueMessage, OwedMsgs
<1>2. ASSUME NEW t \in Task, StartFlush(t)
      PROVE  m \in OwedMsgs
  <2>1. /\ \A r \in Recipient : pending'[r] = <<>> /\ taken'[r] = pending[r]
        /\ UNCHANGED <<failed, batch>>
    BY <1>2 DEF StartFlush, LeftByTake, NoMessages, OutboxTypeOK
  <2> QED
    BY <1>0, <2>1 DEF OwedMsgs
<1>3. ASSUME NEW r \in Recipient, NextRecipient(r)
      PROVE  m \in OwedMsgs
  <2>1. /\ \A p \in Recipient : taken'[p] = taken[p] \/ taken'[p] = <<>>
        /\ UNCHANGED pending
        /\ batch' = taken[r] /\ failed' = <<>>
    BY <1>3 DEF NextRecipient, OutboxTypeOK
  <2> QED
    BY <1>0, <2>1 DEF OwedMsgs
<1>4. ASSUME posting, batch' = Tail(batch), UNCHANGED <<pending, taken>>,
             failed' = failed \/ failed' = Append(failed, Head(batch))
      PROVE  m \in OwedMsgs
  <2>1. Range(batch) = {Head(batch)} \cup Range(batch')
    BY <1>4, HeadOfBatch, RangeSteps DEF OutboxTypeOK
  <2>2. Range(Append(failed, Head(batch))) = Range(failed) \cup {Head(batch)}
    BY <1>4, HeadOfBatch, RangeSteps DEF OutboxTypeOK
  <2> QED
    BY <1>0, <1>4, <2>1, <2>2 DEF OwedMsgs
<1>5. CASE EndRecipient
  <2>1. /\ \A r \in Recipient : \/ pending'[r] = pending[r]
                                \/ pending'[r] = failed
        /\ UNCHANGED taken
        /\ failed' = <<>> /\ batch' = <<>>
    BY <1>5 DEF EndRecipient, Reinsert, OutboxTypeOK
  <2> QED
    BY <1>0, <2>1 DEF OwedMsgs
<1>6. CASE UNCHANGED <<pending, taken, failed, batch>>
  BY <1>6 DEF OwedMsgs
<1> QED
  BY <1>1, <1>2, <1>3, <1>4, <1>5, <1>6
     DEF OutboxNext, FlushStep, BeginPost, PostStored, PostRejected, PostFailed,
         PostExhausted, GiveUpHead, KeepFailed, EndFlush, MergeBase, outboxVars

\* NoRetryAfterConfirm, with what makes the cardinality a number.
ConfirmedOnce == NoRetryAfterConfirm /\ IsFiniteSet(confirmed)

\* Confirming a message takes it out of what is owed and counts it once.
LEMMA ConfirmOnceStep ==
  OrderInv /\ ConfirmedOnce /\ [OutboxNext]_outboxVars => ConfirmedOnce'
<1> SUFFICES ASSUME OrderInv, ConfirmedOnce, [OutboxNext]_outboxVars
             PROVE  ConfirmedOnce'
  OBVIOUS
<1> USE DEF flushVars, historyVars
<1>1. ASSUME NEW b \in Relay, PostStored(b)
      PROVE  ConfirmedOnce'
  <2> DEFINE h == Head(batch)
  <2>1. /\ posting
        /\ confirmed' = confirmed \cup {h}
        /\ delivered' = delivered + 1
        /\ batch' = Tail(batch)
        /\ UNCHANGED <<pending, taken, failed>>
    BY <1>1 DEF PostStored
  <2>2. /\ h \notin Range(failed) \cup Range(batch')
        /\ \A r \in Recipient : h \notin Range(pending[r]) \cup Range(taken[r])
    BY <2>1, HeadIsNowhereElse
  <2>3. /\ Range(batch) = {h} \cup Range(batch')
        /\ h \in Msg
    BY <2>1, HeadOfBatch, RangeSteps DEF OrderInv, OutboxTypeOK
  <2>4. h \in OwedMsgs
    BY <2>3 DEF OwedMsgs
  <2>5. h \notin OwedMsgs'
    BY <2>1, <2>2 DEF OwedMsgs
  <2>6. OwedMsgs' \subseteq OwedMsgs
    BY <2>1, <2>3 DEF OwedMsgs
  <2>7. h \notin confirmed
    BY <2>4 DEF ConfirmedOnce, NoRetryAfterConfirm
  <2>8. /\ IsFiniteSet(confirmed \cup {h})
        /\ Cardinality(confirmed \cup {h}) = Cardinality(confirmed) + 1
    BY <2>7, FS_AddElement DEF ConfirmedOnce
  <2> QED
    BY <2>1, <2>5, <2>6, <2>8 DEF ConfirmedOnce, NoRetryAfterConfirm
<1>2. CASE UNCHANGED <<confirmed, delivered>>
  <2>1. ASSUME NEW m \in OwedMsgs'
        PROVE  m \notin confirmed
    BY OwedStep DEF OrderInv, Placed, ConfirmedOnce, NoRetryAfterConfirm
  <2> QED
    BY <1>2, <2>1 DEF ConfirmedOnce, NoRetryAfterConfirm
<1> QED
  BY <1>1, <1>2
     DEF OutboxNext, FlushStep, QueueMessage, StartFlush, NextRecipient,
         BeginPost,
         PostRejected, PostFailed, PostExhausted, GiveUpHead, EndRecipient,
         EndFlush, MergeBase, outboxVars

\* A message known to be stored is never posted again, and each is counted
\* once in delivered_count.
THEOREM ConfirmedIsDone == OutboxSpec => []NoRetryAfterConfirm
<1>1. OutboxInit => ConfirmedOnce
  BY FS_EmptySet DEF OutboxInit, ConfirmedOnce, NoRetryAfterConfirm
<1> QED
  BY <1>1, OrderInvariant, ConfirmOnceStep, PTL DEF OutboxSpec, ConfirmedOnce

-----------------------------------------------------------------------------
(* The outbox stores and forwards *)

\* Relays hold only what was accepted for sending.
StoredWasAccepted == \A b \in Relay : store[b] \subseteq Range(accepted)

\* Only the message that is being posted enters a relay.
LEMMA StoredStep ==
  OrderInv /\ StoredWasAccepted /\ [OutboxNext]_outboxVars => StoredWasAccepted'
<1> SUFFICES ASSUME OrderInv, StoredWasAccepted, [OutboxNext]_outboxVars
             PROVE  StoredWasAccepted'
  OBVIOUS
<1> USE DEF flushVars, historyVars
<1>1. ASSUME NEW m \in Msg, QueueMessage(m)
      PROVE  StoredWasAccepted'
  <2>1. Range(Append(accepted, m)) = Range(accepted) \cup {m}
    BY RangeSteps DEF OrderInv, OutboxTypeOK
  <2>2. /\ store' = store
        /\ accepted' = accepted \/ accepted' = Append(accepted, m)
    BY <1>1 DEF QueueMessage
  <2> QED
    BY <2>1, <2>2 DEF StoredWasAccepted
<1>2. ASSUME NEW b \in Relay, posting, MayKeep(b, Head(batch)),
             UNCHANGED accepted
      PROVE  StoredWasAccepted'
  <2>1. Head(batch) \in Range(accepted)
    BY <1>2, HeadOfBatch, RangeSteps DEF OrderInv, OutboxTypeOK, Placed
  <2>2. \A c \in Relay : store'[c] \subseteq store[c] \cup {Head(batch)}
    BY <1>2 DEF MayKeep, OrderInv, OutboxTypeOK
  <2> QED
    BY <1>2, <2>1, <2>2 DEF StoredWasAccepted
<1>3. CASE UNCHANGED <<store, accepted>>
  BY <1>3 DEF StoredWasAccepted
<1>4. ASSUME NEW b \in Relay, PostStored(b)
      PROVE  StoredWasAccepted'
  BY <1>2, <1>4 DEF PostStored, MayKeep
<1> QED
  BY <1>1, <1>2, <1>3, <1>4
     DEF OutboxNext, FlushStep, StartFlush, NextRecipient, BeginPost,
         PostRejected,
         PostFailed, PostExhausted, GiveUpHead, EndRecipient, EndFlush,
         MergeBase, outboxVars

\* What the refinement rests on.
PromiseInv == OrderInv /\ ConfirmedOnce /\ StoredWasAccepted

\* A step that accepts nothing and confirms nothing leaves the same messages
\* owed, wherever it moves them.
LEMMA OwedUnchanged ==
  ASSUME PromiseInv, [OutboxNext]_outboxVars, UNCHANGED <<accepted, confirmed>>
  PROVE  OwedMsgs' = OwedMsgs
<1>1. Placed'
  BY PlacedStep DEF PromiseInv, OrderInv
<1>2. OwedMsgs' \subseteq Range(accepted)
  BY <1>1 DEF Placed, OwedMsgs
<1>3. OwedMsgs' \subseteq OwedMsgs
  BY <1>2, OwedStep DEF PromiseInv, OrderInv
<1>4. OwedMsgs \cap confirmed = {}
  BY DEF PromiseInv, ConfirmedOnce, NoRetryAfterConfirm
<1>5. OwedMsgs \subseteq OwedMsgs'
  BY <1>4, KeptStep DEF PromiseInv, OrderInv
<1> QED
  BY <1>3, <1>5

\* Membership in Stored, without its union.
LEMMA InStored ==
  /\ \A m : m \in Stored <=> \E b \in Relay : m \in store[b]
  /\ \A m : m \in Stored' <=> \E b \in Relay : m \in store'[b]
  BY DEF Stored

\* A POST adds at most its message to what the relays hold.
LEMMA StoredGrowth ==
  ASSUME OutboxTypeOK, NEW b \in Relay, NEW m
  PROVE  /\ MayKeep(b, m) => Stored' = Stored \/ Stored' = Stored \cup {m}
         /\ store' = [store EXCEPT ![b] = @ \cup {m}]
               => Stored' = Stored \cup {m}
<1>1. ASSUME store' = [store EXCEPT ![b] = @ \cup {m}]
      PROVE  Stored' = Stored \cup {m}
  <2>1. /\ \A c \in Relay : store'[c] \subseteq store[c] \cup {m}
        /\ \A c \in Relay : store[c] \subseteq store'[c]
        /\ m \in store'[b]
    BY <1>1 DEF OutboxTypeOK
  <2>2. \A n : n \in Stored' => n \in Stored \cup {m}
    BY <2>1, InStored
  <2>3. \A n : n \in Stored => n \in Stored'
    BY <2>1, InStored
  <2>4. m \in Stored'
    BY <2>1, InStored
  <2> QED
    BY <2>2, <2>3, <2>4
<1>2. store' = store => Stored' = Stored
  BY DEF Stored
<1> QED
  BY <1>1, <1>2 DEF MayKeep

\* Every step of the outbox is a step of what it promises, or changes nothing
\* that the promise speaks of: queue_message accepts, a POST whose answer is
\* accepted hands over, one whose answer is lost may deposit.
LEMMA PromiseStep ==
  PromiseInv /\ [OutboxNext]_outboxVars => [Promise!Next]_<<OwedMsgs, Stored>>
<1> SUFFICES ASSUME PromiseInv, [OutboxNext]_outboxVars
             PROVE  [Promise!Next]_<<OwedMsgs, Stored>>
  OBVIOUS
<1> USE DEF flushVars, historyVars
<1>0. OutboxTypeOK /\ Placed /\ StoredWasAccepted
  BY DEF PromiseInv, OrderInv
<1>1. ASSUME NEW m \in Msg, QueueMessage(m), ~Full(To[m])
      PROVE  Promise!Accept(m)
  <2> DEFINE q == pending[To[m]]
  <2>1. /\ accepted \in Seq(Msg)
        /\ To[m] \in Recipient
        /\ q \in Seq(Msg)
    BY <1>0, OutboxAssumption DEF OutboxTypeOK
  <2>2. /\ Range(Append(accepted, m)) = Range(accepted) \cup {m}
        /\ Range(Append(q, m)) = Range(q) \cup {m}
    <3> HIDE DEF q
    <3> QED
      BY <2>1, RangeSteps
  <2>3. /\ accepted' = Append(accepted, m)
        /\ pending'[To[m]] = Append(q, m)
        /\ m \notin Range(accepted)
        /\ UNCHANGED <<confirmed, store>>
    BY <1>0, <1>1, <2>1 DEF QueueMessage, OutboxTypeOK
  <2>4. m \notin OwedMsgs
    BY <1>0, <2>3 DEF Placed, OwedMsgs
  <2>5. m \notin Stored
    BY <1>0, <2>3, InStored DEF StoredWasAccepted
  <2>6. m \in OwedMsgs'
    BY <2>1, <2>2, <2>3 DEF OwedMsgs
  <2>7. Placed'
    BY PlacedStep DEF PromiseInv, OrderInv
  <2>8. OwedMsgs' \subseteq Range(accepted) \cup {m}
    BY <2>2, <2>3, <2>7 DEF Placed, OwedMsgs
  <2>9. OwedMsgs' \subseteq OwedMsgs \cup {m}
    BY <1>0, <2>8, OwedStep
  <2>10. OwedMsgs \subseteq OwedMsgs'
    <3>1. OwedMsgs \cap confirmed = {}
      BY DEF PromiseInv, ConfirmedOnce, NoRetryAfterConfirm
    <3> QED
      BY <2>3, <3>1, KeptStep DEF PromiseInv, OrderInv
  <2>11. Stored' = Stored
    BY <2>3 DEF Stored
  <2> QED
    BY <2>4, <2>5, <2>6, <2>9, <2>10, <2>11 DEF Promise!Accept
<1>2. ASSUME NEW b \in Relay, PostStored(b)
      PROVE  Promise!HandOver(Head(batch))
  <2> DEFINE h == Head(batch)
  <2>1. /\ posting
        /\ batch' = Tail(batch)
        /\ store' = [store EXCEPT ![b] = @ \cup {h}]
        /\ UNCHANGED <<pending, taken, failed>>
    BY <1>2 DEF PostStored
  <2>2. /\ Range(batch) = {h} \cup Range(batch')
        /\ h \in Msg
    BY <1>0, <2>1, HeadOfBatch, RangeSteps DEF OutboxTypeOK
  <2>3. /\ h \notin Range(failed) \cup Range(batch')
        /\ \A r \in Recipient : h \notin Range(pending[r]) \cup Range(taken[r])
    BY <2>1, HeadIsNowhereElse DEF PromiseInv
  <2>4. Stored' = Stored \cup {h}
    BY <1>0, <2>1, StoredGrowth
  <2>5. h \in OwedMsgs
    BY <2>2 DEF OwedMsgs
  <2>6. OwedMsgs' = OwedMsgs \ {h}
    BY <2>1, <2>2, <2>3 DEF OwedMsgs
  <2> QED
    BY <2>4, <2>5, <2>6 DEF Promise!HandOver
<1>3. ASSUME NEW b \in Relay, posting, MayKeep(b, Head(batch)),
             UNCHANGED <<accepted, confirmed>>
      PROVE  \/ Promise!Deposit(Head(batch))
             \/ UNCHANGED <<OwedMsgs, Stored>>
  <2>1. OwedMsgs' = OwedMsgs
    BY <1>3, OwedUnchanged
  <2>2. Head(batch) \in OwedMsgs
    BY <1>0, <1>3, HeadOfBatch, RangeSteps DEF OwedMsgs, OutboxTypeOK
  <2>3. Stored' = Stored \/ Stored' = Stored \cup {Head(batch)}
    BY <1>0, <1>3, StoredGrowth
  <2> QED
    BY <2>1, <2>2, <2>3 DEF Promise!Deposit
<1>4. ASSUME UNCHANGED <<store, accepted, confirmed>>
      PROVE  UNCHANGED <<OwedMsgs, Stored>>
  BY <1>4, OwedUnchanged DEF Stored
<1>5. \A m \in OwedMsgs : m \in Msg
  BY DEF OwedMsgs
<1>6. ASSUME NEW b \in Relay, PostStored(b)
      PROVE  Promise!Next
  <2>1. Head(batch) \in Msg
    BY <1>0, <1>6, HeadOfBatch DEF PostStored
  <2> QED
    BY <1>2, <1>6, <2>1 DEF Promise!Next
<1>7. ASSUME NEW b \in Relay, posting, MayKeep(b, Head(batch)),
             UNCHANGED <<accepted, confirmed>>
      PROVE  Promise!Next \/ UNCHANGED <<OwedMsgs, Stored>>
  <2>1. Head(batch) \in Msg
    BY <1>0, <1>7, HeadOfBatch
  <2> QED
    BY <1>3, <1>7, <2>1 DEF Promise!Next
<1>8. ASSUME NEW m \in Msg, QueueMessage(m)
      PROVE  Promise!Next \/ UNCHANGED <<OwedMsgs, Stored>>
  <2>1. CASE Full(To[m])
    BY <1>4, <1>8, <2>1 DEF QueueMessage
  <2>2. CASE ~Full(To[m])
    BY <1>1, <1>8, <2>2 DEF Promise!Next
  <2> QED
    BY <2>1, <2>2
<1> QED
  BY <1>4, <1>6, <1>7, <1>8
     DEF OutboxNext, FlushStep, StartFlush, NextRecipient, BeginPost,
         PostRejected,
         PostFailed, PostExhausted, GiveUpHead, EndRecipient, EndFlush,
         MergeBase, outboxVars

\* The invariant of the refinement.
LEMMA PromiseInvariant == OutboxSpec => []PromiseInv
<1>1. OutboxInit => ConfirmedOnce /\ StoredWasAccepted
  BY FS_EmptySet DEF OutboxInit, ConfirmedOnce, NoRetryAfterConfirm,
                     StoredWasAccepted
<1> QED
  BY <1>1, OrderInvariant, ConfirmOnceStep, StoredStep, PTL
     DEF OutboxSpec, PromiseInv

\* The outbox implements the safety half of StoreAndForward: through every
\* interleaving of callers, flushes, lost answers and failed POSTs an accepted
\* message stays owed until a relay holds it and says so.
THEOREM ImplementsPromise == OutboxSpec => Promise!Spec
<1>1. OutboxInit => Promise!Init
  <2> SUFFICES ASSUME OutboxInit
               PROVE  OwedMsgs = {} /\ Stored = {}
    BY DEF Promise!Init
  <2>1. Range(<<>>) = {}
    BY DEF Range
  <2>2. OwedMsgs = {}
    BY <2>1 DEF OutboxInit, OwedMsgs, NoMessages
  <2>3. Stored = {}
    BY DEF OutboxInit, Stored
  <2> QED
    BY <2>2, <2>3
<1> QED
  BY <1>1, PromiseInvariant, PromiseStep, PTL
     DEF OutboxSpec, Promise!Spec, Promise!vars

-----------------------------------------------------------------------------
(* The command that sends *)

\* Whatever the command and the rest of its process do is a step of the
\* outbox, so that the invariants above hold in it.
LEMMA SendStepIsStep ==
  SendNext => [OutboxNext]_outboxVars
  BY CliSendAssumption DEF SendNext, SendQueue, SendFlush, SendFlushed,
         SendReport, Others, OutboxNext, FlushStep

\* While a flush runs, its counters tell what became of the messages: without
\* a failure it has left none behind, with one it has kept the message, and
\* what it counts as delivered is confirmed.
FlushTells ==
  holder # None =>
    /\ stats.failed = 0 => failed = <<>> /\ pending = NoMessages
    /\ stats.failed # 0 => \/ failed # <<>>
                           \/ \E r \in Recipient : pending[r] # <<>>
    /\ stats.delivered # 0 => confirmed # {}

\* The counters keep telling the truth, since nobody queues beside a flush.
LEMMA FlushTellsStep ==
  OutboxTypeOK /\ FlushTells /\ [OutboxNext]_outboxVars => FlushTells'
<1> SUFFICES ASSUME OutboxTypeOK, FlushTells, [OutboxNext]_outboxVars
             PROVE  FlushTells'
  OBVIOUS
<1> USE DEF flushVars, historyVars
<1>1. ASSUME NEW m \in Msg, QueueMessage(m)
      PROVE  FlushTells'
  BY <1>1 DEF QueueMessage, CanQueue, FlushTells
<1>2. ASSUME NEW t \in Task, StartFlush(t)
      PROVE  FlushTells'
  <2>1. failed' = <<>>
    BY <1>2 DEF StartFlush, OutboxTypeOK
  <2> QED
    BY <1>2, <2>1 DEF StartFlush, LeftByTake, NoStats, FlushTells
<1>3. ASSUME NEW r \in Recipient, NextRecipient(r)
      PROVE  FlushTells'
  <2>1. failed = <<>>
    BY <1>3 DEF NextRecipient, OutboxTypeOK
  <2> QED
    BY <1>3, <2>1 DEF NextRecipient, FlushTells
<1>4. ASSUME NEW b \in Relay, PostStored(b)
      PROVE  FlushTells'
  <2>1. /\ stats'.failed = stats.failed
        /\ confirmed' # {}
        /\ UNCHANGED <<pending, holder, failed>>
    BY <1>4 DEF PostStored, OutboxTypeOK
  <2> QED
    BY <2>1 DEF FlushTells
<1>5. ASSUME posting, GiveUpHead
      PROVE  FlushTells'
  <2>1. failed' = Append(failed, Head(batch)) /\ failed' # <<>>
    BY <1>5, HeadOfBatch, AppendProperties
       DEF GiveUpHead, KeepFailed, OutboxTypeOK
  <2>2. /\ stats'.failed = stats.failed + 1
        /\ stats.failed \in Nat
        /\ stats'.delivered = stats.delivered
        /\ UNCHANGED <<pending, holder, confirmed>>
    BY <1>5 DEF GiveUpHead, OutboxTypeOK
  <2> QED
    BY <2>1, <2>2 DEF FlushTells
<1>6. CASE EndRecipient
  <2>1. /\ cur \in Recipient
        /\ holder # None
        /\ failed' = <<>>
        /\ UNCHANGED <<holder, stats, confirmed>>
        /\ failed = <<>> => pending' = pending
        /\ failed # <<>> => pending'[cur] # <<>>
    BY <1>6 DEF EndRecipient, Reinsert, OutboxTypeOK
  <2> QED
    BY <2>1 DEF FlushTells
<1>7. CASE EndFlush
  BY <1>7 DEF EndFlush, FlushTells
<1>8. CASE UNCHANGED <<pending, holder, failed, stats, confirmed>>
  BY <1>8 DEF FlushTells
<1> QED
  BY <1>1, <1>2, <1>3, <1>4, <1>5, <1>6, <1>7, <1>8
     DEF OutboxNext, FlushStep, BeginPost, PostRejected, PostFailed,
         PostExhausted,
         MergeBase, outboxVars

\* Where the command is tells what it may conclude from its last flush.
CommandTells ==
  /\ cmd \in {"start", "queued", "first", "again", "second", "sleep", "sent",
              "failed"}
  /\ cmd \notin {"start", "failed"} => Mine \in Range(accepted)
  /\ holder = Caller => cmd \in {"first", "second"}
  /\ cmd \in {"sleep", "sent"} => confirmed # {}
  /\ cmd = "failed" => Mine \in refused \/ OwedMsgs # {}

SendInv == PromiseInv /\ NothingLost /\ FlushTells /\ CommandTells

\* When a flush ends, what it has not delivered is in the outbox.
LEMMA AtTheEnd ==
  ASSUME SendInv, EndFlush
  PROVE  /\ FlushResult = "ok" /\ Mine \in Range(accepted) => confirmed # {}
         /\ FlushResult = "err" => OwedMsgs # {}
<1>1. /\ OutboxTypeOK /\ NothingLost
      /\ Range(<<>>) = {}
      /\ holder # None /\ cur = None /\ taken = NoMessages
      /\ batch = <<>> /\ failed = <<>>
  BY DEF SendInv, PromiseInv, OrderInv, OutboxTypeOK, EndFlush, AllDone, Range
<1>2. ASSUME pending = NoMessages
      PROVE  OwedMsgs = {}
  BY <1>1, <1>2 DEF OwedMsgs, NoMessages
<1>3. ASSUME NEW r \in Recipient, pending[r] # <<>>
      PROVE  OwedMsgs # {}
  <2>1. pending[r] \in Seq(Msg) /\ Head(pending[r]) \in Msg
    BY <1>1, <1>3, HeadTailProperties DEF OutboxTypeOK
  <2>2. Head(pending[r]) \in Range(pending[r])
    BY <1>3, <2>1, RangeSteps
  <2> QED
    BY <2>1, <2>2 DEF OwedMsgs
<1>4. /\ stats.failed \in Nat /\ stats.delivered \in Nat
  BY <1>1 DEF OutboxTypeOK
<1>5. FlushResult = "err" => stats.failed # 0
  BY <1>4 DEF FlushResult
<1>6. FlushResult = "ok" => stats.delivered # 0 \/ stats.failed = 0
  BY <1>4 DEF FlushResult
<1> QED
  BY <1>1, <1>2, <1>3, <1>5, <1>6 DEF SendInv, FlushTells, NothingLost

\* Each step of the command keeps what CommandTells says.
LEMMA CommandStep ==
  SendInv /\ [SendNext]_sendVars => CommandTells'
<1> SUFFICES ASSUME SendInv, [SendNext]_sendVars
             PROVE  CommandTells'
  OBVIOUS
<1> USE CliSendAssumption DEF flushVars, historyVars
<1>0. OutboxTypeOK /\ PromiseInv /\ CommandTells
  BY DEF SendInv, PromiseInv, OrderInv
<1>1. CASE SendQueue
  <2>1. /\ QueueMessage(Mine) /\ holder = None /\ holder' = holder
        /\ cmd' = IF Mine \in refused' THEN "failed" ELSE "queued"
    BY <1>1 DEF SendQueue, QueueMessage, CanQueue
  <2>2. Mine \notin refused' => Mine \in Range(accepted')
    <3>1. Range(Append(accepted, Mine)) = Range(accepted) \cup {Mine}
      BY <1>0, RangeSteps DEF OutboxTypeOK
    <3>2. Mine \notin refused' => accepted' = Append(accepted, Mine)
      BY <2>1 DEF QueueMessage
    <3> QED
      BY <3>1, <3>2
  <2>3. holder' # Caller
    BY <2>1, OutboxAssumption
  <2> QED
    BY <2>1, <2>2, <2>3 DEF CommandTells
<1>2. CASE SendFlush
  <2>1. /\ cmd \in {"queued", "again"}
        /\ cmd' \in {"first", "second"}
        /\ accepted' = accepted
    BY <1>2 DEF SendFlush, StartFlush
  <2> QED
    BY <1>0, <2>1 DEF CommandTells
<1>3. CASE SendFlushed
  <2>1. /\ EndFlush /\ holder = Caller /\ holder' = None
        /\ UNCHANGED <<pending, taken, failed, batch, accepted, refused,
                       confirmed>>
        /\ \/ cmd = "first" /\ cmd' = "again"
           \/ cmd # "first" /\ FlushResult = "err" /\ cmd' = "failed"
           \/ cmd # "first" /\ FlushResult # "err" /\ cmd' = "sleep"
    BY <1>3 DEF SendFlushed, EndFlush, SecondDecides
  <2>2. cmd \in {"first", "second"} /\ Mine \in Range(accepted)
    BY <1>0, <2>1 DEF CommandTells
  <2>3. /\ FlushResult # "err" => confirmed # {}
        /\ FlushResult = "err" => OwedMsgs # {}
    BY <2>1, <2>2, AtTheEnd DEF FlushResult
  <2>4. OwedMsgs' = OwedMsgs
    BY <2>1 DEF OwedMsgs
  <2>5. holder' # Caller
    BY <2>1, OutboxAssumption
  <2> QED
    BY <2>1, <2>2, <2>3, <2>4, <2>5 DEF CommandTells
<1>4. CASE SendReport
  <2>1. /\ cmd = "sleep" /\ cmd' = "sent"
        /\ UNCHANGED <<accepted, holder, confirmed>>
    BY <1>4 DEF SendReport, outboxVars
  <2> QED
    BY <1>0, <2>1 DEF CommandTells
<1>5. CASE Others
  <2>1. [OutboxNext]_outboxVars /\ cmd' = cmd /\ cmd # "failed"
    BY <1>5, SendStepIsStep DEF SendNext, Others, SendRunning
  <2>2. confirmed \subseteq confirmed'
    BY <2>1 DEF OutboxNext, FlushStep, QueueMessage, StartFlush, NextRecipient,
                BeginPost, PostStored, PostRejected, PostFailed, GiveUpHead,
                PostExhausted, EndRecipient, EndFlush, MergeBase, outboxVars
  <2>3. Range(accepted) \subseteq Range(accepted')
    <3>1. \A m \in Msg :
            Range(Append(accepted, m)) = Range(accepted) \cup {m}
      BY <1>0, RangeSteps DEF OutboxTypeOK
    <3>2. \/ accepted' = accepted
          \/ \E m \in Msg : accepted' = Append(accepted, m)
      BY <2>1 DEF OutboxNext, FlushStep, QueueMessage, StartFlush,
                  NextRecipient,
                  BeginPost, PostStored, PostRejected, PostFailed, GiveUpHead,
                  PostExhausted, EndRecipient, EndFlush, MergeBase, outboxVars
    <3> QED
      BY <3>1, <3>2
  <2>4. holder' = Caller => holder = Caller
    <3>1. None # Caller
      BY OutboxAssumption
    <3> QED
      BY <1>5, <3>1
         DEF Others, FlushStep, QueueMessage, StartFlush, NextRecipient,
             BeginPost, PostStored, PostRejected, PostFailed, GiveUpHead,
             PostExhausted, EndRecipient, EndFlush, MergeBase
  <2> QED
    BY <1>0, <2>1, <2>2, <2>3, <2>4 DEF CommandTells
<1>6. CASE UNCHANGED sendVars
  <2>1. UNCHANGED <<cmd, accepted, refused, confirmed, holder, pending, taken,
                    failed, batch>>
    BY <1>6 DEF sendVars, outboxVars
  <2>2. OwedMsgs' = OwedMsgs
    BY <2>1 DEF OwedMsgs
  <2> QED
    BY <1>0, <2>1, <2>2 DEF CommandTells
<1> QED
  BY <1>1, <1>2, <1>3, <1>4, <1>5, <1>6 DEF SendNext

\* The command in its process is an outbox like any other.
LEMMA SendIsOutbox == SendSpec => OutboxSpec
<1>1. SendInit => OutboxInit
  BY DEF SendInit
<1>2. [SendNext]_sendVars => [OutboxNext]_outboxVars
  BY SendStepIsStep DEF sendVars
<1> QED
  BY <1>1, <1>2, PTL DEF SendSpec, OutboxSpec

\* So that what the outbox promises, the command promises too.
THEOREM CommandKeepsThePromise == SendSpec => Promise!Spec
  BY SendIsOutbox, ImplementsPromise, PTL

\* The invariant of the command and its process.
LEMMA SendInvariant ==
  SendSpec => []SendInv
<1>1. [SendNext]_sendVars => [OutboxNext]_outboxVars
  BY SendStepIsStep DEF sendVars
<1>2. SendInit => FlushTells /\ CommandTells
  BY OutboxAssumption, CliSendAssumption DEF SendInit, OutboxInit, FlushTells,
                                             CommandTells
<1>3. PromiseInv => OutboxTypeOK
  BY DEF PromiseInv, OrderInv
<1> QED
  BY <1>1, <1>2, <1>3, SendIsOutbox, PromiseInvariant, NothingIsLost,
     FlushTellsStep, CommandStep, PTL
  DEF SendSpec, SendInv

\* "Message sent!" for a message no relay confirmed is no loss on the way: the
\* message waits for a retry, and another was stored in its place.
THEOREM ReportIsExplained ==
  SendSpec => []FalseReportNeedsTraffic
<1>1. SendInv => FalseReportNeedsTraffic
  BY DEF SendInv, CommandTells, NothingLost, FalseReportNeedsTraffic
<1> QED
  BY <1>1, SendInvariant, PTL

\* "Relay store failed" for a message a relay confirmed means that the flush
\* which decided failed on another message, which is still owed.
THEOREM AlarmIsExplained ==
  SendSpec => []FalseAlarmNeedsTraffic
<1>1. SendInv => FalseAlarmNeedsTraffic
  <2> SUFFICES ASSUME SendInv, cmd = "failed", Mine \in confirmed
               PROVE  OwedMsgs \ {Mine} # {}
    BY DEF FalseAlarmNeedsTraffic
  <2>1. Mine \notin OwedMsgs /\ Mine \notin refused
    BY DEF SendInv, PromiseInv, OrderInv, Placed, ConfirmedOnce,
           NoRetryAfterConfirm
  <2> QED
    BY <2>1 DEF SendInv, CommandTells
<1> QED
  BY <1>1, SendInvariant, PTL
=============================================================================
