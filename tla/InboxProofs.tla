----------------------------- MODULE InboxProofs -----------------------------
(***************************************************************************)
(* What the receiving side promises, for any messages, relays, polling and *)
(* processing tasks: the types; that nothing acknowledged is out of the    *)
(* user's reach while the process runs; and that a message is handled      *)
(* once, as long as seen_ids is not pruned.                                *)
(***************************************************************************)
EXTENDS CliRecv, FiniteSetTheorems, TLAPS

-----------------------------------------------------------------------------
(***************************************************************************)
(* The types.  The set of seen ids is finite, and pruning keeps it within  *)
(* its cap.                                                                *)
(***************************************************************************)

InboxTypes == InboxTypeOK /\ IsFiniteSet(seen)

LEMMA NoneIsNoEnvelope == None \notin Envelope /\ None \notin Shown
                          /\ None \notin Base
  BY InboxAssumption

LEMMA NothingIsCounts == Nothing \in Counts
  BY DEF Nothing, Counts

LEMMA PlusIsCounts ==
  ASSUME NEW p \in Counts, NEW q \in Counts
  PROVE  Plus(p, q) \in Counts
BY DEF Plus, Counts

LEMMA OneMoreIsCounts ==
  ASSUME NEW p \in Counts, NEW S
  PROVE  OneMore(p, S) \in Counts
BY DEF OneMore, Counts

\* seen_ids takes an id and stays within its cap.
LEMMA RememberBounds ==
  ASSUME InboxTypes, NEW m \in Envelope \ Opaque, Remember(m)
  PROVE  /\ seen' \in SUBSET (Envelope \ Opaque)
         /\ IsFiniteSet(seen') /\ Cardinality(seen') <= SeenCap
         /\ seen' \subseteq seen \cup {m}
<1> DEFINE more == seen \cup {m}
<1>1. /\ IsFiniteSet(more) /\ more \subseteq Envelope \ Opaque
      /\ Cardinality(more) \in Nat /\ Cardinality(more) <= SeenCap + 1
      /\ SeenCap \in Nat /\ SeenPrune \in Nat /\ SeenPrune >= 1
  <2>1. IsFiniteSet(seen) /\ Cardinality(seen) <= SeenCap
    BY DEF InboxTypes, InboxTypeOK
  <2>2. /\ IsFiniteSet(more) /\ Cardinality(more) \in Nat
        /\ Cardinality(seen) \in Nat
        /\ \/ Cardinality(more) = Cardinality(seen)
           \/ Cardinality(more) = Cardinality(seen) + 1
    BY <2>1, FS_AddElement, FS_CardinalityType
  <2>3. more \subseteq Envelope \ Opaque
    BY DEF InboxTypes, InboxTypeOK
  <2> HIDE DEF more
  <2> QED
    BY <2>1, <2>2, <2>3, InboxAssumption
<1> HIDE DEF more
<1>2. CASE Cardinality(more) > SeenCap
  <2>1. PICK X \in kSubset(SeenPrune, more) : seen' = more \ X
    BY <1>2 DEF Remember, more
  <2>2. X \subseteq more /\ Cardinality(X) = SeenPrune
    BY <2>1 DEF kSubset
  <2>3. /\ IsFiniteSet(seen')
        /\ Cardinality(seen') = Cardinality(more) - Cardinality(more \cap X)
    BY <1>1, <2>1, FS_Difference
  <2>4. more \cap X = X
    BY <2>2
  <2>5. Cardinality(seen') = Cardinality(more) - SeenPrune
    BY <2>2, <2>3, <2>4
  <2>6. Cardinality(seen') <= SeenCap
    BY <1>1, <2>5
  <2> QED
    BY <1>1, <2>1, <2>3, <2>6 DEF more
<1>3. CASE ~(Cardinality(more) > SeenCap)
  <2>1. seen' = more
    BY <1>3 DEF Remember, more
  <2> QED
    BY <1>1, <1>3, <2>1 DEF more
<1> QED
  BY <1>2, <1>3

\* A copy that a worker takes leaves its drained ones.
LEMMA TakeCopyTypes ==
  ASSUME InboxTypes, NEW w \in Worker, NEW m \in Envelope, TakeCopy(w, m)
  PROVE  drained' \in [Worker -> Counts]
<1>1. /\ drained[w] \in Counts /\ drained[w][m] > 0
      /\ drained' = [drained EXCEPT ![w][m] = @ - 1]
  BY DEF TakeCopy, InboxTypes, InboxTypeOK
<1>2. drained[w][m] - 1 \in Nat
  BY <1>1 DEF Counts
<1>3. [drained[w] EXCEPT ![m] = @ - 1] \in Counts
  BY <1>1, <1>2 DEF Counts
<1> QED
  BY <1>1, <1>3 DEF InboxTypes, InboxTypeOK

LEMMA InboxTypesStep ==
  ASSUME InboxTypes, [InboxNext]_inboxVars
  PROVE  InboxTypes'
<1> USE DEF netVars, pollVars, wsVars, workVars
<1>1. ASSUME NEW b \in Base, NEW m \in Envelope, RelayStores(b, m)
      PROVE  InboxTypes'
  <2>1. copies' \in [Envelope -> 0 .. MaxCopies]
    <3>1. copies[m] + 1 \in 0 .. MaxCopies
      BY <1>1, InboxAssumption DEF RelayStores, InboxTypes, InboxTypeOK
    <3> QED
      BY <1>1, <3>1 DEF RelayStores, InboxTypes, InboxTypeOK
  <2>2. mailbox' \in [Base -> SUBSET Envelope]
    BY <1>1 DEF RelayStores, InboxTypes, InboxTypeOK
  <2> QED
    BY <1>1, <2>1, <2>2 DEF RelayStores, InboxTypes, InboxTypeOK
<1>2. ASSUME NEW p \in Poller, NEW A \in SUBSET Base, Fetch(p, A)
      PROVE  InboxTypes'
  <2>1. responses' \in [Poller -> [Base -> SUBSET Envelope]]
    BY <1>2 DEF Fetch, InboxTypes, InboxTypeOK
  <2> QED
    BY <1>2, <2>1 DEF Fetch, InboxTypes, InboxTypeOK
<1>3. ASSUME NEW p \in Poller, NEW b \in Base, TakeResponse(p, b)
      PROVE  InboxTypes'
  <2>1. /\ unread' \in Counts
        /\ responses' \in [Poller -> [Base -> SUBSET Envelope]]
    BY <1>3, OneMoreIsCounts DEF TakeResponse, Pushed, InboxTypes, InboxTypeOK
  <2>2. /\ acking' = [acking EXCEPT ![p] = b]
        /\ ackIds' = [ackIds EXCEPT ![p] = responses[p][b]]
        /\ responses[p][b] # {} /\ responses[p][b] \in SUBSET Envelope
        /\ UNCHANGED <<netVars, wsVars, workVars, inbox, shown>>
    BY <1>3 DEF TakeResponse, InboxTypes, InboxTypeOK
  <2>3. \A q \in Poller : ackIds'[q] # {} <=> acking'[q] # None
    BY <2>2, NoneIsNoEnvelope DEF InboxTypes, InboxTypeOK
  <2> QED
    BY <2>1, <2>2, <2>3 DEF InboxTypes, InboxTypeOK
<1>4. ASSUME NEW p \in Poller, NEW reached \in BOOLEAN, AckEnds(p, reached)
      PROVE  InboxTypes'
  <2>1. /\ acking' = [acking EXCEPT ![p] = None]
        /\ ackIds' = [ackIds EXCEPT ![p] = {}]
        /\ \/ mailbox' = mailbox
           \/ mailbox' = [mailbox EXCEPT ![acking[p]] = @ \ ackIds[p]]
        /\ UNCHANGED <<copies, responses, wsVars, unread, workVars, inbox,
                       shown>>
    BY <1>4 DEF AckEnds, ForgottenIds
  <2>2. mailbox' \in [Base -> SUBSET Envelope]
    BY <2>1 DEF InboxTypes, InboxTypeOK
  <2>3. \A q \in Poller : ackIds'[q] # {} <=> acking'[q] # None
    BY <2>1 DEF InboxTypes, InboxTypeOK
  <2> QED
    BY <2>1, <2>2, <2>3 DEF InboxTypes, InboxTypeOK
<1>5. ASSUME NEW b \in Base, NEW m \in Envelope, WsPush(b, m)
      PROVE  InboxTypes'
  BY <1>5, OneMoreIsCounts DEF WsPush, InboxTypes, InboxTypeOK
<1>6. ASSUME NEW m \in Envelope, NEW A \in AckedBases, WsAckEnds(m, A)
      PROVE  InboxTypes'
  <2>1. mailbox' \in [Base -> SUBSET Envelope]
    BY <1>6 DEF WsAckEnds, InboxTypes, InboxTypeOK
  <2> QED
    BY <1>6, <2>1 DEF WsAckEnds, InboxTypes, InboxTypeOK
<1>7. ASSUME NEW w \in Worker, Drain(w)
      PROVE  InboxTypes'
  <2>1. Plus(wsQueue, unread) \in Counts
    BY PlusIsCounts DEF InboxTypes, InboxTypeOK
  <2> QED
    BY <1>7, <2>1, NothingIsCounts DEF Drain, InboxTypes, InboxTypeOK
<1>8. ASSUME NEW w \in Worker, NEW m \in Envelope, DropCopy(w, m)
      PROVE  InboxTypes'
  <2>1. drained' \in [Worker -> Counts]
    BY <1>8, TakeCopyTypes DEF DropCopy
  <2> QED
    BY <1>8, <2>1 DEF DropCopy, TakeCopy, InboxTypes, InboxTypeOK
<1>9. ASSUME NEW w \in Worker, NEW m \in Envelope, Handle(w, m)
      PROVE  InboxTypes'
  <2>1. drained' \in [Worker -> Counts]
    BY <1>9, TakeCopyTypes DEF Handle
  <2>2. /\ seen' \in SUBSET (Envelope \ Opaque) /\ IsFiniteSet(seen')
        /\ Cardinality(seen') <= SeenCap
    BY <1>9, RememberBounds DEF Handle
  <2>3. handling' \in [Worker -> Shown \cup {None}]
    BY <1>9 DEF Handle, InboxTypes, InboxTypeOK
  <2> QED
    BY <1>9, <2>1, <2>2, <2>3 DEF Handle, TakeCopy, InboxTypes, InboxTypeOK
<1>10. ASSUME NEW w \in Worker, EnterInbox(w)
       PROVE  InboxTypes'
  BY <1>10, OneMoreIsCounts DEF EnterInbox, InboxTypes, InboxTypeOK
<1>11. CASE ReceiveAll
  BY <1>11, PlusIsCounts, NothingIsCounts
  DEF ReceiveAll, InboxTypes, InboxTypeOK
<1>12. CASE UNCHANGED inboxVars
  BY <1>12 DEF inboxVars, InboxTypes, InboxTypeOK
<1> QED
  BY <1>1, <1>2, <1>3, <1>4, <1>5, <1>6, <1>7, <1>8, <1>9, <1>10, <1>11, <1>12
  DEF InboxNext, Poll, WebSocket, Process

LEMMA InboxTypesInit == InboxInit => InboxTypes
<1> SUFFICES ASSUME InboxInit PROVE InboxTypes
  OBVIOUS
<1>1. IsFiniteSet(seen) /\ Cardinality(seen) = 0 /\ SeenCap \in Nat
  BY FS_EmptySet, InboxAssumption DEF InboxInit
<1>2. copies \in [Envelope -> 0 .. MaxCopies]
  BY InboxAssumption DEF InboxInit, Nothing
<1>3. responses \in [Poller -> [Base -> SUBSET Envelope]]
  BY DEF InboxInit, NoResponse
<1> QED
  BY <1>1, <1>2, <1>3, NothingIsCounts DEF InboxInit, InboxTypes, InboxTypeOK

-----------------------------------------------------------------------------
(***************************************************************************)
(* Nothing is lost while the process runs.  An /ack in progress names only *)
(* messages the process holds or has shown, and an id is in seen_ids only  *)
(* while its message is being handled, waits in the inbox, or was shown:   *)
(* so neither an /ack nor a dropped copy takes the last trace of one.      *)
(***************************************************************************)

Here(m) == InProcess(m) \/ shown[m] > 0

Kept(m) == \/ \E w \in Worker : handling[w] = m
           \/ inbox[m] > 0
           \/ shown[m] > 0

Held == /\ \A p \in Poller : \A m \in ackIds[p] \cap Shown : Here(m)
        /\ \A m \in wsAcks \cap Shown : Here(m)
        /\ \A m \in seen \cap Shown : Kept(m)
        /\ StoredIsHeld

\* What the counts of a message become.
LEMMA Sums ==
  ASSUME NEW m \in Envelope
  PROVE  /\ Nothing[m] = 0
         /\ \A p \in Counts : p[m] \in Nat
         /\ \A p, q \in Counts : Plus(p, q)[m] = p[m] + q[m]
         /\ \A p \in Counts : \A S :
              OneMore(p, S)[m] = IF m \in S THEN p[m] + 1 ELSE p[m]
BY DEF Nothing, Plus, OneMore, Counts

LEMMA KeptIsHere == \A m : Kept(m) => Here(m)
  BY DEF Kept, Here, InProcess

\* A message that was handled stays in the inbox or shown.
LEMMA KeptStays ==
  ASSUME InboxTypes, [InboxNext]_inboxVars, NEW m \in Shown, Kept(m)
  PROVE  Kept(m)'
<1> USE DEF netVars, pollVars, wsVars, workVars
<1>0. /\ m \in Envelope /\ m # None
      /\ inbox \in Counts /\ shown \in Counts
      /\ handling \in [Worker -> Shown \cup {None}]
  BY InboxAssumption DEF InboxTypes, InboxTypeOK
<1>1. ASSUME NEW w \in Worker, EnterInbox(w)
      PROVE  Kept(m)'
  <2>1. /\ handling' = [handling EXCEPT ![w] = None] /\ shown' = shown
        /\ inbox' = OneMore(inbox, {handling[w]})
    BY <1>1 DEF EnterInbox
  <2>2. /\ inbox'[m] = IF m = handling[w] THEN inbox[m] + 1 ELSE inbox[m]
        /\ inbox[m] \in Nat
    BY <1>0, <2>1, Sums
  <2> QED
    BY <1>0, <2>1, <2>2 DEF Kept
<1>2. CASE ReceiveAll
  <2>1. /\ shown'[m] = shown[m] + inbox[m] /\ handling' = handling
        /\ shown[m] \in Nat /\ inbox[m] \in Nat
    BY <1>0, <1>2, Sums DEF ReceiveAll
  <2> QED
    BY <2>1 DEF Kept
<1>3. ASSUME NEW w \in Worker, NEW n \in Envelope, Handle(w, n)
      PROVE  Kept(m)'
  <2>1. /\ inbox' = inbox /\ shown' = shown /\ handling[w] = None
        /\ handling' = IF n \in Shown THEN [handling EXCEPT ![w] = n]
                       ELSE handling
    BY <1>3 DEF Handle, TakeCopy
  <2> QED
    BY <1>0, <2>1 DEF Kept
<1>4. ASSUME UNCHANGED <<handling, inbox, shown>>
      PROVE  Kept(m)'
  BY <1>4 DEF Kept
<1>5. ASSUME NEW b \in Base, NEW n \in Envelope, RelayStores(b, n)
      PROVE  Kept(m)'
  BY <1>4, <1>5 DEF RelayStores
<1>6. ASSUME NEW p \in Poller, Poll(p)
      PROVE  Kept(m)'
  BY <1>4, <1>6 DEF Poll, Fetch, TakeResponse, AckEnds
<1>7. CASE WebSocket
  BY <1>4, <1>7 DEF WebSocket, WsPush, WsAckEnds
<1>8. ASSUME NEW w \in Worker, Drain(w)
      PROVE  Kept(m)'
  BY <1>4, <1>8 DEF Drain
<1>9. ASSUME NEW w \in Worker, NEW n \in Envelope, DropCopy(w, n)
      PROVE  Kept(m)'
  BY <1>4, <1>9 DEF DropCopy, TakeCopy
<1>10. CASE UNCHANGED inboxVars
  BY <1>4, <1>10 DEF inboxVars
<1> QED
  BY <1>1, <1>2, <1>3, <1>5, <1>6, <1>7, <1>8, <1>9, <1>10
  DEF InboxNext, Process

\* What the process holds for the inbox it holds until the user saw it.
LEMMA HereStays ==
  ASSUME InboxTypes, Held, [InboxNext]_inboxVars, NEW m \in Shown, Here(m)
  PROVE  Here(m)'
<1> USE DEF netVars, pollVars, wsVars, workVars
<1>0. /\ m \in Envelope /\ m # None
      /\ inbox \in Counts /\ shown \in Counts
      /\ wsQueue \in Counts /\ unread \in Counts
      /\ drained \in [Worker -> Counts]
      /\ handling \in [Worker -> Shown \cup {None}]
  BY InboxAssumption DEF InboxTypes, InboxTypeOK
<1>k. Kept(m) => Here(m)'
  BY KeptStays DEF Kept, Here, InProcess
<1>w. CASE ~Kept(m)
  <2>1. \/ wsQueue[m] > 0 \/ unread[m] > 0
        \/ \E w \in Worker : drained[w][m] > 0
    BY <1>w DEF Kept, Here, InProcess
  <2>2. ASSUME wsQueue'[m] >= wsQueue[m], unread'[m] >= unread[m],
               drained' = drained
        PROVE  Here(m)'
    <3>1. /\ wsQueue[m] \in Nat /\ unread[m] \in Nat
      BY <1>0, Sums
    <3>2. CASE wsQueue[m] > 0
      <4>1. wsQueue'[m] > 0 \/ wsQueue'[m] \notin Int
        BY <2>2, <3>1, <3>2
      <4>2. wsQueue'[m] \in Nat
        <5>1. InboxTypes'
          BY InboxTypesStep
        <5> QED
          BY <1>0, <5>1 DEF InboxTypes, InboxTypeOK, Counts
      <4> QED
        BY <4>1, <4>2 DEF Here, InProcess
    <3>3. CASE unread[m] > 0
      <4>2. unread'[m] \in Nat
        <5>1. InboxTypes'
          BY InboxTypesStep
        <5> QED
          BY <1>0, <5>1 DEF InboxTypes, InboxTypeOK, Counts
      <4> QED
        BY <2>2, <3>1, <3>3, <4>2 DEF Here, InProcess
    <3>4. CASE \E w \in Worker : drained[w][m] > 0
      BY <2>2, <3>4 DEF Here, InProcess
    <3> QED
      BY <2>1, <3>2, <3>3, <3>4
  <2>3. ASSUME UNCHANGED <<wsQueue, unread, drained>>
        PROVE  Here(m)'
    <3>1. wsQueue[m] \in Nat /\ unread[m] \in Nat
      BY <1>0, Sums
    <3>2. wsQueue'[m] >= wsQueue[m] /\ unread'[m] >= unread[m]
      BY <2>3, <3>1
    <3> QED
      BY <2>2, <2>3, <3>2
  <2>4. ASSUME NEW p \in Poller, NEW b \in Base, TakeResponse(p, b)
        PROVE  Here(m)'
    <3>1. /\ unread' = OneMore(unread, responses[p][b])
          /\ wsQueue' = wsQueue /\ drained' = drained
      BY <2>4 DEF TakeResponse, Pushed
    <3>2. /\ unread'[m] >= unread[m] /\ wsQueue'[m] >= wsQueue[m]
      BY <1>0, <3>1, Sums
    <3> QED
      BY <2>2, <3>1, <3>2
  <2>5. ASSUME NEW b \in Base, NEW n \in Envelope, WsPush(b, n)
        PROVE  Here(m)'
    <3>1. /\ wsQueue' = OneMore(wsQueue, {n})
          /\ unread' = unread /\ drained' = drained
      BY <2>5 DEF WsPush
    <3>2. /\ unread'[m] >= unread[m] /\ wsQueue'[m] >= wsQueue[m]
      BY <1>0, <3>1, Sums
    <3> QED
      BY <2>2, <3>1, <3>2
  <2>6. ASSUME NEW w \in Worker, Drain(w)
        PROVE  Here(m)'
    <3>1. /\ drained' = [drained EXCEPT ![w] = Plus(wsQueue, unread)]
          /\ drained[w] = Nothing
      BY <2>6 DEF Drain
    <3>2. /\ drained'[w][m] = wsQueue[m] + unread[m]
          /\ wsQueue[m] \in Nat /\ unread[m] \in Nat
      <4>1. drained'[w] = Plus(wsQueue, unread)
        BY <1>0, <3>1
      <4>2. Plus(wsQueue, unread)[m] = wsQueue[m] + unread[m]
        BY <1>0, Sums
      <4> QED
        BY <1>0, <4>1, <4>2, Sums
    <3>3. \A v \in Worker : drained[v][m] > 0 => drained'[v][m] > 0
      BY <1>0, <3>1, Sums
    <3>4. \E v \in Worker : drained'[v][m] > 0
      BY <2>1, <3>2, <3>3
    <3> QED
      BY <3>4 DEF Here, InProcess
  <2>7. ASSUME NEW w \in Worker, NEW n \in Envelope, TakeCopy(w, n), n # m
        PROVE  Here(m)'
    <3>1. /\ drained' = [drained EXCEPT ![w][n] = @ - 1]
          /\ wsQueue' = wsQueue /\ unread' = unread
      BY <2>7 DEF TakeCopy
    <3>2. \A v \in Worker : drained'[v][m] = drained[v][m]
      BY <1>0, <2>7, <3>1 DEF Counts
    <3> QED
      BY <2>1, <3>1, <3>2 DEF Here, InProcess
  <2>8. ASSUME NEW w \in Worker, Handle(w, m)
        PROVE  Here(m)'
    <3>1. handling' = [handling EXCEPT ![w] = m]
      BY <2>8 DEF Handle
    <3>2. handling'[w] = m
      BY <1>0, <3>1
    <3> QED
      BY <3>2 DEF Here, InProcess
  <2>9. ASSUME NEW w \in Worker, NEW n \in Envelope, Handle(w, n)
        PROVE  Here(m)'
    <3>1. TakeCopy(w, n)
      BY <2>9 DEF Handle
    <3> QED
      BY <2>7, <2>8, <2>9, <3>1
  <2>10. ASSUME NEW w \in Worker, NEW n \in Envelope, DropCopy(w, n)
         PROVE  Here(m)'
    <3>1. TakeCopy(w, n) /\ (n \in Opaque \/ n \in seen)
      BY <2>10 DEF DropCopy, AlreadySeen
    <3>2. m \notin Opaque /\ m \notin seen
      BY <1>w, InboxAssumption DEF Held
    <3> QED
      BY <2>7, <3>1, <3>2
  <2>11. ASSUME NEW b \in Base, NEW n \in Envelope, RelayStores(b, n)
         PROVE  Here(m)'
    BY <2>3, <2>11 DEF RelayStores
  <2>12. ASSUME NEW p \in Poller, NEW A \in SUBSET Base, Fetch(p, A)
         PROVE  Here(m)'
    BY <2>3, <2>12 DEF Fetch
  <2>13. ASSUME NEW p \in Poller, NEW reached \in BOOLEAN,
                AckEnds(p, reached)
         PROVE  Here(m)'
    BY <2>3, <2>13 DEF AckEnds
  <2>14. ASSUME NEW n \in Envelope, NEW A \in AckedBases, WsAckEnds(n, A)
         PROVE  Here(m)'
    BY <2>3, <2>14 DEF WsAckEnds
  <2>15. ASSUME NEW w \in Worker, EnterInbox(w)
         PROVE  Here(m)'
    BY <2>3, <2>15 DEF EnterInbox
  <2>16. CASE ReceiveAll
    BY <2>3, <2>16 DEF ReceiveAll
  <2>17. CASE UNCHANGED inboxVars
    BY <2>3, <2>17 DEF inboxVars
  <2> QED
    BY <2>4, <2>5, <2>6, <2>9, <2>10, <2>11, <2>12, <2>13, <2>14, <2>15,
       <2>16, <2>17
    DEF InboxNext, Poll, WebSocket, Process
<1> QED
  BY <1>k, <1>w

LEMMA HeldStep ==
  ASSUME InboxTypes, Held, [InboxNext]_inboxVars
  PROVE  Held'
<1> USE DEF netVars, pollVars, wsVars, workVars
<1>0. /\ \A m \in Shown : Here(m) => Here(m)'
      /\ \A m \in Shown : Kept(m) => Kept(m)'
      /\ InboxTypes'
  BY HereStays, KeptStays, InboxTypesStep
<1>1. /\ Shown \subseteq Envelope /\ None \notin Shown
      /\ mailbox \in [Base -> SUBSET Envelope]
      /\ copies \in [Envelope -> Nat]
      /\ ackIds \in [Poller -> SUBSET Envelope]
      /\ responses \in [Poller -> [Base -> SUBSET Envelope]]
      /\ unread \in Counts /\ wsQueue \in Counts
      /\ handling \in [Worker -> Shown \cup {None}]
  BY InboxAssumption DEF InboxTypes, InboxTypeOK
<1>2. ASSUME NEW p \in Poller, NEW b \in Base, TakeResponse(p, b),
             NEW m \in responses[p][b] \cap Shown
      PROVE  Here(m)'
  <2>1. unread' = OneMore(unread, responses[p][b])
    BY <1>2 DEF TakeResponse, Pushed
  <2>2. unread'[m] = unread[m] + 1 /\ unread[m] \in Nat
    BY <1>1, <2>1, Sums
  <2> QED
    BY <2>2 DEF Here, InProcess
<1>3. \A p \in Poller : \A m \in ackIds'[p] \cap Shown : Here(m)'
  <2>1. ASSUME NEW p \in Poller, NEW b \in Base, TakeResponse(p, b)
        PROVE  ackIds' = [ackIds EXCEPT ![p] = responses[p][b]]
    BY <2>1 DEF TakeResponse
  <2>2. ASSUME NEW p \in Poller, NEW reached \in BOOLEAN, AckEnds(p, reached)
        PROVE  ackIds' = [ackIds EXCEPT ![p] = {}]
    BY <2>2 DEF AckEnds, ForgottenIds
  <2>3. ASSUME NEW p \in Poller, NEW A \in SUBSET Base, Fetch(p, A)
        PROVE  ackIds' = ackIds
    BY <2>3 DEF Fetch
  <2>4. ASSUME NEW w \in Worker, Process(w)
        PROVE  ackIds' = ackIds
    BY <2>4 DEF Process, Drain, DropCopy, Handle, TakeCopy, EnterInbox
  <2>5. ASSUME \/ \E b \in Base, m \in Envelope : RelayStores(b, m)
               \/ WebSocket \/ ReceiveAll \/ UNCHANGED inboxVars
        PROVE  ackIds' = ackIds
    BY <2>5 DEF RelayStores, WebSocket, WsPush, WsAckEnds, ReceiveAll,
                inboxVars
  <2>6. ASSUME ackIds' = ackIds
        PROVE  \A p \in Poller : \A m \in ackIds'[p] \cap Shown : Here(m)'
    BY <1>0, <2>6 DEF Held
  <2>7. ASSUME NEW p \in Poller, NEW b \in Base, TakeResponse(p, b)
        PROVE  \A q \in Poller : \A m \in ackIds'[q] \cap Shown : Here(m)'
    <3>1. \A q \in Poller :
            ackIds'[q] = IF q = p THEN responses[p][b] ELSE ackIds[q]
      BY <1>1, <2>1, <2>7
    <3> QED
      BY <1>0, <1>2, <2>7, <3>1 DEF Held
  <2>8. ASSUME NEW p \in Poller, NEW reached \in BOOLEAN, AckEnds(p, reached)
        PROVE  \A q \in Poller : \A m \in ackIds'[q] \cap Shown : Here(m)'
    <3>1. \A q \in Poller : ackIds'[q] = IF q = p THEN {} ELSE ackIds[q]
      BY <1>1, <2>2, <2>8
    <3> QED
      BY <1>0, <3>1 DEF Held
  <2> QED
    BY <2>3, <2>4, <2>5, <2>6, <2>7, <2>8 DEF InboxNext, Poll
<1>4. \A m \in wsAcks' \cap Shown : Here(m)'
  <2>1. ASSUME NEW b \in Base, NEW n \in Envelope, WsPush(b, n), n \in Shown
        PROVE  Here(n)'
    <3>1. wsQueue' = OneMore(wsQueue, {n})
      BY <2>1 DEF WsPush
    <3>2. wsQueue'[n] = wsQueue[n] + 1 /\ wsQueue[n] \in Nat
      BY <1>1, <3>1, Sums
    <3> QED
      BY <3>2 DEF Here, InProcess
  <2>2. ASSUME NEW b \in Base, NEW n \in Envelope, WsPush(b, n)
        PROVE  \A m \in wsAcks' \cap Shown : Here(m)'
    <3>1. wsAcks' = wsAcks \cup {n}
      BY <2>2 DEF WsPush
    <3> QED
      BY <1>0, <2>1, <2>2, <3>1 DEF Held
  <2>3. ASSUME wsAcks' \subseteq wsAcks
        PROVE  \A m \in wsAcks' \cap Shown : Here(m)'
    BY <1>0, <2>3 DEF Held
  <2>4. ASSUME NEW n \in Envelope, NEW A \in AckedBases, WsAckEnds(n, A)
        PROVE  wsAcks' \subseteq wsAcks
    BY <2>4 DEF WsAckEnds
  <2>5. ASSUME \/ \E b \in Base, m \in Envelope : RelayStores(b, m)
               \/ \E p \in Poller : Poll(p)
               \/ ReceiveAll \/ UNCHANGED inboxVars
        PROVE  wsAcks' = wsAcks
    BY <2>5 DEF RelayStores, Poll, Fetch, TakeResponse, AckEnds, ReceiveAll,
                inboxVars
  <2>6. ASSUME NEW w \in Worker, Process(w)
        PROVE  wsAcks' = wsAcks
    BY <2>6 DEF Process, Drain, DropCopy, Handle, TakeCopy, EnterInbox
  <2> QED
    BY <2>2, <2>3, <2>4, <2>5, <2>6 DEF InboxNext, WebSocket
<1>5. \A m \in seen' \cap Shown : Kept(m)'
  <2>1. ASSUME NEW w \in Worker, NEW n \in Envelope, Handle(w, n), n \in Shown
        PROVE  Kept(n)'
    <3>1. handling' = [handling EXCEPT ![w] = n]
      BY <2>1 DEF Handle
    <3>2. handling'[w] = n
      BY <1>1, <3>1
    <3> QED
      BY <3>2 DEF Kept
  <2>2. ASSUME NEW w \in Worker, NEW n \in Envelope, Handle(w, n)
        PROVE  \A m \in seen' \cap Shown : Kept(m)'
    <3>1. seen' \subseteq seen \cup {n}
      BY <2>2, RememberBounds DEF Handle
    <3> QED
      BY <1>0, <2>1, <2>2, <3>1 DEF Held
  <2>3. ASSUME seen' = seen
        PROVE  \A m \in seen' \cap Shown : Kept(m)'
    BY <1>0, <2>3 DEF Held
  <2>4. ASSUME \/ \E b \in Base, m \in Envelope : RelayStores(b, m)
               \/ \E p \in Poller : Poll(p)
               \/ ReceiveAll \/ UNCHANGED inboxVars
        PROVE  seen' = seen
    BY <2>4 DEF RelayStores, Poll, Fetch, TakeResponse, AckEnds, ReceiveAll,
                inboxVars
  <2>5. CASE WebSocket
    BY <2>3, <2>5 DEF WebSocket, WsPush, WsAckEnds
  <2>6. ASSUME NEW w \in Worker,
               \/ Drain(w) \/ EnterInbox(w)
               \/ \E m \in Envelope : DropCopy(w, m)
        PROVE  seen' = seen
    BY <2>6 DEF Drain, DropCopy, TakeCopy, EnterInbox
  <2> QED
    BY <2>2, <2>3, <2>4, <2>5, <2>6 DEF InboxNext, Process
<1>6. StoredIsHeld'
  <2> SUFFICES ASSUME NEW m \in Shown, copies'[m] > 0,
                      \A b \in Base : m \notin mailbox'[b]
               PROVE  Here(m)'
    BY DEF StoredIsHeld, Here, InProcess
  <2>1. ASSUME copies'[m] = copies[m],
               \A b \in Base : m \in mailbox[b] => Here(m)
        PROVE  Here(m)'
    <3>1. (\E b \in Base : m \in mailbox[b]) \/ Here(m)
      BY <2>1 DEF Held, StoredIsHeld, Here, InProcess
    <3> QED
      BY <1>0, <2>1, <3>1
  <2>2. ASSUME NEW b \in Base, NEW n \in Envelope, RelayStores(b, n)
        PROVE  Here(m)'
    <3>1. /\ mailbox' = [mailbox EXCEPT ![b] = @ \cup {n}]
          /\ copies' = [copies EXCEPT ![n] = @ + 1]
      BY <2>2 DEF RelayStores
    <3>2. n # m
      BY <1>1, <3>1
    <3>3. copies'[m] = copies[m] /\ \A c \in Base : m \notin mailbox[c]
      BY <1>1, <3>1, <3>2
    <3> QED
      BY <2>1, <3>3
  <2>3. ASSUME NEW p \in Poller, NEW reached \in BOOLEAN, AckEnds(p, reached)
        PROVE  Here(m)'
    <3>1. /\ copies' = copies
          /\ \/ mailbox' = mailbox
             \/ mailbox' = [mailbox EXCEPT ![acking[p]] = @ \ ackIds[p]]
      BY <2>3 DEF AckEnds
    <3>2. m \in ackIds[p] => Here(m)
      BY DEF Held
    <3>3. \A b \in Base : m \in mailbox[b] => Here(m)
      BY <1>1, <3>1, <3>2
    <3> QED
      BY <2>1, <3>1, <3>3
  <2>4. ASSUME NEW n \in Envelope, NEW A \in AckedBases, WsAckEnds(n, A)
        PROVE  Here(m)'
    <3>1. /\ copies' = copies /\ n \in wsAcks
          /\ \A b \in Base : mailbox'[b] = IF b \in A THEN mailbox[b] \ {n}
                                           ELSE mailbox[b]
      BY <2>4 DEF WsAckEnds
    <3>2. \A b \in Base : m \in mailbox[b] => Here(m)
      BY <3>1 DEF Held
    <3> QED
      BY <2>1, <3>1, <3>2
  <2>5. ASSUME UNCHANGED netVars
        PROVE  Here(m)'
    BY <2>1, <2>5
  <2>6. ASSUME NEW b \in Base, NEW n \in Envelope, WsPush(b, n)
        PROVE  Here(m)'
    BY <2>5, <2>6 DEF WsPush
  <2>7. ASSUME NEW p \in Poller, NEW A \in SUBSET Base, Fetch(p, A)
        PROVE  Here(m)'
    BY <2>5, <2>7 DEF Fetch
  <2>8. ASSUME NEW p \in Poller, NEW b \in Base, TakeResponse(p, b)
        PROVE  Here(m)'
    BY <2>5, <2>8 DEF TakeResponse
  <2>9. ASSUME NEW w \in Worker, Process(w)
        PROVE  Here(m)'
    BY <2>5, <2>9 DEF Process, Drain, DropCopy, Handle, TakeCopy, EnterInbox
  <2>10. CASE ReceiveAll \/ UNCHANGED inboxVars
    BY <2>5, <2>10 DEF ReceiveAll, inboxVars
  <2> QED
    BY <2>2, <2>3, <2>4, <2>6, <2>7, <2>8, <2>9, <2>10
    DEF InboxNext, Poll, WebSocket
<1> QED
  BY <1>3, <1>4, <1>5, <1>6 DEF Held

LEMMA HeldInit == InboxInit => Held
  BY DEF InboxInit, Held, StoredIsHeld, Nothing

-----------------------------------------------------------------------------
(***************************************************************************)
(* `cipher-cli recv`: while the command runs, each of its steps and of the *)
(* daemon's is a step of the receiving side; after it only senders act.    *)
(***************************************************************************)

LEMMA RunningSteps ==
  ASSUME InboxTypes, RecvRunning, [RecvNext]_recvVars
  PROVE  [InboxNext]_inboxVars \/ Exit
<1>0. Receiver \in Poller /\ Receiver \in Worker
  BY CliRecvAssumption
<1>1. CASE RecvFetch
  BY <1>0, <1>1 DEF RecvFetch, InboxNext, Poll
<1>2. CASE RecvPush
  BY <1>0, <1>2 DEF RecvPush, InboxNext, Poll
<1>3. CASE RecvDrain
  BY <1>0, <1>3 DEF RecvDrain, InboxNext, Process
<1>4. CASE RecvHandle
  BY <1>0, <1>4 DEF RecvHandle, InboxNext, Process
<1>5. CASE RecvShow
  <2>1. CASE inbox = Nothing
    <3>1. shown' = Plus(shown, Nothing) /\ inbox' = inbox
          /\ UNCHANGED <<netVars, pollVars, wsVars, unread, workVars>>
      BY <1>5, <2>1 DEF RecvShow
    <3>2. Plus(shown, Nothing) = shown
      BY DEF InboxTypes, InboxTypeOK, Counts, Plus, Nothing
    <3> QED
      BY <3>1, <3>2 DEF inboxVars
  <2>2. CASE inbox # Nothing
    <3>1. ReceiveAll
      BY <1>5, <2>2 DEF RecvShow, ReceiveAll
    <3> QED
      BY <3>1 DEF InboxNext
  <2> QED
    BY <2>1, <2>2
<1>6. CASE Follow
  BY <1>6 DEF Follow
<1>7. CASE Daemon
  BY <1>7 DEF Daemon, InboxNext
<1>8. CASE Senders
  BY <1>8 DEF Senders, InboxNext
<1>9. CASE UNCHANGED recvVars
  BY <1>9 DEF recvVars
<1> QED
  BY <1>1, <1>2, <1>3, <1>4, <1>5, <1>6, <1>7, <1>8, <1>9 DEF RecvNext

LEMMA ExitedSteps ==
  ASSUME ~RecvRunning, [RecvNext]_recvVars
  PROVE  /\ ~RecvRunning'
         /\ UNCHANGED recvVars \/ \E b \in Base, m \in Envelope :
                                     RelayStores(b, m)
BY DEF RecvRunning, RecvNext, RecvFetch, RecvPush, RecvDrain, PollReturned,
       RecvHandle, RecvShow, Follow, Exit, Daemon, Senders, recvVars

LEMMA ExitTypes ==
  ASSUME InboxTypes, Exit
  PROVE  InboxTypes'
<1>1. IsFiniteSet({}) /\ Cardinality({}) = 0 /\ SeenCap \in Nat
  BY FS_EmptySet, InboxAssumption
<1>2. /\ mailbox' = mailbox /\ copies' = copies /\ shown' = shown
      /\ seen' = {} /\ wsAcks' = {} /\ inbox' = Nothing
      /\ responses' = [p \in Poller |-> NoResponse]
      /\ acking' = [p \in Poller |-> None]
      /\ ackIds' = [p \in Poller |-> {}]
      /\ wsQueue' = Nothing /\ unread' = Nothing
      /\ drained' = [w \in Worker |-> Nothing]
      /\ handling' = [w \in Worker |-> None]
  BY DEF Exit, netVars
<1>3. responses' \in [Poller -> [Base -> SUBSET Envelope]]
  BY <1>2 DEF NoResponse
<1> QED
  BY <1>1, <1>2, <1>3, NothingIsCounts DEF InboxTypes, InboxTypeOK

LEMMA RecvTypesStep ==
  ASSUME InboxTypes, [RecvNext]_recvVars
  PROVE  InboxTypes'
<1>1. CASE RecvRunning
  BY <1>1, RunningSteps, InboxTypesStep, ExitTypes
<1>2. CASE ~RecvRunning
  <2>1. [InboxNext]_inboxVars
    BY <1>2, ExitedSteps DEF InboxNext, recvVars
  <2> QED
    BY <2>1, InboxTypesStep
<1> QED
  BY <1>1, <1>2

\* The types hold of the command too, in every state.
THEOREM RecvTypes == RecvSpec => []InboxTypeOK
<1>1. RecvInit => InboxTypes
  BY InboxTypesInit DEF RecvInit
<1>2. InboxTypes => InboxTypeOK
  BY DEF InboxTypes
<1> QED
  BY <1>1, <1>2, RecvTypesStep, PTL DEF RecvSpec

\* Until the command ends, a message that was stored for us is on a relay, in
\* the process or was shown: the /ack that follows the push, before anyone
\* saw the message, loses nothing yet.
THEOREM NothingReceivedIsLost == RecvSpec => []HeldUntilExit
<1> DEFINE IInv == InboxTypes /\ (RecvRunning => Held)
<1>1. RecvInit => IInv
  BY InboxTypesInit, HeldInit DEF RecvInit
<1>2. IInv /\ [RecvNext]_recvVars => IInv'
  <2> SUFFICES ASSUME IInv, [RecvNext]_recvVars PROVE IInv'
    OBVIOUS
  <2>1. InboxTypes'
    BY RecvTypesStep
  <2>2. ASSUME RecvRunning' PROVE Held'
    <3>1. RecvRunning /\ ~Exit
      BY <2>2, ExitedSteps DEF Exit, RecvRunning
    <3> QED
      BY <3>1, RunningSteps, HeldStep
  <2> QED
    BY <2>1, <2>2
<1>3. IInv => HeldUntilExit
  BY DEF HeldUntilExit, Held
<1> QED
  BY <1>1, <1>2, <1>3, PTL DEF RecvSpec

-----------------------------------------------------------------------------
(***************************************************************************)
(* A message is handled once while seen_ids is not pruned.  An id that is  *)
(* not in it belongs to a message nobody has handled; the worker that      *)
(* takes the id in is the only one to hand the message on.                 *)
(***************************************************************************)

NeverPruned == /\ IsFiniteSet(Envelope \ Opaque)
               /\ Cardinality(Envelope \ Opaque) <= SeenCap

\* Nobody has handled m.
Unhandled(m) == /\ inbox[m] = 0 /\ shown[m] = 0
                /\ \A w \in Worker : handling[w] # m

Fresh == \A m \in Shown : m \notin seen => Unhandled(m)

\* One worker has m, or the inbox or the user has it, once.
AtOnePlace(m) ==
    /\ inbox[m] + shown[m] <= 1
    /\ inbox[m] + shown[m] = 1 => \A w \in Worker : handling[w] # m
    /\ \A v, w \in Worker : handling[v] = m /\ handling[w] = m => v = w

Once == \A m \in Shown : AtOnePlace(m)

\* An id that is taken in is remembered, and no other forgotten.
Remembers == \A m \in Envelope \ Opaque : Remember(m) => seen' = seen \cup {m}

\* With room for one more id none is forgotten.
LEMMA RoomForOne ==
  ASSUME InboxTypes, Cardinality(seen) < SeenCap
  PROVE  Remembers
<1> SUFFICES ASSUME NEW m \in Envelope \ Opaque, Remember(m)
             PROVE  seen' = seen \cup {m}
  BY DEF Remembers
<1>1. /\ Cardinality(seen \cup {m}) \in Nat /\ Cardinality(seen) \in Nat
      /\ Cardinality(seen \cup {m}) <= Cardinality(seen) + 1
  BY FS_AddElement, FS_CardinalityType DEF InboxTypes
<1>2. ~(Cardinality(seen \cup {m}) > SeenCap)
  BY <1>1, InboxAssumption
<1> QED
  BY <1>2 DEF Remember

\* With room for all ids none is forgotten either.
LEMMA RoomForAll ==
  ASSUME InboxTypes, NeverPruned
  PROVE  Remembers
<1> SUFFICES ASSUME NEW m \in Envelope \ Opaque, Remember(m)
             PROVE  seen' = seen \cup {m}
  BY DEF Remembers
<1>1. seen \cup {m} \subseteq Envelope \ Opaque
  BY DEF InboxTypes, InboxTypeOK
<1>2. /\ Cardinality(seen \cup {m}) <= Cardinality(Envelope \ Opaque)
      /\ Cardinality(seen \cup {m}) \in Nat
      /\ Cardinality(Envelope \ Opaque) \in Nat
  BY <1>1, FS_Subset, FS_CardinalityType DEF NeverPruned
<1>3. ~(Cardinality(seen \cup {m}) > SeenCap)
  BY <1>2, InboxAssumption DEF NeverPruned
<1> QED
  BY <1>3 DEF Remember

LEMMA OnceStep ==
  ASSUME InboxTypes, Remembers, Fresh, Once, [InboxNext]_inboxVars
  PROVE  Fresh' /\ Once'
<1> USE DEF netVars, pollVars, wsVars, workVars
<1>0. /\ Shown \subseteq Envelope /\ None \notin Shown
      /\ inbox \in Counts /\ shown \in Counts
      /\ handling \in [Worker -> Shown \cup {None}]
      /\ \A m \in Shown : inbox[m] \in Nat /\ shown[m] \in Nat
  BY InboxAssumption, Sums DEF InboxTypes, InboxTypeOK
<1>1. ASSUME UNCHANGED <<seen, handling, inbox, shown>>
      PROVE  Fresh' /\ Once'
  BY <1>1 DEF Fresh, Once, Unhandled, AtOnePlace
<1>2. ASSUME NEW w \in Worker, NEW n \in Envelope, Handle(w, n)
      PROVE  Fresh' /\ Once'
  <2>1. /\ n \in Envelope \ Opaque /\ n \notin seen /\ Remember(n)
        /\ inbox' = inbox /\ shown' = shown /\ handling[w] = None
        /\ handling' = IF n \in Shown THEN [handling EXCEPT ![w] = n]
                       ELSE handling
    BY <1>2 DEF Handle, TakeCopy, AlreadySeen
  <2>2. seen' = seen \cup {n}
    BY <2>1 DEF Remembers
  <2>3. \A v \in Worker : \A m \in Shown :
           handling'[v] = m <=> handling[v] = m \/ (v = w /\ m = n)
    BY <1>0, <2>1
  <2>4. Fresh'
    BY <2>1, <2>2, <2>3 DEF Fresh, Unhandled
  <2>5. ASSUME NEW m \in Shown PROVE AtOnePlace(m)'
    <3>1. CASE m # n
      BY <2>1, <2>3, <3>1 DEF Once, AtOnePlace
    <3>2. CASE m = n
      <4>1. /\ inbox[m] = 0 /\ shown[m] = 0
            /\ \A v \in Worker : handling[v] # m
        BY <2>1, <3>2 DEF Fresh, Unhandled
      <4>2. \A v \in Worker : handling'[v] = m => v = w
        BY <2>3, <4>1
      <4> QED
        BY <2>1, <4>1, <4>2 DEF AtOnePlace
    <3> QED
      BY <3>1, <3>2
  <2> QED
    BY <2>4, <2>5 DEF Once
<1>3. ASSUME NEW w \in Worker, EnterInbox(w)
      PROVE  Fresh' /\ Once'
  <2> DEFINE n == handling[w]
  <2>1. /\ inbox' = OneMore(inbox, {n}) /\ shown' = shown /\ seen' = seen
        /\ handling' = [handling EXCEPT ![w] = None] /\ n \in Shown
    BY <1>0, <1>3 DEF EnterInbox
  <2>2. \A m \in Shown : inbox'[m] = IF m = n THEN inbox[m] + 1 ELSE inbox[m]
    BY <1>0, <2>1, Sums
  <2>3. \A v \in Worker : \A m \in Shown :
           handling'[v] = m <=> handling[v] = m /\ v # w
    BY <1>0, <2>1
  <2>4. n \in seen
    BY <2>1 DEF Fresh, Unhandled
  <2>5. Fresh'
    BY <2>1, <2>2, <2>3, <2>4 DEF Fresh, Unhandled
  <2>6. ASSUME NEW m \in Shown PROVE AtOnePlace(m)'
    <3>1. CASE m # n
      <4>1. \A v \in Worker : handling'[v] = m => handling[v] = m
        BY <2>3
      <4> QED
        BY <2>1, <2>2, <3>1, <4>1 DEF Once, AtOnePlace
    <3>2. CASE m = n
      <4>1. inbox[m] + shown[m] = 0
        BY <1>0, <3>2 DEF Once, AtOnePlace
      <4>a. inbox'[m] = inbox[m] + 1 /\ shown'[m] = shown[m]
        BY <2>1, <2>2, <3>2
      <4>b. inbox[m] \in Nat /\ shown[m] \in Nat
        BY <1>0
      <4>2. inbox'[m] + shown'[m] = 1
        <5> HIDE DEF n
        <5> QED
          BY <4>1, <4>a, <4>b
      <4>3. \A v \in Worker : handling'[v] # m
        BY <2>3, <3>2 DEF Once, AtOnePlace
      <4> QED
        BY <4>2, <4>3 DEF AtOnePlace
    <3> QED
      BY <3>1, <3>2
  <2> QED
    BY <2>5, <2>6 DEF Once
<1>4. CASE ReceiveAll
  <2>1. /\ seen' = seen /\ handling' = handling
        /\ shown' = Plus(shown, inbox) /\ inbox' = Nothing
    BY <1>4 DEF ReceiveAll
  <2>2. \A m \in Shown : shown'[m] = shown[m] + inbox[m] /\ inbox'[m] = 0
    BY <1>0, <2>1, Sums
  <2>3. Fresh'
    BY <2>1, <2>2 DEF Fresh, Unhandled
  <2>4. \A m \in Shown : inbox'[m] + shown'[m] = inbox[m] + shown[m]
    BY <1>0, <2>2
  <2> QED
    BY <2>1, <2>3, <2>4 DEF Once, AtOnePlace
<1>5. ASSUME \/ \E b \in Base, m \in Envelope : RelayStores(b, m)
             \/ \E p \in Poller : Poll(p)
             \/ WebSocket
             \/ UNCHANGED inboxVars
      PROVE  Fresh' /\ Once'
  BY <1>1, <1>5 DEF RelayStores, Poll, Fetch, TakeResponse, AckEnds,
     WebSocket, WsPush, WsAckEnds, inboxVars
<1>6. ASSUME NEW w \in Worker, Drain(w) \/ \E m \in Envelope : DropCopy(w, m)
      PROVE  Fresh' /\ Once'
  BY <1>1, <1>6 DEF Drain, DropCopy, TakeCopy
<1> QED
  BY <1>2, <1>3, <1>4, <1>5, <1>6 DEF InboxNext, Process

LEMMA OnceInit == InboxInit => Fresh /\ Once
<1> SUFFICES ASSUME InboxInit PROVE Fresh /\ Once
  OBVIOUS
<1>1. \A m \in Shown : /\ inbox[m] = 0 /\ shown[m] = 0
                       /\ \A w \in Worker : handling[w] # m
  BY InboxAssumption DEF InboxInit, Nothing
<1> QED
  BY <1>1 DEF Fresh, Once, Unhandled, AtOnePlace

\* Being at one place, a message is counted once.
LEMMA OnceCounts ==
  ASSUME InboxTypes, Once
  PROVE  HandledOnce
<1> SUFFICES ASSUME NEW m \in Shown
             PROVE  inbox[m] + shown[m]
                    + Cardinality({w \in Worker : handling[w] = m}) <= 1
  BY DEF HandledOnce
<1>1. inbox[m] \in Nat /\ shown[m] \in Nat /\ AtOnePlace(m)
  BY InboxAssumption, Sums DEF InboxTypes, InboxTypeOK, Once
<1> DEFINE W == {w \in Worker : handling[w] = m}
<1>2. CASE W = {}
  <2>1. Cardinality(W) = 0
    BY <1>2, FS_EmptySet
  <2> QED
    BY <1>1, <2>1 DEF AtOnePlace
<1>3. CASE W # {}
  <2>1. PICK w \in Worker : handling[w] = m
    BY <1>3
  <2>2. W = {w}
    BY <1>1, <2>1 DEF AtOnePlace
  <2>3. Cardinality(W) = 1
    BY <2>2, FS_Singleton
  <2>4. inbox[m] + shown[m] # 1
    BY <1>1, <2>1 DEF AtOnePlace
  <2> QED
    BY <1>1, <2>3, <2>4 DEF AtOnePlace
<1> QED
  BY <1>2, <1>3

\* However many copies of a message relays and the WebSocket deliver to
\* however many tasks, the user sees it once and one receipt is sent, as long
\* as seen_ids stays below its cap.
THEOREM HandlesOnce ==
  InboxSpec /\ [](Cardinality(seen) < SeenCap) => []HandledOnce
<1> DEFINE IInv == InboxTypes /\ Fresh /\ Once
           Room == Cardinality(seen) < SeenCap
<1>1. InboxInit => IInv
  BY InboxTypesInit, OnceInit
<1>2. IInv /\ Room /\ [InboxNext]_inboxVars => IInv'
  BY InboxTypesStep, OnceStep, RoomForOne
<1>3. IInv => HandledOnce
  BY OnceCounts
<1> HIDE DEF Room
<1>4. InboxSpec /\ []Room => []HandledOnce
  BY <1>1, <1>2, <1>3, PTL DEF InboxSpec
<1> QED
  BY <1>4 DEF Room

\* So it is with the command and its daemon, whose seen_ids are one, when
\* there are no more messages than seen_ids has room for.
THEOREM RecvHandlesOnce == NeverPruned /\ RecvSpec => []HandledOnce
<1> SUFFICES ASSUME NeverPruned PROVE RecvSpec => []HandledOnce
  OBVIOUS
<1> DEFINE IInv == InboxTypes /\ Once /\ (RecvRunning => Fresh)
<1>1. RecvInit => IInv
  BY InboxTypesInit, OnceInit DEF RecvInit
<1>2. IInv /\ [RecvNext]_recvVars => IInv'
  <2> SUFFICES ASSUME IInv, [RecvNext]_recvVars PROVE IInv'
    OBVIOUS
  <2>1. InboxTypes'
    BY RecvTypesStep
  <2>2. CASE RecvRunning /\ [InboxNext]_inboxVars
    BY <2>1, <2>2, OnceStep, RoomForAll
  <2>3. CASE Exit
    <3>1. /\ shown' = shown /\ inbox' = Nothing /\ ~RecvRunning'
          /\ handling' = [w \in Worker |-> None]
      BY <2>3 DEF Exit, RecvRunning
    <3>2. ASSUME NEW m \in Shown PROVE AtOnePlace(m)'
      <4>1. inbox[m] \in Nat /\ shown[m] \in Nat /\ inbox[m] + shown[m] <= 1
        BY InboxAssumption, Sums DEF InboxTypes, InboxTypeOK, Once, AtOnePlace
      <4>2. inbox'[m] = 0 /\ shown'[m] = shown[m]
        BY <3>1, InboxAssumption DEF Nothing
      <4>3. \A w \in Worker : handling'[w] # m
        BY <3>1, InboxAssumption
      <4>4. inbox'[m] + shown'[m] <= 1
        BY <4>1, <4>2
      <4> QED
        BY <4>3, <4>4 DEF AtOnePlace
    <3> QED
      BY <2>1, <3>1, <3>2 DEF Once
  <2>4. CASE ~RecvRunning
    <3>1. UNCHANGED <<inbox, shown, handling>> /\ ~RecvRunning'
      BY <2>4, ExitedSteps DEF RelayStores, recvVars, inboxVars, workVars
    <3> QED
      BY <2>1, <3>1 DEF Once, AtOnePlace
  <2> QED
    BY <2>2, <2>3, <2>4, RunningSteps
<1>3. IInv => HandledOnce
  BY OnceCounts
<1> QED
  BY <1>1, <1>2, <1>3, PTL DEF RecvSpec
-----------------------------------------------------------------------------
(***************************************************************************)
(* The safety half of ImplementsDelivery.  A message that no relay was     *)
(* given is nowhere; one that is shown has been handled once.              *)
(***************************************************************************)

Nowhere(m) ==
    /\ \A b \in Base : m \notin mailbox[b]
    /\ \A p \in Poller : \A b \in Base : m \notin responses[p][b]
    /\ wsQueue[m] = 0
    /\ unread[m] = 0
    /\ \A w \in Worker : drained[w][m] = 0 /\ handling[w] # m
    /\ inbox[m] = 0

OnlySent == \A m \in Envelope : copies[m] = 0 => Nowhere(m)

LEMMA OnlySentInit == InboxInit => OnlySent
<1> SUFFICES ASSUME InboxInit, NEW m \in Envelope PROVE Nowhere(m)
  BY DEF OnlySent
<1>1. \A p \in Poller : \A b \in Base : responses[p][b] = {}
  BY DEF InboxInit, NoResponse
<1> QED
  BY <1>1, NoneIsNoEnvelope DEF InboxInit, Nothing, Nowhere

\* What is nowhere does not turn up before a relay is given it.
LEMMA OnlySentStep ==
  ASSUME InboxTypes, OnlySent, [InboxNext]_inboxVars
  PROVE  OnlySent'
<1> USE DEF netVars, pollVars, wsVars, workVars
<1>0. /\ Shown \subseteq Envelope /\ None \notin Envelope /\ None \notin Shown
      /\ mailbox \in [Base -> SUBSET Envelope]
      /\ copies \in [Envelope -> Nat]
      /\ responses \in [Poller -> [Base -> SUBSET Envelope]]
      /\ unread \in Counts /\ wsQueue \in Counts /\ inbox \in Counts
      /\ drained \in [Worker -> Counts]
      /\ handling \in [Worker -> Shown \cup {None}]
  BY NoneIsNoEnvelope, InboxAssumption DEF InboxTypes, InboxTypeOK
<1>1. ASSUME NEW b \in Base, NEW n \in Envelope, RelayStores(b, n)
      PROVE  OnlySent'
  <2>1. /\ mailbox' = [mailbox EXCEPT ![b] = @ \cup {n}]
        /\ copies' = [copies EXCEPT ![n] = @ + 1]
        /\ UNCHANGED <<responses, wsQueue, unread, drained, handling, inbox>>
    BY <1>1 DEF RelayStores
  <2> SUFFICES ASSUME NEW m \in Envelope, copies'[m] = 0
               PROVE  Nowhere(m)'
    BY DEF OnlySent
  <2>2. copies[m] = 0 /\ m # n
    <3>1. copies[m] \in Nat
      BY <1>0
    <3> QED
      BY <1>0, <2>1, <3>1
  <2>3. \A a \in Base : m \in mailbox'[a] => m \in mailbox[a]
    BY <1>0, <2>1, <2>2
  <2> QED
    BY <2>1, <2>2, <2>3 DEF OnlySent, Nowhere
<1>2. ASSUME UNCHANGED copies,
             \A m \in Envelope : Nowhere(m) => Nowhere(m)'
      PROVE  OnlySent'
  BY <1>2 DEF OnlySent
<1>3. ASSUME NEW p \in Poller, NEW A \in SUBSET Base, Fetch(p, A)
      PROVE  OnlySent'
  <2>1. /\ responses' = [responses EXCEPT ![p] =
                            [b \in Base |-> IF b \in A THEN mailbox[b] ELSE {}]]
        /\ UNCHANGED <<mailbox, copies, wsQueue, unread, drained, handling,
                       inbox>>
    BY <1>3 DEF Fetch
  <2>2. ASSUME NEW m \in Envelope, NEW q \in Poller, NEW b \in Base,
               m \in responses'[q][b]
        PROVE  m \in responses[q][b] \/ m \in mailbox[b]
    BY <1>0, <2>1, <2>2
  <2> QED
    BY <1>2, <2>1, <2>2 DEF Nowhere
<1>4. ASSUME NEW p \in Poller, NEW b \in Base, TakeResponse(p, b)
      PROVE  OnlySent'
  <2>1. /\ responses' = [responses EXCEPT ![p][b] = {}]
        /\ unread' = OneMore(unread, responses[p][b])
        /\ UNCHANGED <<mailbox, copies, wsQueue, drained, handling, inbox>>
    BY <1>4 DEF TakeResponse, Pushed
  <2>2. ASSUME NEW m \in Envelope, NEW q \in Poller, NEW a \in Base,
               m \in responses'[q][a]
        PROVE  m \in responses[q][a]
    BY <1>0, <2>1, <2>2
  <2>3. ASSUME NEW m \in Envelope, m \notin responses[p][b]
        PROVE  unread'[m] = unread[m]
    BY <1>0, <2>1, <2>3, Sums
  <2> QED
    BY <1>2, <2>1, <2>2, <2>3 DEF Nowhere
<1>5. ASSUME UNCHANGED <<copies, responses, wsQueue, unread, drained,
                         handling, inbox>>,
             \A b \in Base : mailbox'[b] \subseteq mailbox[b]
      PROVE  OnlySent'
  BY <1>2, <1>5 DEF Nowhere
<1>6. ASSUME NEW p \in Poller, NEW reached \in BOOLEAN, AckEnds(p, reached)
      PROVE  OnlySent'
  <2>1. /\ \/ mailbox' = mailbox
           \/ mailbox' = [mailbox EXCEPT ![acking[p]] = @ \ ackIds[p]]
        /\ UNCHANGED <<copies, responses, wsQueue, unread, drained, handling,
                       inbox>>
    BY <1>6 DEF AckEnds
  <2>2. \A b \in Base : mailbox'[b] \subseteq mailbox[b]
    BY <1>0, <2>1
  <2> QED
    BY <1>5, <2>1, <2>2
<1>7. ASSUME NEW n \in Envelope, NEW A \in AckedBases, WsAckEnds(n, A)
      PROVE  OnlySent'
  <2>1. /\ mailbox' = [b \in Base |->
                         IF b \in A THEN mailbox[b] \ {n} ELSE mailbox[b]]
        /\ UNCHANGED <<copies, responses, wsQueue, unread, drained, handling,
                       inbox>>
    BY <1>7 DEF WsAckEnds
  <2>2. \A b \in Base : mailbox'[b] \subseteq mailbox[b]
    BY <2>1
  <2> QED
    BY <1>5, <2>1, <2>2
<1>8. ASSUME NEW b \in Base, NEW n \in Envelope, WsPush(b, n)
      PROVE  OnlySent'
  <2>1. /\ n \in mailbox[b] /\ wsQueue' = OneMore(wsQueue, {n})
        /\ UNCHANGED <<mailbox, copies, responses, unread, drained, handling,
                       inbox>>
    BY <1>8 DEF WsPush
  <2>2. \A m \in Envelope : m # n => wsQueue'[m] = wsQueue[m]
    BY <1>0, <2>1, Sums
  <2> QED
    BY <1>2, <2>1, <2>2 DEF Nowhere
<1>9. ASSUME NEW w \in Worker, Drain(w)
      PROVE  OnlySent'
  <2>1. /\ drained' = [drained EXCEPT ![w] = Plus(wsQueue, unread)]
        /\ wsQueue' = Nothing /\ unread' = Nothing
        /\ UNCHANGED <<mailbox, copies, responses, handling, inbox>>
    BY <1>9 DEF Drain
  <2>2. ASSUME NEW m \in Envelope, Nowhere(m)
        PROVE  Nowhere(m)'
    <3>1. Plus(wsQueue, unread)[m] = 0
      BY <1>0, <2>2, Sums DEF Nowhere
    <3>2. \A v \in Worker : drained'[v][m] = 0
      BY <1>0, <2>1, <2>2, <3>1 DEF Nowhere
    <3>3. wsQueue'[m] = 0 /\ unread'[m] = 0
      BY <2>1, Sums
    <3> QED
      BY <2>1, <2>2, <3>2, <3>3 DEF Nowhere
  <2> QED
    BY <1>2, <2>1, <2>2
<1>10. ASSUME NEW w \in Worker, NEW n \in Envelope, TakeCopy(w, n)
       PROVE  /\ \A m \in Envelope : Nowhere(m) =>
                    m # n /\ \A v \in Worker : drained'[v][m] = 0
              /\ UNCHANGED <<mailbox, copies, responses, wsQueue, unread,
                             inbox>>
  <2>1. /\ drained[w][n] > 0
        /\ drained' = [drained EXCEPT ![w][n] = @ - 1]
        /\ UNCHANGED <<mailbox, copies, responses, wsQueue, unread, inbox>>
    BY <1>10 DEF TakeCopy
  <2>2. ASSUME NEW m \in Envelope, Nowhere(m)
        PROVE  m # n /\ \A v \in Worker : drained'[v][m] = 0
    <3>1. m # n
      BY <2>1, <2>2 DEF Nowhere
    <3> QED
      BY <1>0, <2>1, <2>2, <3>1 DEF Nowhere, Counts
  <2> QED
    BY <2>1, <2>2
<1>11. ASSUME NEW w \in Worker, NEW n \in Envelope, DropCopy(w, n)
       PROVE  OnlySent'
  <2>1. TakeCopy(w, n) /\ handling' = handling
    BY <1>11 DEF DropCopy
  <2> QED
    BY <1>2, <1>10, <2>1 DEF Nowhere
<1>12. ASSUME NEW w \in Worker, NEW n \in Envelope, Handle(w, n)
       PROVE  OnlySent'
  <2>1. /\ TakeCopy(w, n)
        /\ \/ handling' = handling
           \/ handling' = [handling EXCEPT ![w] = n]
    BY <1>12 DEF Handle
  <2>2. \A v \in Worker : handling'[v] = handling[v] \/ handling'[v] = n
    BY <1>0, <2>1
  <2> QED
    BY <1>2, <1>10, <2>1, <2>2 DEF Nowhere
<1>13. ASSUME NEW w \in Worker, EnterInbox(w)
       PROVE  OnlySent'
  <2>1. /\ inbox' = OneMore(inbox, {handling[w]})
        /\ handling' = [handling EXCEPT ![w] = None]
        /\ UNCHANGED <<mailbox, copies, responses, wsQueue, unread, drained>>
    BY <1>13 DEF EnterInbox
  <2>2. ASSUME NEW m \in Envelope, handling[w] # m
        PROVE  inbox'[m] = inbox[m]
    BY <1>0, <2>1, <2>2, Sums
  <2>3. ASSUME NEW m \in Envelope, NEW v \in Worker, handling'[v] = m
        PROVE  handling[v] = m
    BY <1>0, <2>1, <2>3
  <2> QED
    BY <1>2, <2>1, <2>2, <2>3 DEF Nowhere
<1>14. CASE ReceiveAll
  <2>1. /\ inbox' = Nothing
        /\ UNCHANGED <<mailbox, copies, responses, wsQueue, unread, drained,
                       handling>>
    BY <1>14 DEF ReceiveAll
  <2>2. \A m \in Envelope : inbox'[m] = 0
    BY <2>1, Sums
  <2> QED
    BY <1>2, <2>1, <2>2 DEF Nowhere
<1>15. CASE UNCHANGED inboxVars
  BY <1>5, <1>15 DEF inboxVars
<1> QED
  BY <1>1, <1>3, <1>4, <1>6, <1>7, <1>8, <1>9, <1>11, <1>12, <1>13, <1>14,
     <1>15
  DEF InboxNext, Poll, WebSocket, Process

DeliveryInv == InboxTypes /\ Fresh /\ Once /\ OnlySent

Arrived == {m \in Shown : copies[m] > 0}
TimesShown == [m \in Shown |-> shown[m]]

\* A step gives a relay a message for the first time, or shows messages that
\* arrived and were not shown yet, or changes nothing of either.
LEMMA DeliveryStep ==
  ASSUME DeliveryInv, [InboxNext]_inboxVars
  PROVE  Deliverer!Next \/ UNCHANGED <<Arrived, TimesShown>>
<1> USE DEF netVars, pollVars, wsVars, workVars
<1>0. /\ Shown \subseteq Envelope
      /\ copies \in [Envelope -> Nat]
      /\ inbox \in Counts /\ shown \in Counts
      /\ \A m \in Shown : inbox[m] \in Nat /\ shown[m] \in Nat
  BY InboxAssumption, Sums DEF DeliveryInv, InboxTypes, InboxTypeOK
<1>1. ASSUME UNCHANGED <<copies, shown>>
      PROVE  UNCHANGED <<Arrived, TimesShown>>
  BY <1>1 DEF Arrived, TimesShown
<1>2. ASSUME NEW b \in Base, NEW n \in Envelope, RelayStores(b, n)
      PROVE  Deliverer!Next \/ UNCHANGED <<Arrived, TimesShown>>
  <2>1. /\ copies' = [copies EXCEPT ![n] = @ + 1] /\ shown' = shown
    BY <1>2 DEF RelayStores
  <2>2. UNCHANGED TimesShown
    BY <2>1 DEF TimesShown
  <2>3. \A m \in Envelope :
           copies'[m] = IF m = n THEN copies[m] + 1 ELSE copies[m]
    BY <1>0, <2>1
  <2>4. \A m \in Shown : m \in Arrived' <=> m \in Arrived \/ m = n
    <3>1. \A m \in Shown : copies[m] \in Nat
      BY <1>0
    <3> QED
      BY <1>0, <2>3, <3>1 DEF Arrived
  <2>5. Arrived \subseteq Shown /\ Arrived' \subseteq Shown
    BY DEF Arrived
  <2>6. CASE n \in Shown \ Arrived
    <3>1. Arrived' = Arrived \cup {n}
      <4> HIDE DEF Arrived
      <4> QED
        BY <2>4, <2>5, <2>6
    <3>2. Deliverer!Arrive(n)
      BY <2>2, <2>6, <3>1 DEF Deliverer!Arrive, Arrived, TimesShown
    <3> QED
      BY <2>6, <3>2 DEF Deliverer!Next
  <2>7. CASE n \notin Shown \ Arrived
    <3>1. Arrived' = Arrived
      <4> HIDE DEF Arrived
      <4> QED
        BY <2>4, <2>5, <2>7
    <3> QED
      BY <2>2, <3>1
  <2> QED
    BY <2>6, <2>7
<1>3. CASE ReceiveAll
  <2> DEFINE S == {m \in Shown : inbox[m] > 0}
  <2>1. shown' = Plus(shown, inbox) /\ copies' = copies
    BY <1>3 DEF ReceiveAll
  <2>2. \A m \in Shown : shown'[m] = shown[m] + inbox[m]
    BY <1>0, <2>1, Sums
  <2>3. ASSUME NEW m \in S
        PROVE  m \in Arrived /\ shown[m] = 0 /\ inbox[m] = 1
    <3>1. copies[m] # 0
      BY <1>0, <2>3 DEF DeliveryInv, OnlySent, Nowhere
    <3>2. copies[m] > 0
      BY <1>0, <3>1
    <3>3. inbox[m] + shown[m] <= 1
      BY DEF DeliveryInv, Once, AtOnePlace
    <3> QED
      BY <1>0, <3>2, <3>3 DEF Arrived
  <2>4. \A m \in Shown : shown'[m] = IF m \in S THEN 1 ELSE shown[m]
    BY <1>0, <2>2, <2>3
  <2>5. TimesShown' = [m \in Shown |-> IF m \in S THEN 1 ELSE TimesShown[m]]
    <3> HIDE DEF S
    <3> QED
      BY <2>4 DEF TimesShown
  <2>6. \A m \in S : m \in Arrived /\ TimesShown[m] = 0
    BY <2>3 DEF TimesShown
  <2>7. Arrived' = Arrived
    BY <2>1 DEF Arrived
  <2>8. PICK T \in SUBSET Shown : T = S
    OBVIOUS
  <2> HIDE DEF S
  <2>9. Deliverer!Show(T)
    BY <2>5, <2>6, <2>7, <2>8 DEF Deliverer!Show, Arrived, TimesShown
  <2> QED
    BY <2>9 DEF Deliverer!Next
<1>4. ASSUME NEW p \in Poller, Poll(p)
      PROVE  UNCHANGED <<Arrived, TimesShown>>
  BY <1>1, <1>4 DEF Poll, Fetch, TakeResponse, AckEnds
<1>5. ASSUME WebSocket
      PROVE  UNCHANGED <<Arrived, TimesShown>>
  BY <1>1, <1>5 DEF WebSocket, WsPush, WsAckEnds
<1>6. ASSUME NEW w \in Worker, Process(w)
      PROVE  UNCHANGED <<Arrived, TimesShown>>
  BY <1>1, <1>6 DEF Process, Drain, DropCopy, Handle, TakeCopy, EnterInbox
<1>7. CASE UNCHANGED inboxVars
  BY <1>1, <1>7 DEF inboxVars
<1> QED
  BY <1>2, <1>3, <1>4, <1>5, <1>6, <1>7 DEF InboxNext

\* The receiving side implements the safety half of Delivery: what is shown
\* was stored at a relay and is shown once, however many copies of it the
\* relays and the WebSocket hand to however many tasks, so long as seen_ids
\* has room.
THEOREM ImplementsDeliveryOnce ==
  InboxSpec /\ [](Cardinality(seen) < SeenCap) => Deliverer!Spec
<1> DEFINE Room == Cardinality(seen) < SeenCap
<1>1. InboxInit => DeliveryInv
  BY InboxTypesInit, OnceInit, OnlySentInit DEF DeliveryInv
<1>2. DeliveryInv /\ Room /\ [InboxNext]_inboxVars => DeliveryInv'
  BY InboxTypesStep, OnceStep, OnlySentStep, RoomForOne DEF DeliveryInv
<1>3. InboxInit => Deliverer!Init
  <2> SUFFICES ASSUME InboxInit PROVE Deliverer!Init
    OBVIOUS
  <2>1. \A m \in Shown : copies[m] = 0 /\ shown[m] = 0
    BY InboxAssumption DEF InboxInit, Nothing
  <2> QED
    BY <2>1 DEF Deliverer!Init
<1>4. DeliveryInv /\ [InboxNext]_inboxVars =>
        [Deliverer!Next]_(Deliverer!vars)
  BY DeliveryStep DEF Deliverer!vars, Arrived, TimesShown
<1> HIDE DEF Room
<1>5. InboxSpec /\ []Room => Deliverer!Spec
  BY <1>1, <1>2, <1>3, <1>4, PTL DEF InboxSpec, Deliverer!Spec
<1> QED
  BY <1>5 DEF Room
=============================================================================
