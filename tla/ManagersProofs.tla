--------------------------- MODULE ManagersProofs ---------------------------
(***************************************************************************)
(* What the managers behind ffi.rs and the sessions of encryption.rs       *)
(* promise, for any devices, groups, bots, calls and keys.                 *)
(***************************************************************************)
EXTENDS CallSignaling, Groups, Bots, AppClients, DoubleRatchet, Integers,
        FiniteSetTheorems, SequenceTheorems, WellFoundedInduction,
        TLAPS

-----------------------------------------------------------------------------
(***************************************************************************)
(* Vec::retain: what stays of a sequence, and where it was.                *)
(***************************************************************************)

LEMMA Entries ==
  ASSUME NEW S, NEW s \in Seq(S)
  PROVE  \A i \in DOMAIN s : s[i] \in S
OBVIOUS

LEMMA ChangedEntry ==
  ASSUME NEW S, NEW s \in Seq(S), NEW i \in DOMAIN s, NEW e \in S
  PROVE  /\ [s EXCEPT ![i] = e] \in Seq(S)
         /\ DOMAIN [s EXCEPT ![i] = e] = DOMAIN s
         /\ [s EXCEPT ![i] = e][i] = e
         /\ \A j \in DOMAIN s : j # i => [s EXCEPT ![i] = e][j] = s[j]
OBVIOUS

LEMMA Smallest ==
  ASSUME NEW I, I \subseteq Nat, I # {}
  PROVE  Min(I) \in I /\ \A k \in I : Min(I) <= k
<1>1. PICK i \in I : \A k \in I : ~(<<k, i>> \in OpToRel(<, Nat))
  BY NatLessThanWellFounded, WFMin
<1>2. \A k \in I : ~(k < i)
  BY <1>1 DEF OpToRel
<1>3. \A k \in I : i <= k
  BY <1>2
<1> QED
  BY <1>3 DEF Min

\* A set of indexes is finite, and so are its initial parts.
LEMMA Indexes ==
  ASSUME NEW n \in Nat, NEW K, K \subseteq 1 .. n
  PROVE  /\ \A k \in K : k \in Nat /\ k >= 1 /\ k <= n
         /\ IsFiniteSet(K) /\ Cardinality(K) \in Nat
         /\ \A i : /\ IsFiniteSet({k \in K : k <= i})
                   /\ Cardinality({k \in K : k <= i}) \in Nat
                   /\ Cardinality({k \in K : k <= i}) <= Cardinality(K)
<1>1. IsFiniteSet(1 .. n)
  BY FS_Interval
<1>2. IsFiniteSet(K) /\ Cardinality(K) \in Nat
  BY <1>1, FS_Subset, FS_CardinalityType
<1>3. ASSUME NEW i
      PROVE  /\ IsFiniteSet({k \in K : k <= i})
             /\ Cardinality({k \in K : k <= i}) \in Nat
             /\ Cardinality({k \in K : k <= i}) <= Cardinality(K)
  <2> DEFINE T == {k \in K : k <= i}
  <2>1. T \in SUBSET K
    OBVIOUS
  <2> HIDE DEF T
  <2>2. IsFiniteSet(T) /\ Cardinality(T) \in Nat
        /\ Cardinality(T) <= Cardinality(K)
    BY <1>2, <2>1, FS_Subset, FS_CardinalityType
  <2> QED
    BY <2>2 DEF T
<1> QED
  BY <1>2, <1>3

\* Every rank is taken by one member of a set of indexes.
LEMMA NthRank ==
  ASSUME NEW n \in Nat, NEW K, K \subseteq 1 .. n,
         NEW j \in 1 .. Cardinality(K)
  PROVE  /\ Nth(K, j) \in K
         /\ Cardinality({k \in K : k <= Nth(K, j)}) = j
<1> DEFINE Upto(i) == {k \in K : k <= i}
           Enough == {i \in Nat : Cardinality(Upto(i)) >= j}
<1>0. /\ \A k \in K : k \in Nat /\ k >= 1 /\ k <= n
      /\ IsFiniteSet(K) /\ Cardinality(K) \in Nat
      /\ \A i : /\ IsFiniteSet(Upto(i))
                /\ Cardinality(Upto(i)) \in Nat
  BY Indexes
<1>1. j \in Nat /\ j >= 1 /\ j <= Cardinality(K)
  BY <1>0
<1>2. n \in Enough
  <2>1. Upto(n) = K
    BY <1>0
  <2> QED
    BY <1>0, <1>1, <2>1
<1>3. PICK i \in Enough : \A k \in Enough : i <= k
  <2> HIDE DEF Upto
  <2>1. Enough \subseteq Nat /\ Enough # {}
    BY <1>2
  <2> HIDE DEF Enough
  <2> QED
    BY <2>1, Smallest
<1>4. i # 0
  <2>1. Upto(0) = {}
    <3>1. \A k \in K : ~(k <= 0)
      BY <1>0
    <3> QED
      BY <3>1
  <2>2. Cardinality(Upto(0)) = 0
    BY <2>1, FS_EmptySet
  <2> HIDE DEF Upto
  <2> QED
    BY <1>1, <2>2
<1>5. i \in Nat /\ i - 1 \in Nat /\ i - 1 \notin Enough
  <2> HIDE DEF Upto
  <2> QED
    BY <1>3, <1>4
<1> DEFINE h == i - 1
<1>6. \A k \in K : k <= i <=> k <= h \/ k = i
  BY <1>0, <1>5
<1>7. ~(i <= h)
  BY <1>5
<1>8. Cardinality(Upto(h)) < j /\ Cardinality(Upto(i)) >= j
  <2> HIDE DEF Upto
  <2> QED
    BY <1>0, <1>1, <1>5
<1> HIDE DEF h
<1>9. i \in K
  <2>1. i \notin K => Upto(i) = Upto(h)
    BY <1>6
  <2> HIDE DEF Upto
  <2> QED
    BY <1>0, <1>1, <1>8, <2>1
<1>10. Cardinality(Upto(i)) = Cardinality(Upto(h)) + 1
  <2>1. Upto(i) = Upto(h) \cup {i} /\ i \notin Upto(h)
    BY <1>6, <1>7, <1>9
  <2> HIDE DEF Upto
  <2> QED
    BY <1>0, <2>1, FS_AddElement
<1>11. Cardinality(Upto(i)) = j
  <2> HIDE DEF Upto
  <2> QED
    BY <1>0, <1>1, <1>8, <1>10
<1> QED
  BY <1>9, <1>11 DEF Nth

LEMMA NthOnto ==
  ASSUME NEW n \in Nat, NEW K, K \subseteq 1 .. n, NEW i \in K
  PROVE  \E j \in 1 .. Cardinality(K) : Nth(K, j) = i
<1> DEFINE Upto(h) == {k \in K : k <= h}
           j == Cardinality(Upto(i))
<1>0. /\ \A k \in K : k \in Nat /\ k >= 1 /\ k <= n
      /\ IsFiniteSet(K) /\ Cardinality(K) \in Nat
      /\ \A h : /\ IsFiniteSet(Upto(h))
                /\ Cardinality(Upto(h)) \in Nat
                /\ Cardinality(Upto(h)) <= Cardinality(K)
  BY Indexes
<1>1. j \in 1 .. Cardinality(K)
  <2>1. i \in Upto(i)
    BY <1>0
  <2> HIDE DEF Upto
  <2> QED
    BY <1>0, <2>1, FS_EmptySet
<1>2. Nth(K, j) \in K /\ Cardinality(Upto(Nth(K, j))) = j
  <2> HIDE DEF j
  <2> QED
    BY <1>1, NthRank
<1>3. ASSUME NEW h \in K, NEW g \in K, h < g
      PROVE  Cardinality(Upto(h)) # Cardinality(Upto(g))
  <2>1. Upto(h) \in SUBSET Upto(g) /\ g \in Upto(g) /\ g \notin Upto(h)
    <3>1. /\ \A k \in K : k <= h => k <= g
          /\ g <= g /\ ~(g <= h)
      BY <1>0, <1>3
    <3> QED
      BY <3>1
  <2> HIDE DEF Upto
  <2> QED
    BY <1>0, <2>1, FS_Subset
<1>4. Nth(K, j) = i
  <2> HIDE DEF Upto
  <2> DEFINE g == Nth(K, j)
  <2>1. g \in K /\ Cardinality(Upto(g)) = Cardinality(Upto(i))
    BY <1>2
  <2> HIDE DEF g
  <2>2. ~(g < i) /\ ~(i < g) /\ g \in Nat /\ i \in Nat
    BY <1>0, <1>3, <2>1
  <2>3. g = i
    BY <2>2
  <2> QED
    BY <2>3 DEF g
<1> QED
  BY <1>1, <1>4

\* What Vec::retain returns: a sequence of the entries that stay, each from an
\* index of its own.
LEMMA RetainKeeps ==
  ASSUME NEW S, NEW s \in Seq(S), NEW K, K \subseteq DOMAIN s
  PROVE  /\ Retain(s, K) \in Seq(S)
         /\ \A i \in K : \E j \in DOMAIN Retain(s, K) : Retain(s, K)[j] = s[i]
         /\ \A j \in DOMAIN Retain(s, K) :
               /\ Nth(K, j) \in K
               /\ Retain(s, K)[j] = s[Nth(K, j)]
         /\ \A i, j \in DOMAIN Retain(s, K) : Nth(K, i) = Nth(K, j) => i = j
<1>1. Len(s) \in Nat /\ K \subseteq 1 .. Len(s)
  OBVIOUS
<1>2. Cardinality(K) \in Nat
  BY <1>1, Indexes
<1>3. \A j \in 1 .. Cardinality(K) :
         /\ Nth(K, j) \in K
         /\ Cardinality({k \in K : k <= Nth(K, j)}) = j
  BY <1>1, NthRank
<1>4. Retain(s, K) \in Seq(S) /\ DOMAIN Retain(s, K) = 1 .. Cardinality(K)
  <2>1. \A j \in 1 .. Cardinality(K) : s[Nth(K, j)] \in S
    <3>1. \A k \in K : s[k] \in S
      BY <1>1
    <3> QED
      BY <1>3, <3>1
  <2> QED
    BY <1>2, <2>1 DEF Retain
<1>5. \A j \in 1 .. Cardinality(K) : Retain(s, K)[j] = s[Nth(K, j)]
  BY DEF Retain
<1>6. \A i \in K : \E j \in 1 .. Cardinality(K) : Nth(K, j) = i
  BY <1>1, NthOnto
<1>7. ASSUME NEW i \in 1 .. Cardinality(K), NEW j \in 1 .. Cardinality(K),
             Nth(K, i) = Nth(K, j)
      PROVE  i = j
  BY <1>3, <1>7
<1> QED
  BY <1>3, <1>4, <1>5, <1>6, <1>7

-----------------------------------------------------------------------------
(***************************************************************************)
(* What route_message reports as routed arrives: RoutedArrives of module   *)
(* Bots, for any bots, commands and numbers of updates.  A command whose   *)
(* bot has no queue yet is only found in the handlers while create_bot     *)
(* still holds them.                                                       *)
(***************************************************************************)

Updates == /\ updates \in [Bot -> Nat \cup {None}]
          /\ routed \in [Bot -> Nat]
          /\ polled \in [Bot -> Nat]
          /\ handlers \in [Command -> Bot \cup {None}]
          /\ routing \in Bot \cup {None}
          /\ creating \in [bot : Bot \cup {None},
                           next : {"handlers", "bots", "updates"}]
          /\ bots \in [Bot -> {"none", "active", "inactive"}]

\* create_bot holds the handlers from the first insertion to the last.
HeldWhileCreating ==
    creating.next # "handlers" =>
        exclusive /\ creating.bot \in Bot /\ routing = None

\* The bot that is being created has no queue; nor has one without an entry.
NewHasNoQueue ==
    /\ \A b \in Bot : bots[b] = "none" => updates[b] = None
    /\ creating.next # "handlers" => updates[creating.bot] = None
    /\ creating.next = "updates" => bots[creating.bot] # "none"

\* Whoever can be found has a queue.
FoundHasQueue ==
    /\ routing # None => updates[routing] # None
    /\ \A c \in Command : handlers[c] # None =>
          \/ updates[handlers[c]] # None
          \/ creating.next # "handlers" /\ creating.bot = handlers[c]

BotsInv == /\ Updates
           /\ HeldWhileCreating
           /\ NewHasNoQueue
           /\ FoundHasQueue
           /\ RoutedArrives

\* Each step between two acquisitions of a lock keeps the invariant.
LEMMA BotsInvStep ==
  ASSUME BotsInv, [BotsNext]_botsVars
  PROVE  BotsInv'
<1> USE BotsAssumption
<1>1. ASSUME NEW b \in Bot, NEW C \in SUBSET Command, RegisterCommands(b, C)
      PROVE  BotsInv'
  BY <1>1 DEF RegisterCommands, HeldToTheEnd, AtRest, BotsInv, Updates,
              HeldWhileCreating, NewHasNoQueue, FoundHasQueue, RoutedArrives
<1>2. CASE InsertBot
  BY <1>2 DEF InsertBot, BotsInv, Updates, HeldWhileCreating, NewHasNoQueue,
              FoundHasQueue, RoutedArrives
<1>3. CASE InsertQueue
  <2>1. /\ creating.bot \in Bot
        /\ updates[creating.bot] = None
        /\ routing = None
    BY <1>3 DEF InsertQueue, BotsInv, HeldWhileCreating, NewHasNoQueue
  <2>2. /\ updates' = [updates EXCEPT ![creating.bot] = 0]
        /\ creating' = [bot |-> None, next |-> "handlers"]
        /\ exclusive' = FALSE
        /\ UNCHANGED <<handlers, bots, routing, routed, polled>>
    BY <1>3 DEF InsertQueue, AtRest
  <2>3. bots[creating.bot] # "none"
    BY <1>3 DEF InsertQueue, BotsInv, NewHasNoQueue
  <2>4. Updates' /\ HeldWhileCreating' /\ NewHasNoQueue'
    BY <2>1, <2>2, <2>3 DEF BotsInv, Updates, HeldWhileCreating, NewHasNoQueue
  <2>5. FoundHasQueue'
    BY <2>1, <2>2 DEF BotsInv, Updates, FoundHasQueue
  <2>6. RoutedArrives'
    BY <2>1, <2>2 DEF BotsInv, Updates, RoutedArrives
  <2> QED
    BY <2>4, <2>5, <2>6 DEF BotsInv
<1>4. ASSUME NEW b \in Bot, PushUpdate(b) \/ RouteTo(b)
      PROVE  BotsInv'
  <2>1. /\ updates[b] # None
        /\ routing' \in {routing, None}
        /\ updates' = [updates EXCEPT ![b] = @ + 1]
        /\ routed' = [routed EXCEPT ![b] = @ + 1]
        /\ UNCHANGED <<creating, exclusive, handlers, bots, polled>>
    BY <1>4 DEF PushUpdate, RouteTo, Queued, BotsInv, FoundHasQueue
  <2>2. Updates'
    BY <2>1 DEF BotsInv, Updates
  <2>3. RoutedArrives'
    BY <2>1 DEF BotsInv, Updates, RoutedArrives
  <2>4. HeldWhileCreating' /\ NewHasNoQueue' /\ FoundHasQueue'
    BY <2>1
    DEF BotsInv, Updates, HeldWhileCreating, NewHasNoQueue, FoundHasQueue
  <2> QED
    BY <2>2, <2>3, <2>4 DEF BotsInv
<1>5. ASSUME NEW c \in Command, FindHandler(c)
      PROVE  BotsInv'
  BY <1>5 DEF FindHandler, BotsInv, Updates, HeldWhileCreating, NewHasNoQueue,
              FoundHasQueue, RoutedArrives
<1>6. ASSUME NEW b \in Bot, GetUpdates(b)
      PROVE  BotsInv'
  <2>1. /\ updates[b] # None
        /\ polled' = [polled EXCEPT ![b] = @ + updates[b]]
        /\ updates' = [updates EXCEPT ![b] = 0]
        /\ UNCHANGED <<creating, exclusive, handlers, bots, routing, routed>>
    BY <1>6 DEF GetUpdates
  <2>2. Updates'
    BY <2>1 DEF BotsInv, Updates
  <2>3. RoutedArrives'
    BY <2>1 DEF BotsInv, Updates, RoutedArrives
  <2>4. HeldWhileCreating' /\ NewHasNoQueue' /\ FoundHasQueue'
    BY <2>1
    DEF BotsInv, Updates, HeldWhileCreating, NewHasNoQueue, FoundHasQueue
  <2> QED
    BY <2>2, <2>3, <2>4 DEF BotsInv
<1>7. ASSUME NEW b \in Bot, DeactivateBot(b)
      PROVE  BotsInv'
  BY <1>7 DEF DeactivateBot, BotsInv, Updates, HeldWhileCreating, NewHasNoQueue,
              FoundHasQueue, RoutedArrives
<1>8. CASE UNCHANGED botsVars
  BY <1>8 DEF botsVars, BotsInv, Updates, HeldWhileCreating, NewHasNoQueue,
              FoundHasQueue, RoutedArrives
<1> QED
  BY <1>1, <1>2, <1>3, <1>4, <1>5, <1>6, <1>7, <1>8 DEF BotsNext

LEMMA BotsInvInit == BotsInit => BotsInv
<1> SUFFICES ASSUME BotsInit PROVE BotsInv
  OBVIOUS
<1>1. Updates
  BY DEF BotsInit, AtRest, Updates
<1>2. HeldWhileCreating /\ NewHasNoQueue /\ FoundHasQueue
  BY BotsAssumption DEF BotsInit, AtRest, HeldWhileCreating, NewHasNoQueue,
         FoundHasQueue
<1>3. ASSUME NEW b \in Bot
      PROVE  routed[b] = polled[b]
                         + (IF updates[b] = None THEN 0 ELSE updates[b])
  <2>1. routed[b] = 0 /\ polled[b] = 0 /\ updates[b] = None
    BY DEF BotsInit
  <2> QED
    BY <2>1
<1> QED
  BY <1>1, <1>2, <1>3 DEF BotsInv, RoutedArrives

\* What is reported as routed is in the bot's queue or was polled, once.
THEOREM RoutedIsDelivered ==
  BotsSpec => []RoutedArrives
<1>1. BotsInv => RoutedArrives
  BY DEF BotsInv
<1> QED
  BY <1>1, BotsInvInit, BotsInvStep, PTL DEF BotsSpec

\* A bot that was found has room for one more update, and what waits or was
\* polled is bounded by what was routed.
RoutedBounds ==
    /\ exclusive \in BOOLEAN
    /\ \A b \in Bot : routed[b] <= MaxQueued + 1
    /\ \A b \in Bot : routing = b => routed[b] <= MaxQueued

LEMMA RoutedBoundsStep ==
  ASSUME BotsInv, RoutedBounds, [BotsNext]_botsVars
  PROVE  RoutedBounds'
<1> USE BotsAssumption
<1>0. routed \in [Bot -> Nat] /\ routing \in Bot \cup {None}
  BY DEF BotsInv, Updates
<1>1. ASSUME NEW b \in Bot, PushUpdate(b)
      PROVE  RoutedBounds'
  <2>1. /\ routed[b] < MaxQueued /\ routed' = [routed EXCEPT ![b] = @ + 1]
        /\ exclusive' = exclusive /\ routing' = routing
    BY <1>1 DEF PushUpdate
  <2>2. \A c \in Bot : routed'[c] = IF c = b THEN routed[b] + 1 ELSE routed[c]
    BY <1>0, <2>1
  <2> QED
    BY <1>0, <2>1, <2>2 DEF RoutedBounds
<1>2. ASSUME NEW b \in Bot, RouteTo(b)
      PROVE  RoutedBounds'
  <2>1. /\ routing = b /\ routed' = [routed EXCEPT ![b] = @ + 1]
        /\ exclusive' = exclusive /\ routing' = None
    BY <1>2 DEF RouteTo
  <2>2. \A c \in Bot : routed'[c] = IF c = b THEN routed[b] + 1 ELSE routed[c]
    BY <1>0, <2>1
  <2>3. \A c \in Bot : c # None
    OBVIOUS
  <2> QED
    BY <1>0, <2>1, <2>2, <2>3 DEF RoutedBounds
<1>3. ASSUME NEW c \in Command, FindHandler(c)
      PROVE  RoutedBounds'
  <2>1. /\ routing' = handlers[c] /\ routed[handlers[c]] < MaxQueued
        /\ exclusive' = exclusive /\ routed' = routed
    BY <1>3 DEF FindHandler
  <2>2. \A b \in Bot : routing' = b => routed[b] <= MaxQueued
    BY <1>0, <2>1
  <2> QED
    BY <2>1, <2>2 DEF RoutedBounds
<1>4. ASSUME UNCHANGED <<routing, routed>>, exclusive' \in BOOLEAN
      PROVE  RoutedBounds'
  BY <1>4 DEF RoutedBounds
<1>5. ASSUME NEW b \in Bot, NEW C \in SUBSET Command, RegisterCommands(b, C)
      PROVE  RoutedBounds'
  BY <1>4, <1>5 DEF RegisterCommands, HeldToTheEnd
<1>6. CASE InsertBot \/ InsertQueue
  BY <1>4, <1>6 DEF InsertBot, InsertQueue, RoutedBounds
<1>7. ASSUME NEW b \in Bot, GetUpdates(b) \/ DeactivateBot(b)
      PROVE  RoutedBounds'
  BY <1>4, <1>7 DEF GetUpdates, DeactivateBot, RoutedBounds
<1>8. CASE UNCHANGED botsVars
  BY <1>4, <1>8 DEF botsVars, RoutedBounds
<1> QED
  BY <1>1, <1>2, <1>3, <1>5, <1>6, <1>7, <1>8 DEF BotsNext

LEMMA BotsTypes == BotsSpec => []BotsTypeOK
<1>1. BotsInit => RoutedBounds
  <2> SUFFICES ASSUME BotsInit PROVE RoutedBounds
    OBVIOUS
  <2>1. exclusive = FALSE /\ routing = None /\ \A b \in Bot : routed[b] = 0
    BY DEF BotsInit
  <2>2. 0 <= MaxQueued + 1 /\ 0 <= MaxQueued
    BY BotsAssumption
  <2> QED
    BY <2>1, <2>2 DEF RoutedBounds
<1>2. BotsInv /\ RoutedBounds => BotsTypeOK
  <2> SUFFICES ASSUME BotsInv, RoutedBounds PROVE BotsTypeOK
    OBVIOUS
  <2>1. Updates
    BY DEF BotsInv
  <2>2. ASSUME NEW b \in Bot
        PROVE  /\ routed[b] \in 0 .. MaxQueued + 1
               /\ polled[b] \in 0 .. MaxQueued + 1
               /\ updates[b] \in (0 .. MaxQueued + 1) \cup {None}
    <3>1. /\ routed[b] \in Nat /\ polled[b] \in Nat
          /\ updates[b] \in Nat \cup {None}
      BY <2>1 DEF Updates
    <3>2. routed[b] = polled[b] + (IF updates[b] = None THEN 0 ELSE updates[b])
      BY DEF BotsInv, RoutedArrives
    <3>3. routed[b] <= MaxQueued + 1
      BY DEF RoutedBounds
    <3>4. CASE updates[b] = None
      BY <3>1, <3>2, <3>3, <3>4, BotsAssumption
    <3>5. CASE updates[b] # None
      BY <3>1, <3>2, <3>3, <3>5, BotsAssumption
    <3> QED
      BY <3>4, <3>5
  <2>3. /\ routed \in [Bot -> 0 .. MaxQueued + 1]
        /\ polled \in [Bot -> 0 .. MaxQueued + 1]
        /\ updates \in [Bot -> (0 .. MaxQueued + 1) \cup {None}]
    BY <2>1, <2>2 DEF Updates
  <2> QED
    BY <2>1, <2>3 DEF Updates, RoutedBounds, BotsTypeOK
<1> QED
  BY <1>1, <1>2, BotsInvInit, BotsInvStep, RoutedBoundsStep, PTL DEF BotsSpec

-----------------------------------------------------------------------------
(***************************************************************************)
(* What the failed calls of cipher_init cost, and that nothing else costs  *)
(* it: LossNeedsFailedInit of module AppClients, for any calls, identities *)
(* and messages.  An acknowledged message is in the inbox of some client   *)
(* of its identity, and the only client of a call that returned Ok is the  *)
(* one in STATE.                                                           *)
(***************************************************************************)

\* A client exists from the daemon's start on, and Ok means being in STATE.
StagesFit ==
    \A c \in Call : /\ client[c] # None => stage[c] # "idle"
                    /\ stage[c] = "ok" => app = c

\* What the relays no longer hold was returned or is in an inbox of a client
\* of its identity.
TakenIsSomewhere ==
    \A m \in Mail \ appMail :
        \/ m \in returned
        \/ \E c \in Call : client[c] = Addressee[m] /\ m \in appInbox[c]

AppInv == AppTypeOK /\ StagesFit /\ TakenIsSomewhere

\* Each step of cipher_init, of a daemon and of cipher_receive_all keeps it.
LEMMA AppInvStep ==
  ASSUME AppInv, [AppNext]_appVars
  PROVE  AppInv'
<1> USE AppAssumption
<1>1. ASSUME NEW c \in Call, NEW i \in Mnemonic, StartSyncDaemon(c, i)
      PROVE  AppInv'
  <2>1. /\ stage[c] = "idle"
        /\ client[c] = None
        /\ client' = [client EXCEPT ![c] = i]
        /\ stage' = [stage EXCEPT ![c] = "bind"]
        /\ UNCHANGED <<app, appMail, appInbox, returned>>
    BY <1>1 DEF StartSyncDaemon, AppInv, StagesFit
  <2>2. AppTypeOK' /\ StagesFit'
    BY <2>1 DEF AppInv, AppTypeOK, StagesFit
  <2>3. TakenIsSomewhere'
    BY <2>1 DEF AppInv, AppTypeOK, TakenIsSomewhere
  <2> QED
    BY <2>2, <2>3 DEF AppInv
<1>2. ASSUME NEW c \in Call, BindTurnProxy(c)
      PROVE  AppInv'
  BY <1>2 DEF BindTurnProxy, AppInv, AppTypeOK, StagesFit, TakenIsSomewhere
<1>3. ASSUME NEW c \in Call, SetOnce(c)
      PROVE  AppInv'
  BY <1>3 DEF SetOnce, FirstWins, AppInv, AppTypeOK, StagesFit, TakenIsSomewhere
<1>4. ASSUME NEW m \in Mail, TakeMail(m)
      PROVE  AppInv'
  <2>1. PICK T \in SUBSET {c \in Call : client[c] = Addressee[m]} :
          /\ T # {}
          /\ appInbox' = [c \in Call |-> IF c \in T THEN appInbox[c] \cup {m}
                                                    ELSE appInbox[c]]
    BY <1>4 DEF TakeMail
  <2>2. /\ appMail' = appMail \ {m}
        /\ UNCHANGED <<stage, client, app, returned>>
    BY <1>4 DEF TakeMail
  <2>3. AppTypeOK' /\ StagesFit'
    BY <2>1, <2>2 DEF AppInv, AppTypeOK, StagesFit
  <2>4. TakenIsSomewhere'
    BY <2>1, <2>2 DEF AppInv, TakenIsSomewhere
  <2> QED
    BY <2>3, <2>4 DEF AppInv
<1>5. CASE CipherReceiveAll
  <2>1. /\ app \in Call
        /\ returned' = returned \cup appInbox[app]
        /\ appInbox' = [appInbox EXCEPT ![app] = {}]
        /\ UNCHANGED <<stage, client, app, appMail>>
    BY <1>5 DEF CipherReceiveAll, AppInv, AppTypeOK
  <2>2. AppTypeOK' /\ StagesFit'
    BY <2>1 DEF AppInv, AppTypeOK, StagesFit
  <2>3. TakenIsSomewhere'
    BY <2>1 DEF AppInv, AppTypeOK, TakenIsSomewhere
  <2> QED
    BY <2>2, <2>3 DEF AppInv
<1>6. CASE UNCHANGED appVars
  BY <1>6 DEF appVars, AppInv, AppTypeOK, StagesFit, TakenIsSomewhere
<1> QED
  BY <1>1, <1>2, <1>3, <1>4, <1>5, <1>6 DEF AppNext

\* When every client was made by a call that returned Ok, there is one, and
\* what was taken went through it.
LEMMA NoLoss == ASSUME AppInv PROVE LossNeedsFailedInit
<1> SUFFICES ASSUME \A c \in Call : stage[c] \in {"idle", "ok"},
                    NEW m \in Mail \ appMail, m \notin returned
             PROVE  m \in appInbox[app]
  BY DEF LossNeedsFailedInit
<1>1. PICK c \in Call : client[c] = Addressee[m] /\ m \in appInbox[c]
  BY DEF AppInv, TakenIsSomewhere
<1>2. stage[c] = "ok"
  BY <1>1, AppAssumption DEF AppInv, StagesFit
<1> QED
  BY <1>1, <1>2 DEF AppInv, StagesFit

\* Acknowledged mail is lost to the application only through a call of
\* cipher_init that failed or has not ended.
THEOREM LossIsExplained ==
  AppSpec => []LossNeedsFailedInit
<1>1. AppInit => AppInv
  BY AppAssumption DEF AppInit, AppInv, AppTypeOK, StagesFit, TakenIsSomewhere
<1>2. AppInv /\ [AppNext]_appVars => AppInv'
  BY AppInvStep
<1>3. AppInv => LossNeedsFailedInit
  BY NoLoss
<1> QED
  BY <1>1, <1>2, <1>3, PTL DEF AppSpec
-----------------------------------------------------------------------------
(***************************************************************************)
(* Groups: whoever is a member, and nobody who was removed, knows the      *)
(* current key: KeyIsTheMembers, for any addresses and any number of       *)
(* rotations.  A key is drawn for every change of the members, and no key  *)
(* is known before it is drawn.                                            *)
(***************************************************************************)

GroupsInv ==
    /\ GroupsTypeOK
    /\ members = <<>> => \A a \in Address : knows[a] = {}
    /\ members # <<>> => Entry(Us, "Owner") \in ToSet(members)
    /\ key = epoch
    /\ \A a \in Address : \A k \in knows[a] : k <= epoch
    /\ KeyIsTheMembers

\* The members learn a key that nobody knows.
LEMMA LearnNew ==
  ASSUME GroupsInv, Learn,
         members' \in Seq([address : Address, role : Role]),
         Entry(Us, "Owner") \in ToSet(members'),
         epoch' \in 0 .. MaxEpoch, key' = epoch',
         \A a \in Address : \A k \in knows[a] : k < epoch',
         settings' \in SUBSET Setting
  PROVE  GroupsInv'
<1>1. /\ knows' = [a \in Address |->
                     IF a \in Addresses(members') THEN knows[a] \cup {key'}
                     ELSE knows[a]]
      /\ knows \in [Address -> SUBSET (0 .. MaxEpoch)]
      /\ \A a \in Address : \A k \in knows[a] : k \in Nat /\ k < epoch'
      /\ epoch' \in Nat
  BY GroupsAssumption DEF Learn, GroupsInv, GroupsTypeOK
<1>2. Addresses(members') \subseteq Address
  <2>1. \A i \in DOMAIN members' :
           members'[i] \in [address : Address, role : Role]
    BY Entries
  <2>2. \A i \in DOMAIN members' : members'[i].address \in Address
    BY <2>1
  <2> QED
    BY <2>2 DEF Addresses
<1>3. GroupsTypeOK'
  BY <1>1 DEF GroupsTypeOK
<1>4. \A a \in Address : \A k \in knows'[a] : k <= epoch'
  BY <1>1
<1>5. \A a \in Address : key' \in knows'[a] <=> a \in Addresses(members')
  BY <1>1
<1>6. members' # <<>>
  BY DEF ToSet
<1> QED
  BY <1>2, <1>3, <1>4, <1>5, <1>6 DEF GroupsInv, KeyIsTheMembers

\* Who is in no list has no role.
LEMMA AdminIsMember == IsAdmin => members # <<>>
<1> SUFFICES ASSUME members = <<>> PROVE ~IsAdmin
  OBVIOUS
<1>1. SelectInSeq(members, LAMBDA m : m.address = Us) = 0
  BY DEF SelectInSeq
<1> QED
  BY <1>1 DEF IsAdmin, RoleOf

LEMMA GroupsInvInit == GroupsInit => GroupsInv
  BY GroupsAssumption
  DEF GroupsInit, GroupsInv, GroupsTypeOK, KeyIsTheMembers, ToSet

LEMMA GroupsInvStep ==
  ASSUME GroupsInv, [GroupsNext]_groupsVars
  PROVE  GroupsInv'
<1> USE GroupsAssumption
<1>0. /\ members \in Seq([address : Address, role : Role])
      /\ epoch \in Nat /\ settings \in SUBSET Setting
      /\ \A a \in Address : \A k \in knows[a] : k \in Nat /\ k <= epoch
      /\ Us \in Address
      /\ \A a \in Address, r \in Role :
            Entry(a, r) \in [address : Address, role : Role]
      /\ {"Owner", "Member"} \subseteq Role
      /\ "name" \in Setting
  BY DEF GroupsInv, GroupsTypeOK, Entry, Address, Role, Setting
<1>1. ASSUME NEW n \in Nat, NEW invited \in [1 .. n -> Address],
             CreateGroup(invited)
      PROVE  GroupsInv'
  <2>1. [i \in DOMAIN invited |-> Entry(invited[i], "Member")]
           \in Seq([address : Address, role : Role])
    BY <1>0
  <2>2. /\ members' \in Seq([address : Address, role : Role])
        /\ members'[1] = Entry(Us, "Owner") /\ 1 \in DOMAIN members'
    BY <1>0, <1>1, <2>1 DEF CreateGroup
  <2>3. Entry(Us, "Owner") \in ToSet(members')
    BY <2>2 DEF ToSet
  <2>4. \A a \in Address : knows[a] = {}
    BY <1>1 DEF CreateGroup, GroupsInv
  <2> QED
    BY <1>0, <1>1, <2>2, <2>3, <2>4, LearnNew DEF CreateGroup
<1>2. ASSUME NEW a \in Address, AddMember(a)
      PROVE  GroupsInv'
  <2>1. /\ members' \in Seq([address : Address, role : Role])
        /\ \A i \in DOMAIN members :
              i \in DOMAIN members' /\ members'[i] = members[i]
    BY <1>0, <1>2 DEF AddMember
  <2>2. PICK i \in DOMAIN members : members[i] = Entry(Us, "Owner")
    BY <1>2, AdminIsMember DEF AddMember, GroupsInv, ToSet
  <2>3. Entry(Us, "Owner") \in ToSet(members')
    BY <2>1, <2>2 DEF ToSet
  <2>4. epoch' = epoch + 1 /\ key' = epoch + 1 /\ epoch < MaxEpoch
    BY <1>2 DEF AddMember, Rotate
  <2>5. Learn /\ settings' = settings
    BY <1>2 DEF AddMember
  <2> QED
    BY <1>0, <2>1, <2>3, <2>4, <2>5, LearnNew
<1>3. ASSUME NEW a \in Address, RemoveMember(a)
      PROVE  GroupsInv'
  <2> DEFINE K == {i \in DOMAIN members : members[i].address # a}
  <2>1. members' = Retain(members, K) /\ K \subseteq DOMAIN members
    BY <1>3 DEF RemoveMember
  <2>2. PICK i \in DOMAIN members : members[i] = Entry(Us, "Owner")
    BY <1>3, AdminIsMember DEF RemoveMember, GroupsInv, ToSet
  <2>3. i \in K
    <3>1. Entry(a, "Owner") # Entry(Us, "Owner")
      BY <1>3, <2>2 DEF RemoveMember, ToSet
    <3> QED
      BY <2>2, <3>1 DEF Entry
  <2> HIDE DEF K
  <2>4. members' \in Seq([address : Address, role : Role])
    BY <1>0, <2>1, RetainKeeps
  <2>5. Entry(Us, "Owner") \in ToSet(members')
    BY <1>0, <2>1, <2>2, <2>3, RetainKeeps DEF ToSet
  <2>6. epoch' = epoch + 1 /\ key' = epoch + 1 /\ epoch < MaxEpoch
    BY <1>3 DEF RemoveMember, Rotate
  <2>7. Learn /\ settings' = settings
    BY <1>3 DEF RemoveMember
  <2> QED
    BY <1>0, <2>4, <2>5, <2>6, <2>7, LearnNew
<1>4. ASSUME NEW a \in Address, NEW role \in Role, UpdatePermissions(a, role)
      PROVE  GroupsInv'
  <2> DEFINE i == SelectInSeq(members, LAMBDA m : m.address = a)
             e == [members[i] EXCEPT !.role = role]
  <2>1. /\ i # 0 /\ members[i].role # "Owner"
        /\ members' = [members EXCEPT ![i] = e]
        /\ UNCHANGED <<epoch, key, settings, knows>>
    BY <1>4 DEF UpdatePermissions
  <2>2. i \in DOMAIN members
    <3> DEFINE I == {j \in 1 .. Len(members) : members[j].address = a}
    <3>1. i = IF I # {} THEN Min(I) ELSE 0
      BY DEF SelectInSeq
    <3>2. I \subseteq Nat
      OBVIOUS
    <3>3. I # {} => Min(I) \in I
      <4> HIDE DEF I
      <4> QED
        BY <3>2, Smallest
    <3> QED
      BY <1>0, <2>1, <3>1, <3>3
  <2> HIDE DEF i
  <2>3. /\ members[i] \in [address : Address, role : Role]
        /\ e \in [address : Address, role : Role]
        /\ e.address = members[i].address
    <3>1. members[i] \in [address : Address, role : Role]
      BY <1>0, <2>2, Entries
    <3> QED
      BY <3>1
  <2> HIDE DEF e
  <2>4. /\ members' \in Seq([address : Address, role : Role])
        /\ DOMAIN members' = DOMAIN members
        /\ \A j \in DOMAIN members :
              /\ members'[j].address = members[j].address
              /\ j # i => members'[j] = members[j]
    BY <1>0, <2>2, <2>1, <2>3, ChangedEntry
  <2>5. members # <<>>
    BY <1>4, AdminIsMember DEF UpdatePermissions
  <2>6. PICK j \in DOMAIN members : members[j] = Entry(Us, "Owner")
    BY <2>5 DEF GroupsInv, ToSet
  <2>7. Entry(Us, "Owner") \in ToSet(members')
    BY <2>1, <2>4, <2>6 DEF ToSet, Entry
  <2>8. Addresses(members') = Addresses(members)
    BY <2>4 DEF Addresses
  <2>9. KeyIsTheMembers'
    BY <2>1, <2>5, <2>8 DEF KeyIsTheMembers, GroupsInv
  <2>10. members' # <<>>
    BY <2>4, <2>6
  <2> QED
    BY <2>1, <2>4, <2>7, <2>9, <2>10 DEF GroupsInv, GroupsTypeOK
<1>5. ASSUME NEW setting \in Setting, Change(setting)
      PROVE  GroupsInv'
  BY <1>5 DEF Change, GroupsInv, GroupsTypeOK, KeyIsTheMembers
<1>6. CASE UNCHANGED groupsVars
  BY <1>6 DEF groupsVars, GroupsInv, GroupsTypeOK, KeyIsTheMembers
<1>7. \A n \in 0 .. MaxInvited : n \in Nat
  OBVIOUS
<1> QED
  BY <1>1, <1>2, <1>3, <1>4, <1>5, <1>6, <1>7 DEF GroupsNext

LEMMA GroupsInvariant == GroupsSpec => []GroupsInv
<1>1. ASSUME GroupsInv, [GroupsNext]_groupsVars
      PROVE  GroupsInv'
  BY <1>1, GroupsInvStep
<1> QED
  BY GroupsInvInit, <1>1, PTL DEF GroupsSpec

\* Forward secrecy and post-compromise security of groups.rs: however often an
\* address was added, removed or invited twice, the addresses that know the
\* current key are the members.
THEOREM KeyBelongsToMembers == GroupsSpec => []KeyIsTheMembers
<1>1. GroupsInv => KeyIsTheMembers
  BY DEF GroupsInv
<1> QED
  BY <1>1, GroupsInvariant, PTL
-----------------------------------------------------------------------------
(***************************************************************************)
(* Calls: a call is active only where the other side accepted it           *)
(* (ConnectedWasAnswered), the other side knows it or is telling of its    *)
(* end (ActiveIsShared), and where media goes there is a call              *)
(* (MediaHasACall): for any threads and ids, however signals are lost,     *)
(* delayed and cross.  An offer is sent once, so that no device ever has   *)
(* two sessions with one id.                                               *)
(***************************************************************************)

\* The sessions of a device are with the other one, each with an id of its
\* own.
SessionsAreSound ==
    \A d \in Party :
        /\ \A i \in DOMAIN calls[d] : calls[d][i].peer = PeerOf(d)
        /\ \A i, j \in DOMAIN calls[d] :
              calls[d][i].id = calls[d][j].id => i = j

\* Device d has a session of call c, in state st; thread t is in a function.
At(d, c, st) == \E i \in DOMAIN calls[d] : /\ calls[d][i].id = c
                                           /\ calls[d][i].state = st
Inside(t, fn, d, c) == doing[t] = In(fn, d, c)
OnItsWay(kind, d, c) == [kind |-> kind, id |-> c, to |-> d] \in signals

\* A device has sessions of the calls it dialled and those the other one
\* offered it.
HeldIsKnown(d, c) ==
    /\ \A st \in State : At(d, c, st) => dialler[c] = d \/ c \in offered[d]
    /\ c \in offered[d] => dialler[c] = PeerOf(d)

\* An offer is sent once, after its call was dialled and before anything else
\* of the call happens on the other side.
OfferIsFresh(d, c) ==
    /\ OnItsWay("Offer", d, c) =>
          dialler[c] = PeerOf(d) /\ c \notin offered[d]
    /\ \A t \in Thread : Inside(t, "initiate", d, c) =>
          /\ dialler[c] = d
          /\ c \notin offered[PeerOf(d)]
          /\ ~OnItsWay("Offer", PeerOf(d), c)
          /\ \A u \in Thread : Inside(u, "initiate", d, c) => u = t

\* What was accepted was offered and rings no more; an answer was given to it,
\* and a call is active because of that.
AnswerIsSound(d, c) ==
    /\ <<d, c>> \in answered => c \in offered[d] /\ ~At(d, c, "Ringing")
    /\ \A t \in Thread : Inside(t, "accept", d, c) => <<d, c>> \in answered
    /\ OnItsWay("Answer", d, c) => <<PeerOf(d), c>> \in answered
    /\ At(d, c, "Active") => <<PeerOf(d), c>> \in answered

\* Shared(d, c), of every call the other side ever accepted.
AcceptedIsShared(d, c) ==
    (<<PeerOf(d), c>> \in answered /\ \E st \in State : At(d, c, st)) =>
        \/ \E st \in State : At(PeerOf(d), c, st)
        \/ OnItsWay("Hangup", d, c)
        \/ \E t \in Thread : Inside(t, "hangup", PeerOf(d), c)
        \/ c \in untold

\* Media goes where a call was dialled or accepted, unless it ended.
PeerHasACall(d) ==
    activePeer[d] # None =>
        /\ activePeer[d] = PeerOf(d)
        /\ \/ d \in stray
           \/ \E t \in Thread, c \in CallId : Inside(t, "hangup", d, c)
           \/ \E c \in CallId, st \in State :
                 At(d, c, st) /\ (dialler[c] = d \/ st # "Ringing")

CallsInv == /\ CallsTypeOK
            /\ SessionsAreSound
            /\ \A d \in Party, c \in CallId : /\ HeldIsKnown(d, c)
                                              /\ OfferIsFresh(d, c)
                                              /\ AnswerIsSound(d, c)
                                              /\ AcceptedIsShared(d, c)
            /\ \A d \in Party : PeerHasACall(d)

LEMMA TwoParties ==
  \A d \in Party : /\ PeerOf(d) \in Party
                   /\ PeerOf(d) # d
                   /\ PeerOf(PeerOf(d)) = d
                   /\ PeerOf(d) # None
                   /\ \A e \in Party : e = d \/ e = PeerOf(d)
<1> TAKE d \in Party
<1>1. PICK a, b \in Party : a # b /\ Party = {a, b}
  BY CallsAssumption
<1>2. PeerOf(d) \in Party /\ PeerOf(d) # d
  BY <1>1 DEF PeerOf
<1>3. PeerOf(PeerOf(d)) \in Party /\ PeerOf(PeerOf(d)) # PeerOf(d)
  BY <1>1, <1>2 DEF PeerOf
<1> QED
  BY <1>1, <1>2, <1>3, CallsAssumption

LEMMA CallsInvInit == CallsInit => CallsInv
<1> SUFFICES ASSUME CallsInit PROVE CallsInv
  OBVIOUS
<1>1. CallsTypeOK
  BY DEF CallsInit, CallsTypeOK
<1>2. /\ \A d \in Party : calls[d] = <<>> /\ offered[d] = {}
      /\ \A d \in Party : activePeer[d] = None
      /\ \A t \in Thread : doing[t] = None
      /\ signals = {} /\ answered = {}
  BY DEF CallsInit
<1>3. \A st : \A d \in Party, c \in CallId : ~At(d, c, st)
  BY <1>2 DEF At
<1>4. \A t \in Thread, fn \in {"initiate", "accept", "hangup"}, d \in Party,
         c \in CallId : ~Inside(t, fn, d, c)
  BY <1>2, CallsAssumption DEF Inside, In, Function
<1>5. SessionsAreSound /\ \A d \in Party : PeerHasACall(d)
  BY <1>2 DEF SessionsAreSound, PeerHasACall
<1>6. \A d \in Party, c \in CallId : /\ HeldIsKnown(d, c)
                                     /\ AnswerIsSound(d, c)
                                     /\ AcceptedIsShared(d, c)
  BY <1>2, <1>3, <1>4
  DEF HeldIsKnown, AnswerIsSound, AcceptedIsShared, OnItsWay
<1>7. \A d \in Party, c \in CallId : OfferIsFresh(d, c)
  BY <1>2, <1>4 DEF OfferIsFresh, OnItsWay
<1> QED
  BY <1>1, <1>5, <1>6, <1>7 DEF CallsInv

LEMMA HeldIsAt ==
  ASSUME CallsTypeOK, NEW d \in Party, NEW c
  PROVE  c \in Ids(d) <=> \E st \in State : At(d, c, st)
<1>1. \A i \in DOMAIN calls[d] : calls[d][i] \in Session
  BY DEF CallsTypeOK
<1> QED
  BY <1>1 DEF Ids, At, Session

\* A session is pushed: it comes after the others.
LEMMA PushedSession ==
  ASSUME CallsInv, NEW d \in Party, NEW c \in CallId, NEW st \in State,
         calls' = Push(d, c, st)
  PROVE  /\ calls' \in [Party -> Seq(Session)]
         /\ \A e \in Party : e # d => calls'[e] = calls[e]
         /\ \A i \in DOMAIN calls[d] :
               i \in DOMAIN calls'[d] /\ calls'[d][i] = calls[d][i]
         /\ \E n \in DOMAIN calls'[d] :
               /\ calls'[d][n] = [id |-> c, peer |-> PeerOf(d), state |-> st]
               /\ \A i \in DOMAIN calls'[d] : i = n \/ i \in DOMAIN calls[d]
<1> DEFINE new == [id |-> c, peer |-> PeerOf(d), state |-> st]
<1>1. new \in Session
  BY TwoParties DEF Session
<1>2. calls[d] \in Seq(Session)
  BY DEF CallsInv, CallsTypeOK
<1> HIDE DEF new
<1>3. calls' = [calls EXCEPT ![d] = Append(@, new)]
  BY DEF Push, new
<1>4. /\ calls' \in [Party -> Seq(Session)]
      /\ calls'[d] = Append(calls[d], new)
      /\ \A e \in Party : e # d => calls'[e] = calls[e]
  BY <1>1, <1>2, <1>3 DEF CallsInv, CallsTypeOK
<1>5. /\ Len(calls[d]) + 1 \in DOMAIN calls'[d]
      /\ calls'[d][Len(calls[d]) + 1] = new
      /\ \A i \in DOMAIN calls'[d] :
            i = Len(calls[d]) + 1 \/ i \in DOMAIN calls[d]
      /\ \A i \in DOMAIN calls[d] :
            i \in DOMAIN calls'[d] /\ calls'[d][i] = calls[d][i]
  BY <1>1, <1>2, <1>4
<1> QED
  BY <1>4, <1>5 DEF new

\* The state of a session is set: there is only one with the id.
LEMMA ChangedSession ==
  ASSUME CallsInv, NEW d \in Party, NEW c \in CallId, NEW st \in State,
         calls' = SetState(d, c, st)
  PROVE  /\ calls' \in [Party -> Seq(Session)]
         /\ \A e \in Party : e # d => calls'[e] = calls[e]
         /\ DOMAIN calls'[d] = DOMAIN calls[d]
         /\ \A i \in DOMAIN calls[d] :
               /\ calls'[d][i].id = calls[d][i].id
               /\ calls'[d][i].peer = calls[d][i].peer
               /\ calls[d][i].id = c => calls'[d][i].state = st
               /\ calls[d][i].id # c => calls'[d][i].state = calls[d][i].state
<1>1. calls \in [Party -> Seq(Session)] /\ calls[d] \in Seq(Session)
  BY DEF CallsInv, CallsTypeOK
<1>2. CASE c \notin Ids(d)
  <2>1. \A i \in DOMAIN calls[d] : calls[d][i].id # c
    BY <1>2 DEF Ids
  <2> QED
    BY <1>1, <1>2, <2>1 DEF SetState
<1>3. CASE c \in Ids(d)
  <2> DEFINE k == FirstWith(d, c)
             new == [calls[d][k] EXCEPT !.state = st]
  <2>1. PICK i \in DOMAIN calls[d] : calls[d][i].id = c
    BY <1>3 DEF Ids
  <2>2. \A j \in DOMAIN calls[d] : calls[d][j].id = c => j = i
    BY <2>1 DEF CallsInv, SessionsAreSound
  <2>3. \A j \in 1 .. i - 1 : j \in DOMAIN calls[d] /\ j # i
    BY <1>1, <2>1
  <2>4. k = i
    BY <2>1, <2>2, <2>3 DEF FirstWith
  <2>5. calls[d][k] \in Session /\ new \in Session
    <3>1. calls[d][k] \in Session
      BY <1>1, <2>1, <2>4
    <3> QED
      BY <3>1 DEF Session
  <2>6. calls' = [calls EXCEPT ![d] = [calls[d] EXCEPT ![k] = new]]
    BY <1>1, <1>3 DEF SetState
  <2> HIDE DEF new, k
  <2>7. /\ calls' \in [Party -> Seq(Session)]
        /\ \A e \in Party : e # d => calls'[e] = calls[e]
        /\ calls'[d] = [calls[d] EXCEPT ![k] = new]
    BY <1>1, <2>1, <2>4, <2>5, <2>6, ChangedEntry
  <2>8. /\ DOMAIN calls'[d] = DOMAIN calls[d]
        /\ calls'[d][i] = new
        /\ \A j \in DOMAIN calls[d] : j # i => calls'[d][j] = calls[d][j]
    BY <1>1, <2>1, <2>4, <2>5, <2>7, ChangedEntry
  <2>9. new = [calls[d][i] EXCEPT !.state = st]
    BY <2>4 DEF new
  <2>10. /\ new.id = calls[d][i].id /\ new.peer = calls[d][i].peer
         /\ new.state = st
    BY <2>4, <2>5, <2>9 DEF Session
  <2> QED
    BY <2>1, <2>2, <2>7, <2>8, <2>10
<1> QED
  BY <1>2, <1>3

\* The sessions with an id leave the list.
LEMMA RemovedSessions ==
  ASSUME CallsInv, NEW d \in Party, NEW c \in CallId,
         calls' = Without(d, c)
  PROVE  /\ calls' \in [Party -> Seq(Session)]
         /\ \A e \in Party : e # d => calls'[e] = calls[e]
         /\ \A j \in DOMAIN calls'[d] :
               \E i \in DOMAIN calls[d] :
                  calls[d][i].id # c /\ calls'[d][j] = calls[d][i]
         /\ \A i \in DOMAIN calls[d] : calls[d][i].id # c =>
               \E j \in DOMAIN calls'[d] : calls'[d][j] = calls[d][i]
         /\ \A i, j \in DOMAIN calls'[d] :
               calls'[d][i].id = calls'[d][j].id => i = j
<1> DEFINE K == {i \in DOMAIN calls[d] : calls[d][i].id # c}
<1>1. calls \in [Party -> Seq(Session)] /\ calls[d] \in Seq(Session)
  BY DEF CallsInv, CallsTypeOK
<1>2. calls' = [calls EXCEPT ![d] = Retain(calls[d], K)]
  BY <1>1 DEF Without
<1>3. /\ K \subseteq DOMAIN calls[d]
      /\ \A i \in DOMAIN calls[d] : i \in K <=> calls[d][i].id # c
  OBVIOUS
<1> HIDE DEF K
<1>4. /\ Retain(calls[d], K) \in Seq(Session)
      /\ calls'[d] = Retain(calls[d], K)
      /\ calls' \in [Party -> Seq(Session)]
      /\ \A e \in Party : e # d => calls'[e] = calls[e]
  BY <1>1, <1>2, <1>3, RetainKeeps
<1>5. /\ \A j \in DOMAIN calls'[d] :
            Nth(K, j) \in K /\ calls'[d][j] = calls[d][Nth(K, j)]
      /\ \A i \in K : \E j \in DOMAIN calls'[d] : calls'[d][j] = calls[d][i]
      /\ \A i, j \in DOMAIN calls'[d] : Nth(K, i) = Nth(K, j) => i = j
  BY <1>1, <1>3, <1>4, RetainKeeps
<1>6. \A i, j \in K : calls[d][i].id = calls[d][j].id => i = j
  BY <1>3 DEF CallsInv, SessionsAreSound
<1>7. ASSUME NEW i \in DOMAIN calls'[d], NEW j \in DOMAIN calls'[d],
             calls'[d][i].id = calls'[d][j].id
      PROVE  i = j
  BY <1>5, <1>6, <1>7
<1> QED
  BY <1>3, <1>4, <1>5, <1>7

\* The three ways the sessions change, in terms of At: a new one, another state
\* and none.
LEMMA NewCall ==
  ASSUME CallsInv, NEW d \in Party, NEW c \in CallId, NEW st \in State,
         calls' = Push(d, c, st), \A r \in State : ~At(d, c, r)
  PROVE  /\ calls' \in [Party -> Seq(Session)]
         /\ SessionsAreSound'
         /\ \A e \in Party, x \in CallId, r \in State :
               At(e, x, r)' <=> IF e = d /\ x = c THEN r = st ELSE At(e, x, r)
<1>1. /\ calls' \in [Party -> Seq(Session)]
      /\ \A e \in Party : e # d => calls'[e] = calls[e]
      /\ \A i \in DOMAIN calls[d] :
            i \in DOMAIN calls'[d] /\ calls'[d][i] = calls[d][i]
  BY PushedSession
<1>2. PICK n \in DOMAIN calls'[d] :
         /\ calls'[d][n] = [id |-> c, peer |-> PeerOf(d), state |-> st]
         /\ \A i \in DOMAIN calls'[d] : i = n \/ i \in DOMAIN calls[d]
  BY PushedSession
<1>3. /\ calls'[d][n].id = c /\ calls'[d][n].peer = PeerOf(d)
      /\ calls'[d][n].state = st
  BY <1>2
<1>4. \A i \in DOMAIN calls[d] : calls[d][i].id # c
  BY HeldIsAt DEF CallsInv, Ids
<1>5. SessionsAreSound'
  <2>1. \A i \in DOMAIN calls'[d] : calls'[d][i].peer = PeerOf(d)
    BY <1>1, <1>2, <1>3 DEF CallsInv, SessionsAreSound
  <2>2. \A i, j \in DOMAIN calls'[d] :
           calls'[d][i].id = calls'[d][j].id => i = j
    BY <1>1, <1>2, <1>3, <1>4 DEF CallsInv, SessionsAreSound
  <2>3. \A e \in Party : e # d =>
           /\ \A i \in DOMAIN calls'[e] : calls'[e][i].peer = PeerOf(e)
           /\ \A i, j \in DOMAIN calls'[e] :
                 calls'[e][i].id = calls'[e][j].id => i = j
    BY <1>1 DEF CallsInv, SessionsAreSound
  <2> QED
    BY <2>1, <2>2, <2>3 DEF SessionsAreSound
<1>6. ASSUME NEW e \in Party, NEW x \in CallId, NEW r \in State
      PROVE  At(e, x, r)' <=>
                IF e = d /\ x = c THEN r = st ELSE At(e, x, r)
  <2>1. CASE e # d
    BY <1>1, <2>1 DEF At
  <2>2. CASE e = d /\ x = c
    BY <1>1, <1>2, <1>3, <1>4, <2>2 DEF At
  <2>3. CASE e = d /\ x # c
    BY <1>1, <1>2, <1>3, <2>3 DEF At
  <2> QED
    BY <2>1, <2>2, <2>3
<1> QED
  BY <1>1, <1>5, <1>6

LEMMA OtherState ==
  ASSUME CallsInv, NEW d \in Party, NEW c \in CallId, NEW st \in State,
         calls' = SetState(d, c, st)
  PROVE  /\ calls' \in [Party -> Seq(Session)]
         /\ SessionsAreSound'
         /\ \A e \in Party, x \in CallId, r \in State :
               At(e, x, r)' <=> IF e = d /\ x = c
                                THEN r = st /\ c \in Ids(d)
                                ELSE At(e, x, r)
<1>1. /\ calls' \in [Party -> Seq(Session)]
      /\ \A e \in Party : e # d => calls'[e] = calls[e]
      /\ DOMAIN calls'[d] = DOMAIN calls[d]
      /\ \A i \in DOMAIN calls[d] :
            /\ calls'[d][i].id = calls[d][i].id
            /\ calls'[d][i].peer = calls[d][i].peer
            /\ calls[d][i].id = c => calls'[d][i].state = st
            /\ calls[d][i].id # c => calls'[d][i].state = calls[d][i].state
  BY ChangedSession
<1>2. SessionsAreSound'
  <2>1. /\ \A i \in DOMAIN calls'[d] : calls'[d][i].peer = PeerOf(d)
        /\ \A i, j \in DOMAIN calls'[d] :
              calls'[d][i].id = calls'[d][j].id => i = j
    BY <1>1 DEF CallsInv, SessionsAreSound
  <2>2. \A e \in Party : e # d =>
           /\ \A i \in DOMAIN calls'[e] : calls'[e][i].peer = PeerOf(e)
           /\ \A i, j \in DOMAIN calls'[e] :
                 calls'[e][i].id = calls'[e][j].id => i = j
    BY <1>1 DEF CallsInv, SessionsAreSound
  <2> QED
    BY <2>1, <2>2 DEF SessionsAreSound
<1>3. ASSUME NEW e \in Party, NEW x \in CallId, NEW r \in State
      PROVE  At(e, x, r)' <=> IF e = d /\ x = c THEN r = st /\ c \in Ids(d)
                              ELSE At(e, x, r)
  <2>1. CASE e # d
    BY <1>1, <2>1 DEF At
  <2>2. CASE e = d /\ x = c
    BY <1>1, <2>2 DEF At, Ids
  <2>3. CASE e = d /\ x # c
    BY <1>1, <2>3 DEF At
  <2> QED
    BY <2>1, <2>2, <2>3
<1> QED
  BY <1>1, <1>2, <1>3

LEMMA NoCall ==
  ASSUME CallsInv, NEW d \in Party, NEW c \in CallId, calls' = Without(d, c)
  PROVE  /\ calls' \in [Party -> Seq(Session)]
         /\ SessionsAreSound'
         /\ \A e \in Party, x \in CallId, r \in State :
               At(e, x, r)' <=> ~(e = d /\ x = c) /\ At(e, x, r)
<1>1. /\ calls' \in [Party -> Seq(Session)]
      /\ \A e \in Party : e # d => calls'[e] = calls[e]
      /\ \A j \in DOMAIN calls'[d] :
            \E i \in DOMAIN calls[d] :
               calls[d][i].id # c /\ calls'[d][j] = calls[d][i]
      /\ \A i \in DOMAIN calls[d] : calls[d][i].id # c =>
            \E j \in DOMAIN calls'[d] : calls'[d][j] = calls[d][i]
      /\ \A i, j \in DOMAIN calls'[d] :
            calls'[d][i].id = calls'[d][j].id => i = j
  BY RemovedSessions
<1>2. SessionsAreSound'
  <2>1. \A i \in DOMAIN calls'[d] : calls'[d][i].peer = PeerOf(d)
    BY <1>1 DEF CallsInv, SessionsAreSound
  <2>2. \A e \in Party : e # d =>
           /\ \A i \in DOMAIN calls'[e] : calls'[e][i].peer = PeerOf(e)
           /\ \A i, j \in DOMAIN calls'[e] :
                 calls'[e][i].id = calls'[e][j].id => i = j
    BY <1>1 DEF CallsInv, SessionsAreSound
  <2> QED
    BY <1>1, <2>1, <2>2 DEF SessionsAreSound
<1>3. ASSUME NEW e \in Party, NEW x \in CallId, NEW r \in State
      PROVE  At(e, x, r)' <=> ~(e = d /\ x = c) /\ At(e, x, r)
  <2>1. CASE e # d
    BY <1>1, <2>1 DEF At
  <2>2. CASE e = d /\ x = c
    BY <1>1, <2>2 DEF At
  <2>3. CASE e = d /\ x # c
    BY <1>1, <2>3 DEF At
  <2> QED
    BY <2>1, <2>2, <2>3
<1> QED
  BY <1>1, <1>2, <1>3

\* A thread past its first lock, and one past its second.
LEMMA Entered ==
  ASSUME CallsTypeOK, NEW t \in Thread, NEW d \in Party, NEW c \in CallId,
         NEW fn \in {"initiate", "accept", "hangup"}, Enter(t, fn, d, c)
  PROVE  /\ doing' \in [Thread -> Function \cup {None}]
         /\ \A u \in Thread, g \in {"initiate", "accept", "hangup"},
               e \in Party, x \in CallId :
               Inside(u, g, e, x)' <=> \/ Inside(u, g, e, x)
                                       \/ u = t /\ g = fn /\ e = d /\ x = c
<1>1. In(fn, d, c) \in Function
  BY DEF In, Function
<1>2. /\ doing[t] = None /\ doing'[t] = In(fn, d, c)
      /\ \A u \in Thread : u # t => doing'[u] = doing[u]
      /\ doing' \in [Thread -> Function \cup {None}]
  BY <1>1 DEF Enter, CallsTypeOK
<1>3. ASSUME NEW u \in Thread, NEW g \in {"initiate", "accept", "hangup"},
             NEW e \in Party, NEW x \in CallId
      PROVE  Inside(u, g, e, x)' <=> \/ Inside(u, g, e, x)
                                     \/ u = t /\ g = fn /\ e = d /\ x = c
  <2>1. In(g, e, x) \in Function
    BY DEF In, Function
  <2>2. In(g, e, x) = In(fn, d, c) <=> g = fn /\ e = d /\ x = c
    BY DEF In
  <2>3. CASE u = t
    BY <1>2, <2>1, <2>2, <2>3, CallsAssumption DEF Inside
  <2>4. CASE u # t
    BY <1>2, <2>4 DEF Inside
  <2> QED
    BY <2>3, <2>4
<1> QED
  BY <1>2, <1>3

LEMMA Left ==
  ASSUME CallsTypeOK, NEW t \in Thread, NEW d \in Party, NEW c \in CallId,
         NEW fn \in {"initiate", "accept", "hangup"}, Inside(t, fn, d, c),
         Return(t)
  PROVE  /\ doing' \in [Thread -> Function \cup {None}]
         /\ \A u \in Thread, g \in {"initiate", "accept", "hangup"},
               e \in Party, x \in CallId :
               /\ Inside(u, g, e, x)' <=> u # t /\ Inside(u, g, e, x)
               /\ Inside(t, g, e, x) => g = fn /\ e = d /\ x = c
<1>1. /\ doing[t] = In(fn, d, c) /\ doing'[t] = None
      /\ \A u \in Thread : u # t => doing'[u] = doing[u]
      /\ doing' \in [Thread -> Function \cup {None}]
  BY DEF Return, Inside, CallsTypeOK
<1>2. ASSUME NEW u \in Thread, NEW g \in {"initiate", "accept", "hangup"},
             NEW e \in Party, NEW x \in CallId
      PROVE  /\ Inside(u, g, e, x)' <=> u # t /\ Inside(u, g, e, x)
             /\ Inside(t, g, e, x) => g = fn /\ e = d /\ x = c
  <2>1. In(g, e, x) \in Function
    BY DEF In, Function
  <2>2. In(g, e, x) = In(fn, d, c) => g = fn /\ e = d /\ x = c
    BY DEF In
  <2>3. CASE u = t
    BY <1>1, <2>1, <2>2, <2>3, CallsAssumption DEF Inside
  <2>4. CASE u # t
    BY <1>1, <2>2, <2>4 DEF Inside
  <2> QED
    BY <2>3, <2>4
<1> QED
  BY <1>1, <1>2

\* A step that leaves call x alone.
SameCall(x) ==
    /\ dialler'[x] = dialler[x] /\ (x \in untold' <=> x \in untold)
    /\ \A e \in Party :
          /\ \A r \in State : At(e, x, r)' <=> At(e, x, r)
          /\ \A u \in Thread, g \in {"initiate", "accept", "hangup"} :
                Inside(u, g, e, x)' <=> Inside(u, g, e, x)
          /\ \A k \in {"Offer", "Answer", "Hangup"} :
                OnItsWay(k, e, x)' <=> OnItsWay(k, e, x)
          /\ x \in offered'[e] <=> x \in offered[e]
          /\ <<e, x>> \in answered' <=> <<e, x>> \in answered

LEMMA OtherCalls ==
  ASSUME CallsInv, NEW x \in CallId, SameCall(x)
  PROVE  \A e \in Party : /\ HeldIsKnown(e, x)'
                          /\ OfferIsFresh(e, x)'
                          /\ AnswerIsSound(e, x)'
                          /\ AcceptedIsShared(e, x)'
<1> TAKE e \in Party
<1>1. /\ HeldIsKnown(e, x) /\ OfferIsFresh(e, x)
      /\ AnswerIsSound(e, x) /\ AcceptedIsShared(e, x)
  BY DEF CallsInv
<1>2. HeldIsKnown(e, x)'
  BY <1>1, TwoParties DEF SameCall, HeldIsKnown
<1>3. OfferIsFresh(e, x)'
  BY <1>1, TwoParties DEF SameCall, OfferIsFresh
<1>4. AnswerIsSound(e, x)'
  BY <1>1, TwoParties DEF SameCall, AnswerIsSound, State
<1>5. AcceptedIsShared(e, x)'
  BY <1>1, TwoParties DEF SameCall, AcceptedIsShared
<1> QED
  BY <1>2, <1>3, <1>4, <1>5

LEMMA InitiateKeeps ==
  ASSUME CallsInv, NEW t \in Thread, NEW d \in Party, NEW c \in CallId,
         Initiate(t, d, c)
  PROVE  CallsInv'
<1>1. /\ dialler[c] = None /\ dialler' = [dialler EXCEPT ![c] = d]
      /\ Enter(t, "initiate", d, c)
      /\ calls' = Push(d, c, "Ringing")
      /\ UNCHANGED <<history, activePeer, offered, signals, answered, untold,
                     stray>>
  BY DEF Initiate
<1>2. /\ dialler' \in [CallId -> Party \cup {None}] /\ dialler'[c] = d
      /\ \A x \in CallId : x # c => dialler'[x] = dialler[x]
  BY <1>1 DEF CallsInv, CallsTypeOK
<1>3. \A e \in Party :
         /\ c \notin offered[e] /\ <<e, c>> \notin answered
         /\ \A r \in State : ~At(e, c, r)
         /\ ~OnItsWay("Offer", e, c)
         /\ \A u \in Thread : ~Inside(u, "initiate", e, c)
  <2> TAKE e \in Party
  <2>1. dialler[c] # e /\ dialler[c] # PeerOf(e)
    BY <1>1, TwoParties, CallsAssumption
  <2>2. c \notin offered[e]
    BY <2>1 DEF CallsInv, HeldIsKnown
  <2>3. \A r \in State : ~At(e, c, r)
    BY <2>1, <2>2 DEF CallsInv, HeldIsKnown
  <2>4. <<e, c>> \notin answered
    BY <2>2 DEF CallsInv, AnswerIsSound
  <2>5. /\ ~OnItsWay("Offer", e, c)
        /\ \A u \in Thread : ~Inside(u, "initiate", e, c)
    BY <2>1 DEF CallsInv, OfferIsFresh
  <2> QED
    BY <2>2, <2>3, <2>4, <2>5
<1>4. /\ calls' \in [Party -> Seq(Session)]
      /\ SessionsAreSound'
      /\ \A e \in Party, x \in CallId, r \in State :
            At(e, x, r)' <=> IF e = d /\ x = c THEN r = "Ringing"
                             ELSE At(e, x, r)
  BY <1>1, <1>3, NewCall DEF State
<1>5. /\ doing' \in [Thread -> Function \cup {None}]
      /\ \A u \in Thread, g \in {"initiate", "accept", "hangup"},
            e \in Party, x \in CallId :
            Inside(u, g, e, x)' <=> \/ Inside(u, g, e, x)
                                    \/ u = t /\ g = "initiate" /\ e = d /\ x = c
  BY <1>1, Entered DEF CallsInv
<1>6. \A k, e, x : OnItsWay(k, e, x)' <=> OnItsWay(k, e, x)
  BY <1>1 DEF OnItsWay
<1>7. CallsTypeOK'
  BY <1>1, <1>2, <1>4, <1>5 DEF CallsInv, CallsTypeOK
<1>8. ASSUME NEW e \in Party, NEW x \in CallId
      PROVE  /\ HeldIsKnown(e, x)'
             /\ OfferIsFresh(e, x)'
             /\ AnswerIsSound(e, x)'
             /\ AcceptedIsShared(e, x)'
  <2>1. CASE x = c
    <3>1. HeldIsKnown(e, x)'
      BY <1>1, <1>2, <1>3, <1>4, <2>1 DEF HeldIsKnown
    <3>2. \A u \in Thread : Inside(u, "initiate", e, c)' => u = t /\ e = d
      BY <1>3, <1>5
    <3>3. OfferIsFresh(e, x)'
      BY <1>1, <1>2, <1>3, <1>6, <2>1, <3>2, TwoParties DEF OfferIsFresh
    <3>4. AnswerIsSound(e, x)' /\ AcceptedIsShared(e, x)'
      <4>1. \A u \in Thread : ~Inside(u, "accept", e, c)'
        BY <1>3, <1>5 DEF CallsInv, AnswerIsSound
      <4>2. ~OnItsWay("Answer", e, c)' /\ ~At(e, c, "Active")'
        BY <1>3, <1>4, <1>6, TwoParties DEF CallsInv, AnswerIsSound, State
      <4> QED
        BY <1>1, <1>3, <2>1, <4>1, <4>2, TwoParties
        DEF AnswerIsSound, AcceptedIsShared
    <3> QED
      BY <3>1, <3>3, <3>4
  <2>2. CASE x # c
    <3>1. SameCall(x)
      BY <1>1, <1>2, <1>4, <1>5, <1>6, <2>2 DEF SameCall
    <3> QED
      BY <3>1, OtherCalls
  <2> QED
    BY <2>1, <2>2
<1>9. ASSUME NEW e \in Party
      PROVE  PeerHasACall(e)'
  <2>1. \A x \in CallId, r \in State : At(e, x, r) =>
           x # c /\ At(e, x, r)' /\ dialler'[x] = dialler[x]
    BY <1>2, <1>3, <1>4
  <2>2. \A u \in Thread, x \in CallId :
           Inside(u, "hangup", e, x) => Inside(u, "hangup", e, x)'
    BY <1>5
  <2> QED
    BY <1>1, <2>1, <2>2 DEF CallsInv, PeerHasACall
<1> QED
  BY <1>4, <1>7, <1>8, <1>9 DEF CallsInv

LEMMA AcceptKeeps ==
  ASSUME CallsInv, NEW t \in Thread, NEW d \in Party, NEW c \in CallId,
         Accept(t, d, c)
  PROVE  CallsInv'
<1>1. /\ c \in offered[d]
      /\ Enter(t, "accept", d, c)
      /\ calls' = Accepted(d, c)
      /\ answered' = answered \cup {<<d, c>>}
      /\ UNCHANGED <<history, activePeer, dialler, offered, signals, untold,
                     stray>>
  BY DEF Accept
<1>2. /\ dialler[c] = PeerOf(d) /\ dialler[c] # d
      /\ <<PeerOf(d), c>> \notin answered
  <2>1. dialler[c] = PeerOf(d) /\ dialler[c] # d
    BY <1>1, TwoParties DEF CallsInv, HeldIsKnown
  <2>2. c \notin offered[PeerOf(d)]
    BY <2>1, TwoParties DEF CallsInv, HeldIsKnown
  <2> QED
    BY <2>1, <2>2, TwoParties DEF CallsInv, AnswerIsSound
<1>3. /\ calls' \in [Party -> Seq(Session)]
      /\ SessionsAreSound'
      /\ \A e \in Party, x \in CallId, r \in State :
            At(e, x, r)' <=> IF e = d /\ x = c THEN r = "Connecting"
                             ELSE At(e, x, r)
  <2>1. CASE c \in Ids(d)
    BY <1>1, <2>1, OtherState DEF Accepted, State
  <2>2. CASE c \notin Ids(d)
    <3>1. \A r \in State : ~At(d, c, r)
      BY <2>2, HeldIsAt DEF CallsInv
    <3> QED
      BY <1>1, <2>2, <3>1, NewCall DEF Accepted, State
  <2> QED
    BY <2>1, <2>2
<1>4. /\ doing' \in [Thread -> Function \cup {None}]
      /\ \A u \in Thread, g \in {"initiate", "accept", "hangup"},
            e \in Party, x \in CallId :
            Inside(u, g, e, x)' <=> \/ Inside(u, g, e, x)
                                    \/ u = t /\ g = "accept" /\ e = d /\ x = c
  BY <1>1, Entered DEF CallsInv
<1>5. \A k, e, x : OnItsWay(k, e, x)' <=> OnItsWay(k, e, x)
  BY <1>1 DEF OnItsWay
<1>6. \A e \in Party, x \in CallId :
         <<e, x>> \in answered' <=> <<e, x>> \in answered \/ (e = d /\ x = c)
  BY <1>1
<1>7. CallsTypeOK'
  BY <1>1, <1>3, <1>4 DEF CallsInv, CallsTypeOK
<1>8. ASSUME NEW e \in Party, NEW x \in CallId
      PROVE  /\ HeldIsKnown(e, x)'
             /\ OfferIsFresh(e, x)'
             /\ AnswerIsSound(e, x)'
             /\ AcceptedIsShared(e, x)'
  <2>1. CASE x = c
    <3>1. HeldIsKnown(e, x)'
      BY <1>1, <1>3, <2>1 DEF CallsInv, HeldIsKnown
    <3>2. \A f \in Party, u \in Thread :
             Inside(u, "initiate", f, c)' <=> Inside(u, "initiate", f, c)
      BY <1>4
    <3>3. OfferIsFresh(e, x)'
      BY <1>1, <1>5, <2>1, <3>2, TwoParties DEF CallsInv, OfferIsFresh
    <3>4. AnswerIsSound(e, x)'
      <4>1. <<e, c>> \in answered' =>
               c \in offered'[e] /\ ~At(e, c, "Ringing")'
        BY <1>1, <1>3, <1>6 DEF CallsInv, AnswerIsSound, State
      <4>2. \A u \in Thread :
               Inside(u, "accept", e, c)' => <<e, c>> \in answered'
        BY <1>4, <1>6 DEF CallsInv, AnswerIsSound
      <4>3. OnItsWay("Answer", e, c)' => <<PeerOf(e), c>> \in answered'
        BY <1>1, <1>5 DEF CallsInv, AnswerIsSound
      <4>4. At(e, c, "Active")' => <<PeerOf(e), c>> \in answered'
        BY <1>1, <1>3 DEF CallsInv, AnswerIsSound, State
      <4> QED
        BY <2>1, <4>1, <4>2, <4>3, <4>4 DEF AnswerIsSound
    <3>5. AcceptedIsShared(e, x)'
      <4>1. CASE e = d
        BY <1>2, <1>6, <2>1, <4>1, TwoParties DEF AcceptedIsShared
      <4>2. CASE e = PeerOf(d)
        BY <1>3, <2>1, <4>2, TwoParties DEF AcceptedIsShared, State
      <4> QED
        BY <4>1, <4>2, TwoParties
    <3> QED
      BY <3>1, <3>3, <3>4, <3>5
  <2>2. CASE x # c
    <3>1. SameCall(x)
      BY <1>1, <1>3, <1>4, <1>5, <1>6, <2>2 DEF SameCall
    <3> QED
      BY <3>1, OtherCalls
  <2> QED
    BY <2>1, <2>2
<1>9. ASSUME NEW e \in Party
      PROVE  PeerHasACall(e)'
  <2>1. "Connecting" \in State /\ At(d, c, "Connecting")'
    BY <1>3 DEF State
  <2>2. \A x \in CallId, r \in State : At(e, x, r) =>
           At(e, x, r)' \/ (e = d /\ x = c)
    BY <1>3
  <2>3. \A u \in Thread, x \in CallId :
           Inside(u, "hangup", e, x) => Inside(u, "hangup", e, x)'
    BY <1>4
  <2> QED
    BY <1>1, <2>1, <2>2, <2>3 DEF CallsInv, PeerHasACall
<1> QED
  BY <1>3, <1>7, <1>8, <1>9 DEF CallsInv

\* A call ends on device d.  The threads in T are about to tell the other
\* side; the hangup of the other side is taken, or the callee says nothing.
LEMMA EndedKeeps ==
  ASSUME CallsInv, NEW d \in Party, NEW c \in CallId, Ended(d, c),
         CallsTypeOK',
         UNCHANGED <<activePeer, dialler, offered, answered>>,
         NEW T \in SUBSET Thread, NEW taken \in BOOLEAN, NEW quiet \in BOOLEAN,
         \A u \in Thread, g \in {"initiate", "accept", "hangup"},
            e \in Party, x \in CallId :
            Inside(u, g, e, x)' <=>
               \/ Inside(u, g, e, x)
               \/ u \in T /\ g = "hangup" /\ e = d /\ x = c,
         \A k \in {"Offer", "Answer", "Hangup"}, e \in Party, x \in CallId :
            OnItsWay(k, e, x)' <=>
               /\ OnItsWay(k, e, x)
               /\ ~(taken /\ k = "Hangup" /\ e = d /\ x = c),
         \A x \in CallId : x \in untold' <=> x \in untold \/ (quiet /\ x = c),
         dialler[c] = d \/ T # {} \/ c \in untold',
         stray \subseteq stray', T # {} \/ d \in stray' \/ RingsIn(d, c)
  PROVE  CallsInv'
<1>1. /\ SessionsAreSound'
      /\ \A e \in Party, x \in CallId, r \in State :
            At(e, x, r)' <=> ~(e = d /\ x = c) /\ At(e, x, r)
  BY NoCall DEF Ended
<1>2. <<d, c>> \in answered => dialler[c] # d
  BY TwoParties DEF CallsInv, AnswerIsSound, HeldIsKnown
<1>3. ASSUME NEW e \in Party, NEW x \in CallId
      PROVE  /\ HeldIsKnown(e, x)'
             /\ OfferIsFresh(e, x)'
             /\ AnswerIsSound(e, x)'
             /\ AcceptedIsShared(e, x)'
  <2>1. CASE x = c
    <3>1. HeldIsKnown(e, x)'
      BY <1>1 DEF CallsInv, HeldIsKnown
    <3>2. /\ \A f \in Party, u \in Thread :
                /\ Inside(u, "initiate", f, c)' <=> Inside(u, "initiate", f, c)
                /\ Inside(u, "accept", f, c)' <=> Inside(u, "accept", f, c)
          /\ \A f \in Party :
                /\ OnItsWay("Offer", f, c)' <=> OnItsWay("Offer", f, c)
                /\ OnItsWay("Answer", f, c)' <=> OnItsWay("Answer", f, c)
      OBVIOUS
    <3>3. OfferIsFresh(e, x)'
      BY <2>1, <3>2, TwoParties DEF CallsInv, OfferIsFresh
    <3>4. AnswerIsSound(e, x)'
      BY <1>1, <2>1, <3>2 DEF CallsInv, AnswerIsSound, State
    <3>5. AcceptedIsShared(e, x)'
      <4>1. CASE e = d
        BY <1>1, <2>1, <4>1 DEF AcceptedIsShared
      <4>2. CASE e = PeerOf(d)
        <5>1. <<d, c>> \in answered =>
                 \/ \E u \in Thread : Inside(u, "hangup", d, c)'
                 \/ c \in untold'
          BY <1>2
        <5> QED
          BY <2>1, <4>2, <5>1, TwoParties DEF AcceptedIsShared
      <4> QED
        BY <4>1, <4>2, TwoParties
    <3> QED
      BY <3>1, <3>3, <3>4, <3>5
  <2>2. CASE x # c
    <3>1. SameCall(x)
      BY <1>1, <2>2 DEF SameCall
    <3> QED
      BY <3>1, OtherCalls
  <2> QED
    BY <2>1, <2>2
<1>4. ASSUME NEW e \in Party
      PROVE  PeerHasACall(e)'
  <2>1. \A u \in Thread, x \in CallId :
           Inside(u, "hangup", e, x) => Inside(u, "hangup", e, x)'
    OBVIOUS
  <2>2. CASE e # d
    BY <1>1, <2>1, <2>2 DEF CallsInv, PeerHasACall
  <2>3. CASE e = d /\ T # {}
    <3>1. PICK u \in T : TRUE
      BY <2>3
    <3>2. Inside(u, "hangup", d, c)'
      BY <3>1
    <3> QED
      BY <2>3, <3>1, <3>2 DEF CallsInv, PeerHasACall
  <2>4. CASE e = d /\ d \in stray'
    BY <2>4 DEF CallsInv, PeerHasACall
  <2>5. CASE e = d /\ RingsIn(d, c)
    <3>1. \A r \in State : At(d, c, r) => r = "Ringing" /\ dialler[c] # d
      BY <2>5 DEF At, RingsIn, CallsInv, SessionsAreSound
    <3> QED
      BY <1>1, <2>1, <2>5, <3>1 DEF CallsInv, PeerHasACall
  <2> QED
    BY <2>2, <2>3, <2>4, <2>5
<1> QED
  BY <1>1, <1>3, <1>4 DEF CallsInv

LEMMA HangupKeeps ==
  ASSUME CallsInv, NEW t \in Thread, NEW d \in Party, NEW c \in CallId,
         Enter(t, "hangup", d, c), Ended(d, c),
         UNCHANGED <<activePeer, dialler, offered, answered, untold, stray>>,
         \/ UNCHANGED signals
         \/ signals' = signals \ {[kind |-> "Hangup", id |-> c, to |-> d]}
  PROVE  CallsInv'
<1>1. /\ doing' \in [Thread -> Function \cup {None}]
      /\ \A u \in Thread, g \in {"initiate", "accept", "hangup"},
            e \in Party, x \in CallId :
            Inside(u, g, e, x)' <=>
               \/ Inside(u, g, e, x)
               \/ u \in {t} /\ g = "hangup" /\ e = d /\ x = c
  BY Entered DEF CallsInv
<1>2. /\ calls' \in [Party -> Seq(Session)]
      /\ history' \in [Party -> SUBSET CallId]
  BY NoCall DEF Ended, CallsInv, CallsTypeOK
<1>3. CallsTypeOK'
  BY <1>1, <1>2 DEF CallsInv, CallsTypeOK
<1>4. \E taken \in BOOLEAN :
         \A k \in {"Offer", "Answer", "Hangup"}, e \in Party, x \in CallId :
            OnItsWay(k, e, x)' <=>
               /\ OnItsWay(k, e, x)
               /\ ~(taken /\ k = "Hangup" /\ e = d /\ x = c)
  <2>1. CASE UNCHANGED signals
    <3>1. \A k \in {"Offer", "Answer", "Hangup"}, e \in Party, x \in CallId :
             OnItsWay(k, e, x)' <=>
                /\ OnItsWay(k, e, x)
                /\ ~(FALSE /\ k = "Hangup" /\ e = d /\ x = c)
      BY <2>1 DEF OnItsWay
    <3> QED
      BY <3>1
  <2>2. CASE signals' = signals \ {[kind |-> "Hangup", id |-> c, to |-> d]}
    <3>1. \A k \in {"Offer", "Answer", "Hangup"}, e \in Party, x \in CallId :
             OnItsWay(k, e, x)' <=>
                /\ OnItsWay(k, e, x)
                /\ ~(TRUE /\ k = "Hangup" /\ e = d /\ x = c)
      BY <2>2 DEF OnItsWay
    <3> QED
      BY <3>1
  <2> QED
    BY <2>1, <2>2
<1>5. PICK taken \in BOOLEAN :
         \A k \in {"Offer", "Answer", "Hangup"}, e \in Party, x \in CallId :
            OnItsWay(k, e, x)' <=>
               /\ OnItsWay(k, e, x)
               /\ ~(taken /\ k = "Hangup" /\ e = d /\ x = c)
  BY <1>4
<1>6. PICK T \in SUBSET Thread : T = {t}
  OBVIOUS
<1>7. \A u \in Thread, g \in {"initiate", "accept", "hangup"},
         e \in Party, x \in CallId :
         Inside(u, g, e, x)' <=>
            \/ Inside(u, g, e, x)
            \/ u \in T /\ g = "hangup" /\ e = d /\ x = c
  BY <1>1, <1>6
<1>8. PICK quiet \in BOOLEAN :
         \A x \in CallId : x \in untold' <=> x \in untold \/ (quiet /\ x = c)
  <2>1. \A x \in CallId : x \in untold' <=> x \in untold \/ (FALSE /\ x = c)
    OBVIOUS
  <2> QED
    BY <2>1
<1>9. /\ dialler[c] = d \/ T # {} \/ c \in untold'
      /\ stray \subseteq stray' /\ (T # {} \/ d \in stray' \/ RingsIn(d, c))
      /\ UNCHANGED <<activePeer, dialler, offered, answered>>
  BY <1>6
<1> QED
  BY <1>3, <1>5, <1>7, <1>8, <1>9, EndedKeeps

LEMMA DeclineKeeps ==
  ASSUME CallsInv, NEW d \in Party, NEW c \in CallId, Decline(d, c)
  PROVE  CallsInv'
<1>1. /\ Ended(d, c) /\ Silent(d, c)
      /\ stray' = IF RingsIn(d, c) THEN stray ELSE stray \cup {d}
      /\ UNCHANGED <<activePeer, doing, dialler, offered, signals, answered>>
  BY DEF Decline
<1>2. /\ calls' \in [Party -> Seq(Session)]
      /\ history' \in [Party -> SUBSET CallId]
  BY <1>1, NoCall DEF Ended, CallsInv, CallsTypeOK
<1>3. CallsTypeOK'
  BY <1>1, <1>2 DEF CallsInv, CallsTypeOK, Silent
<1>4. \A u \in Thread, g \in {"initiate", "accept", "hangup"},
         e \in Party, x \in CallId :
         Inside(u, g, e, x)' <=>
            \/ Inside(u, g, e, x)
            \/ u \in {} /\ g = "hangup" /\ e = d /\ x = c
  BY <1>1 DEF Inside
<1>5. \A k \in {"Offer", "Answer", "Hangup"}, e \in Party, x \in CallId :
         OnItsWay(k, e, x)' <=>
            /\ OnItsWay(k, e, x)
            /\ ~(FALSE /\ k = "Hangup" /\ e = d /\ x = c)
  BY <1>1 DEF OnItsWay
<1>6. \A x \in CallId :
         x \in untold' <=> x \in untold \/ ((dialler[c] # d) /\ x = c)
  BY <1>1 DEF Silent
<1>7. dialler[c] = d \/ c \in untold'
  BY <1>6
<1>8. stray \subseteq stray' /\ (d \in stray' \/ RingsIn(d, c))
  BY <1>1
<1>9. {} \in SUBSET Thread /\ FALSE \in BOOLEAN /\ (dialler[c] # d) \in BOOLEAN
  OBVIOUS
<1> QED
  BY <1>1, <1>3, <1>4, <1>5, <1>6, <1>7, <1>8, <1>9, EndedKeeps

\* A function takes its second lock and sends its signal, which the transport
\* may refuse.
LEMMA LeftKeeps ==
  ASSUME CallsInv, NEW t \in Thread, NEW d \in Party, NEW c \in CallId,
         NEW fn \in {"initiate", "accept", "hangup"},
         NEW kind \in {"Offer", "Answer", "Hangup"},
         fn = "initiate" <=> kind = "Offer", fn = "accept" <=> kind = "Answer",
         Inside(t, fn, d, c), Return(t), CallsTypeOK',
         UNCHANGED <<calls, dialler, offered, answered>>,
         NEW went \in BOOLEAN, NEW quiet \in BOOLEAN,
         \A k \in {"Offer", "Answer", "Hangup"}, e \in Party, x \in CallId :
            OnItsWay(k, e, x)' <=>
               \/ OnItsWay(k, e, x)
               \/ went /\ k = kind /\ e = PeerOf(d) /\ x = c,
         \A x \in CallId : x \in untold' <=> x \in untold \/ (quiet /\ x = c),
         fn = "hangup" => went \/ dialler[c] = d \/ c \in untold',
         \A e \in Party : e # d => /\ activePeer'[e] = activePeer[e]
                                   /\ e \in stray => e \in stray',
         PeerHasACall(d)'
  PROVE  CallsInv'
<1>1. /\ \A x, r : \A e \in Party : At(e, x, r)' <=> At(e, x, r)
      /\ SessionsAreSound'
  BY DEF At, CallsInv, SessionsAreSound
<1>2. \A u \in Thread, g \in {"initiate", "accept", "hangup"},
         e \in Party, x \in CallId :
         /\ Inside(u, g, e, x)' <=> u # t /\ Inside(u, g, e, x)
         /\ Inside(t, g, e, x) => g = fn /\ e = d /\ x = c
  BY Left DEF CallsInv
<1>3. ASSUME NEW e \in Party, NEW x \in CallId
      PROVE  /\ HeldIsKnown(e, x)'
             /\ OfferIsFresh(e, x)'
             /\ AnswerIsSound(e, x)'
             /\ AcceptedIsShared(e, x)'
  <2>1. CASE x = c
    <3>1. HeldIsKnown(e, x)'
      BY <1>1 DEF CallsInv, HeldIsKnown
    <3>2. OnItsWay("Offer", e, c)' =>
             dialler[c] = PeerOf(e) /\ c \notin offered[e]
      <4>1. CASE OnItsWay("Offer", e, c)
        BY <4>1 DEF CallsInv, OfferIsFresh
      <4>2. CASE ~OnItsWay("Offer", e, c)
        BY <4>2, TwoParties DEF CallsInv, OfferIsFresh
      <4> QED
        BY <4>1, <4>2
    <3>3. ASSUME NEW u \in Thread, Inside(u, "initiate", e, c)'
          PROVE  /\ dialler[c] = e
                 /\ c \notin offered[PeerOf(e)]
                 /\ ~OnItsWay("Offer", PeerOf(e), c)'
                 /\ \A v \in Thread : Inside(v, "initiate", e, c)' => v = u
      <4>1. u # t /\ Inside(u, "initiate", e, c)
        BY <1>2, <3>3
      <4>2. /\ dialler[c] = e /\ c \notin offered[PeerOf(e)]
            /\ ~OnItsWay("Offer", PeerOf(e), c)
            /\ \A v \in Thread : Inside(v, "initiate", e, c) => v = u
        BY <4>1 DEF CallsInv, OfferIsFresh
      <4>3. ~OnItsWay("Offer", PeerOf(e), c)'
        <5>1. kind = "Offer" => e # d
          BY <4>1, <4>2
        <5> QED
          BY <4>2, <5>1, TwoParties
      <4> QED
        BY <1>2, <4>2, <4>3
    <3>4. OfferIsFresh(e, x)'
      BY <2>1, <3>2, <3>3 DEF OfferIsFresh
    <3>5. AnswerIsSound(e, x)'
      <4>1. OnItsWay("Answer", e, c)' => <<PeerOf(e), c>> \in answered
        <5>1. CASE OnItsWay("Answer", e, c)
          BY <5>1 DEF CallsInv, AnswerIsSound
        <5>2. CASE ~OnItsWay("Answer", e, c)
          <6> SUFFICES ASSUME OnItsWay("Answer", e, c)'
                       PROVE  <<PeerOf(e), c>> \in answered
            OBVIOUS
          <6>1. kind = "Answer" /\ e = PeerOf(d)
            BY <5>2
          <6>2. Inside(t, "accept", d, c)
            BY <6>1
          <6>3. <<d, c>> \in answered
            BY <6>2 DEF CallsInv, AnswerIsSound
          <6>4. PeerOf(e) = d
            BY <6>1, TwoParties
          <6> QED
            BY <6>3, <6>4
        <5> QED
          BY <5>1, <5>2
      <4>2. /\ <<e, c>> \in answered => c \in offered[e] /\ ~At(e, c, "Ringing")
            /\ \A u \in Thread : Inside(u, "accept", e, c)' =>
                  <<e, c>> \in answered
            /\ At(e, c, "Active") => <<PeerOf(e), c>> \in answered
        BY <1>2 DEF CallsInv, AnswerIsSound
      <4> QED
        BY <1>1, <2>1, <4>1, <4>2 DEF AnswerIsSound
    <3>6. AcceptedIsShared(e, x)'
      <4> SUFFICES ASSUME <<PeerOf(e), c>> \in answered,
                          \E r \in State : At(e, c, r)
                   PROVE  \/ \E r \in State : At(PeerOf(e), c, r)
                          \/ OnItsWay("Hangup", e, c)'
                          \/ \E u \in Thread :
                                Inside(u, "hangup", PeerOf(e), c)'
                          \/ c \in untold'
        BY <1>1, <2>1, TwoParties DEF AcceptedIsShared
      <4>1. CASE fn = "hangup" /\ e = PeerOf(d)
        <5>1. dialler[c] # d
          BY <4>1, TwoParties DEF CallsInv, AnswerIsSound, HeldIsKnown
        <5> QED
          BY <4>1, <5>1, TwoParties
      <4>2. CASE fn # "hangup" \/ e # PeerOf(d)
        <5>1. \A u \in Thread : Inside(u, "hangup", PeerOf(e), c) =>
                 Inside(u, "hangup", PeerOf(e), c)'
          BY <1>2, <4>2, TwoParties
        <5> QED
          BY <5>1 DEF CallsInv, AcceptedIsShared
      <4> QED
        BY <4>1, <4>2
    <3> QED
      BY <3>1, <3>4, <3>5, <3>6
  <2>2. CASE x # c
    <3>1. SameCall(x)
      BY <1>1, <1>2, <2>2 DEF SameCall
    <3> QED
      BY <3>1, OtherCalls
  <2> QED
    BY <2>1, <2>2
<1>4. ASSUME NEW e \in Party
      PROVE  PeerHasACall(e)'
  <2>1. CASE e = d
    BY <2>1
  <2>2. CASE e # d
    <3>1. \A u \in Thread, x \in CallId :
             Inside(u, "hangup", e, x) => Inside(u, "hangup", e, x)'
      BY <1>2, <2>2
    <3> QED
      BY <1>1, <2>2, <3>1 DEF CallsInv, PeerHasACall
  <2> QED
    BY <2>1, <2>2
<1> QED
  BY <1>1, <1>3, <1>4 DEF CallsInv

\* What Sent and its refusal do to the signals.
LEMMA SentOrRefused ==
  ASSUME NEW d \in Party, NEW c \in CallId, CallsTypeOK,
         NEW kind \in {"Offer", "Answer", "Hangup"}, NEW went \in BOOLEAN,
         went => Sent(d, kind, c), ~went => UNCHANGED signals
  PROVE  /\ signals' \in SUBSET Signal
         /\ \A k \in {"Offer", "Answer", "Hangup"}, e \in Party, x \in CallId :
               OnItsWay(k, e, x)' <=>
                  \/ OnItsWay(k, e, x)
                  \/ went /\ k = kind /\ e = PeerOf(d) /\ x = c
<1>1. CASE went
  <2>1. signals' = signals \cup {[kind |-> kind, id |-> c, to |-> PeerOf(d)]}
    BY <1>1 DEF Sent
  <2>2. signals' \in SUBSET Signal
    BY <2>1, TwoParties DEF CallsTypeOK, Signal
  <2> QED
    BY <1>1, <2>1, <2>2 DEF OnItsWay
<1>2. CASE ~went
  BY <1>2 DEF CallsTypeOK, OnItsWay
<1> QED
  BY <1>1, <1>2

LEMMA SetPeerKeeps ==
  ASSUME CallsInv, NEW t \in Thread, NEW d \in Party, NEW c \in CallId,
         SetPeer(t, d, c)
  PROVE  CallsInv'
<1>1. PICK fn \in {"initiate", "accept"},
           kind \in {"Offer", "Answer", "Hangup"} :
         /\ Inside(t, fn, d, c)
         /\ fn = "initiate" <=> kind = "Offer"
         /\ fn = "accept" <=> kind = "Answer"
         /\ Sent(d, kind, c) \/ UNCHANGED signals
  BY DEF SetPeer, Send, Inside
<1>2. PICK went \in BOOLEAN : /\ went => Sent(d, kind, c)
                              /\ ~went => UNCHANGED signals
  BY <1>1
<1>3. /\ Return(t)
      /\ calls' = calls /\ history' = history /\ dialler' = dialler
      /\ offered' = offered /\ answered' = answered /\ untold' = untold
      /\ activePeer' = [activePeer EXCEPT ![d] = PeerOf(d)]
      /\ stray' = IF c \in Ids(d) THEN stray ELSE stray \cup {d}
  BY DEF SetPeer, Connect
<1>4. CallsTypeOK
  BY DEF CallsInv
<1>5. /\ signals' \in SUBSET Signal
      /\ \A k \in {"Offer", "Answer", "Hangup"}, e \in Party, x \in CallId :
            OnItsWay(k, e, x)' <=>
               \/ OnItsWay(k, e, x)
               \/ went /\ k = kind /\ e = PeerOf(d) /\ x = c
  BY <1>2, <1>4, SentOrRefused
<1>6. doing' \in [Thread -> Function \cup {None}]
  BY <1>1, <1>3, <1>4, Left
<1>7. CallsTypeOK'
  <2>1. activePeer' \in [Party -> Party \cup {None}]
    BY <1>3, <1>4, TwoParties DEF CallsTypeOK
  <2>2. stray' \in SUBSET Party
    BY <1>3, <1>4 DEF CallsTypeOK
  <2> QED
    BY <1>3, <1>4, <1>5, <1>6, <2>1, <2>2 DEF CallsTypeOK
<1>8. /\ activePeer'[d] = PeerOf(d)
      /\ \A e \in Party : e # d => /\ activePeer'[e] = activePeer[e]
                                   /\ e \in stray => e \in stray'
  BY <1>3, <1>4 DEF CallsTypeOK
<1>9. \A x, r : \A e \in Party : At(e, x, r)' <=> At(e, x, r)
  BY <1>3 DEF At
<1>10. PeerHasACall(d)'
  <2>1. CASE c \in Ids(d)
    <3>1. PICK st \in State : At(d, c, st)
      BY <1>4, <2>1, HeldIsAt
    <3>2. CASE fn = "initiate"
      <4>1. dialler[c] = d
        BY <1>1, <3>2 DEF CallsInv, OfferIsFresh
      <4> QED
        BY <1>3, <1>8, <1>9, <3>1, <4>1 DEF PeerHasACall
    <3>3. CASE fn = "accept"
      <4>1. st # "Ringing"
        BY <1>1, <3>1, <3>3 DEF CallsInv, AnswerIsSound
      <4> QED
        BY <1>8, <1>9, <3>1, <4>1 DEF PeerHasACall
    <3> QED
      BY <3>2, <3>3
  <2>2. CASE c \notin Ids(d)
    BY <1>3, <1>8, <2>2 DEF PeerHasACall
  <2> QED
    BY <2>1, <2>2
<1>11. /\ UNCHANGED <<calls, dialler, offered, answered>>
       /\ \A x \in CallId : x \in untold' <=> x \in untold
       /\ fn \in {"initiate", "accept", "hangup"} /\ fn # "hangup"
  BY <1>3
<1>12. PICK quiet \in BOOLEAN : ~quiet
  OBVIOUS
<1> QED
  BY <1>1, <1>3, <1>5, <1>7, <1>8, <1>10, <1>11, <1>12, LeftKeeps

LEMMA DropPeerKeeps ==
  ASSUME CallsInv, NEW t \in Thread, NEW d \in Party, NEW c \in CallId,
         DropPeer(t, d, c)
  PROVE  CallsInv'
<1>1. /\ Inside(t, "hangup", d, c) /\ Return(t)
      /\ calls' = calls /\ history' = history /\ dialler' = dialler
      /\ offered' = offered /\ answered' = answered
      /\ activePeer' = [activePeer EXCEPT ![d] = None]
      /\ stray' = stray \ {d}
  BY DEF DropPeer, Dropped, Inside
<1>2. PICK went \in BOOLEAN :
         /\ went => Sent(d, "Hangup", c) /\ UNCHANGED untold
         /\ ~went => UNCHANGED signals /\ Silent(d, c)
  BY DEF DropPeer
<1>3. PICK quiet \in BOOLEAN : quiet <=> ~went /\ dialler[c] # d
  OBVIOUS
<1>4. CallsTypeOK
  BY DEF CallsInv
<1>5. /\ signals' \in SUBSET Signal
      /\ \A k \in {"Offer", "Answer", "Hangup"}, e \in Party, x \in CallId :
            OnItsWay(k, e, x)' <=>
               \/ OnItsWay(k, e, x)
               \/ went /\ k = "Hangup" /\ e = PeerOf(d) /\ x = c
  BY <1>2, <1>4, SentOrRefused
<1>6. doing' \in [Thread -> Function \cup {None}]
  BY <1>1, <1>4, Left
<1>7. /\ untold' \in SUBSET CallId
      /\ \A x \in CallId : x \in untold' <=> x \in untold \/ (quiet /\ x = c)
      /\ went \/ dialler[c] = d \/ c \in untold'
  BY <1>2, <1>3, <1>4 DEF CallsTypeOK, Silent
<1>8. /\ activePeer' \in [Party -> Party \cup {None}]
      /\ activePeer'[d] = None
      /\ \A e \in Party : e # d => /\ activePeer'[e] = activePeer[e]
                                   /\ e \in stray => e \in stray'
  BY <1>1, <1>4 DEF CallsTypeOK
<1>9. CallsTypeOK'
  BY <1>1, <1>4, <1>5, <1>6, <1>7, <1>8 DEF CallsTypeOK
<1>10. PeerHasACall(d)'
  BY <1>8 DEF PeerHasACall
<1>11. UNCHANGED <<calls, dialler, offered, answered>>
  BY <1>1
<1> QED
  BY <1>1, <1>5, <1>7, <1>8, <1>9, <1>10, <1>11, LeftKeeps

\* An offer arrives: its call is new to the device.
LEMMA OfferKeeps ==
  ASSUME CallsInv, NEW d \in Party, NEW c \in CallId, OnItsWay("Offer", d, c),
         TakeOffer(d, c),
         \A k \in {"Offer", "Answer", "Hangup"}, e \in Party, x \in CallId :
            OnItsWay(k, e, x)' <=>
               OnItsWay(k, e, x) /\ ~(k = "Offer" /\ e = d /\ x = c),
         signals' \in SUBSET Signal,
         UNCHANGED <<activePeer, dialler, answered, untold, stray>>
  PROVE  CallsInv'
<1>1. /\ calls' = Push(d, c, "Ringing")
      /\ offered' = [offered EXCEPT ![d] = @ \cup {c}]
      /\ history' = history /\ doing' = doing
  BY DEF TakeOffer
<1>2. /\ dialler[c] = PeerOf(d) /\ dialler[c] # d
      /\ c \notin offered[d] /\ c \notin offered[PeerOf(d)]
      /\ \A r \in State : ~At(d, c, r)
      /\ <<d, c>> \notin answered /\ <<PeerOf(d), c>> \notin answered
      /\ \A u \in Thread, e \in Party : ~Inside(u, "initiate", e, c)
  <2>1. dialler[c] = PeerOf(d) /\ dialler[c] # d /\ c \notin offered[d]
    BY TwoParties DEF CallsInv, OfferIsFresh
  <2>2. c \notin offered[PeerOf(d)]
    BY <2>1, TwoParties DEF CallsInv, HeldIsKnown
  <2>3. \A r \in State : ~At(d, c, r)
    BY <2>1 DEF CallsInv, HeldIsKnown
  <2>4. <<d, c>> \notin answered /\ <<PeerOf(d), c>> \notin answered
    BY <2>1, <2>2, TwoParties DEF CallsInv, AnswerIsSound
  <2>5. \A u \in Thread, e \in Party : ~Inside(u, "initiate", e, c)
    BY <2>1, TwoParties DEF CallsInv, OfferIsFresh
  <2> QED
    BY <2>1, <2>2, <2>3, <2>4, <2>5
<1>3. /\ calls' \in [Party -> Seq(Session)]
      /\ SessionsAreSound'
      /\ \A e \in Party, x \in CallId, r \in State :
            At(e, x, r)' <=> IF e = d /\ x = c THEN r = "Ringing"
                             ELSE At(e, x, r)
  BY <1>1, <1>2, NewCall DEF State
<1>4. /\ \A u, g, e, x :
            Inside(u, g, e, x)' <=> Inside(u, g, e, x)
      /\ \A e \in Party, x \in CallId :
            x \in offered'[e] <=> x \in offered[e] \/ (e = d /\ x = c)
  BY <1>1 DEF CallsInv, CallsTypeOK, Inside
<1>5. CallsTypeOK'
  BY <1>1, <1>3 DEF CallsInv, CallsTypeOK
<1>6. ASSUME NEW e \in Party, NEW x \in CallId
      PROVE  /\ HeldIsKnown(e, x)'
             /\ OfferIsFresh(e, x)'
             /\ AnswerIsSound(e, x)'
             /\ AcceptedIsShared(e, x)'
  <2>1. CASE x = c
    <3>1. HeldIsKnown(e, x)'
      BY <1>2, <1>3, <1>4, <2>1, TwoParties DEF CallsInv, HeldIsKnown
    <3>2. OfferIsFresh(e, x)'
      BY <1>2, <1>4, <2>1, TwoParties DEF CallsInv, OfferIsFresh
    <3>3. \A f \in Party : <<f, c>> \notin answered
      BY <1>2, TwoParties
    <3>4. AnswerIsSound(e, x)'
      <4>1. /\ \A u \in Thread : ~Inside(u, "accept", e, c)
            /\ ~OnItsWay("Answer", e, c) /\ ~At(e, c, "Active")
        BY <3>3, TwoParties DEF CallsInv, AnswerIsSound
      <4>2. ~At(e, c, "Active")'
        BY <1>3, <4>1 DEF State
      <4> QED
        BY <1>4, <2>1, <3>3, <4>1, <4>2 DEF AnswerIsSound
    <3>5. AcceptedIsShared(e, x)'
      BY <2>1, <3>3, TwoParties DEF AcceptedIsShared
    <3> QED
      BY <3>1, <3>2, <3>4, <3>5
  <2>2. CASE x # c
    <3>1. SameCall(x)
      BY <1>3, <1>4, <2>2 DEF SameCall
    <3> QED
      BY <3>1, OtherCalls
  <2> QED
    BY <2>1, <2>2
<1>7. ASSUME NEW e \in Party
      PROVE  PeerHasACall(e)'
  <2>1. \A x \in CallId, r \in State : At(e, x, r) => At(e, x, r)'
    BY <1>2, <1>3
  <2> QED
    BY <1>4, <2>1 DEF CallsInv, PeerHasACall
<1> QED
  BY <1>3, <1>5, <1>6, <1>7 DEF CallsInv

\* An answer arrives: its call is active, if it is still held.
LEMMA AnswerKeeps ==
  ASSUME CallsInv, NEW d \in Party, NEW c \in CallId, OnItsWay("Answer", d, c),
         TakeAnswer(d, c),
         \A k \in {"Offer", "Answer", "Hangup"}, e \in Party, x \in CallId :
            OnItsWay(k, e, x)' <=>
               OnItsWay(k, e, x) /\ ~(k = "Answer" /\ e = d /\ x = c),
         signals' \in SUBSET Signal,
         UNCHANGED <<activePeer, dialler, answered, untold, stray>>
  PROVE  CallsInv'
<1>1. /\ calls' = SetState(d, c, "Active")
      /\ history' = history /\ doing' = doing /\ offered' = offered
  BY DEF TakeAnswer, Connected
<1>2. /\ <<PeerOf(d), c>> \in answered /\ <<d, c>> \notin answered
      /\ dialler[c] = d
  <2>1. <<PeerOf(d), c>> \in answered
    BY DEF CallsInv, AnswerIsSound
  <2>2. dialler[c] = d
    BY <2>1, TwoParties DEF CallsInv, AnswerIsSound, HeldIsKnown
  <2> QED
    BY <2>1, <2>2, TwoParties DEF CallsInv, AnswerIsSound, HeldIsKnown
<1>3. /\ calls' \in [Party -> Seq(Session)]
      /\ SessionsAreSound'
      /\ \A e \in Party, x \in CallId, r \in State :
            At(e, x, r)' <=> IF e = d /\ x = c THEN r = "Active" /\ c \in Ids(d)
                             ELSE At(e, x, r)
  BY <1>1, OtherState DEF State
<1>4. c \in Ids(d) <=> \E r \in State : At(d, c, r)
  BY HeldIsAt DEF CallsInv
<1>5. \A u, g, e, x :
         Inside(u, g, e, x)' <=> Inside(u, g, e, x)
  BY <1>1 DEF Inside
<1>6. CallsTypeOK'
  BY <1>1, <1>3 DEF CallsInv, CallsTypeOK
<1>7. ASSUME NEW e \in Party, NEW x \in CallId
      PROVE  /\ HeldIsKnown(e, x)'
             /\ OfferIsFresh(e, x)'
             /\ AnswerIsSound(e, x)'
             /\ AcceptedIsShared(e, x)'
  <2>1. CASE x = c
    <3>1. \A r \in State : At(e, c, r)' => \E q \in State : At(e, c, q)
      BY <1>3, <1>4
    <3>2. \A q \in State : At(e, c, q) => \E r \in State : At(e, c, r)'
      BY <1>3, <1>4 DEF State
    <3>3. HeldIsKnown(e, x)'
      BY <1>1, <2>1, <3>1 DEF CallsInv, HeldIsKnown
    <3>4. OfferIsFresh(e, x)'
      BY <1>1, <1>5, <2>1, TwoParties DEF CallsInv, OfferIsFresh
    <3>5. AnswerIsSound(e, x)'
      <4>1. ~At(e, c, "Ringing") => ~At(e, c, "Ringing")'
        BY <1>3 DEF State
      <4>2. At(e, c, "Active")' => <<PeerOf(e), c>> \in answered
        BY <1>2, <1>3 DEF CallsInv, AnswerIsSound, State
      <4> QED
        BY <1>1, <1>5, <2>1, <4>1, <4>2 DEF CallsInv, AnswerIsSound
    <3>6. AcceptedIsShared(e, x)'
      <4> SUFFICES ASSUME <<PeerOf(e), c>> \in answered,
                          \E r \in State : At(e, c, r)
                   PROVE  \/ \E r \in State : At(PeerOf(e), c, r)'
                          \/ OnItsWay("Hangup", e, c)
                          \/ \E u \in Thread :
                                Inside(u, "hangup", PeerOf(e), c)
                          \/ c \in untold
        BY <1>5, <2>1, <3>1, TwoParties DEF AcceptedIsShared
      <4>1. \A r \in State : At(PeerOf(e), c, r) =>
               \E q \in State : At(PeerOf(e), c, q)'
        BY <1>3, <1>4, TwoParties DEF State
      <4> QED
        BY <4>1 DEF CallsInv, AcceptedIsShared
    <3> QED
      BY <3>3, <3>4, <3>5, <3>6
  <2>2. CASE x # c
    <3>1. SameCall(x)
      BY <1>1, <1>3, <1>5, <2>2 DEF SameCall
    <3> QED
      BY <3>1, OtherCalls
  <2> QED
    BY <2>1, <2>2
<1>8. ASSUME NEW e \in Party
      PROVE  PeerHasACall(e)'
  <2>1. \A x \in CallId, r \in State :
           At(e, x, r) /\ (dialler[x] = e \/ r # "Ringing") =>
              \E q \in State :
                 At(e, x, q)' /\ (dialler'[x] = e \/ q # "Ringing")
    <3> TAKE x \in CallId, r \in State
    <3>1. CASE e = d /\ x = c
      <4>1. At(e, x, r) => At(e, x, "Active")' /\ "Active" \in State
        BY <1>3, <1>4, <3>1 DEF State
      <4> QED
        BY <4>1
    <3>2. CASE ~(e = d /\ x = c)
      BY <1>3, <3>2
    <3> QED
      BY <3>1, <3>2
  <2> QED
    BY <1>5, <2>1 DEF CallsInv, PeerHasACall
<1> QED
  BY <1>3, <1>6, <1>7, <1>8 DEF CallsInv

LEMMA CallsInvariant ==
  CallsInv /\ [CallsNext]_callsVars => CallsInv'
<1> SUFFICES ASSUME CallsInv, [CallsNext]_callsVars
             PROVE  CallsInv'
  OBVIOUS
<1>1. CASE \E t \in Thread, d \in Party, c \in CallId :
              Initiate(t, d, c) \/ Accept(t, d, c)
  BY <1>1, InitiateKeeps, AcceptKeeps
<1>2. ASSUME NEW t \in Thread, NEW d \in Party, NEW c \in CallId,
             Hangup(t, d, c)
      PROVE  CallsInv'
  <2>1. /\ Enter(t, "hangup", d, c) /\ Ended(d, c) /\ UNCHANGED signals
        /\ UNCHANGED <<activePeer, dialler, offered, answered, untold, stray>>
    BY <1>2 DEF Hangup
  <2> QED
    BY <2>1, HangupKeeps
<1>3. CASE \E t \in Thread, d \in Party, c \in CallId :
              SetPeer(t, d, c) \/ DropPeer(t, d, c)
  BY <1>3, SetPeerKeeps, DropPeerKeeps
<1>4. CASE \E d \in Party, c \in CallId : Decline(d, c)
  BY <1>4, DeclineKeeps
<1>5. ASSUME NEW s \in signals, Deliver(s)
      PROVE  CallsInv'
  <2>1. PICK kind \in {"Offer", "Answer", "Hangup"}, c \in CallId,
             d \in Party : s = [kind |-> kind, id |-> c, to |-> d]
    BY DEF CallsInv, CallsTypeOK, Signal
  <2>2. /\ s.kind = kind /\ s.id = c /\ s.to = d
        /\ OnItsWay(kind, d, c)
    BY <2>1 DEF OnItsWay
  <2>3. /\ signals' = signals \ {[kind |-> kind, id |-> c, to |-> d]}
        /\ UNCHANGED <<activePeer, dialler, answered, untold, stray>>
        /\ signals' \in SUBSET Signal
    BY <1>5, <2>1 DEF Deliver, CallsInv, CallsTypeOK
  <2>4. \A k \in {"Offer", "Answer", "Hangup"}, e \in Party, x \in CallId :
           OnItsWay(k, e, x)' <=>
              OnItsWay(k, e, x) /\ ~(k = kind /\ e = d /\ x = c)
    BY <2>3 DEF OnItsWay
  <2>5. CASE kind = "Offer"
    <3>1. TakeOffer(d, c)
      BY <1>5, <2>2, <2>5 DEF Deliver
    <3> QED
      BY <2>2, <2>3, <2>4, <2>5, <3>1, OfferKeeps
  <2>6. CASE kind = "Answer"
    <3>1. TakeAnswer(d, c)
      BY <1>5, <2>2, <2>6 DEF Deliver
    <3> QED
      BY <2>2, <2>3, <2>4, <2>6, <3>1, AnswerKeeps
  <2>7. CASE kind = "Hangup"
    <3>1. TakeEnd(d, c)
      BY <1>5, <2>2, <2>7 DEF Deliver
    <3>2. PICK t \in Thread : Enter(t, "hangup", d, c)
      BY <3>1 DEF TakeEnd
    <3>3. /\ Ended(d, c)
          /\ UNCHANGED <<activePeer, dialler, offered, answered, untold,
                         stray>>
      BY <2>3, <3>1 DEF TakeEnd
    <3> QED
      BY <2>3, <2>7, <3>2, <3>3, HangupKeeps
  <2> QED
    BY <2>5, <2>6, <2>7
<1>6. CASE UNCHANGED callsVars
  <2>1. /\ CallsTypeOK' /\ SessionsAreSound'
        /\ \A x, r : \A e \in Party : At(e, x, r)' <=> At(e, x, r)
        /\ \A u, g, e, x : Inside(u, g, e, x)' <=> Inside(u, g, e, x)
        /\ \A k, e, x : OnItsWay(k, e, x)' <=> OnItsWay(k, e, x)
    BY <1>6 DEF callsVars, CallsInv, CallsTypeOK, SessionsAreSound, At, Inside,
                OnItsWay
  <2>2. \A x \in CallId : SameCall(x)
    BY <1>6, <2>1 DEF callsVars, SameCall
  <2>3. \A e \in Party : PeerHasACall(e)'
    BY <1>6, <2>1 DEF callsVars, CallsInv, PeerHasACall
  <2> QED
    BY <2>1, <2>2, <2>3, OtherCalls DEF CallsInv
<1> QED
  BY <1>1, <1>2, <1>3, <1>4, <1>5, <1>6 DEF CallsNext

\* CallSignaling promises that media packets go to a peer only while there is
\* a call with that peer, once cipher_call_hangup has returned, but for the two
\* orders of calls that leave the proxy behind (calls.rs, turn_proxy.rs,
\* ffi.rs).
THEOREM MediaGoesToACall == CallsSpec => []MediaHasACall
<1>1. CallsInv => MediaHasACall
  <2> SUFFICES ASSUME CallsInv, NEW d \in Party, activePeer[d] # None,
                      \A c \in CallId : ~Doing("hangup", d, c), d \notin stray
               PROVE  \E i \in DOMAIN calls[d] :
                         calls[d][i].peer = activePeer[d]
    BY DEF MediaHasACall
  <2>1. \A t \in Thread, c \in CallId : ~Inside(t, "hangup", d, c)
    BY DEF Doing, Inside
  <2>2. /\ activePeer[d] = PeerOf(d)
        /\ \E c \in CallId, st \in State : At(d, c, st)
    BY <2>1 DEF CallsInv, PeerHasACall
  <2> QED
    BY <2>2 DEF At, CallsInv, SessionsAreSound
<1> QED
  BY <1>1, CallsInvInit, CallsInvariant, PTL DEF CallsSpec

\* CallSignaling promises that a call is active on one side only if the other
\* side accepted that call (calls.rs).
THEOREM ConnectsTheAccepted == CallsSpec => []ConnectedWasAnswered
<1>1. CallsInv => ConnectedWasAnswered
  <2> SUFFICES ASSUME CallsInv, NEW d \in Party, NEW i \in DOMAIN calls[d],
                      calls[d][i].state = "Active"
               PROVE  <<PeerOf(d), calls[d][i].id>> \in answered
    BY DEF ConnectedWasAnswered
  <2>1. calls[d][i] \in Session
    BY DEF CallsInv, CallsTypeOK
  <2>2. calls[d][i].id \in CallId /\ At(d, calls[d][i].id, "Active")
    BY <2>1 DEF At, Session
  <2> QED
    BY <2>2 DEF CallsInv, AnswerIsSound
<1> QED
  BY <1>1, CallsInvInit, CallsInvariant, PTL DEF CallsSpec

\* CallSignaling promises that the other side of an active call has a session
\* of it, or has hung up and said so, if it could (calls.rs, ffi.rs).
THEOREM ActiveCallsAreShared == CallsSpec => []ActiveIsShared
<1>1. CallsInv => ActiveIsShared
  <2> SUFFICES ASSUME CallsInv, NEW d \in Party, NEW i \in DOMAIN calls[d],
                      calls[d][i].state = "Active"
               PROVE  Shared(d, calls[d][i].id)
    BY DEF ActiveIsShared
  <2>1. calls[d][i] \in Session
    BY DEF CallsInv, CallsTypeOK
  <2>2. PICK c \in CallId : c = calls[d][i].id /\ At(d, c, "Active")
    BY <2>1 DEF At, Session
  <2>3. <<PeerOf(d), c>> \in answered /\ AcceptedIsShared(d, c)
    BY <2>2 DEF CallsInv, AnswerIsSound
  <2>4. c \in Ids(PeerOf(d)) <=> \E st \in State : At(PeerOf(d), c, st)
    BY TwoParties, HeldIsAt DEF CallsInv
  <2> QED
    BY <2>2, <2>3, <2>4
    DEF AcceptedIsShared, Shared, State, OnItsWay, Doing, Inside
<1> QED
  BY <1>1, CallsInvInit, CallsInvariant, PTL DEF CallsSpec
-----------------------------------------------------------------------------
(***************************************************************************)
(* The Double Ratchet.  The letters on their way to a side, and the one    *)
(* that would be sent next, stand in line: first those under the key the   *)
(* side has already answered, then those under the far side's present key, *)
(* each chain without a hole.  A hole opens only at the head, and is the   *)
(* gap the history records; a side that is behind holds the root that the  *)
(* new key completes, and at most one side is behind.                      *)
(***************************************************************************)
Chains == [root : Seq(SUBSET Pairs), label : {"send", "recv", "zero"},
           n : Nat]
Letters == [dh_public : Pairs, key : Chains]
Line(d) == Append(ciphertexts[d],
                  [dh_public |-> pair[Far(d)], key |-> send[Far(d)]])

Consecutive(m, n) == /\ n.dh_public = m.dh_public
                     /\ n.key = Advance(m.key)
Opening(m, n, old, lost) == /\ m.dh_public = old
                            /\ n.dh_public # old
                            /\ n.key.n = 0
                            /\ n.dh_public \notin lost
ChainInOrder(l, old, lost) ==
    /\ \A i \in 1 .. Len(l) - 1 : \/ Consecutive(l[i], l[i + 1])
                                  \/ Opening(l[i], l[i + 1], old, lost)
    /\ \A i, j \in 1 .. Len(l) :
          i < j /\ l[i].dh_public # old => l[j].dh_public # old

Reachable(m, d) == /\ m.key.root = Append(root[d], {pair[d], m.dh_public})
                   /\ m.key.label = "send"

Awaited(m, d) ==
    IF m.dh_public = their[d]
    THEN \/ m.key.label = "zero" /\ recv[d].label = "recv"
         \/ /\ m.key.label = recv[d].label /\ m.key.label = "send"
            /\ m.key.root = recv[d].root
            /\ recv[d].n <= m.key.n
            /\ recv[d].n = m.key.n <=> m.dh_public \notin gap[d]
    ELSE m.key.n = 0 <=> m.dh_public \notin gap[d]

LineOK(l, d) ==
    /\ \A i \in 1 .. Len(l) : l[i].dh_public \in {their[d], pair[Far(d)]}
    /\ ChainInOrder(l, their[d], gap[d])
    /\ \A i \in 1 .. Len(l) :
          l[i].dh_public # their[d] => Reachable(l[i], d)
    /\ Awaited(l[1], d)

RatchetTypes ==
    /\ root \in [Side -> Seq(SUBSET Pairs)]
    /\ send \in [Side -> Chains]
    /\ recv \in [Side -> Chains]
    /\ drawn \in Pairs
    /\ pair \in [Side -> 1 .. drawn]
    /\ their \in [Side -> 0 .. drawn]
    /\ ciphertexts \in [Side -> Seq(Letters)]
    /\ gap \in [Side -> SUBSET (1 .. drawn)]

RatchetInv ==
    /\ RatchetTypes
    /\ \A d \in Side : /\ LineOK(Line(d), d)
                       /\ send[d].label = "send" => send[d].root = root[d]
                       /\ their[d] # pair[Far(d)] => their[Far(d)] = pair[d]

LEMMA Sides ==
  /\ "alice" \in Side /\ "bob" \in Side
  /\ \A d \in Side : Far(d) \in Side /\ Far(d) # d /\ Far(Far(d)) = d
  /\ \A d, e \in Side : e = d \/ e = Far(d)
BY DEF Side, Far

LEMMA ChainTypes ==
  /\ \A c \in Chains : Advance(c) \in Chains
  /\ \A c \in Chains : /\ Advance(c).root = c.root
                       /\ Advance(c).label = c.label
                       /\ Advance(c).n = c.n + 1
  /\ \A r \in Seq(SUBSET Pairs) : \A s \in {"send", "recv", "zero"} :
        Chain(r, s) \in Chains
  /\ \A r, s : /\ Chain(r, s).root = r
               /\ Chain(r, s).label = s
               /\ Chain(r, s).n = 0
BY DEF Advance, Chains, Chain

LEMMA ChainEqual ==
  \A c, k \in Chains :
     c = k <=> c.root = k.root /\ c.label = k.label /\ c.n = k.n
BY DEF Chains

LEMMA Below ==
  \A n \in Nat : \A i \in 1 .. n : i # n => i \in 1 .. n - 1 /\ i + 1 \in 1 .. n
OBVIOUS

LEMMA HeadOf ==
  ASSUME NEW q \in Seq(Letters), q # <<>>
  PROVE  Len(q) >= 1 /\ Head(q) = q[1] /\ Head(q) \in Letters
OBVIOUS

\* The line behind its head.
LEMMA LineDrops ==
  ASSUME NEW q \in Seq(Letters), q # <<>>, NEW e \in Letters,
         NEW l, l = Append(q, e), NEW t, t = Append(Tail(q), e)
  PROVE  /\ Tail(q) \in Seq(Letters)
         /\ l \in Seq(Letters) /\ t \in Seq(Letters)
         /\ Len(t) \in Nat /\ Len(t) >= 1 /\ Len(l) = Len(t) + 1
         /\ l[1] = Head(q)
         /\ \A i \in 1 .. Len(t) : t[i] = l[i + 1]
<1>1. /\ Tail(q) \in Seq(Letters) /\ Len(Tail(q)) = Len(q) - 1
      /\ \A i \in 1 .. Len(q) - 1 : Tail(q)[i] = q[i + 1]
      /\ Len(q) \in Nat /\ Len(q) >= 1
  OBVIOUS
<1>2. /\ l \in Seq(Letters) /\ Len(l) = Len(q) + 1
      /\ \A i \in 1 .. Len(q) : l[i] = q[i]
      /\ l[Len(q) + 1] = e
  OBVIOUS
<1>3. /\ t \in Seq(Letters) /\ Len(t) = Len(q)
      /\ \A i \in 1 .. Len(q) - 1 : t[i] = Tail(q)[i]
      /\ t[Len(q)] = e
  BY <1>1
<1>4. l[1] = Head(q)
  BY <1>1, <1>2
<1>5. ASSUME NEW i \in 1 .. Len(t) PROVE t[i] = l[i + 1]
  <2>1. CASE i = Len(q)
    BY <1>1, <1>2, <1>3, <2>1
  <2>2. CASE i # Len(q)
    <3>0. Len(t) = Len(q) /\ Len(q) \in Nat
      BY <1>1, <1>3
    <3>1. i \in 1 .. Len(q) - 1 /\ i + 1 \in 1 .. Len(q)
      BY <2>2, <3>0, Below
    <3>2. t[i] = q[i + 1] /\ l[i + 1] = q[i + 1]
      BY <1>1, <1>2, <1>3, <3>1
    <3> QED
      BY <3>2
  <2> QED
    BY <2>1, <2>2
<1> QED
  BY <1>1, <1>2, <1>3, <1>4, <1>5

\* What is in order behind its head is in order, whatever becomes of the
\* head.
LEMMA OrderBehind ==
  ASSUME NEW l \in Seq(Letters), NEW t \in Seq(Letters), NEW old, NEW lost,
         Len(t) \in Nat, Len(t) >= 1, Len(l) = Len(t) + 1,
         \A i \in 1 .. Len(t) : t[i] = l[i + 1],
         ChainInOrder(l, old, lost)
  PROVE  /\ ChainInOrder(t, old, lost)
         /\ ChainInOrder(t, old, lost \cup {l[1].dh_public})
<1>1. ASSUME NEW i \in 1 .. Len(t) - 1
      PROVE  /\ \/ Consecutive(t[i], t[i + 1])
                \/ Opening(t[i], t[i + 1], old, lost)
             /\ \/ Consecutive(t[i], t[i + 1])
                \/ Opening(t[i], t[i + 1], old, lost \cup {l[1].dh_public})
  <2>1. /\ i + 1 \in 1 .. Len(l) - 1 /\ t[i] = l[i + 1]
        /\ t[i + 1] = l[i + 1 + 1]
    <3>1. i \in 1 .. Len(t) /\ i + 1 \in 1 .. Len(t)
      OBVIOUS
    <3>2. i + 1 \in 1 .. Len(l) - 1
      BY <3>1
    <3> QED
      BY <3>1, <3>2
  <2>2. \/ Consecutive(t[i], t[i + 1])
        \/ Opening(t[i], t[i + 1], old, lost)
    BY <2>1 DEF ChainInOrder
  <2>3. CASE Opening(t[i], t[i + 1], old, lost)
    <3>1. l[i + 1].dh_public = old
      BY <2>1, <2>3 DEF Opening
    <3>2. l[1].dh_public = old
      BY <2>1, <3>1 DEF ChainInOrder
    <3> QED
      BY <2>3, <3>2 DEF Opening
  <2> QED
    BY <2>2, <2>3
<1>2. ASSUME NEW i \in 1 .. Len(t), NEW j \in 1 .. Len(t), i < j,
             t[i].dh_public # old
      PROVE  t[j].dh_public # old
  <2>1. /\ i + 1 \in 1 .. Len(l) /\ j + 1 \in 1 .. Len(l) /\ i + 1 < j + 1
        /\ t[i] = l[i + 1] /\ t[j] = l[j + 1]
    BY <1>2
  <2> QED
    BY <1>2, <2>1 DEF ChainInOrder
<1> QED
  BY <1>1, <1>2 DEF ChainInOrder

\* A line all under one key is in order for a side that has answered it.
LEMMA OrderOfOne ==
  ASSUME NEW l \in Seq(Letters), NEW old, NEW new, NEW lost, NEW lost2,
         ChainInOrder(l, old, lost),
         \A i \in 1 .. Len(l) : l[i].dh_public = new
  PROVE  ChainInOrder(l, new, lost2)
<1>1. ASSUME NEW i \in 1 .. Len(l) - 1
      PROVE  Consecutive(l[i], l[i + 1])
  <2>1. i \in 1 .. Len(l) /\ i + 1 \in 1 .. Len(l)
    OBVIOUS
  <2>2. l[i].dh_public = new /\ l[i + 1].dh_public = new
    BY <2>1
  <2> QED
    BY <2>2 DEF ChainInOrder, Opening
<1> QED
  BY <1>1 DEF ChainInOrder

\* A letter that follows the last one may join the line.
LEMMA OrderGrows ==
  ASSUME NEW l \in Seq(Letters), Len(l) >= 1, NEW e \in Letters,
         NEW old, NEW lost, ChainInOrder(l, old, lost),
         Consecutive(l[Len(l)], e)
  PROVE  ChainInOrder(Append(l, e), old, lost)
<1> DEFINE k == Append(l, e)
<1>1. /\ Len(k) = Len(l) + 1 /\ Len(l) \in Nat
      /\ \A i \in 1 .. Len(l) : k[i] = l[i]
      /\ k[Len(l) + 1] = e
  OBVIOUS
<1> HIDE DEF k
<1>2. ASSUME NEW i \in 1 .. Len(k) - 1
      PROVE  \/ Consecutive(k[i], k[i + 1])
             \/ Opening(k[i], k[i + 1], old, lost)
  <2>1. CASE i = Len(l)
    BY <1>1, <2>1
  <2>2. CASE i # Len(l)
    <3>1. i \in 1 .. Len(l) - 1 /\ k[i] = l[i] /\ k[i + 1] = l[i + 1]
      BY <1>1, <2>2
    <3> QED
      BY <3>1 DEF ChainInOrder
  <2> QED
    BY <2>1, <2>2
<1>3. ASSUME NEW i \in 1 .. Len(k), NEW j \in 1 .. Len(k), i < j,
             k[i].dh_public # old
      PROVE  k[j].dh_public # old
  <2>1. i \in 1 .. Len(l) /\ k[i] = l[i]
    BY <1>1, <1>3
  <2>2. CASE j = Len(l) + 1
    <3>1. l[Len(l)].dh_public # old
      <4>1. CASE i = Len(l)
        BY <1>3, <2>1, <4>1
      <4>2. CASE i # Len(l)
        <5>1. i < Len(l) /\ Len(l) \in 1 .. Len(l)
          BY <1>1, <2>1, <4>2
        <5> QED
          BY <1>3, <2>1, <5>1 DEF ChainInOrder
      <4> QED
        BY <4>1, <4>2
    <3> QED
      BY <1>1, <2>2, <3>1 DEF Consecutive
  <2>3. CASE j # Len(l) + 1
    <3>1. j \in 1 .. Len(l) /\ k[j] = l[j]
      BY <1>1, <2>3
    <3> QED
      BY <1>3, <2>1, <3>1 DEF ChainInOrder
  <2> QED
    BY <2>2, <2>3
<1>4. ChainInOrder(k, old, lost)
  BY <1>2, <1>3 DEF ChainInOrder
<1> QED
  BY <1>4 DEF k

LEMMA PairTypes ==
  ASSUME RatchetTypes, NEW d \in Side
  PROVE  pair[d] \in Pairs /\ pair[d] \in 1 .. drawn /\ drawn \in Nat
<1>1. drawn \in 1 .. MaxPair /\ pair[d] \in 1 .. drawn /\ MaxPair \in Nat
  BY RatchetAssumption DEF RatchetTypes, Pairs
<1> QED
  BY <1>1 DEF Pairs

LEMMA RatchetTypesStep ==
  ASSUME RatchetTypes, [RatchetNext]_ratchetVars,
         \A d \in Side : ciphertexts[d] # <<>> =>
            Head(ciphertexts[d]).dh_public \in 1 .. drawn
  PROVE  RatchetTypes'
<1>0. \A d \in Side : Far(d) \in Side
  BY Sides
<1>1. ASSUME NEW d \in Side, Encrypt(d)
      PROVE  RatchetTypes'
  <2>1. Advance(send[d]) \in Chains
    BY ChainTypes DEF RatchetTypes
  <2>2. [dh_public |-> pair[d], key |-> send[d]] \in Letters
    BY PairTypes DEF RatchetTypes, Letters
  <2>3. ciphertexts' \in [Side -> Seq(Letters)]
    BY <1>0, <1>1, <2>2 DEF Encrypt, RatchetTypes
  <2> QED
    BY <1>1, <2>1, <2>3 DEF Encrypt, RatchetTypes
<1>2. ASSUME NEW d \in Side, Decrypt(d)
      PROVE  RatchetTypes'
  <2> DEFINE m == Head(ciphertexts[d])
             step == Stepped(d, m.dh_public)
             fresh == m.dh_public # their[d]
             chain == IF fresh THEN step.recv ELSE recv[d]
  <2>1. /\ ciphertexts[d] \in Seq(Letters) /\ ciphertexts[d] # <<>>
        /\ m \in Letters /\ Tail(ciphertexts[d]) \in Seq(Letters)
    BY <1>2 DEF Decrypt, RatchetTypes
  <2>2. ciphertexts' \in [Side -> Seq(Letters)]
    BY <1>2, <2>1 DEF Decrypt, RatchetTypes
  <2>3. gap' = gap /\ recv' = [recv EXCEPT ![d] = Advance(chain)]
    BY <1>2 DEF Decrypt
  <2>4. CASE fresh
    <3>1. /\ drawn + 1 \in Pairs /\ drawn \in Nat
          /\ m.dh_public \in Pairs /\ pair[d] \in Pairs
      <4>1. drawn < MaxPair
        BY <1>2, <2>4 DEF Decrypt
      <4>2. drawn + 1 \in Pairs /\ drawn \in Nat
        BY <4>1, PairTypes, RatchetAssumption DEF RatchetTypes, Pairs
      <4> QED
        BY <2>1, <4>2, PairTypes DEF Letters
    <3>2. /\ root[d] \in Seq(SUBSET Pairs)
          /\ step.recv \in Chains /\ step.root \in Seq(SUBSET Pairs)
      <4> DEFINE new_root == Append(root[d], {pair[d], m.dh_public})
      <4> HIDE DEF m
      <4>1. /\ root[d] \in Seq(SUBSET Pairs)
            /\ {pair[d], m.dh_public} \in SUBSET Pairs
            /\ {drawn + 1, m.dh_public} \in SUBSET Pairs
        BY <3>1 DEF RatchetTypes
      <4>2. new_root \in Seq(SUBSET Pairs)
        BY <4>1
      <4> HIDE DEF new_root
      <4>3. Append(new_root, {drawn + 1, m.dh_public}) \in Seq(SUBSET Pairs)
        BY <4>1, <4>2
      <4>4. /\ step.recv = Chain(new_root, "send")
            /\ step.root = Append(new_root, {drawn + 1, m.dh_public})
        BY DEF Stepped, new_root
      <4> QED
        BY <4>1, <4>2, <4>3, <4>4, ChainTypes
    <3>3. Advance(chain) \in Chains /\ Chain(step.root, "send") \in Chains
      BY <2>4, <3>2, ChainTypes
    <3>4. /\ their' = [their EXCEPT ![d] = m.dh_public]
          /\ pair' = [pair EXCEPT ![d] = drawn + 1]
          /\ root' = [root EXCEPT ![d] = step.root]
          /\ send' = [send EXCEPT ![d] = Chain(step.root, "send")]
          /\ drawn' = drawn + 1
      BY <1>2, <2>4 DEF Decrypt
    <3>5. m.dh_public \in 1 .. drawn
      BY <2>1
    <3> HIDE DEF m, step, fresh, chain
    <3>6. /\ their' \in [Side -> 0 .. drawn'] /\ pair' \in [Side -> 1 .. drawn']
          /\ gap' \in [Side -> SUBSET (1 .. drawn')]
      BY <2>3, <3>1, <3>4, <3>5 DEF RatchetTypes
    <3> QED
      BY <2>2, <2>3, <3>1, <3>2, <3>3, <3>4, <3>6 DEF RatchetTypes
  <2>5. CASE ~fresh
    <3>1. UNCHANGED <<their, pair, root, send, drawn>>
      BY <1>2, <2>5 DEF Decrypt
    <3>2. Advance(chain) \in Chains
      BY <2>5, ChainTypes DEF RatchetTypes
    <3> QED
      BY <2>2, <2>3, <3>1, <3>2 DEF RatchetTypes
  <2> QED
    BY <2>4, <2>5
<1>3. ASSUME NEW d \in Side, Lose(d)
      PROVE  RatchetTypes'
  <2>1. /\ ciphertexts[d] \in Seq(Letters) /\ ciphertexts[d] # <<>>
        /\ Tail(ciphertexts[d]) \in Seq(Letters)
        /\ Head(ciphertexts[d]).dh_public \in 1 .. drawn
    BY <1>3 DEF Lose, RatchetTypes
  <2>2. /\ gap' = [gap EXCEPT ![d] = @ \cup {Head(ciphertexts[d]).dh_public}]
        /\ ciphertexts' = [ciphertexts EXCEPT ![d] = Tail(@)]
        /\ UNCHANGED keyVars
    BY <1>3 DEF Lose
  <2>3. /\ gap' \in [Side -> SUBSET (1 .. drawn)]
        /\ ciphertexts' \in [Side -> Seq(Letters)]
    BY <2>1, <2>2 DEF RatchetTypes
  <2> QED
    BY <2>2, <2>3 DEF RatchetTypes, keyVars
<1>4. CASE UNCHANGED ratchetVars
  BY <1>4 DEF ratchetVars, keyVars, RatchetTypes
<1> QED
  BY <1>1, <1>2, <1>3, <1>4 DEF RatchetNext

LEMMA LineTypes ==
  ASSUME RatchetTypes, NEW d \in Side
  PROVE  /\ [dh_public |-> pair[Far(d)], key |-> send[Far(d)]] \in Letters
         /\ ciphertexts[d] \in Seq(Letters)
         /\ Line(d) \in Seq(Letters)
         /\ Len(Line(d)) = Len(ciphertexts[d]) + 1
         /\ Len(ciphertexts[d]) \in Nat
         /\ \A i \in 1 .. Len(ciphertexts[d]) : Line(d)[i] = ciphertexts[d][i]
         /\ Line(d)[Len(Line(d))] =
               [dh_public |-> pair[Far(d)], key |-> send[Far(d)]]
<1>1. Far(d) \in Side
  BY Sides
<1>2. /\ [dh_public |-> pair[Far(d)], key |-> send[Far(d)]] \in Letters
      /\ ciphertexts[d] \in Seq(Letters)
  BY <1>1, PairTypes DEF RatchetTypes, Letters
<1> QED
  BY <1>2 DEF Line

LEMMA HeadIsKnown ==
  ASSUME RatchetInv, NEW d \in Side, ciphertexts[d] # <<>>
  PROVE  /\ Line(d)[1] = Head(ciphertexts[d])
         /\ Head(ciphertexts[d]) \in Letters
         /\ Head(ciphertexts[d]).dh_public \in 1 .. drawn
<1>0. /\ ciphertexts[d] \in Seq(Letters) /\ Len(ciphertexts[d]) >= 1
      /\ Head(ciphertexts[d]) = ciphertexts[d][1]
      /\ Head(ciphertexts[d]) \in Letters
  BY HeadOf DEF RatchetInv, RatchetTypes
<1>1. /\ Line(d)[1] = Head(ciphertexts[d]) /\ 1 \in 1 .. Len(Line(d))
      /\ Head(ciphertexts[d]) \in Letters
  <2>1. /\ Len(Line(d)) = Len(ciphertexts[d]) + 1
        /\ Len(ciphertexts[d]) \in Nat
        /\ \A i \in 1 .. Len(ciphertexts[d]) :
              Line(d)[i] = ciphertexts[d][i]
    BY LineTypes DEF RatchetInv
  <2> QED
    BY <1>0, <2>1
<1>2. Line(d)[1].dh_public \in {their[d], pair[Far(d)]}
  BY <1>1 DEF RatchetInv, LineOK
<1>3. /\ their[d] \in 0 .. drawn /\ pair[Far(d)] \in 1 .. drawn
      /\ drawn \in Nat
  BY Sides, RatchetAssumption DEF RatchetInv, RatchetTypes, Pairs
<1> QED
  BY <1>1, <1>2, <1>3 DEF Letters, Pairs

\* What a line depends on.
LEMMA SameLine ==
  ASSUME NEW d \in Side, LineOK(Line(d), d),
         Line(d)' = Line(d), root'[d] = root[d], pair'[d] = pair[d],
         their'[d] = their[d], pair'[Far(d)] = pair[Far(d)],
         recv'[d] = recv[d], gap'[d] = gap[d]
  PROVE  LineOK(Line(d), d)'
BY DEF LineOK, Reachable, Awaited

LEMMA EncryptKeeps ==
  ASSUME RatchetInv, NEW d \in Side, Encrypt(d)
  PROVE  RatchetInv'
<1> DEFINE f == Far(d)
           old == [dh_public |-> pair[d], key |-> send[d]]
           new == [dh_public |-> pair[d], key |-> Advance(send[d])]
<1>0. /\ f \in Side /\ Far(f) = d /\ f # d
      /\ \A e \in Side : e = d \/ e = f
      /\ RatchetTypes /\ send[d] \in Chains /\ pair[d] \in Pairs
  <2>1. RatchetTypes
    BY DEF RatchetInv
  <2>2. send[d] \in Chains /\ pair[d] \in Pairs
    BY <2>1, PairTypes DEF RatchetTypes
  <2> QED
    BY <2>1, <2>2, Sides
<1>1. RatchetTypes'
  BY HeadIsKnown, RatchetTypesStep DEF RatchetNext, RatchetInv
<1>2. /\ ciphertexts' = [ciphertexts EXCEPT ![f] = Append(@, old)]
      /\ send' = [send EXCEPT ![d] = Advance(@)]
      /\ UNCHANGED <<root, recv, pair, their, drawn, gap>>
  BY DEF Encrypt
<1>3. LineOK(Line(d), d)'
  <2>1. /\ ciphertexts'[d] = ciphertexts[d] /\ send'[f] = send[f]
        /\ pair'[f] = pair[f]
    BY <1>0, <1>2 DEF RatchetTypes
  <2>2. Line(d)' = Line(d)
    BY <2>1 DEF Line
  <2> QED
    BY <1>0, <1>2, <2>2, SameLine DEF RatchetInv
<1>4. LineOK(Line(f), f)'
  <2> DEFINE l == Line(f)
             k == Append(l, new)
  <2>1. /\ l \in Seq(Letters) /\ Len(l) >= 1 /\ Len(l) \in Nat
        /\ l[Len(l)] = old /\ new \in Letters
    <3>1. new \in Letters
      BY <1>0, ChainTypes DEF Letters
    <3> QED
      BY <1>0, <3>1, LineTypes
  <2>2. Line(f)' = k
    <3>1. /\ ciphertexts'[f] = Append(ciphertexts[f], old)
          /\ send'[d] = Advance(send[d]) /\ pair'[d] = pair[d]
      BY <1>0, <1>2 DEF RatchetTypes
    <3> QED
      BY <1>0, <3>1 DEF Line
  <2>3. /\ Len(k) = Len(l) + 1 /\ k[Len(l) + 1] = new
        /\ \A i \in 1 .. Len(l) : k[i] = l[i]
    BY <2>1
  <2>4. LineOK(l, f)
    BY <1>0 DEF RatchetInv
  <2>5. ChainInOrder(k, their[f], gap[f])
    <3>1. Consecutive(l[Len(l)], new)
      BY <2>1 DEF Consecutive
    <3> HIDE DEF l, new
    <3> QED
      BY <2>1, <2>4, <3>1, OrderGrows DEF LineOK
  <2> HIDE DEF k, l
  <2>6. \A i \in 1 .. Len(k) : k[i].dh_public \in {their[f], pair[d]}
    BY <1>0, <2>1, <2>3, <2>4 DEF LineOK
  <2>7. ASSUME NEW i \in 1 .. Len(k), k[i].dh_public # their[f]
        PROVE  Reachable(k[i], f)
    <3>1. CASE i = Len(l) + 1
      <4>1. Reachable(l[Len(l)], f)
        <5>1. l[Len(l)].dh_public # their[f] /\ Len(l) \in 1 .. Len(l)
          BY <2>1, <2>3, <2>7, <3>1
        <5> QED
          BY <2>4, <5>1 DEF LineOK
      <4> QED
        BY <1>0, <2>1, <2>3, <3>1, <4>1, ChainTypes DEF Reachable
    <3>2. CASE i # Len(l) + 1
      <4>1. i \in 1 .. Len(l) /\ k[i] = l[i]
        BY <2>1, <2>3, <3>2
      <4> QED
        BY <2>4, <2>7, <4>1 DEF LineOK
    <3> QED
      BY <3>1, <3>2
  <2>8. Awaited(k[1], f)
    BY <2>1, <2>3, <2>4 DEF LineOK
  <2> QED
    BY <1>0, <1>2, <2>2, <2>5, <2>6, <2>7, <2>8
    DEF LineOK, Reachable, Awaited
<1>5. \A e \in Side : /\ send'[e].label = "send" => send'[e].root = root'[e]
                      /\ their'[e] # pair'[Far(e)] => their'[Far(e)] = pair'[e]
  <2>1. send'[d] = Advance(send[d]) /\ send'[f] = send[f]
    BY <1>0, <1>2 DEF RatchetTypes
  <2>2. send'[d].root = send[d].root /\ send'[d].label = send[d].label
    BY <1>0, <2>1, ChainTypes
  <2> QED
    BY <1>0, <1>2, <2>1, <2>2 DEF RatchetInv
<1> QED
  BY <1>0, <1>1, <1>3, <1>4, <1>5 DEF RatchetInv

LEMMA LoseKeeps ==
  ASSUME RatchetInv, NEW d \in Side, Lose(d)
  PROVE  RatchetInv'
<1> DEFINE f == Far(d)
           l == Line(d)
           e == [dh_public |-> pair[f], key |-> send[f]]
<1>t. PICK t : t = Append(Tail(ciphertexts[d]), e)
  OBVIOUS
<1>0. /\ f \in Side /\ Far(f) = d /\ f # d
      /\ \A s \in Side : s = d \/ s = f
      /\ RatchetTypes /\ LineOK(l, d)
  BY Sides DEF RatchetInv
<1>1. RatchetTypes'
  BY HeadIsKnown, RatchetTypesStep DEF RatchetNext, RatchetInv
<1>2. /\ ciphertexts[d] # <<>>
      /\ gap'[d] = gap[d] \cup {l[1].dh_public}
      /\ gap'[f] = gap[f]
      /\ ciphertexts'[d] = Tail(ciphertexts[d])
      /\ ciphertexts'[f] = ciphertexts[f]
      /\ UNCHANGED <<root, send, recv, pair, their, drawn>>
  BY <1>0, HeadIsKnown DEF Lose, keyVars, RatchetTypes
<1>3. LineOK(Line(f), f)'
  <2>1. Line(f)' = Line(f)
    BY <1>2 DEF Line
  <2> QED
    BY <1>0, <1>2, <2>1, SameLine DEF RatchetInv
<1>4. /\ l \in Seq(Letters) /\ t \in Seq(Letters)
      /\ Len(t) \in Nat /\ Len(t) >= 1 /\ Len(l) = Len(t) + 1
      /\ \A i \in 1 .. Len(t) : t[i] = l[i + 1]
  <2>1. e \in Letters /\ ciphertexts[d] \in Seq(Letters)
    BY <1>0, LineTypes
  <2>2. l = Append(ciphertexts[d], e)
    BY DEF Line
  <2> HIDE DEF e, l
  <2> QED
    BY <1>t, <1>2, <2>1, <2>2, LineDrops
<1> HIDE DEF l
<1>5. LineOK(t, d)'
  <2>1. ChainInOrder(t, their[d], gap'[d])
    BY <1>0, <1>2, <1>4, OrderBehind DEF LineOK
  <2>2. ASSUME NEW i \in 1 .. Len(t)
        PROVE  /\ t[i].dh_public \in {their[d], pair[f]}
               /\ t[i].dh_public # their[d] => Reachable(t[i], d)
    <3>1. i + 1 \in 1 .. Len(l) /\ t[i] = l[i + 1]
      BY <1>4
    <3> QED
      BY <1>0, <3>1 DEF LineOK
  <2>3. Awaited(t[1], d)'
    <3>1. /\ t[1] = l[2] /\ 1 \in 1 .. Len(l) - 1
          /\ l[1] \in Letters /\ l[2] \in Letters
      BY <1>4
    <3>2. \/ Consecutive(l[1], l[2])
          \/ Opening(l[1], l[2], their[d], gap[d])
      <4>1. \/ Consecutive(l[1], l[1 + 1])
            \/ Opening(l[1], l[1 + 1], their[d], gap[d])
        BY <1>0, <3>1 DEF LineOK, ChainInOrder
      <4> QED
        BY <4>1
    <3>3. Awaited(l[1], d)
      BY <1>0 DEF LineOK
    <3>4. CASE Consecutive(l[1], l[2])
      <4>1. /\ l[2].dh_public = l[1].dh_public
            /\ l[2].key.root = l[1].key.root
            /\ l[2].key.label = l[1].key.label
            /\ l[2].key.n = l[1].key.n + 1
            /\ l[1].key.n \in Nat /\ recv[d].n \in Nat
        BY <1>0, <3>1, <3>4, ChainTypes
        DEF Consecutive, Letters, Chains, RatchetTypes
      <4>2. l[2].dh_public \in gap'[d]
        BY <1>2, <4>1
      <4> QED
        BY <1>2, <3>1, <3>3, <4>1, <4>2 DEF Awaited
    <3>5. CASE Opening(l[1], l[2], their[d], gap[d])
      BY <1>2, <3>1, <3>5 DEF Awaited, Opening
    <3> QED
      BY <3>2, <3>4, <3>5
  <2> QED
    BY <1>2, <2>1, <2>2, <2>3 DEF LineOK, Reachable
<1>6. LineOK(Line(d), d)'
  <2>1. Line(d)' = t
    BY <1>t, <1>2 DEF Line
  <2> QED
    BY <1>5, <2>1 DEF LineOK
<1> QED
  BY <1>0, <1>1, <1>2, <1>3, <1>6 DEF RatchetInv

\* The key the receiver derives opens the head of its line exactly when
\* nothing before it was lost.
LEMMA DecryptTells ==
  ASSUME RatchetInv, NEW d \in Side, Decrypt(d)
  PROVE  DecryptsUnlessGap'
<1> DEFINE m == Head(ciphertexts[d])
           fresh == m.dh_public # their[d]
           derived == Chain(Append(root[d], {pair[d], m.dh_public}), "send")
           chain == IF fresh THEN derived ELSE recv[d]
<1>1. /\ m \in Letters /\ m = Line(d)[1] /\ ciphertexts[d] # <<>>
      /\ LineOK(Line(d), d) /\ 1 \in 1 .. Len(Line(d))
  <2>1. ciphertexts[d] # <<>>
    BY DEF Decrypt
  <2>2. Len(Line(d)) = Len(ciphertexts[d]) + 1 /\ Len(ciphertexts[d]) \in Nat
    BY LineTypes DEF RatchetInv
  <2> QED
    BY <2>1, <2>2, HeadIsKnown DEF RatchetInv
<1>2. outcome' = [ok |-> m.key = chain,
                  whole |-> /\ m.dh_public \notin gap[d]
                            /\ m.key.label # "zero"]
  BY DEF Decrypt, Stepped
<1>3. Awaited(m, d) /\ (fresh => Reachable(m, d))
  BY <1>1 DEF LineOK
<1>4. m.key \in Chains /\ recv[d] \in Chains
  BY <1>1 DEF Letters, RatchetInv, RatchetTypes
<1> HIDE DEF m
<1>5. CASE fresh
  <2>1. m.key.n = 0 <=> m.dh_public \notin gap[d]
    BY <1>3, <1>5 DEF Awaited
  <2>2. /\ m.key.root = Append(root[d], {pair[d], m.dh_public})
        /\ m.key.label = "send"
    BY <1>3, <1>5 DEF Reachable
  <2>3. m.key = chain <=> m.key.n = 0
    <3>1. chain = derived
      BY <1>5
    <3>2. Append(root[d], {pair[d], m.dh_public}) \in Seq(SUBSET Pairs)
      <4>1. root[d] \in Seq(SUBSET Pairs) /\ pair[d] \in Pairs
        BY PairTypes DEF RatchetInv, RatchetTypes
      <4>2. {pair[d], m.dh_public} \in SUBSET Pairs
        BY <1>1, <4>1 DEF Letters, m
      <4> QED
        BY <4>1, <4>2
    <3>3. /\ derived \in Chains
          /\ derived.root = Append(root[d], {pair[d], m.dh_public})
          /\ derived.label = "send" /\ derived.n = 0
      BY <3>2, ChainTypes
    <3> HIDE DEF derived, chain
    <3> QED
      BY <1>4, <2>2, <3>1, <3>3, ChainEqual
  <2> QED
    BY <1>2, <2>1, <2>2, <2>3 DEF DecryptsUnlessGap
<1>6. CASE ~fresh
  <2>1. chain = recv[d]
    BY <1>6
  <2>2. CASE m.key.label = "zero" /\ recv[d].label = "recv"
    <3>1. m.key # recv[d]
      BY <2>2
    <3> QED
      BY <1>2, <2>1, <2>2, <3>1 DEF DecryptsUnlessGap
  <2>3. CASE /\ m.key.label = recv[d].label /\ m.key.label = "send"
             /\ m.key.root = recv[d].root
             /\ recv[d].n = m.key.n <=> m.dh_public \notin gap[d]
    <3>1. m.key = recv[d] <=> m.key.n = recv[d].n
      BY <1>4, <2>3, ChainEqual
    <3> QED
      BY <1>2, <2>1, <2>3, <3>1 DEF DecryptsUnlessGap
  <2> QED
    BY <1>3, <1>6, <2>2, <2>3 DEF Awaited
<1> QED
  BY <1>5, <1>6

\* The receiver has the key already: its chain advances.
LEMMA NextOfChainKeeps ==
  ASSUME RatchetInv, NEW d \in Side, Decrypt(d),
         Head(ciphertexts[d]).dh_public = their[d]
  PROVE  RatchetInv'
<1> DEFINE f == Far(d)
           l == Line(d)
           e == [dh_public |-> pair[f], key |-> send[f]]
<1>t. PICK t : t = Append(Tail(ciphertexts[d]), e)
  OBVIOUS
<1>0. /\ f \in Side /\ Far(f) = d /\ f # d
      /\ \A s \in Side : s = d \/ s = f
      /\ RatchetTypes /\ LineOK(l, d)
  BY Sides DEF RatchetInv
<1>1. RatchetTypes'
  BY HeadIsKnown, RatchetTypesStep DEF RatchetNext, RatchetInv
<1>2. /\ ciphertexts[d] # <<>>
      /\ recv'[d] = Advance(recv[d]) /\ recv'[f] = recv[f]
      /\ ciphertexts'[d] = Tail(ciphertexts[d])
      /\ ciphertexts'[f] = ciphertexts[f]
      /\ UNCHANGED <<root, send, pair, their, drawn, gap>>
  BY <1>0 DEF Decrypt, RatchetTypes
<1>3. LineOK(Line(f), f)'
  <2>1. Line(f)' = Line(f)
    BY <1>2 DEF Line
  <2> QED
    BY <1>0, <1>2, <2>1, SameLine DEF RatchetInv
<1>4. /\ l \in Seq(Letters) /\ t \in Seq(Letters)
      /\ Len(t) \in Nat /\ Len(t) >= 1 /\ Len(l) = Len(t) + 1
      /\ \A i \in 1 .. Len(t) : t[i] = l[i + 1]
      /\ l[1].dh_public = their[d]
  <2>1. e \in Letters /\ ciphertexts[d] \in Seq(Letters)
    BY <1>0, LineTypes
  <2>2. l = Append(ciphertexts[d], e)
    BY DEF Line
  <2> HIDE DEF e, l
  <2> QED
    BY <1>t, <1>2, <2>1, <2>2, LineDrops
<1> HIDE DEF l
<1>5. LineOK(t, d)'
  <2>1. ChainInOrder(t, their[d], gap[d])
    BY <1>0, <1>4, OrderBehind DEF LineOK
  <2>2. ASSUME NEW i \in 1 .. Len(t)
        PROVE  /\ t[i].dh_public \in {their[d], pair[f]}
               /\ t[i].dh_public # their[d] => Reachable(t[i], d)
    <3>1. i + 1 \in 1 .. Len(l) /\ t[i] = l[i + 1]
      BY <1>4
    <3> QED
      BY <1>0, <3>1 DEF LineOK
  <2>3. Awaited(t[1], d)'
    <3>1. /\ t[1] = l[2] /\ 1 \in 1 .. Len(l) - 1
          /\ l[1] \in Letters /\ l[2] \in Letters
      BY <1>4
    <3>2. \/ Consecutive(l[1], l[2])
          \/ Opening(l[1], l[2], their[d], gap[d])
      <4>1. \/ Consecutive(l[1], l[1 + 1])
            \/ Opening(l[1], l[1 + 1], their[d], gap[d])
        BY <1>0, <3>1 DEF LineOK, ChainInOrder
      <4> QED
        BY <4>1
    <3>3. Awaited(l[1], d)
      BY <1>0 DEF LineOK
    <3>4. CASE Consecutive(l[1], l[2])
      <4>1. /\ l[2].dh_public = l[1].dh_public
            /\ l[2].key.root = l[1].key.root
            /\ l[2].key.label = l[1].key.label
            /\ l[2].key.n = l[1].key.n + 1
            /\ recv'[d].root = recv[d].root
            /\ recv'[d].label = recv[d].label
            /\ recv'[d].n = recv[d].n + 1
            /\ l[1].key.n \in Nat /\ recv[d].n \in Nat
        BY <1>0, <1>2, <3>1, <3>4, ChainTypes
        DEF Consecutive, Letters, Chains, RatchetTypes
      <4> QED
        BY <1>2, <1>4, <3>1, <3>3, <4>1 DEF Awaited
    <3>5. CASE Opening(l[1], l[2], their[d], gap[d])
      BY <1>2, <3>1, <3>5 DEF Awaited, Opening
    <3> QED
      BY <3>2, <3>4, <3>5
  <2> QED
    BY <1>2, <2>1, <2>2, <2>3 DEF LineOK, Reachable
<1>6. LineOK(Line(d), d)'
  <2>1. Line(d)' = t
    BY <1>t, <1>2 DEF Line
  <2> QED
    BY <1>5, <2>1 DEF LineOK
<1> QED
  BY <1>0, <1>1, <1>2, <1>3, <1>6 DEF RatchetInv

\* A new key: the receiver completes the root the sender is at, and goes one
\* step past it.
LEMMA StepKeeps ==
  ASSUME RatchetInv, NEW d \in Side, Decrypt(d),
         Head(ciphertexts[d]).dh_public # their[d]
  PROVE  RatchetInv'
<1> DEFINE f == Far(d)
           l == Line(d)
           e == [dh_public |-> pair[f], key |-> send[f]]
           new_root == Append(root[d], {pair[d], pair[f]})
           next_root == Append(new_root, {drawn + 1, pair[f]})
<1>t. PICK t : t = Append(Tail(ciphertexts[d]), e)
  OBVIOUS
<1>0. /\ f \in Side /\ Far(f) = d /\ f # d
      /\ \A s \in Side : s = d \/ s = f
      /\ RatchetTypes /\ LineOK(l, d)
      /\ drawn \in Nat /\ pair[d] \in 1 .. drawn /\ pair[f] \in 1 .. drawn
  BY Sides, PairTypes DEF RatchetInv
<1>1. RatchetTypes'
  BY HeadIsKnown, RatchetTypesStep DEF RatchetNext, RatchetInv
<1>4. /\ l \in Seq(Letters) /\ t \in Seq(Letters)
      /\ Len(t) \in Nat /\ Len(t) >= 1 /\ Len(l) = Len(t) + 1
      /\ \A i \in 1 .. Len(t) : t[i] = l[i + 1]
      /\ l[1] = Head(ciphertexts[d])
      /\ l[Len(l)] = e
  <2>1. e \in Letters /\ ciphertexts[d] \in Seq(Letters) /\ l[Len(l)] = e
    BY <1>0, LineTypes
  <2>2. l = Append(ciphertexts[d], e) /\ ciphertexts[d] # <<>>
    BY DEF Line, Decrypt
  <2> HIDE DEF e, l
  <2> QED
    BY <1>t, <2>1, <2>2, LineDrops
<1>5. /\ l[1].dh_public # their[d]
      /\ \A i \in 1 .. Len(l) : l[i].dh_public = pair[f]
  <2>1. l[1].dh_public # their[d]
    BY <1>4
  <2>2. ASSUME NEW i \in 1 .. Len(l) PROVE l[i].dh_public = pair[f]
    <3>1. l[i].dh_public # their[d]
      <4>1. CASE i = 1
        BY <2>1, <4>1
      <4>2. CASE i # 1
        <5>1. 1 < i /\ 1 \in 1 .. Len(l)
          BY <1>4, <2>2, <4>2
        <5> QED
          BY <1>0, <2>1, <5>1 DEF LineOK, ChainInOrder
      <4> QED
        BY <4>1, <4>2
    <3> QED
      BY <1>0, <3>1 DEF LineOK
  <2> QED
    BY <2>1, <2>2
<1> HIDE DEF l
<1>2. /\ recv'[d] = Advance(Chain(new_root, "send")) /\ recv'[f] = recv[f]
      /\ root'[d] = next_root /\ root'[f] = root[f]
      /\ send'[d] = Chain(next_root, "send") /\ send'[f] = send[f]
      /\ pair'[d] = drawn + 1 /\ pair'[f] = pair[f]
      /\ their'[d] = pair[f] /\ their'[f] = their[f]
      /\ ciphertexts'[d] = Tail(ciphertexts[d])
      /\ ciphertexts'[f] = ciphertexts[f]
      /\ drawn' = drawn + 1 /\ gap' = gap
  <2>1. Head(ciphertexts[d]).dh_public = pair[f]
    BY <1>4, <1>5
  <2>2. /\ their' = [their EXCEPT ![d] = pair[f]]
        /\ pair' = [pair EXCEPT ![d] = drawn + 1]
        /\ root' = [root EXCEPT ![d] = next_root]
        /\ send' = [send EXCEPT ![d] = Chain(next_root, "send")]
        /\ drawn' = drawn + 1
        /\ recv' = [recv EXCEPT ![d] = Advance(Chain(new_root, "send"))]
        /\ ciphertexts' = [ciphertexts EXCEPT ![d] = Tail(@)]
        /\ gap' = gap
    BY <2>1 DEF Decrypt, Stepped
  <2> HIDE DEF new_root, next_root
  <2> QED
    BY <1>0, <2>2 DEF RatchetTypes
<1>6. /\ send[f].root = new_root /\ send[f].label = "send"
      /\ root[f] = new_root /\ their[f] = pair[d]
  <2>1. Reachable(l[Len(l)], d) /\ pair[f] # their[d]
    <3>1. Len(l) \in 1 .. Len(l) /\ 1 \in 1 .. Len(l)
      BY <1>4
    <3>2. l[Len(l)].dh_public # their[d] /\ pair[f] # their[d]
      BY <1>5, <3>1
    <3> QED
      BY <1>0, <3>1, <3>2 DEF LineOK
  <2>2. send[f].root = new_root /\ send[f].label = "send"
    BY <1>4, <2>1 DEF Reachable
  <2>3. root[f] = send[f].root /\ their[f] = pair[d]
    BY <1>0, <2>1, <2>2 DEF RatchetInv
  <2> QED
    BY <2>2, <2>3
<1>7. LineOK(t, d)'
  <2>1. \A i \in 1 .. Len(t) : t[i].dh_public = pair[f]
    <3>1. ASSUME NEW i \in 1 .. Len(t) PROVE t[i].dh_public = pair[f]
      <4>1. i + 1 \in 1 .. Len(l) /\ t[i] = l[i + 1]
        BY <1>4
      <4> QED
        BY <1>5, <4>1
    <3> QED
      BY <3>1
  <2>2. ChainInOrder(t, pair[f], gap[d])
    <3>1. ChainInOrder(t, their[d], gap[d])
      BY <1>0, <1>4, OrderBehind DEF LineOK
    <3> QED
      BY <1>4, <2>1, <3>1, OrderOfOne
  <2>3. Awaited(t[1], d)'
    <3>1. /\ t[1] = l[2] /\ 1 \in 1 .. Len(l) - 1 /\ 1 \in 1 .. Len(l)
          /\ 2 \in 1 .. Len(l) /\ l[1] \in Letters /\ l[2] \in Letters
      BY <1>4
    <3>2. Consecutive(l[1], l[2])
      <4>1. \/ Consecutive(l[1], l[1 + 1])
            \/ Opening(l[1], l[1 + 1], their[d], gap[d])
        BY <1>0, <3>1 DEF LineOK, ChainInOrder
      <4> QED
        BY <1>5, <4>1 DEF Opening
    <3>3. l[1].key.n = 0 <=> l[1].dh_public \notin gap[d]
      BY <1>0, <1>5 DEF LineOK, Awaited
    <3>4. l[1].key.root = new_root /\ l[1].key.label = "send"
      BY <1>0, <1>5, <3>1 DEF LineOK, Reachable
    <3>5. /\ l[2].dh_public = l[1].dh_public
          /\ l[2].key.root = l[1].key.root
          /\ l[2].key.label = l[1].key.label
          /\ l[2].key.n = l[1].key.n + 1
          /\ l[1].key.n \in Nat
      BY <3>1, <3>2, ChainTypes DEF Consecutive, Letters, Chains
    <3>6. /\ recv'[d].root = new_root /\ recv'[d].label = "send"
          /\ recv'[d].n = 1
      <4>1. new_root \in Seq(SUBSET Pairs)
        <5>1. /\ root[d] \in Seq(SUBSET Pairs)
              /\ {pair[d], pair[f]} \in SUBSET Pairs
          BY <1>0, PairTypes DEF RatchetTypes
        <5> QED
          BY <5>1
      <4> HIDE DEF new_root, next_root
      <4>2. Chain(new_root, "send") \in Chains
        BY <4>1, ChainTypes
      <4> QED
        BY <1>2, <4>2, ChainTypes
    <3> HIDE DEF new_root, next_root, e
    <3> QED
      BY <1>2, <1>5, <3>1, <3>3, <3>4, <3>5, <3>6 DEF Awaited
  <2> HIDE DEF new_root, next_root, e
  <2> QED
    BY <1>2, <2>1, <2>2, <2>3 DEF LineOK
<1>8. LineOK(Line(d), d)'
  <2>1. Line(d)' = t
    BY <1>t, <1>2 DEF Line
  <2> QED
    BY <1>7, <2>1 DEF LineOK
<1>9. LineOK(Line(f), f)'
  <2> DEFINE q == ciphertexts[f]
             k == Append(q, [dh_public |-> pair[d], key |-> send[d]])
             new == [dh_public |-> drawn + 1, key |-> Chain(next_root, "send")]
  <2>n. PICK n : n = Append(q, new)
    OBVIOUS
  <2>1. Line(f)' = n /\ Line(f) = k
    BY <1>0, <1>2, <2>n DEF Line
  <2>2. /\ k \in Seq(Letters) /\ Len(k) = Len(q) + 1 /\ Len(q) \in Nat
        /\ q \in Seq(Letters) /\ \A i \in 1 .. Len(q) : k[i] = q[i]
    BY <1>0, <2>1, LineTypes
  <2>3. /\ Len(n) = Len(q) + 1 /\ n[Len(q) + 1] = new
        /\ \A i \in 1 .. Len(q) : n[i] = k[i]
    BY <2>n, <2>2
  <2>4. LineOK(k, f) /\ \A i \in 1 .. Len(k) : k[i].dh_public = pair[d]
    BY <1>0, <1>6, <2>1 DEF RatchetInv, LineOK
  <2> HIDE DEF k, q, new
  <2>5. /\ new.dh_public = drawn + 1 /\ new.key.n = 0
        /\ new.key.root = next_root /\ new.key.label = "send"
        /\ drawn + 1 # pair[d] /\ drawn + 1 \notin gap[f]
    <3>1. /\ new.dh_public = drawn + 1 /\ new.key = Chain(next_root, "send")
      BY DEF new
    <3>2. /\ new.key.n = 0 /\ new.key.root = next_root
          /\ new.key.label = "send"
      BY <3>1 DEF Chain
    <3>3. gap[f] \subseteq 1 .. drawn
      BY <1>0 DEF RatchetTypes
    <3> HIDE DEF next_root
    <3>4. drawn + 1 # pair[d] /\ drawn + 1 \notin gap[f]
      BY <1>0, <3>3
    <3> QED
      BY <3>1, <3>2, <3>4
  <2>6. ChainInOrder(n, pair[d], gap[f])
    <3>1. ASSUME NEW i \in 1 .. Len(n) - 1
          PROVE  \/ Consecutive(n[i], n[i + 1])
                 \/ Opening(n[i], n[i + 1], pair[d], gap[f])
      <4>1. i \in 1 .. Len(q) /\ i \in 1 .. Len(k)
        BY <2>2, <2>3
      <4>2. CASE i = Len(q)
        BY <2>3, <2>4, <2>5, <4>1, <4>2 DEF Opening
      <4>3. CASE i # Len(q)
        <5>1. /\ i + 1 \in 1 .. Len(q) /\ i + 1 \in 1 .. Len(k)
              /\ i \in 1 .. Len(k) - 1
          BY <2>2, <4>1, <4>3
        <5>2. \/ Consecutive(k[i], k[i + 1])
              \/ Opening(k[i], k[i + 1], pair[d], gap[f])
          BY <1>6, <2>4, <5>1 DEF LineOK, ChainInOrder
        <5>3. Consecutive(k[i], k[i + 1])
          BY <2>4, <4>1, <5>1, <5>2 DEF Opening
        <5> QED
          BY <2>3, <4>1, <5>1, <5>3
      <4> QED
        BY <4>2, <4>3
    <3>2. ASSUME NEW i \in 1 .. Len(n), NEW j \in 1 .. Len(n), i < j,
                 n[i].dh_public # pair[d]
          PROVE  n[j].dh_public # pair[d]
      <4>1. i \in 1 .. Len(q) /\ i \in 1 .. Len(k)
        BY <2>2, <2>3, <3>2
      <4> QED
        BY <2>3, <2>4, <3>2, <4>1
    <3> QED
      BY <3>1, <3>2 DEF ChainInOrder
  <2>7. ASSUME NEW i \in 1 .. Len(n)
        PROVE  /\ n[i].dh_public \in {pair[d], drawn + 1}
               /\ n[i].dh_public # pair[d] => i = Len(q) + 1
    <3>1. CASE i = Len(q) + 1
      BY <2>3, <2>5, <3>1
    <3>2. CASE i # Len(q) + 1
      <4>1. i \in 1 .. Len(q) /\ i \in 1 .. Len(k)
        BY <2>2, <2>3, <3>2
      <4> QED
        BY <2>3, <2>4, <4>1
    <3> QED
      BY <3>1, <3>2
  <2>8. ASSUME NEW i \in 1 .. Len(n), n[i].dh_public # pair[d]
        PROVE  Reachable(n[i], f)'
    <3>1. n[i] = new
      BY <2>3, <2>7, <2>8
    <3>2. new.key.root = Append(root[f], {pair[f], drawn + 1})
      <4>1. {pair[f], drawn + 1} = {drawn + 1, pair[f]}
        OBVIOUS
      <4> QED
        BY <1>6, <2>5, <4>1
    <3> QED
      BY <1>2, <2>5, <3>1, <3>2 DEF Reachable
  <2>9. Awaited(n[1], f)'
    <3>1. CASE Len(q) = 0
      BY <1>2, <1>6, <2>3, <2>5, <3>1 DEF Awaited
    <3>2. CASE Len(q) # 0
      <4>1. n[1] = k[1] /\ 1 \in 1 .. Len(k)
        BY <2>2, <2>3, <3>2
      <4>2. Awaited(k[1], f) /\ k[1].dh_public = their[f]
        BY <1>6, <2>4, <4>1 DEF LineOK
      <4> QED
        BY <1>2, <4>1, <4>2 DEF Awaited
    <3> QED
      BY <3>1, <3>2
  <2> QED
    BY <1>0, <1>2, <1>6, <2>1, <2>6, <2>7, <2>8, <2>9 DEF LineOK
<1>10. \A s \in Side : /\ send'[s].label = "send" => send'[s].root = root'[s]
                       /\ their'[s] # pair'[Far(s)] => their'[Far(s)] = pair'[s]
  <2>1. send'[d].root = next_root
    BY <1>2 DEF Chain
  <2> HIDE DEF next_root, new_root
  <2> QED
    BY <1>0, <1>2, <1>6, <2>1
<1> QED
  BY <1>0, <1>1, <1>8, <1>9, <1>10 DEF RatchetInv

LEMMA RatchetInvInit == RatchetInit => RatchetInv
<1> SUFFICES ASSUME RatchetInit PROVE RatchetInv
  OBVIOUS
<1> DEFINE first == <<{1, 2}>>
<1>1. /\ root["alice"] = first /\ root["bob"] = <<>>
      /\ send["alice"] = Chain(first, "send") /\ send["bob"] = ZeroChain
      /\ recv["alice"] = Chain(first, "recv") /\ recv["bob"] = ZeroChain
      /\ pair["alice"] = 2 /\ pair["bob"] = 1
      /\ their["alice"] = 1 /\ their["bob"] = 0
      /\ \A d \in Side : ciphertexts[d] = <<>> /\ gap[d] = {}
      /\ drawn = 2
  BY DEF RatchetInit, Both, Side, Unset
<1>2. first \in Seq(SUBSET Pairs) /\ <<>> \in Seq(SUBSET Pairs)
  <2>1. {1, 2} \in SUBSET Pairs
    BY RatchetAssumption DEF Pairs
  <2> HIDE DEF Pairs
  <2> QED
    BY <2>1
<1>3. /\ Chain(first, "send") \in Chains /\ Chain(first, "recv") \in Chains
      /\ ZeroChain \in Chains
  BY <1>2, ChainTypes DEF ZeroChain
<1>4. first = Append(<<>>, {1, 2})
  OBVIOUS
<1> HIDE DEF first
<1>5. RatchetTypes
  <2>1. 2 \in Pairs
    BY RatchetAssumption DEF Pairs
  <2>2. /\ root \in [Side -> Seq(SUBSET Pairs)]
        /\ send \in [Side -> Chains] /\ recv \in [Side -> Chains]
        /\ pair \in [Side -> 1 .. 2] /\ their \in [Side -> 0 .. 2]
    <3>1. root = Both(first, <<>>)
      BY DEF RatchetInit, first
    <3>2. root \in [Side -> Seq(SUBSET Pairs)]
      BY <1>2, <3>1 DEF Both
    <3>3. /\ send = Both(Chain(first, "send"), ZeroChain)
          /\ recv = Both(Chain(first, "recv"), ZeroChain)
      BY DEF RatchetInit, first
    <3>4. send \in [Side -> Chains] /\ recv \in [Side -> Chains]
      BY <1>3, <3>3 DEF Both
    <3>5. pair \in [Side -> 1 .. 2] /\ their \in [Side -> 0 .. 2]
      BY DEF RatchetInit, Both, Unset
    <3> QED
      BY <3>2, <3>4, <3>5
  <2>3. /\ ciphertexts \in [Side -> Seq(Letters)]
        /\ gap \in [Side -> SUBSET (1 .. 2)]
    BY DEF RatchetInit
  <2> QED
    BY <1>1, <2>1, <2>2, <2>3 DEF RatchetTypes
<1>6. Far("alice") = "bob" /\ Far("bob") = "alice"
  BY DEF Far
<1>7. ASSUME NEW d \in Side
      PROVE  /\ Len(Line(d)) = 1
             /\ Line(d)[1].dh_public = pair[Far(d)]
             /\ Line(d)[1].key = send[Far(d)]
  BY <1>1 DEF Line
<1>8. ASSUME NEW d \in Side,
             pair[Far(d)] # their[d] => Reachable(Line(d)[1], d),
             Awaited(Line(d)[1], d)
      PROVE  LineOK(Line(d), d)
  <2>1. \A i \in 1 .. Len(Line(d)) : i = 1
    BY <1>7
  <2>2. 1 .. Len(Line(d)) - 1 = {}
    <3>1. Len(Line(d)) - 1 = 0
      BY <1>7
    <3>2. 1 .. 0 = {}
      OBVIOUS
    <3> QED
      BY <3>1, <3>2, Zenon
  <2>3. ChainInOrder(Line(d), their[d], gap[d])
    BY <2>1, <2>2 DEF ChainInOrder
  <2> QED
    BY <1>7, <1>8, <2>1, <2>3 DEF LineOK
<1>9. LineOK(Line("alice"), "alice")
  <2>1. Awaited(Line("alice")[1], "alice")
    BY <1>1, <1>6, <1>7, Sides, ChainTypes DEF Awaited, ZeroChain
  <2> QED
    BY <1>1, <1>6, <1>8, <2>1, Sides
<1>10. LineOK(Line("bob"), "bob")
  <2>1. Awaited(Line("bob")[1], "bob")
    BY <1>1, <1>6, <1>7, Sides, ChainTypes DEF Awaited
  <2>2. Reachable(Line("bob")[1], "bob")
    BY <1>1, <1>4, <1>6, <1>7, Sides, ChainTypes DEF Reachable
  <2> QED
    BY <1>8, <2>1, <2>2, Sides
<1>11. ASSUME NEW d \in Side
       PROVE  /\ send[d].label = "send" => send[d].root = root[d]
              /\ their[d] # pair[Far(d)] => their[Far(d)] = pair[d]
  <2>1. CASE d = "alice"
    BY <1>1, <1>6, <2>1, ChainTypes
  <2>2. CASE d = "bob"
    BY <1>1, <1>6, <2>2, ChainTypes DEF ZeroChain
  <2> QED
    BY <2>1, <2>2 DEF Side
<1> QED
  BY <1>5, <1>9, <1>10, <1>11 DEF RatchetInv, Side

LEMMA RatchetInvStep == RatchetInv /\ [RatchetNext]_ratchetVars => RatchetInv'
<1> SUFFICES ASSUME RatchetInv, [RatchetNext]_ratchetVars PROVE RatchetInv'
  OBVIOUS
<1>1. ASSUME NEW d \in Side, Encrypt(d) PROVE RatchetInv'
  BY <1>1, EncryptKeeps
<1>2. ASSUME NEW d \in Side, Decrypt(d) PROVE RatchetInv'
  BY <1>2, NextOfChainKeeps, StepKeeps
<1>3. ASSUME NEW d \in Side, Lose(d) PROVE RatchetInv'
  BY <1>3, LoseKeeps
<1>4. CASE UNCHANGED ratchetVars
  BY <1>4 DEF ratchetVars, keyVars, RatchetInv, RatchetTypes, LineOK, Line,
     Reachable, Awaited
<1> QED
  BY <1>1, <1>2, <1>3, <1>4 DEF RatchetNext

\* However the messages of the two sides cross, and whichever are lost, a
\* message decrypts exactly when none before it under its key was lost.
THEOREM DecryptsWhatFollows == RatchetSpec => []DecryptsUnlessGap
<1>1. RatchetInit => RatchetInv /\ DecryptsUnlessGap
  BY RatchetInvInit DEF RatchetInit, DecryptsUnlessGap
<1>2. /\ RatchetInv /\ DecryptsUnlessGap
      /\ [RatchetNext]_ratchetVars
      => DecryptsUnlessGap'
  <2> SUFFICES ASSUME RatchetInv, DecryptsUnlessGap,
                      [RatchetNext]_ratchetVars
               PROVE  DecryptsUnlessGap'
    OBVIOUS
  <2>1. ASSUME NEW d \in Side, Decrypt(d) PROVE DecryptsUnlessGap'
    BY <2>1, DecryptTells
  <2>2. ASSUME outcome' = outcome PROVE DecryptsUnlessGap'
    BY <2>2 DEF DecryptsUnlessGap
  <2> QED
    BY <2>1, <2>2 DEF RatchetNext, Encrypt, Lose, ratchetVars
<1> QED
  BY <1>1, <1>2, RatchetInvStep, PTL DEF RatchetSpec

LEMMA RatchetTypeCorrect == RatchetSpec => []RatchetTypeOK
<1>1. RatchetInv => RatchetTypeOK
  <2> SUFFICES ASSUME RatchetInv PROVE RatchetTypeOK
    OBVIOUS
  <2>1. \A d \in Side : ChainOK(send[d]) /\ ChainOK(recv[d])
    BY DEF RatchetInv, RatchetTypes, ChainOK, Chains
  <2>2. 1 .. drawn \subseteq Pairs /\ 0 .. drawn \subseteq Pairs \cup {Unset}
    BY RatchetAssumption DEF RatchetInv, RatchetTypes, Pairs, Unset
  <2> QED
    BY <2>1, <2>2 DEF RatchetInv, RatchetTypes, RatchetTypeOK
<1> QED
  BY <1>1, RatchetInvInit, RatchetInvStep, PTL DEF RatchetSpec
=============================================================================
