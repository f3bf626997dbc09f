--------------------------- MODULE UsernamesProofs ---------------------------
(***************************************************************************)
(* Who is told that a name was registered gets it: ToldIsOwned of module   *)
(* Usernames, for any users, names and threads.  The reason is that two    *)
(* names that we have, submitted or are registering are never unmarked:    *)
(* while neither was forgotten or set by hand, the reverse map or a call   *)
(* under way holds the first one back when the second comes.  Nodes that   *)
(* lag behind hide the chain from the registry, but not what it did.       *)
(***************************************************************************)
EXTENDS Usernames, TLAPS

\* What we have on the chain, or submitted.
Ours(n) == names[n] = Owner \/ <<n, Owner>> \in extrinsics

\* A call that may yet submit n.
CallFor(n) == \E t \in AppThread :
                 /\ registering[t].name = n
                 /\ registering[t].step \in {"query", "submit", "store",
                                             "resend"}
Storing(n) == \E t \in AppThread :
                 registering[t].name = n /\ registering[t].step = "store"
Busy(n) == Ours(n) \/ CallFor(n) \/ reverse = n

\* The name of a call under way; register_address has read one.
CallsAreNamed ==
    \A t \in AppThread :
        /\ registering[t].step # "idle" => registering[t].name \in Name
        /\ registering[t].step = "resend" => reverse # None

\* What others may get was submitted by them.
WantedOnes ==
    \A n \in Name, a \in Rival :
        names[n] = a \/ <<n, a>> \in extrinsics => n \in wanted

\* Only StoreName makes a record synced.
SyncedIsTold == \A n \in Name : cache[n].synced => n \in registered

\* Two names at a time are marked.
PairsAreCrossed ==
    \A m, n \in Name : m # n /\ Busy(m) /\ Busy(n) => m \in crossed

\* The registry has a name in mind, is about to, or forgot it.
OursIsKnown ==
    \A n \in Name : Ours(n) =>
        \/ reverse # None
        \/ n \in forgotten
        \/ Storing(n)

\* What register's Ok says, and what it will say when the call ends.
Safe(n) == Ours(n) \/ n \in wanted \/ n \in crossed
StoredIsSafe == \A n \in Name : Storing(n) => Safe(n)
ToldIsSafe == \A n \in registered : Safe(n)

NamesInv == /\ NamesTypeOK
            /\ CallsAreNamed
            /\ WantedOnes
            /\ SyncedIsTold
            /\ PairsAreCrossed
            /\ OursIsKnown
            /\ StoredIsSafe
            /\ ToldIsSafe

-----------------------------------------------------------------------------
\* What a step may do that is about no name but those that were busy.
NothingNew ==
    /\ NamesTypeOK' /\ CallsAreNamed' /\ WantedOnes' /\ SyncedIsTold'
    /\ OursIsKnown'
    /\ crossed \subseteq crossed'
    /\ \A n \in Name : /\ Busy(n)' => Busy(n)
                       /\ Safe(n) => Safe(n)'
                       /\ Storing(n)' => Storing(n) \/ Safe(n)'
                       /\ n \in registered' => n \in registered \/ Safe(n)'

LEMMA NothingNewKeeps ==
  ASSUME NamesInv, NothingNew
  PROVE  NamesInv'
<1>1. PairsAreCrossed'
  BY DEF NothingNew, NamesInv, PairsAreCrossed
<1>2. ToldIsSafe' /\ StoredIsSafe'
  BY DEF NothingNew, NamesInv, ToldIsSafe, StoredIsSafe, NamesTypeOK
<1> QED
  BY <1>1, <1>2 DEF NothingNew, NamesInv

\* A call goes to another step.
LEMMA CallMoves ==
  ASSUME NamesInv, NEW t \in AppThread, NEW n \in Name,
         NEW step \in {"ask", "check", "query", "submit", "store", "resend"},
         GoTo(t, n, step),
         reverse # None \/ step = "resend" => reverse' # None
  PROVE  /\ registering' \in [AppThread -> RegisterCall]
         /\ CallsAreNamed'
         /\ \A m \in Name :
               /\ CallFor(m)' =>
                     CallFor(m) \/ (m = n /\ step \notin {"ask", "check"})
               /\ Storing(m)' => Storing(m) \/ (m = n /\ step = "store")
               /\ m = n /\ step = "store" => Storing(m)'
               /\ Storing(m) /\ registering[t].step # "store" => Storing(m)'
<1>1. [name |-> n, step |-> step] \in RegisterCall
  BY DEF RegisterCall
<1>2. /\ registering'[t].name = n /\ registering'[t].step = step
      /\ \A u \in AppThread : u # t => registering'[u] = registering[u]
      /\ registering' \in [AppThread -> RegisterCall]
  BY <1>1 DEF NamesInv, NamesTypeOK, GoTo
<1>3. CallsAreNamed'
  BY <1>2 DEF NamesInv, CallsAreNamed
<1>4. ASSUME NEW m \in Name
      PROVE  /\ CallFor(m)' =>
                   CallFor(m) \/ (m = n /\ step \notin {"ask", "check"})
             /\ Storing(m)' => Storing(m) \/ (m = n /\ step = "store")
             /\ m = n /\ step = "store" => Storing(m)'
             /\ Storing(m) /\ registering[t].step # "store" => Storing(m)'
  BY <1>2 DEF CallFor, Storing
<1> QED
  BY <1>2, <1>3, <1>4

\* A call goes back.
LEMMA CallReturns ==
  ASSUME NamesInv, NEW t \in AppThread, GoBack(t),
         reverse # None => reverse' # None
  PROVE  /\ registering' \in [AppThread -> RegisterCall]
         /\ CallsAreNamed'
         /\ \A m \in Name :
               /\ CallFor(m)' => CallFor(m)
               /\ Storing(m)' => Storing(m)
               /\ Storing(m) /\ m # registering[t].name => Storing(m)'
               /\ Storing(m) /\ registering[t].step # "store" => Storing(m)'
<1>1. NoCallYet \in RegisterCall
  BY DEF RegisterCall, NoCallYet
<1>2. /\ registering'[t] = NoCallYet
      /\ \A u \in AppThread : u # t => registering'[u] = registering[u]
      /\ registering' \in [AppThread -> RegisterCall]
  BY <1>1 DEF NamesInv, NamesTypeOK, GoBack
<1>3. registering'[t].step = "idle"
  BY <1>2 DEF NoCallYet
<1>4. CallsAreNamed'
  BY <1>2, <1>3 DEF NamesInv, CallsAreNamed
<1>5. ASSUME NEW m \in Name
      PROVE  /\ CallFor(m)' => CallFor(m)
             /\ Storing(m)' => Storing(m)
             /\ Storing(m) /\ m # registering[t].name => Storing(m)'
             /\ Storing(m) /\ registering[t].step # "store" => Storing(m)'
  BY <1>2, <1>3 DEF CallFor, Storing
<1> QED
  BY <1>2, <1>4, <1>5

LEMMA LookUpKeeps ==
  ASSUME NamesInv, NEW t \in AppThread, NEW n \in Name, LookUp(t, n)
  PROVE  NamesInv'
<1>1. /\ registering[t].step = "idle"
      /\ UNCHANGED <<cache, reverse, extrinsics, names, wanted, forgotten,
                     crossed>>
      /\ \/ \E step \in {"ask", "check"} : GoTo(t, n, step)
         \/ UNCHANGED registering
      /\ registered' = registered
  <2>1. cache[n].synced => registered \cup {n} = registered
    BY DEF NamesInv, SyncedIsTold
  <2> QED
    BY <2>1 DEF LookUp, NoCallYet
<1>2. \A m \in Name : /\ Ours(m)' <=> Ours(m)
                      /\ Safe(m)' <=> Safe(m)
  BY <1>1 DEF Ours, Safe
<1>3. /\ registering' \in [AppThread -> RegisterCall]
      /\ CallsAreNamed'
      /\ \A m \in Name : /\ CallFor(m)' => CallFor(m)
                         /\ Storing(m)' <=> Storing(m)
  <2>1. CASE UNCHANGED registering
    BY <1>1, <2>1 DEF NamesInv, NamesTypeOK, CallsAreNamed, CallFor, Storing
  <2>2. ASSUME NEW step \in {"ask", "check"}, GoTo(t, n, step)
        PROVE  /\ registering' \in [AppThread -> RegisterCall]
               /\ CallsAreNamed'
               /\ \A m \in Name : /\ CallFor(m)' => CallFor(m)
                                  /\ Storing(m)' <=> Storing(m)
    BY <1>1, <2>2, CallMoves
  <2> QED
    BY <1>1, <2>1, <2>2
<1>4. NothingNew
  BY <1>1, <1>2, <1>3
  DEF NothingNew, NamesInv, NamesTypeOK, WantedOnes, SyncedIsTold,
      OursIsKnown, Busy
<1> QED
  BY <1>4, NothingNewKeeps

LEMMA AskNodesKeeps ==
  ASSUME NamesInv, NEW t \in AppThread, AskNodes(t)
  PROVE  NamesInv'
<1>1. PICK n \in Name : /\ n = registering[t].name
                        /\ registering[t].step = "ask"
  BY DEF AskNodes, CallAt, NamesInv, CallsAreNamed
<1>2. PICK a \in {names[n], None} :
         /\ IF a = None THEN UNCHANGED <<cache, reverse>>
            ELSE LearnName(n, a, FALSE)
         /\ GoTo(t, n, "check") \/ GoBack(t)
  BY <1>1 DEF AskNodes, Query
<1>3. UNCHANGED <<extrinsics, names, wanted, registered, forgotten, crossed>>
  BY DEF AskNodes
<1>4. /\ cache' \in [Name -> [address : User \cup {None}, synced : BOOLEAN]]
      /\ \A m \in Name : cache'[m].synced => cache[m].synced
      /\ reverse' = reverse \/ (reverse' = n /\ names[n] = Owner)
  <2>1. CASE a = None
    BY <1>2, <2>1 DEF NamesInv, NamesTypeOK
  <2>2. CASE a # None
    <3>1. /\ cache' = [cache EXCEPT ![n] = [address |-> a, synced |-> FALSE]]
          /\ reverse' = IF a = Owner THEN n ELSE reverse
          /\ a = names[n]
      BY <1>2, <2>2 DEF LearnName
    <3> QED
      BY <3>1 DEF NamesInv, NamesTypeOK
  <2> QED
    BY <2>1, <2>2
<1>5. reverse # None => reverse' # None
  BY <1>4, UsernamesAssumption
<1>6. /\ registering' \in [AppThread -> RegisterCall]
      /\ CallsAreNamed'
      /\ \A m \in Name : /\ CallFor(m)' => CallFor(m)
                         /\ Storing(m)' <=> Storing(m)
  <2>1. CASE GoTo(t, n, "check")
    BY <1>1, <1>5, <2>1, CallMoves
  <2>2. CASE GoBack(t)
    BY <1>1, <1>5, <2>2, CallReturns
  <2> QED
    BY <1>2, <2>1, <2>2
<1>7. \A m \in Name : /\ Ours(m)' <=> Ours(m)
                      /\ Safe(m)' <=> Safe(m)
                      /\ Busy(m)' => Busy(m)
  BY <1>3, <1>4, <1>6 DEF Ours, Safe, Busy
<1>8. NothingNew
  BY <1>3, <1>4, <1>5, <1>6, <1>7
  DEF NothingNew, NamesInv, NamesTypeOK, WantedOnes, SyncedIsTold, OursIsKnown
<1> QED
  BY <1>8, NothingNewKeeps

\* The registry takes a name: those that may become ours beside it are marked.
LEMMA CheckReverseKeeps ==
  ASSUME NamesInv, NEW t \in AppThread, CheckReverse(t)
  PROVE  NamesInv'
<1>1. PICK n \in Name : /\ n = registering[t].name
                        /\ registering[t].step = "check"
  BY DEF CheckReverse, CallAt, NamesInv, CallsAreNamed
<1>2. /\ UNCHANGED <<cache, reverse, extrinsics, names, wanted, registered,
                     forgotten>>
      /\ \/ /\ reverse \in {None, n}
            /\ GoTo(t, n, "query") /\ Cross(n, Beside(n))
         \/ GoBack(t) /\ UNCHANGED crossed
  BY <1>1 DEF CheckReverse, NoOtherName
<1>3. \A m \in Name : Ours(m)' <=> Ours(m)
  BY <1>2 DEF Ours
<1>4. CASE GoBack(t) /\ UNCHANGED crossed
  <2>1. /\ registering' \in [AppThread -> RegisterCall]
        /\ CallsAreNamed'
        /\ \A m \in Name : /\ CallFor(m)' => CallFor(m)
                           /\ Storing(m)' <=> Storing(m)
    BY <1>1, <1>2, <1>4, CallReturns
  <2>2. \A m \in Name : Safe(m)' <=> Safe(m)
    BY <1>2, <1>3, <1>4 DEF Safe
  <2>3. NothingNew
    BY <1>2, <1>3, <1>4, <2>1, <2>2
    DEF NothingNew, NamesInv, NamesTypeOK, WantedOnes, SyncedIsTold,
        OursIsKnown, Busy
  <2> QED
    BY <2>3, NothingNewKeeps
<1>5. CASE /\ reverse \in {None, n}
           /\ GoTo(t, n, "query") /\ Cross(n, Beside(n))
  <2>1. /\ registering' \in [AppThread -> RegisterCall]
        /\ CallsAreNamed'
        /\ \A m \in Name : /\ CallFor(m)' => CallFor(m) \/ m = n
                           /\ Storing(m)' <=> Storing(m)
    BY <1>1, <1>2, <1>5, CallMoves
  <2>2. /\ crossed' \in SUBSET Name /\ crossed \subseteq crossed'
        /\ \A m \in Beside(n) : m \in crossed' /\ n \in crossed'
    BY <1>5 DEF Cross, Beside, NamesInv, NamesTypeOK
  <2>3. \A m \in Name : /\ Busy(m)' => Busy(m) \/ m = n
                        /\ Safe(m) => Safe(m)'
    BY <1>2, <1>3, <2>1, <2>2 DEF Busy, Safe
  <2>4. ASSUME NEW m \in Name, m # n, Busy(m), ~Busy(n)
        PROVE  m \in Beside(n)
    <3>1. reverse = None
      BY <1>5, <2>4 DEF Busy
    <3>2. \A u \in AppThread : registering[u].step # "resend"
      BY <3>1 DEF NamesInv, CallsAreNamed
    <3>3. CallFor(m) => m \in Beside(n)
      BY <2>4, <3>2 DEF CallFor, Beside
    <3>4. Ours(m) => m \in forgotten \/ Storing(m)
      BY <3>1 DEF NamesInv, OursIsKnown
    <3>5. Storing(m) => CallFor(m)
      BY DEF Storing, CallFor
    <3>6. m \in forgotten => m \in Beside(n)
      BY <2>4 DEF Beside
    <3> QED
      BY <2>4, <3>1, <3>3, <3>4, <3>5, <3>6, UsernamesAssumption DEF Busy
  <2>5. PairsAreCrossed'
    <3> SUFFICES ASSUME NEW l \in Name, NEW m \in Name, l # m, Busy(l)',
                        Busy(m)'
                 PROVE  l \in crossed'
      BY DEF PairsAreCrossed
    <3>1. CASE Busy(l) /\ Busy(m)
      BY <2>2, <3>1 DEF NamesInv, PairsAreCrossed
    <3>2. CASE ~Busy(l)
      BY <2>2, <2>3, <2>4, <3>2
    <3>3. CASE ~Busy(m)
      BY <2>2, <2>3, <2>4, <3>3
    <3> QED
      BY <3>1, <3>2, <3>3
  <2>6. NamesTypeOK' /\ WantedOnes' /\ SyncedIsTold' /\ OursIsKnown'
    BY <1>2, <1>3, <2>1, <2>2
    DEF NamesInv, NamesTypeOK, WantedOnes, SyncedIsTold, OursIsKnown
  <2>7. StoredIsSafe' /\ ToldIsSafe'
    BY <1>2, <2>1, <2>3 DEF NamesInv, NamesTypeOK, StoredIsSafe, ToldIsSafe
  <2> QED
    BY <2>1, <2>5, <2>6, <2>7 DEF NamesInv
<1> QED
  BY <1>2, <1>4, <1>5

LEMMA AskAgainKeeps ==
  ASSUME NamesInv, NEW t \in AppThread, AskAgain(t)
  PROVE  NamesInv'
<1>1. PICK n \in Name : /\ n = registering[t].name
                        /\ registering[t].step = "query"
  BY DEF AskAgain, CallAt, NamesInv, CallsAreNamed
<1>2. /\ UNCHANGED <<cache, reverse, extrinsics, names, wanted, registered,
                     forgotten, crossed>>
      /\ \/ GoTo(t, n, "submit")
         \/ GoTo(t, n, "store") /\ names[n] = Owner
         \/ GoBack(t)
  <2>1. PICK a \in {names[n], None} : CASE a = None  -> GoTo(t, n, "submit")
                                       [] a = Owner -> GoTo(t, n, "store")
                                       [] OTHER     -> GoBack(t)
    BY <1>1 DEF AskAgain, Query
  <2> QED
    BY <2>1, UsernamesAssumption DEF AskAgain
<1>3. \A m \in Name : /\ Ours(m)' <=> Ours(m)
                      /\ Safe(m)' <=> Safe(m)
  BY <1>2 DEF Ours, Safe
<1>4. CallFor(n)
  BY <1>1 DEF CallFor
<1>5. /\ registering' \in [AppThread -> RegisterCall]
      /\ CallsAreNamed'
      /\ \A m \in Name : /\ CallFor(m)' => CallFor(m)
                         /\ Storing(m)' => Storing(m) \/ names[m] = Owner
                         /\ Storing(m) => Storing(m)'
  <2>1. CASE GoTo(t, n, "submit")
    BY <1>1, <1>2, <1>4, <2>1, CallMoves
  <2>2. CASE GoTo(t, n, "store") /\ names[n] = Owner
    BY <1>1, <1>2, <1>4, <2>2, CallMoves
  <2>3. CASE GoBack(t)
    BY <1>1, <1>2, <2>3, CallReturns
  <2> QED
    BY <1>2, <2>1, <2>2, <2>3
<1>6. \A m \in Name : names[m] = Owner => Safe(m)
  BY DEF Safe, Ours
<1>7. NothingNew
  BY <1>2, <1>3, <1>5, <1>6
  DEF NothingNew, NamesInv, NamesTypeOK, WantedOnes, SyncedIsTold,
      OursIsKnown, Busy
<1> QED
  BY <1>7, NothingNewKeeps

\* An extrinsic for a name that was busy.
LEMMA TakenKeeps ==
  ASSUME NamesInv, NEW n \in Name,
         extrinsics' = extrinsics \cup {<<n, Owner>>},
         UNCHANGED <<names, wanted, crossed>>
  PROVE  /\ extrinsics' \in SUBSET (Name \X User)
         /\ WantedOnes'
         /\ \A m \in Name : /\ Ours(m)' <=> Ours(m) \/ m = n
                            /\ Safe(m) => Safe(m)'
                            /\ m = n => Safe(m)'
<1>1. \A m \in Name : Ours(m)' <=> Ours(m) \/ m = n
  BY DEF Ours
<1>2. WantedOnes'
  BY UsernamesAssumption DEF NamesInv, WantedOnes
<1> QED
  BY <1>1, <1>2 DEF NamesInv, NamesTypeOK, User, Safe

LEMMA SubmitKeeps ==
  ASSUME NamesInv, NEW t \in AppThread, Submit(t)
  PROVE  NamesInv'
<1>1. PICK n \in Name : /\ n = registering[t].name
                        /\ registering[t].step = "submit"
  BY DEF Submit, CallAt, NamesInv, CallsAreNamed
<1>2. /\ UNCHANGED <<cache, reverse, names, wanted, registered, crossed>>
      /\ \/ /\ extrinsics' = extrinsics \cup {<<n, Owner>>}
            /\ \/ GoTo(t, n, "store") /\ UNCHANGED forgotten
               \/ GoBack(t) /\ forgotten' = forgotten \cup {n}
         \/ UNCHANGED <<extrinsics, forgotten>> /\ GoBack(t)
  BY <1>1 DEF Submit
<1>3. CallFor(n)
  BY <1>1 DEF CallFor
<1>4. CASE UNCHANGED <<extrinsics, forgotten>> /\ GoBack(t)
  <2>1. /\ registering' \in [AppThread -> RegisterCall]
        /\ CallsAreNamed'
        /\ \A m \in Name : /\ CallFor(m)' => CallFor(m)
                           /\ Storing(m)' <=> Storing(m)
    BY <1>1, <1>2, <1>4, CallReturns
  <2>2. \A m \in Name : /\ Ours(m)' <=> Ours(m)
                        /\ Safe(m)' <=> Safe(m)
    BY <1>2, <1>4 DEF Ours, Safe
  <2>3. NothingNew
    BY <1>2, <1>4, <2>1, <2>2
    DEF NothingNew, NamesInv, NamesTypeOK, WantedOnes, SyncedIsTold,
        OursIsKnown, Busy
  <2> QED
    BY <2>3, NothingNewKeeps
<1>5. CASE /\ extrinsics' = extrinsics \cup {<<n, Owner>>}
           /\ \/ GoTo(t, n, "store") /\ UNCHANGED forgotten
              \/ GoBack(t) /\ forgotten' = forgotten \cup {n}
  <2>1. /\ extrinsics' \in SUBSET (Name \X User)
        /\ WantedOnes'
        /\ \A m \in Name : /\ Ours(m)' <=> Ours(m) \/ m = n
                           /\ Safe(m) => Safe(m)'
                           /\ m = n => Safe(m)'
    BY <1>2, <1>5, TakenKeeps
  <2>2. /\ registering' \in [AppThread -> RegisterCall]
        /\ CallsAreNamed'
        /\ \A m \in Name : /\ CallFor(m)' => CallFor(m)
                           /\ Storing(m)' => Storing(m) \/ m = n
                           /\ Storing(m) => Storing(m)'
        /\ Storing(n)' \/ n \in forgotten'
    <3>1. CASE GoTo(t, n, "store") /\ UNCHANGED forgotten
      BY <1>1, <1>2, <1>3, <3>1, CallMoves
    <3>2. CASE GoBack(t) /\ forgotten' = forgotten \cup {n}
      BY <1>1, <1>2, <3>2, CallReturns
    <3> QED
      BY <1>5, <3>1, <3>2
  <2>3. forgotten' \in SUBSET Name /\ forgotten \subseteq forgotten'
    BY <1>5 DEF NamesInv, NamesTypeOK
  <2>4. \A m \in Name : Busy(m)' => Busy(m)
    BY <1>2, <1>3, <2>1, <2>2 DEF Busy
  <2>5. OursIsKnown'
    BY <1>2, <2>1, <2>2, <2>3 DEF NamesInv, OursIsKnown
  <2>6. NothingNew
    BY <1>2, <2>1, <2>2, <2>3, <2>4, <2>5
    DEF NothingNew, NamesInv, NamesTypeOK, SyncedIsTold
  <2> QED
    BY <2>6, NothingNewKeeps
<1> QED
  BY <1>2, <1>4, <1>5

LEMMA StoreNameKeeps ==
  ASSUME NamesInv, NEW t \in AppThread, StoreName(t)
  PROVE  NamesInv'
<1>1. PICK n \in Name : /\ n = registering[t].name
                        /\ registering[t].step = "store"
  BY DEF StoreName, CallAt, NamesInv, CallsAreNamed
<1>2. /\ cache' = [cache EXCEPT ![n] = [address |-> Owner, synced |-> TRUE]]
      /\ reverse' = n /\ registered' = registered \cup {n}
      /\ GoBack(t)
      /\ UNCHANGED <<extrinsics, names, wanted, forgotten, crossed>>
  BY <1>1 DEF StoreName, LearnName
<1>3. CallFor(n) /\ Storing(n) /\ reverse' # None
  BY <1>1, <1>2, UsernamesAssumption DEF CallFor, Storing
<1>4. /\ registering' \in [AppThread -> RegisterCall]
      /\ CallsAreNamed'
      /\ \A m \in Name : /\ CallFor(m)' => CallFor(m)
                         /\ Storing(m)' => Storing(m)
  BY <1>2, <1>3, CallReturns
<1>5. \A m \in Name : /\ Ours(m)' <=> Ours(m)
                      /\ Safe(m)' <=> Safe(m)
  BY <1>2 DEF Ours, Safe
<1>6. \A m \in Name : Busy(m)' => Busy(m)
  BY <1>2, <1>3, <1>4, <1>5 DEF Busy
<1>7. NamesTypeOK' /\ SyncedIsTold'
  BY <1>2, <1>4 DEF NamesInv, NamesTypeOK, SyncedIsTold, User
<1>8. WantedOnes' /\ OursIsKnown'
  BY <1>2, <1>3 DEF NamesInv, WantedOnes, OursIsKnown
<1>9. Safe(n)
  BY <1>3 DEF NamesInv, StoredIsSafe
<1>10. NothingNew
  BY <1>2, <1>4, <1>5, <1>6, <1>7, <1>8, <1>9 DEF NothingNew
<1> QED
  BY <1>10, NothingNewKeeps

LEMMA RegisterAddressKeeps ==
  ASSUME NamesInv, NEW t \in AppThread, RegisterAddress(t)
  PROVE  NamesInv'
<1>1. PICK n \in Name : n = reverse
  BY DEF RegisterAddress, NamesInv, NamesTypeOK
<1>2. /\ registering[t].step = "idle" /\ reverse # None
      /\ GoTo(t, n, "resend")
      /\ UNCHANGED <<cache, reverse, extrinsics, names, wanted, registered,
                     forgotten, crossed>>
  BY <1>1 DEF RegisterAddress, NoCallYet
<1>3. /\ registering' \in [AppThread -> RegisterCall]
      /\ CallsAreNamed'
      /\ \A m \in Name : /\ CallFor(m)' => CallFor(m) \/ m = n
                         /\ Storing(m)' <=> Storing(m)
  BY <1>2, CallMoves
<1>4. \A m \in Name : /\ Ours(m)' <=> Ours(m)
                      /\ Safe(m)' <=> Safe(m)
  BY <1>2 DEF Ours, Safe
<1>5. NothingNew
  BY <1>1, <1>2, <1>3, <1>4
  DEF NothingNew, NamesInv, NamesTypeOK, WantedOnes, SyncedIsTold,
      OursIsKnown, Busy
<1> QED
  BY <1>5, NothingNewKeeps

LEMMA ResendKeeps ==
  ASSUME NamesInv, NEW t \in AppThread, Resend(t)
  PROVE  NamesInv'
<1>1. PICK n \in Name : /\ n = registering[t].name
                        /\ registering[t].step = "resend"
  BY DEF Resend, CallAt, NamesInv, CallsAreNamed
<1>2. /\ GoBack(t) /\ reverse # None
      /\ UNCHANGED <<cache, reverse, names, wanted, registered, forgotten,
                     crossed>>
      /\ \/ UNCHANGED extrinsics
         \/ extrinsics' = extrinsics \cup {<<n, Owner>>}
  BY <1>1 DEF Resend, NamesInv, CallsAreNamed
<1>3. /\ registering' \in [AppThread -> RegisterCall]
      /\ CallsAreNamed'
      /\ \A m \in Name : /\ CallFor(m)' => CallFor(m)
                         /\ Storing(m)' <=> Storing(m)
  BY <1>1, <1>2, CallReturns
<1>4. /\ extrinsics' \in SUBSET (Name \X User)
      /\ WantedOnes'
      /\ \A m \in Name : /\ Ours(m)' => Ours(m) \/ m = n
                         /\ Safe(m) => Safe(m)'
  <2>1. CASE UNCHANGED extrinsics
    BY <1>2, <2>1 DEF NamesInv, NamesTypeOK, WantedOnes, Ours, Safe
  <2>2. CASE extrinsics' = extrinsics \cup {<<n, Owner>>}
    BY <1>2, <2>2, TakenKeeps
  <2> QED
    BY <1>2, <2>1, <2>2
<1>5. CallFor(n)
  BY <1>1 DEF CallFor
<1>6. \A m \in Name : Busy(m)' => Busy(m)
  BY <1>2, <1>3, <1>4, <1>5 DEF Busy
<1>7. NothingNew
  BY <1>2, <1>3, <1>4, <1>6
  DEF NothingNew, NamesInv, NamesTypeOK, SyncedIsTold, OursIsKnown
<1> QED
  BY <1>7, NothingNewKeeps

\* A name put in the place of another: both are marked.
LEMMA SetLocalKeeps ==
  ASSUME NamesInv, NEW n \in Name, SetLocal(n)
  PROVE  NamesInv'
<1> DEFINE S == Beside(n) \cup ({reverse} \ {None, n})
<1>1. /\ cache' = [cache EXCEPT ![n] = [address |-> Owner, synced |-> FALSE]]
      /\ reverse' = n
      /\ UNCHANGED <<registering, extrinsics, names, wanted, registered,
                     forgotten>>
  BY DEF SetLocal, LearnName
<1>2. /\ crossed' \in SUBSET Name /\ crossed \subseteq crossed'
      /\ \A m \in S : m \in crossed' /\ n \in crossed'
  <2>1. crossed' = IF S = {} THEN crossed ELSE crossed \cup S \cup {n}
    BY DEF SetLocal, Cross
  <2>2. S \subseteq Name
    BY DEF Beside, NamesInv, NamesTypeOK
  <2> HIDE DEF S
  <2> QED
    BY <2>1, <2>2 DEF NamesInv, NamesTypeOK
<1>3. \A m \in Name : /\ Ours(m)' <=> Ours(m)
                      /\ CallFor(m)' <=> CallFor(m)
                      /\ Storing(m)' <=> Storing(m)
  BY <1>1 DEF Ours, CallFor, Storing
<1>4. reverse' # None
  BY <1>1, UsernamesAssumption
<1>5. \A m \in Name : /\ Safe(m) => Safe(m)'
                      /\ Busy(m)' => Busy(m) \/ m = n
  BY <1>1, <1>2, <1>3 DEF Safe, Busy
<1>6. ASSUME NEW m \in Name, m # n, Busy(m), ~Busy(n)
      PROVE  m \in crossed' /\ n \in crossed'
  <2>1. reverse # n /\ (reverse = None \/ reverse \in Name)
    BY <1>6 DEF Busy, NamesInv, NamesTypeOK
  <2>2. CASE reverse = None
    <3>1. \A u \in AppThread : registering[u].step # "resend"
      BY <2>2 DEF NamesInv, CallsAreNamed
    <3>2. CallFor(m) => m \in S
      BY <1>6, <3>1 DEF CallFor, Beside
    <3>3. Ours(m) => m \in forgotten \/ Storing(m)
      BY <2>2 DEF NamesInv, OursIsKnown
    <3>4. Storing(m) => CallFor(m)
      BY DEF Storing, CallFor
    <3>5. m \in forgotten => m \in S
      BY <1>6 DEF Beside
    <3>6. m \in S
      BY <1>6, <2>2, <3>2, <3>3, <3>4, <3>5, UsernamesAssumption DEF Busy
    <3> QED
      BY <1>2, <3>6
  <2>3. CASE reverse \in Name
    <3>1. reverse \in S
      BY <2>1, <2>3, UsernamesAssumption
    <3>2. reverse \in crossed' /\ n \in crossed'
      BY <1>2, <3>1
    <3>3. m # reverse => m \in crossed
      BY <1>6, <2>3 DEF NamesInv, PairsAreCrossed, Busy
    <3> QED
      BY <1>2, <3>2, <3>3
  <2> QED
    BY <2>1, <2>2, <2>3
<1> HIDE DEF S
<1>7. PairsAreCrossed'
  <2> SUFFICES ASSUME NEW l \in Name, NEW m \in Name, l # m, Busy(l)', Busy(m)'
               PROVE  l \in crossed'
    BY DEF PairsAreCrossed
  <2>1. CASE Busy(l) /\ Busy(m)
    BY <1>2, <2>1 DEF NamesInv, PairsAreCrossed
  <2>2. CASE ~Busy(l) \/ ~Busy(m)
    BY <1>5, <1>6, <2>2
  <2> QED
    BY <2>1, <2>2
<1>8. NamesTypeOK' /\ CallsAreNamed' /\ SyncedIsTold'
  BY <1>1, <1>2, <1>4
  DEF NamesInv, NamesTypeOK, CallsAreNamed, SyncedIsTold, User
<1>9. WantedOnes' /\ OursIsKnown' /\ StoredIsSafe' /\ ToldIsSafe'
  BY <1>1, <1>3, <1>4, <1>5
  DEF NamesInv, NamesTypeOK, WantedOnes, OursIsKnown, StoredIsSafe, ToldIsSafe
<1> QED
  BY <1>7, <1>8, <1>9 DEF NamesInv

LEMMA RestartKeeps ==
  ASSUME NamesInv, Restart
  PROVE  NamesInv'
<1>1. /\ cache' = [n \in Name |-> Unknown]
      /\ reverse' = None
      /\ registering' = [t \in AppThread |-> NoCallYet]
      /\ UNCHANGED <<extrinsics, names, wanted, registered, crossed>>
  BY DEF Restart
<1>2. /\ forgotten' \in SUBSET Name
      /\ \A n \in Name : Ours(n) => n \in forgotten'
  BY DEF Restart, Ours, NamesInv, NamesTypeOK
<1>3. NoCallYet \in RegisterCall /\ NoCallYet.step = "idle"
  BY DEF NoCallYet, RegisterCall
<1>4. /\ registering' \in [AppThread -> RegisterCall]
      /\ \A t \in AppThread : registering'[t].step = "idle"
  BY <1>1, <1>3
<1>5. \A n \in Name : ~CallFor(n)' /\ ~Storing(n)'
  BY <1>4 DEF CallFor, Storing
<1>6. \A n \in Name : /\ Ours(n)' <=> Ours(n)
                      /\ Safe(n)' <=> Safe(n)
  BY <1>1 DEF Ours, Safe
<1>7. \A n \in Name : Busy(n)' => Busy(n)
  BY <1>1, <1>5, <1>6, UsernamesAssumption DEF Busy
<1>8. NamesTypeOK' /\ SyncedIsTold'
  BY <1>1, <1>2, <1>4
  DEF NamesInv, NamesTypeOK, SyncedIsTold, Unknown, User
<1>9. CallsAreNamed' /\ WantedOnes' /\ OursIsKnown'
  BY <1>1, <1>2, <1>4, <1>6
  DEF NamesInv, CallsAreNamed, WantedOnes, OursIsKnown
<1>10. NothingNew
  BY <1>1, <1>5, <1>6, <1>7, <1>8, <1>9 DEF NothingNew
<1> QED
  BY <1>10, NothingNewKeeps

LEMMA RivalKeeps ==
  ASSUME NamesInv, NEW n \in Name, NEW a \in Rival, RivalSubmits(n, a)
  PROVE  NamesInv'
<1>1. /\ extrinsics' = extrinsics \cup {<<n, a>>}
      /\ wanted' = wanted \cup {n}
      /\ UNCHANGED <<cache, reverse, registering, names, registered,
                     forgotten, crossed>>
  BY DEF RivalSubmits
<1>2. \A m \in Name : /\ Ours(m)' <=> Ours(m)
                      /\ CallFor(m)' <=> CallFor(m)
                      /\ Storing(m)' <=> Storing(m)
                      /\ Safe(m) => Safe(m)'
  BY <1>1, UsernamesAssumption DEF Ours, CallFor, Storing, Safe
<1>3. NamesTypeOK' /\ CallsAreNamed' /\ WantedOnes' /\ SyncedIsTold'
  BY <1>1
  DEF NamesInv, NamesTypeOK, CallsAreNamed, WantedOnes, SyncedIsTold, User
<1>4. NothingNew
  BY <1>1, <1>2, <1>3 DEF NothingNew, NamesInv, OursIsKnown, Busy
<1> QED
  BY <1>4, NothingNewKeeps

\* The chain gives a name away, or refuses it.
LEMMA IncludeKeeps ==
  ASSUME NamesInv, NEW tx \in extrinsics, Include(tx)
  PROVE  NamesInv'
<1>1. PICK n \in Name, a \in User : tx = <<n, a>>
  BY DEF NamesInv, NamesTypeOK
<1>2. /\ extrinsics' = extrinsics \ {<<n, a>>}
      /\ UNCHANGED <<cache, reverse, registering, wanted, registered,
                     forgotten, crossed>>
      /\ \/ /\ names[n] = None /\ \A o \in Name : names[o] # a
            /\ names' = [names EXCEPT ![n] = a]
         \/ /\ names[n] # None \/ \E o \in Name : names[o] = a
            /\ names' = names
  BY <1>1 DEF Include
<1>3. NamesTypeOK' /\ CallsAreNamed' /\ SyncedIsTold'
  BY <1>1, <1>2 DEF NamesInv, NamesTypeOK, CallsAreNamed, SyncedIsTold
<1>4. WantedOnes'
  BY <1>1, <1>2 DEF NamesInv, NamesTypeOK, WantedOnes
<1>5. \A m \in Name : Ours(m)' => Ours(m)
  BY <1>1, <1>2 DEF NamesInv, NamesTypeOK, Ours
<1>6. \A m \in Name : /\ CallFor(m)' <=> CallFor(m)
                      /\ Storing(m)' <=> Storing(m)
  BY <1>2 DEF CallFor, Storing
<1>7. ASSUME NEW m \in Name, Safe(m)
      PROVE  Safe(m)'
  <2>1. CASE m # n \/ a # Owner
    <3>1. Ours(m) => Ours(m)'
      <4>1. <<m, Owner>> \in extrinsics => <<m, Owner>> \in extrinsics'
        BY <1>2, <2>1
      <4>2. names[m] = Owner => names'[m] = Owner
        BY <1>2, UsernamesAssumption DEF NamesInv, NamesTypeOK, User
      <4> QED
        BY <4>1, <4>2 DEF Ours
    <3> QED
      BY <1>2, <1>7, <3>1 DEF Safe
  <2>2. CASE m = n /\ a = Owner
    <3>1. CASE names[n] = None /\ \A o \in Name : names[o] # a
      BY <1>1, <1>2, <2>2, <3>1 DEF NamesInv, NamesTypeOK, Safe, Ours
    <3>2. CASE names[n] # None
      BY <1>1, <1>2, <2>2, <3>2
      DEF NamesInv, NamesTypeOK, WantedOnes, Safe, Ours, User
    <3>3. ASSUME names[n] = None, NEW o \in Name, names[o] = Owner
          PROVE  Safe(m)'
      <4>1. Ours(n) /\ Ours(o) /\ o # n
        BY <1>1, <2>2, <3>3, UsernamesAssumption DEF Ours
      <4>2. n \in crossed
        BY <4>1 DEF NamesInv, PairsAreCrossed, Busy
      <4> QED
        BY <1>2, <2>2, <4>2 DEF Safe
    <3> QED
      BY <1>2, <2>2, <3>1, <3>2, <3>3
  <2> QED
    BY <2>1, <2>2
<1>8. NothingNew
  BY <1>2, <1>3, <1>4, <1>5, <1>6, <1>7
  DEF NothingNew, NamesInv, OursIsKnown, Busy
<1> QED
  BY <1>8, NothingNewKeeps

\* Each step keeps the invariant.
LEMMA NamesInvStep ==
  ASSUME NamesInv, [NamesNext]_namesVars
  PROVE  NamesInv'
<1>1. CASE \E t \in AppThread : \/ AskNodes(t) \/ CheckReverse(t)
                                \/ AskAgain(t) \/ Submit(t) \/ StoreName(t)
  BY <1>1, AskNodesKeeps, CheckReverseKeeps, AskAgainKeeps, SubmitKeeps,
     StoreNameKeeps
<1>2. CASE \E t \in AppThread : \/ RegisterAddress(t) \/ Resend(t)
                                \/ \E n \in Name : LookUp(t, n)
  BY <1>2, RegisterAddressKeeps, ResendKeeps, LookUpKeeps
<1>3. CASE \E n \in Name : \/ SetLocal(n)
                           \/ \E a \in Rival : RivalSubmits(n, a)
  BY <1>3, SetLocalKeeps, RivalKeeps
<1>4. CASE Restart \/ \E tx \in extrinsics : Include(tx)
  BY <1>4, RestartKeeps, IncludeKeeps
<1>5. CASE UNCHANGED namesVars
  <2>1. NothingNew
    BY <1>5
    DEF namesVars, NothingNew, NamesInv, NamesTypeOK, CallsAreNamed,
        WantedOnes, SyncedIsTold, OursIsKnown, Busy, CallFor, Storing, Ours,
        Safe
  <2> QED
    BY <2>1, NothingNewKeeps
<1> QED
  BY <1>1, <1>2, <1>3, <1>4, <1>5 DEF NamesNext

\* A new registry, that knows nothing, satisfies it.
LEMMA NamesInvInit == ASSUME NamesInit PROVE NamesInv
<1>1. NoCallYet \in RegisterCall /\ NoCallYet.step = "idle"
  BY DEF NoCallYet, RegisterCall
<1>2. NamesTypeOK /\ CallsAreNamed /\ SyncedIsTold
  BY <1>1 DEF NamesInit, Unknown, User, NamesTypeOK, CallsAreNamed,
              SyncedIsTold
<1>3. \A n \in Name : ~Busy(n) /\ ~Storing(n) /\ ~Ours(n)
  BY <1>1, UsernamesAssumption
  DEF NamesInit, Busy, CallFor, Storing, Ours
<1> QED
  BY <1>2, <1>3, UsernamesAssumption
  DEF NamesInit, NamesInv, WantedOnes, PairsAreCrossed, OursIsKnown,
      StoredIsSafe, ToldIsSafe

\* register's Ok means that the name is ours or will be, unless another user
\* asked for it or it had another name of ours beside it, however many threads
\* register names and addresses at once.
THEOREM NamesAreKept ==
  NamesSpec => []ToldIsOwned
<1>1. NamesInit => NamesInv
  BY NamesInvInit
<1>2. NamesInv /\ [NamesNext]_namesVars => NamesInv'
  BY NamesInvStep
<1>3. NamesInv => ToldIsOwned
  BY DEF NamesInv, ToldIsSafe, Safe, Ours, ToldIsOwned
<1> QED
  BY <1>1, <1>2, <1>3, PTL DEF NamesSpec
=============================================================================
