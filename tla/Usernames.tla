------------------------------ MODULE Usernames ------------------------------
(***************************************************************************)
(* Registering @usernames: the UsernameRegistry of one user                *)
(* (username_registry.rs), which caches what it learns for as long as the  *)
(* process lives, and the name registry of the chain behind tks_rpc.rs.    *)
(* submit_name_register returns when a node took the extrinsic into its    *)
(* pool; the chain decides when it puts it into a block.  Other users,     *)
(* with registries of their own, submit extrinsics too.                    *)
(*                                                                         *)
(* No lock is held over a call: several threads of the application may be  *)
(* in register and register_address, and a step of one is what it does     *)
(* from one lock or one request to a node to the next.  Names are taken to *)
(* be valid.                                                               *)
(***************************************************************************)
EXTENDS Optional, Naturals

CONSTANTS
    Owner,        \* our_address
    Rival,        \* the addresses of others
    Name,         \* the names
    AppThread     \* the threads that call the registry

ASSUME UsernamesAssumption ==
    Owner \notin Rival /\ None \notin Rival \cup {Owner} \cup Name

VARIABLES
    cache,        \* UsernameRegistry::cache
    reverse,      \* UsernameRegistry::reverse of our_address
    registering,  \* the name a thread's call is about, and where it is
    extrinsics,   \* the extrinsics the nodes hold
    names,        \* the chain: NameRegistry::Names
    wanted,       \* history: the names others submitted
    registered,   \* history: the names register returned Ok for
    forgotten,    \* history: names of ours the registry did not keep in mind
    crossed       \* history: names that had another one beside them

namesVars == <<cache, reverse, registering, extrinsics, names, wanted,
               registered, forgotten, crossed>>

User == Rival \cup {Owner}
Unknown == [address |-> None, synced |-> FALSE]
RegisterCall ==
    [name : Name \cup {None},
     step : {"idle", "ask", "check", "query", "submit", "store", "resend"}]
NoCallYet == [name |-> None, step |-> "idle"]

NamesInit == /\ cache = [n \in Name |-> Unknown]
             /\ reverse = None
             /\ registering = [t \in AppThread |-> NoCallYet]
             /\ extrinsics = {}
             /\ names = [n \in Name |-> None]
             /\ wanted = {}
             /\ registered = {}
             /\ forgotten = {}
             /\ crossed = {}

\* query_username: a node may lag behind, or not answer, which the callers
\* take for "not registered".
Query(n) == {names[n], None}

\* A record enters the cache and the reverse map.
LearnName(n, a, synced) ==
    /\ cache' = [cache EXCEPT ![n] = [address |-> a, synced |-> synced]]
    /\ reverse' = IF a = Owner THEN n ELSE reverse

\* The call of thread t is at a step of its own, or returned.
GoTo(t, n, step) ==
    registering' = [registering EXCEPT ![t] = [name |-> n, step |-> step]]
GoBack(t) == registering' = [registering EXCEPT ![t] = NoCallYet]
CallAt(t, step) == registering[t].step = step

\* Names other than n that may become ours: a call goes on to submit them, or
\* the registry forgot that they are.
Beside(n) ==
    {m \in Name \ {n} :
        \/ m \in forgotten
        \/ \E t \in AppThread :
              /\ registering[t].name = m
              /\ registering[t].step \in {"query", "submit", "store"}}
\* Name n is ours to register beside those of S.
Cross(n, S) == crossed' = IF S = {} THEN crossed ELSE crossed \cup S \cup {n}

-----------------------------------------------------------------------------
(* register, resolve *)

\* check_availability looks into the cache, as resolve does.  A name of ours
\* that is synced is registered.
LookUp(t, n) ==
    LET a == cache[n].address IN
    /\ registering[t] = NoCallYet
    /\ CASE a = None -> GoTo(t, n, "ask") /\ UNCHANGED registered
         [] a = Owner -> IF cache[n].synced
                         THEN /\ registered' = registered \cup {n}
                              /\ UNCHANGED registering
                         ELSE GoTo(t, n, "check") /\ UNCHANGED registered
         [] OTHER -> UNCHANGED <<registering, registered>>
    /\ UNCHANGED <<cache, reverse, extrinsics, names, wanted, forgotten,
                   crossed>>

\* query_tks_nodes, whose answer is cached; resolve and cipher_username_check
\* end here.
AskNodes(t) ==
    LET n == registering[t].name IN
    /\ CallAt(t, "ask")
    /\ \E a \in Query(n) :
          /\ IF a = None THEN UNCHANGED <<cache, reverse>>
             ELSE LearnName(n, a, FALSE)
          /\ \/ a \in {None, Owner} /\ GoTo(t, n, "check")
             \/ GoBack(t)
    /\ UNCHANGED <<extrinsics, names, wanted, registered, forgotten, crossed>>

\* Slip: a user may have many names.
AnyName(n) == TRUE
\* The name our address has, as far as we know by now, is no other one.
NoOtherName(n) == reverse \in {None, n}

CheckReverse(t) ==
    LET n == registering[t].name IN
    /\ CallAt(t, "check")
    /\ IF NoOtherName(n) THEN GoTo(t, n, "query") /\ Cross(n, Beside(n))
       ELSE GoBack(t) /\ UNCHANGED crossed
    /\ UNCHANGED <<cache, reverse, extrinsics, names, wanted, registered,
                   forgotten>>

\* do_on_chain_register asks the primary node.
AskAgain(t) ==
    LET n == registering[t].name IN
    /\ CallAt(t, "query")
    /\ \E a \in Query(n) : CASE a = None  -> GoTo(t, n, "submit")
                             [] a = Owner -> GoTo(t, n, "store")
                             [] OTHER     -> GoBack(t)
    /\ UNCHANGED <<cache, reverse, extrinsics, names, wanted, registered,
                   forgotten, crossed>>

\* submit_name_register: a node takes the extrinsic, refuses it, or takes it
\* and does not answer within 10 s, which is an error too.
Submit(t) ==
    LET n == registering[t].name
        Taken == extrinsics' = extrinsics \cup {<<n, Owner>>}
    IN
    /\ CallAt(t, "submit")
    /\ \/ Taken /\ GoTo(t, n, "store") /\ UNCHANGED forgotten
       \/ UNCHANGED <<extrinsics, forgotten>> /\ GoBack(t)
       \/ Taken /\ GoBack(t) /\ forgotten' = forgotten \cup {n}
    /\ UNCHANGED <<cache, reverse, names, wanted, registered, crossed>>

StoreName(t) ==
    LET n == registering[t].name IN
    /\ CallAt(t, "store")
    /\ LearnName(n, Owner, TRUE)
    /\ registered' = registered \cup {n}
    /\ GoBack(t)
    /\ UNCHANGED <<extrinsics, names, wanted, forgotten, crossed>>

-----------------------------------------------------------------------------
(* register_address, set_local *)

\* In the background after cipher_init, and in cipher_register_wallet_address:
\* the name we believe to have is asked for, and submitted if no node knows it.
\* The cache learns nothing of either.
RegisterAddress(t) ==
    /\ registering[t] = NoCallYet
    /\ reverse # None
    /\ None \in Query(reverse)
    /\ GoTo(t, reverse, "resend")
    /\ UNCHANGED <<cache, reverse, extrinsics, names, wanted, registered,
                   forgotten, crossed>>

Resend(t) ==
    /\ CallAt(t, "resend")
    /\ extrinsics' \in {extrinsics,
                        extrinsics \cup {<<registering[t].name, Owner>>}}
    /\ GoBack(t)
    /\ UNCHANGED <<cache, reverse, names, wanted, registered, forgotten,
                   crossed>>

\* cipher_username_set_local, on an import: nobody is asked.
SetLocal(n) ==
    /\ LearnName(n, Owner, FALSE)
    /\ Cross(n, Beside(n) \cup ({reverse} \ {None, n}))
    /\ UNCHANGED <<registering, extrinsics, names, wanted, registered,
                   forgotten>>

-----------------------------------------------------------------------------
\* A new process; a call that was under way has been carried out so far.
Restart ==
    /\ cache' = [n \in Name |-> Unknown]
    /\ reverse' = None
    /\ registering' = [t \in AppThread |-> NoCallYet]
    /\ forgotten' = forgotten \cup {n \in Name : \/ names[n] = Owner
                                                 \/ <<n, Owner>> \in extrinsics}
    /\ UNCHANGED <<extrinsics, names, wanted, registered, crossed>>

RivalSubmits(n, a) ==
    /\ extrinsics' = extrinsics \cup {<<n, a>>}
    /\ wanted' = wanted \cup {n}
    /\ UNCHANGED <<cache, reverse, registering, names, registered, forgotten,
                   crossed>>

\* The chain: the first one gets the name, and one name each.
Include(tx) ==
    LET n == tx[1]
        free == names[n] = None /\ \A o \in Name : names[o] # tx[2]
    IN /\ extrinsics' = extrinsics \ {tx}
       /\ names' = IF free THEN [names EXCEPT ![n] = tx[2]] ELSE names
       /\ UNCHANGED <<cache, reverse, registering, wanted, registered,
                      forgotten, crossed>>

NamesNext == \/ \E t \in AppThread :
                   \/ AskNodes(t) \/ CheckReverse(t) \/ AskAgain(t)
                   \/ Submit(t) \/ StoreName(t)
                   \/ RegisterAddress(t) \/ Resend(t)
                   \/ \E n \in Name : LookUp(t, n)
             \/ \E n \in Name : \/ SetLocal(n)
                                \/ \E a \in Rival : RivalSubmits(n, a)
             \/ \E tx \in extrinsics : Include(tx)
             \/ Restart

NamesSpec == NamesInit /\ [][NamesNext]_namesVars

-----------------------------------------------------------------------------
(* Properties *)

NamesTypeOK ==
    /\ cache \in [Name -> [address : User \cup {None}, synced : BOOLEAN]]
    /\ reverse \in Name \cup {None}
    /\ registering \in [AppThread -> RegisterCall]
    /\ extrinsics \in SUBSET (Name \X User)
    /\ names \in [Name -> User \cup {None}]
    /\ wanted \in SUBSET Name
    /\ registered \in SUBSET Name
    /\ forgotten \in SUBSET Name
    /\ crossed \in SUBSET Name

\* A name we are told was registered will be ours, unless another user asked
\* for it too, or it had another name of ours beside it: both were registered
\* at the same time; the registry took the second one while the first, which
\* it had asked for, was forgotten by a restart or by a call that failed when a
\* node had taken the extrinsic; or set_local put one in the place of the
\* other.  Lagging nodes, refusals, cached answers, calls made again after a
\* timeout or a restart and register_address take nobody's name away.
ToldIsOwned ==
    \A n \in registered :
        names[n] = Owner \/ <<n, Owner>> \in extrinsics \/ n \in wanted
            \/ n \in crossed
=============================================================================
