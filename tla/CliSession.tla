----------------------------- MODULE CliSession -----------------------------
(***************************************************************************)
(* Who a command of cipher-cli acts as: the identity file                  *)
(* (identity_store.rs) and the session file (session.rs), which keeps the  *)
(* identity unlocked for four hours.  Several processes run beside each    *)
(* other: commands that call get_identity, login, logout (main.rs), init   *)
(* and restore.  Each access to a file is a step; a password prompt may    *)
(* wait as long as the user likes.                                         *)
(*                                                                         *)
(* Time is the clock of the machine, in ticks, and does not go back.  A    *)
(* wrong password ends a command as an unreadable file does.               *)
(***************************************************************************)
EXTENDS Optional, Naturals

CONSTANTS
    Proc,         \* the processes
    Identity,     \* the seed phrases there are
    Ttl,          \* SESSION_TTL_SECS
    MaxTime       \* bound: the clock stops there

ASSUME SessionAssumption == Ttl \in Nat /\ MaxTime \in Nat

VARIABLES
    now,          \* the clock
    identityFile,  \* ~/.cipher/identity.json
    session,      \* ~/.cipher/session
    sessionStep,  \* where each process is
    identity,     \* the identity it holds
    locked,       \* history: logout said so, and no password came since
    overtaken     \* history: inits whose check another one's file outdated

sessionVars == <<now, identityFile, session, sessionStep, identity, locked,
                 overtaken>>

NoSession == [of |-> None, created_at |-> 0]

SessionInit == /\ now = 0
               /\ identityFile = None
               /\ session = NoSession
               /\ sessionStep = [p \in Proc |-> "idle"]
               /\ identity = [p \in Proc |-> None]
               /\ locked = FALSE
               /\ overtaken = {}

Goes(p, s) == sessionStep' = [sessionStep EXCEPT ![p] = s]
Holds(p, i) == identity' = [identity EXCEPT ![p] = i]

-----------------------------------------------------------------------------
(* session.rs *)

Elapsed == now - session.created_at

\* is_session_active.
IsSessionActive == session # NoSession /\ Elapsed <= Ttl

\* load_from_session removes what has expired.
LoadFromSession(p) ==
    /\ sessionStep[p] = "load"
    /\ IF IsSessionActive
       THEN /\ Holds(p, session.of)
            /\ Goes(p, "acting")
            /\ UNCHANGED session
       ELSE /\ session' = NoSession
            /\ Goes(p, "password")
            /\ UNCHANGED identity
    /\ UNCHANGED <<now, identityFile, locked, overtaken>>

\* create_session; a command goes on without one when the file cannot be
\* written.
CreateSession(p) ==
    /\ sessionStep[p] \in {"create", "login"}
    /\ \/ session' = [of |-> identity[p], created_at |-> now]
       \/ UNCHANGED session
    /\ IF sessionStep[p] = "create"
       THEN Goes(p, "acting") /\ UNCHANGED identity
       ELSE Goes(p, "idle") /\ Holds(p, None)
    /\ UNCHANGED <<now, identityFile, locked, overtaken>>

-----------------------------------------------------------------------------
(* get_identity, and run_login, which is content with an active session *)

GetIdentity(p) == /\ sessionStep[p] = "idle"
                  /\ Goes(p, IF IsSessionActive THEN "load" ELSE "password")
                  /\ UNCHANGED <<now, identityFile, session, identity, locked,
                                 overtaken>>

RunLogin(p) == /\ sessionStep[p] = "idle"
               /\ ~IsSessionActive
               /\ Goes(p, "login password")
               /\ UNCHANGED <<now, identityFile, session, identity, locked,
                              overtaken>>

\* load_identity with the password the user gave.
LoadIdentity(p) ==
    /\ sessionStep[p] \in {"password", "login password"}
    /\ \/ /\ identityFile # None
          /\ Holds(p, identityFile)
          /\ Goes(p, IF sessionStep[p] = "password" THEN "create" ELSE "login")
          /\ locked' = FALSE
       \/ /\ Goes(p, "idle")
          /\ UNCHANGED <<identity, locked>>
    /\ UNCHANGED <<now, identityFile, session, overtaken>>

\* The command does what it is for, and ends.
Done(p) == /\ sessionStep[p] = "acting"
           /\ Goes(p, "idle")
           /\ Holds(p, None)
           /\ UNCHANGED <<now, identityFile, session, locked, overtaken>>

-----------------------------------------------------------------------------
(* run_logout *)

\* Slip: the session is over when no time remains of it.
TimeRemains == session # NoSession /\ Elapsed < Ttl
\* Without an active session there is nothing to destroy.
LoggedIn == IsSessionActive

\* Logout has spoken, unless some command has a password and is about to
\* create a session.
Locks == locked' = \A p \in Proc : sessionStep[p] \notin {"create", "login"}

RunLogout(p) ==
    /\ sessionStep[p] = "idle"
    /\ IF LoggedIn THEN Goes(p, "destroy") /\ UNCHANGED locked
                   ELSE Locks /\ UNCHANGED sessionStep
    /\ UNCHANGED <<now, identityFile, session, identity, overtaken>>

DestroySession(p) == /\ sessionStep[p] = "destroy"
                     /\ session' = NoSession
                     /\ Locks
                     /\ Goes(p, "idle")
                     /\ UNCHANGED <<now, identityFile, identity, overtaken>>

-----------------------------------------------------------------------------
(* init and restore *)

\* Slip: an identity that exists is no reason to stop.
AnyFile == TRUE
\* identity_exists, before the seed phrase is shown and a password asked for.
MayStart == identityFile = None

BeginInit(p) == /\ sessionStep[p] = "idle"
                /\ MayStart
                /\ Goes(p, "new password")
                /\ UNCHANGED <<now, identityFile, session, identity, locked,
                               overtaken>>

\* save_identity does not look again.
SaveIdentity(p, i) ==
    /\ sessionStep[p] = "new password"
    /\ identityFile' = i
    /\ overtaken' =
         (overtaken \cup {q \in Proc : sessionStep[q] = "new password"}) \ {p}
    /\ Goes(p, "idle")
    /\ UNCHANGED <<now, session, identity, locked>>

\* The passwords do not match.
GiveUpInit(p) == /\ sessionStep[p] = "new password"
                 /\ overtaken' = overtaken \ {p}
                 /\ Goes(p, "idle")
                 /\ UNCHANGED <<now, identityFile, session, identity, locked>>

\* "... or delete the file to start fresh" (init.rs:10).
UserDeletesFile == /\ identityFile # None
                   /\ identityFile' = None
                   /\ UNCHANGED <<now, session, sessionStep, identity, locked,
                                  overtaken>>

Tick == /\ now < MaxTime
        /\ now' = now + 1
        /\ UNCHANGED <<identityFile, session, sessionStep, identity, locked,
                       overtaken>>

SessionNext == \/ \E p \in Proc :
                     \/ GetIdentity(p) \/ LoadFromSession(p) \/ LoadIdentity(p)
                     \/ CreateSession(p) \/ Done(p)
                     \/ RunLogin(p) \/ RunLogout(p) \/ DestroySession(p)
                     \/ BeginInit(p) \/ GiveUpInit(p)
                     \/ \E i \in Identity : SaveIdentity(p, i)
               \/ UserDeletesFile
               \/ Tick

SessionSpec == SessionInit /\ [][SessionNext]_sessionVars

-----------------------------------------------------------------------------
(* Properties *)

SessionTypeOK ==
    /\ now \in 0 .. MaxTime
    /\ identityFile \in Identity \cup {None}
    /\ session \in [of : Identity, created_at : 0 .. now] \cup {NoSession}
    /\ sessionStep \in [Proc -> {"idle", "load", "password", "create", "acting",
                                 "login password", "login", "destroy",
                                 "new password"}]
    /\ identity \in [Proc -> Identity \cup {None}]
    /\ locked \in BOOLEAN
    /\ overtaken \in SUBSET Proc

\* After a logout, whatever it said, no command gets at the identity before a
\* password was given again: no session is left that some later second, or
\* another command, takes for an active one.  (But a command that had its
\* password before the logout, and creates its session after it, undoes it.)
LockedStaysLocked == locked => ~IsSessionActive

\* A seed phrase on disk is never overwritten, except by an init or a restore
\* that was already asking for its password when the other one was saved.
OverwriteNeedsOverlap ==
    [][identityFile # None /\ identityFile' \notin {None, identityFile} =>
          \E p \in overtaken : /\ sessionStep[p] = "new password"
                               /\ sessionStep'[p] = "idle"
      ]_sessionVars
=============================================================================
