----------------------------- MODULE AppClients -----------------------------
(***************************************************************************)
(* The SwarmClients of a mobile application (ffi.rs).  cipher_init makes a *)
(* client and starts its daemon, binds the TurnProxy, and only then puts   *)
(* the client into STATE, a OnceLock.  A call that fails, because no port  *)
(* could be bound or because STATE is taken, leaves its client behind: its *)
(* daemon goes on polling the mailbox of its identity and acknowledges     *)
(* what it takes, into an inbox nobody can reach.                          *)
(*                                                                         *)
(* What a daemon takes it has acknowledged; how, is the matter of          *)
(* SwarmInbox.  The application calls cipher_init and cipher_receive_all   *)
(* from any thread, at any time.                                           *)
(***************************************************************************)
EXTENDS Optional, Naturals

CONSTANTS
    Call,         \* the calls of cipher_init
    Mnemonic,     \* the mnemonics they are given
    Mail,         \* the messages
    Addressee     \* To[m]: the identity m is for

ASSUME AppAssumption ==
    /\ Addressee \in [Mail -> Mnemonic]
    /\ None \notin Mnemonic \cup Call

VARIABLES
    stage,        \* where each call of cipher_init is
    client,       \* the identity of the client it made
    app,          \* the call whose client the functions use
    appMail,      \* what the relays hold
    appInbox,     \* the inbox of each client
    returned      \* what cipher_receive_all returned

appVars == <<stage, client, app, appMail, appInbox, returned>>

AppInit == /\ stage = [c \in Call |-> "idle"]
           /\ client = [c \in Call |-> None]
           /\ app = None
           /\ appMail = Mail
           /\ appInbox = [c \in Call |-> {}]
           /\ returned = {}

\* The mnemonic is valid: the client is made and its daemon started.
StartSyncDaemon(c, i) ==
    /\ stage[c] = "idle"
    /\ client' = [client EXCEPT ![c] = i]
    /\ stage' = [stage EXCEPT ![c] = "bind"]
    /\ UNCHANGED <<app, appMail, appInbox, returned>>

\* The TurnProxy gets port 1080, or another one, or none.
BindTurnProxy(c) ==
    /\ stage[c] = "bind"
    /\ \E s \in {"set", "failed"} : stage' = [stage EXCEPT ![c] = s]
    /\ UNCHANGED <<client, app, appMail, appInbox, returned>>

\* Slip: the latest client takes the place of the one before.
LatestWins == TRUE
\* STATE.set succeeds once.
FirstWins == app = None

SetOnce(c) ==
    /\ stage[c] = "set"
    /\ IF FirstWins
       THEN app' = c /\ stage' = [stage EXCEPT ![c] = "ok"]
       ELSE UNCHANGED app /\ stage' = [stage EXCEPT ![c] = "failed"]
    /\ UNCHANGED <<client, appMail, appInbox, returned>>

\* A daemon takes m, or two of one identity do, whose polls overlap.
TakeMail(m) ==
    /\ m \in appMail
    /\ \E T \in SUBSET {c \in Call : client[c] = Addressee[m]} :
          /\ T # {}
          /\ appInbox' = [c \in Call |-> IF c \in T THEN appInbox[c] \cup {m}
                                                    ELSE appInbox[c]]
    /\ appMail' = appMail \ {m}
    /\ UNCHANGED <<stage, client, app, returned>>

\* cipher_receive_all.
CipherReceiveAll ==
    /\ app # None
    /\ returned' = returned \cup appInbox[app]
    /\ appInbox' = [appInbox EXCEPT ![app] = {}]
    /\ UNCHANGED <<stage, client, app, appMail>>

AppNext == \/ \E c \in Call : \/ \E i \in Mnemonic : StartSyncDaemon(c, i)
                              \/ BindTurnProxy(c)
                              \/ SetOnce(c)
           \/ \E m \in Mail : TakeMail(m)
           \/ CipherReceiveAll

AppSpec == AppInit /\ [][AppNext]_appVars

-----------------------------------------------------------------------------
AppTypeOK ==
    /\ stage \in [Call -> {"idle", "bind", "set", "ok", "failed"}]
    /\ client \in [Call -> Mnemonic \cup {None}]
    /\ app \in Call \cup {None}
    /\ appMail \in SUBSET Mail
    /\ appInbox \in [Call -> SUBSET Mail]
    /\ returned \in SUBSET Mail

\* Mail that was acknowledged is lost to the application only through a call
\* of cipher_init that failed, or has not ended: once every call that made a
\* client returned Ok, what was taken was returned or will be.
LossNeedsFailedInit ==
    (\A c \in Call : stage[c] \in {"idle", "ok"}) /\ app # None =>
        Mail \ appMail \subseteq returned \cup appInbox[app]
=============================================================================
