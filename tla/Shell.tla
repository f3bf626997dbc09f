------------------------------- MODULE Shell -------------------------------
(***************************************************************************)
(* The interactive shell (src/commands/shell.rs): the loop that reads the  *)
(* user's lines, the background receiver that prints what arrives, and the *)
(* focus they share behind a tokio RwLock, whose waiters are served in     *)
(* order.  A command like /status starts a SwarmClient with a sync daemon  *)
(* of its own (status.rs), which polls the same mailbox until the shell    *)
(* ends.                                                                   *)
(*                                                                         *)
(* What a daemon takes from the relay it has acknowledged; how, is the     *)
(* matter of SwarmInbox.  The contacts cache, and lines that only print,   *)
(* do nothing to what is modelled here.                                    *)
(***************************************************************************)
EXTENDS Optional, Naturals, Sequences

CONSTANTS
    Text,         \* the texts and files that peers send
    Peer,         \* the peers
    Sender        \* Sender[m]: who sends m

ASSUME ShellAssumption == /\ Sender \in [Text -> Peer]
                   /\ None \notin Text \cup Peer

VARIABLES
    sent,         \* what the relay was ever given for us
    shellMail,    \* what it still has
    shellInbox,   \* the inbox of the shell's client
    spare,        \* another client runs beside it
    strays,       \* the inbox of that one
    messages,     \* what receive_all gave the receiver, and is to be printed
    current,      \* the one it is at
    receiver,     \* where the receiver is
    printed,      \* what was printed, or saved
    focus_peer,   \* the peer in focus
    focused,      \* history: some peer was ever in focus
    guards,       \* how many read guards of the focus the receiver holds
    queue,        \* who waits for the lock
    typed,        \* the line the user has typed, which may have to wait
    target,       \* what /chat or /all will write
    reader        \* where the input loop is

lockVars == <<guards, queue>>
receiverVars == <<messages, current, receiver, printed>>
inputVars == <<focus_peer, focused, typed, target, reader>>
clientVars == <<sent, shellMail, shellInbox, spare, strays>>
shellVars == <<clientVars, receiverVars, inputVars, lockVars>>

ShellInit == /\ sent = {} /\ shellMail = {} /\ shellInbox = {}
             /\ spare = FALSE /\ strays = {}
             /\ messages = {} /\ current = None /\ receiver = "collect"
             /\ printed = {}
             /\ focus_peer = None /\ focused = FALSE
             /\ guards = 0 /\ queue = <<>>
             /\ typed = None /\ target = None /\ reader = "input"

ShellRunning == reader # "ended"

-----------------------------------------------------------------------------
(* The relay and the daemons *)

StoreText(m) == /\ m \notin sent
                /\ sent' = sent \cup {m}
                /\ shellMail' = shellMail \cup {m}
                /\ UNCHANGED <<shellInbox, spare, strays, receiverVars,
                               inputVars, lockVars>>

\* The daemons fetch m and acknowledge it: one of them, or both in time.
TakeText(m) == /\ ShellRunning
               /\ m \in shellMail
               /\ shellMail' = shellMail \ {m}
               /\ \/ shellInbox' = shellInbox \cup {m} /\ UNCHANGED strays
                  \/ spare /\ strays' = strays \cup {m} /\ UNCHANGED shellInbox
                  \/ /\ spare
                     /\ shellInbox' = shellInbox \cup {m}
                     /\ strays' = strays \cup {m}
               /\ UNCHANGED <<sent, spare, receiverVars, inputVars, lockVars>>

-----------------------------------------------------------------------------
(* The receiver *)

\* receive_all empties the inbox.
Collect == /\ ShellRunning
           /\ receiver = "collect"
           /\ messages' = shellInbox
           /\ shellInbox' = {}
           /\ receiver' = "next"
           /\ UNCHANGED <<sent, shellMail, spare, strays, current, printed,
                          inputVars, lockVars>>

Waits(who) == queue' = Append(queue, who)

\* For each message it looks at the focus; after the last it sleeps.
NextMessage ==
    /\ ShellRunning
    /\ receiver = "next"
    /\ \/ /\ messages = {}
          /\ receiver' = "collect"
          /\ UNCHANGED <<messages, current, queue>>
       \/ \E m \in messages :
             /\ current' = m
             /\ messages' = messages \ {m}
             /\ receiver' = "focus"
             /\ Waits("receiver")
    /\ UNCHANGED <<printed, guards, clientVars, inputVars>>

\* Slip: without a focus, every peer is another one.
SkipsOthers == Sender[current] # focus_peer
Skips == focus_peer # None /\ Sender[current] # focus_peer

\* A message of another peer is passed over, be it a text or a file; any other
\* is printed or saved.
Filter == /\ ShellRunning
          /\ receiver = "filter"
          /\ IF Skips
             THEN /\ receiver' = "next"
                  /\ guards' = 0
                  /\ UNCHANGED <<printed, queue>>
             ELSE /\ printed' = printed \cup {current}
                  /\ receiver' = "prompt"
                  /\ Waits("receiver")
                  /\ UNCHANGED guards
          /\ current' = IF Skips THEN None ELSE current
          /\ UNCHANGED <<messages, clientVars, inputVars>>

\* The receiver gets a guard.  The first it keeps until it is done with the
\* message, the second is for the prompt, after which it drops both.
ReceiverReads ==
    /\ ShellRunning
    /\ queue # <<>> /\ Head(queue) = "receiver"
    /\ queue' = Tail(queue)
    /\ IF receiver = "focus"
       THEN receiver' = "filter" /\ guards' = 1 /\ UNCHANGED current
       ELSE receiver' = "next" /\ guards' = 0 /\ current' = None
    /\ UNCHANGED <<messages, printed, clientVars, inputVars>>

-----------------------------------------------------------------------------
(* The input loop *)

Lines == Peer \cup {"all", "status", "say", "quit"}

Type(line) == /\ ShellRunning
              /\ typed = None
              /\ typed' = line
              /\ UNCHANGED <<focus_peer, focused, target, reader, clientVars,
                             receiverVars, lockVars>>

\* A line that sends, or only prints.  After it the prompt is printed, which
\* needs the focus.
Say == /\ reader = "input"
       /\ typed = "say"
       /\ typed' = None
       /\ reader' = "prompt"
       /\ Waits("reader")
       /\ UNCHANGED <<focus_peer, focused, target, clientVars, receiverVars,
                      guards>>

\* /status starts its client, and leaves it behind.
Status == /\ reader = "input"
          /\ typed = "status"
          /\ spare' = TRUE
          /\ typed' = None
          /\ reader' = "prompt"
          /\ Waits("reader")
          /\ UNCHANGED <<focus_peer, focused, target, sent, shellMail,
                         shellInbox,
                         strays, receiverVars, guards>>

\* /chat @peer and /all write the focus.
Chat == /\ reader = "input"
        /\ typed \in Peer \cup {"all"}
        /\ target' = typed
        /\ typed' = None
        /\ reader' = "write"
        /\ Waits("reader")
        /\ UNCHANGED <<focus_peer, focused, clientVars, receiverVars, guards>>

\* recv_handle.abort, and the end of the process: what is in memory goes.
Quit == /\ reader = "input"
        /\ typed = "quit"
        /\ reader' = "ended"
        /\ shellInbox' = {} /\ strays' = {} /\ messages' = {}
        /\ current' = None
        /\ guards' = 0 /\ queue' = <<>>
        /\ UNCHANGED <<typed, target, focus_peer, focused, sent, shellMail,
                       spare, receiver, printed>>

\* A writer needs the lock for itself.
ReaderWrites ==
    /\ reader = "write"
    /\ Head(queue) = "reader"
    /\ guards = 0
    /\ focus_peer' = IF target = "all" THEN None ELSE target
    /\ focused' = (focused \/ target # "all")
    /\ target' = None
    /\ queue' = Append(Tail(queue), "reader")
    /\ reader' = "prompt"
    /\ UNCHANGED <<typed, guards, clientVars, receiverVars>>

ReaderReads ==
    /\ reader = "prompt"
    /\ Head(queue) = "reader"
    /\ queue' = Tail(queue)
    /\ reader' = "input"
    /\ UNCHANGED <<typed, target, focus_peer, focused, guards, clientVars,
                   receiverVars>>

ReceiverStep == Collect \/ NextMessage \/ Filter \/ ReceiverReads
ReaderStep ==
    Say \/ Status \/ Chat \/ Quit \/ ReaderWrites \/ ReaderReads

ShellNext == \/ \E m \in Text : StoreText(m) \/ TakeText(m)
             \/ \E line \in Lines : Type(line)
             \/ ReceiverStep
             \/ ReaderStep

ShellSpec == ShellInit /\ [][ShellNext]_shellVars

\* Both loops run, and a guard that can be given is given.
ShellFairness == WF_shellVars(ReceiverStep) /\ WF_shellVars(ReaderStep)
ShellFairSpec == ShellSpec /\ ShellFairness

-----------------------------------------------------------------------------
(* Properties *)

ShellTypeOK ==
    /\ sent \in SUBSET Text
    /\ shellMail \in SUBSET sent
    /\ shellInbox \in SUBSET sent
    /\ spare \in BOOLEAN
    /\ strays \in SUBSET sent
    /\ messages \in SUBSET sent
    /\ current \in sent \cup {None}
    /\ receiver \in {"collect", "next", "focus", "filter", "prompt"}
    /\ printed \in SUBSET sent
    /\ focus_peer \in Peer \cup {None}
    /\ focused \in BOOLEAN
    /\ guards \in 0 .. 1
    /\ queue \in Seq({"reader", "receiver"}) /\ Len(queue) <= 2
    /\ typed \in Lines \cup {None}
    /\ target \in Peer \cup {"all", None}
    /\ reader \in {"input", "write", "prompt", "ended"}

InMemory == shellInbox \cup messages \cup {current}

\* What was acknowledged to the relay was shown or will be, unless a peer was
\* ever in focus, or /status was ever used.  Until then the receiver and the
\* input loop lose nothing between them.
ShownUnlessAway ==
    ShellRunning /\ ~focused /\ ~spare =>
        sent \ shellMail \subseteq printed \cup InMemory

\* "/quit or Ctrl+C" ends the shell (shell.rs:46).
QuitExits == typed = "quit" ~> reader = "ended"
=============================================================================
