--------------------------- MODULE TransportModes ---------------------------
(***************************************************************************)
(* The TransportRouter (transport/mod.rs): the mode, the layers that       *)
(* start() bootstraps for it, and the outbox a message enters for the mode *)
(* it was sent in.  Tor and Nym wrap a DirectTransport of their own, whose *)
(* outbox nobody flushes.                                                  *)
(*                                                                         *)
(* start() runs in a task of its own.  It reads the mode once, after a     *)
(* refresh of the relay pool; cipher_set_transport_mode and senders run    *)
(* beside it.  What an outbox does beyond that is module Outbox.           *)
(***************************************************************************)
EXTENDS Naturals

CONSTANT Msg      \* the messages

Mode == {"Auto", "Iroh", "Direct", "Tor", "Nym", "DomainFronting"}

VARIABLES
    mode,         \* TransportRouter::mode
    startup,      \* the layer start() tries next, or where it is
    iroh,         \* whether the endpoint is there
    nym,          \* NymState
    tor,          \* TorState
    sending,      \* the mode queue_message read for a message
    place,        \* where a message is
    readMode      \* history: the mode start() read

modesVars == <<mode, startup, iroh, nym, tor, sending, place, readMode>>

Unread == "none"

ModesInit == /\ mode = "Direct"
             /\ startup = "refreshing"
             /\ iroh = FALSE
             /\ nym = "Disabled"
             /\ tor = "Disabled"
             /\ sending = [m \in Msg |-> Unread]
             /\ place = [m \in Msg |-> "unsent"]
             /\ readMode = Unread

-----------------------------------------------------------------------------
(* start() *)

\* The layer a mode begins with.
FirstLayer(m) == CASE m \in {"Auto", "Iroh"} -> "iroh"
                   [] m = "Nym" -> "nym"
                   [] m = "Tor" -> "tor"
                   [] OTHER -> "done"

\* refresh_network has returned.
ReadMode ==
    /\ startup = "refreshing"
    /\ readMode' = mode
    /\ startup' = FirstLayer(mode)
    /\ UNCHANGED <<mode, iroh, nym, tor, sending, place>>

\* IrohTransport::init binds the endpoint or fails; Auto then tries Nym.
InitIroh ==
    /\ startup = "iroh"
    /\ \/ iroh' = TRUE /\ startup' = "done"
       \/ /\ iroh' = FALSE
          /\ startup' = IF readMode = "Auto" THEN "nym" ELSE "done"
    /\ UNCHANGED <<mode, nym, tor, sending, place, readMode>>

\* NymTransport::connect: it cannot fail, so that Auto never gets to Tor.
ConnectNym ==
    \/ /\ startup = "nym" /\ nym = "Disabled"
       /\ nym' = "Connecting"
       /\ UNCHANGED <<mode, startup, iroh, tor, sending, place, readMode>>
    \/ /\ startup = "nym" /\ nym = "Connecting"
       /\ nym' = "Connected"
       /\ startup' = "done"
       /\ UNCHANGED <<mode, iroh, tor, sending, place, readMode>>

\* TorTransport::bootstrap: is there a SOCKS5 proxy?
BootstrapTor ==
    \/ /\ startup = "tor" /\ tor = "Disabled"
       /\ tor' = "Bootstrapping"
       /\ UNCHANGED <<mode, startup, iroh, nym, sending, place, readMode>>
    \/ /\ startup = "tor" /\ tor = "Bootstrapping"
       /\ tor' \in {"Connected", "Failed"}
       /\ startup' = "done"
       /\ UNCHANGED <<mode, iroh, nym, sending, place, readMode>>

-----------------------------------------------------------------------------
(* cipher_set_transport_mode, cipher_set_domain_front *)

\* Slip: the layer of the new mode is bootstrapped.
SetAndConnect(m) == /\ mode' = m
                    /\ nym' = IF m = "Nym" THEN "Connected" ELSE nym
                    /\ tor' = IF m = "Tor" THEN "Connected" ELSE tor
\* set_mode changes the mode and bootstraps nothing.
Set(m) == mode' = m /\ UNCHANGED <<nym, tor>>

SetMode(m) ==
    /\ Set(m)
    /\ UNCHANGED <<startup, iroh, sending, place, readMode>>

-----------------------------------------------------------------------------
(* queue_message and the flush *)

BeginQueue(m) ==
    /\ place[m] = "unsent"
    /\ sending[m] = Unread
    /\ sending' = [sending EXCEPT ![m] = mode]
    /\ UNCHANGED <<mode, startup, iroh, nym, tor, place, readMode>>

\* A layer that is not Disabled takes the message, one that Failed too.  A send
\* over Iroh that fails falls back.  DomainFronting ends in the direct outbox
\* either way.
Outboxes(md) ==
    CASE md = "Nym" /\ nym # "Disabled" -> {"nym"}
      [] md = "Tor" /\ tor # "Disabled" -> {"tor"}
      [] md = "Iroh" /\ iroh -> {"iroh", "direct"}
      [] OTHER -> {"direct"}

EndQueue(m) ==
    /\ sending[m] # Unread
    /\ place[m] = "unsent"
    /\ \E o \in Outboxes(sending[m]) : place' = [place EXCEPT ![m] = o]
    /\ UNCHANGED <<mode, startup, iroh, nym, tor, sending, readMode>>

\* flush_outbox of the direct transport, the only one that is flushed.
Flush ==
    /\ \E m \in Msg : place[m] = "direct"
    /\ place' = [m \in Msg |-> IF place[m] = "direct" THEN "relay"
                                ELSE place[m]]
    /\ UNCHANGED <<mode, startup, iroh, nym, tor, sending, readMode>>

Router == ReadMode \/ InitIroh \/ ConnectNym \/ BootstrapTor

ModesNext == \/ Router
             \/ \E m \in Mode : SetMode(m)
             \/ \E m \in Msg : BeginQueue(m) \/ EndQueue(m)
             \/ Flush

ModesSpec == ModesInit /\ [][ModesNext]_modesVars

\* A call that began to queue ends, and the poll loop flushes.
ModesFairness == /\ \A m \in Msg : WF_modesVars(EndQueue(m))
                 /\ WF_modesVars(Flush)

ModesFairSpec == ModesSpec /\ ModesFairness

-----------------------------------------------------------------------------
(* Properties *)

ModesTypeOK ==
    /\ mode \in Mode
    /\ startup \in {"refreshing", "iroh", "nym", "tor", "done"}
    /\ iroh \in BOOLEAN
    /\ nym \in {"Disabled", "Connecting", "Connected"}
    /\ tor \in {"Disabled", "Bootstrapping", "Connected", "Failed"}
    /\ sending \in [Msg -> Mode \cup {Unread}]
    /\ place \in [Msg -> {"unsent", "direct", "relay", "iroh", "nym", "tor"}]
    /\ readMode \in Mode \cup {Unread}

\* A message can get stuck in the outbox of Tor or Nym only if its user had
\* chosen Tor, Nym or Auto before start() looked: once start() has read another
\* mode, every message of the process leaves, whatever mode is set later.
LeavesUnlessEarlyMode ==
    \A m \in Msg :
        (sending[m] # Unread) ~> (\/ place[m] \in {"relay", "iroh"}
                                  \/ readMode \in {"Auto", "Tor", "Nym"})
=============================================================================
