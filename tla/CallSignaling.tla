--------------------------- MODULE CallSignaling ---------------------------
(***************************************************************************)
(* Calls between two devices: the CallManager of each (calls.rs), the      *)
(* cipher_call_* functions of ffi.rs that the user interface calls, and    *)
(* the peer to whom the TurnProxy (turn_proxy.rs) sends the media packets  *)
(* of the local WebRTC engine.                                             *)
(*                                                                         *)
(* Each cipher_call_* function takes two locks one after the other: that   *)
(* of the CallManager's sessions, and that of the proxy's peer, after      *)
(* which it sends its signal.  The threads of the application may call     *)
(* them at any time, so that others run between the two.                   *)
(*                                                                         *)
(* Signals are messages: each is handled once or never, at any time and in *)
(* any order.  No code of the program hands an arrived signal to the       *)
(* CallManager, none calls decline_call, and none sends a Decline: that is *)
(* left to the application, which here calls the method made for a signal, *)
(* cipher_call_hangup when the other side ended the call, and decline_call *)
(* for any call it knows of.                                               *)
(***************************************************************************)
EXTENDS Optional, Vec

CONSTANTS
    Party,        \* the two devices
    CallId,       \* the calls, by Uuid
    Thread,       \* the threads that call cipher_call_*
    MaxSignals    \* bound: the signals on their way

\* A function of a device, about a call.
In(fn, d, c) == [fn |-> fn, on |-> d, id |-> c]
Function == [fn : {"initiate", "accept", "hangup"}, on : Party,
             id : CallId]

ASSUME CallsAssumption ==
    /\ \E a, b \in Party : a # b /\ Party = {a, b}
    /\ None \notin Party \cup Function

VARIABLES
    calls,        \* active_calls
    history,      \* the calls in history
    activePeer,   \* TurnProxy::active_peer
    doing,        \* the function a thread is in, between its two locks
    dialler,      \* the device that got the id from Uuid::new_v4
    offered,      \* the ids whose offer reached the user interface
    signals,      \* signals on their way
    answered,     \* history: who accepted which call
    untold,       \* history: the calls their callee ended without a signal
    stray         \* history: the proxies whose peer outlived its call

callsVars == <<calls, history, activePeer, doing, dialler, offered, signals,
               answered, untold, stray>>

PeerOf(d) == CHOOSE p \in Party : p # d
State == {"Ringing", "Connecting", "Active"}
Session == [id : CallId, peer : Party, state : State]
Signal == [kind : {"Offer", "Answer", "Hangup"}, id : CallId,
           to : Party]

CallsInit == /\ calls = [d \in Party |-> <<>>]
             /\ history = [d \in Party |-> {}]
             /\ activePeer = [d \in Party |-> None]
             /\ doing = [t \in Thread |-> None]
             /\ dialler = [c \in CallId |-> None]
             /\ offered = [d \in Party |-> {}]
             /\ signals = {}
             /\ answered = {}
             /\ untold = {}
             /\ stray = {}

Ids(d) == {calls[d][i].id : i \in DOMAIN calls[d]}
Push(d, c, state) ==
    [calls EXCEPT ![d] =
        Append(@, [id |-> c, peer |-> PeerOf(d), state |-> state])]
FirstWith(d, c) == CHOOSE i \in DOMAIN calls[d] :
                     /\ calls[d][i].id = c
                     /\ \A j \in 1 .. i - 1 : calls[d][j].id # c
Without(d, c) ==
    [calls EXCEPT ![d] = Retain(@, {i \in DOMAIN @ : @[i].id # c})]
\* find(|c| c.id == id), then its state is set.
SetState(d, c, state) ==
    IF c \in Ids(d) THEN [calls EXCEPT ![d][FirstWith(d, c)].state = state]
    ELSE calls

Doing(fn, d, c) == \E t \in Thread : doing[t] = In(fn, d, c)
\* The interface knows the calls it was offered, and those it dialled once
\* cipher_call_initiate has returned their id.
Knows(d, c) == \/ c \in offered[d]
               \/ dialler[c] = d /\ ~Doing("initiate", d, c)

\* Thread t is past the first lock of a function.
Enter(t, fn, d, c) == /\ doing[t] = None
                      /\ doing' = [doing EXCEPT ![t] = In(fn, d, c)]

\* send_call_signal: the signal leaves, or the transport refuses it.
Sent(d, kind, c) ==
    /\ Cardinality(signals) < MaxSignals
    /\ signals' = signals \cup {[kind |-> kind, id |-> c, to |-> PeerOf(d)]}
Send(d, kind, c) == Sent(d, kind, c) \/ UNCHANGED signals
\* d ends c, and the other side is not told.
Silent(d, c) == untold' = IF dialler[c] = d THEN untold ELSE untold \cup {c}

-----------------------------------------------------------------------------
(* The CallManager: the first lock of the functions the interface calls *)

\* cipher_call_initiate: initiate_call.
Initiate(t, d, c) ==
    /\ dialler[c] = None
    /\ Enter(t, "initiate", d, c)
    /\ dialler' = [dialler EXCEPT ![c] = d]
    /\ calls' = Push(d, c, "Ringing")
    /\ UNCHANGED <<history, activePeer, offered, signals, answered, untold,
                   stray>>

\* accept_call: an id it does not hold, one hung up before, gets a session.
Accepted(d, c) == IF c \in Ids(d) THEN SetState(d, c, "Connecting")
                  ELSE Push(d, c, "Connecting")

\* cipher_call_accept: accept_call.
Accept(t, d, c) ==
    /\ c \in offered[d]
    /\ Enter(t, "accept", d, c)
    /\ calls' = Accepted(d, c)
    /\ answered' = answered \cup {<<d, c>>}
    /\ UNCHANGED <<history, activePeer, dialler, offered, signals, untold,
                   stray>>

\* hangup and decline_call: the first session with the id goes to the history,
\* every one leaves the list.
Ended(d, c) ==
    /\ calls' = Without(d, c)
    /\ history' = IF c \in Ids(d) THEN [history EXCEPT ![d] = @ \cup {c}]
                  ELSE history

\* cipher_call_hangup: hangup.
Hangup(t, d, c) ==
    /\ Knows(d, c)
    /\ Enter(t, "hangup", d, c)
    /\ Ended(d, c)
    /\ UNCHANGED <<activePeer, dialler, offered, signals, answered, untold,
                   stray>>

\* A call that rings here, and was neither dialled nor accepted.
RingsIn(d, c) == \E i \in DOMAIN calls[d] : /\ calls[d][i].id = c
                                            /\ calls[d][i].state = "Ringing"
                                            /\ dialler[c] # d

\* decline_call, whatever the state of the call: the proxy keeps its peer, and
\* nobody tells the other side.
Decline(d, c) ==
    /\ Knows(d, c)
    /\ Ended(d, c)
    /\ Silent(d, c)
    /\ stray' = IF RingsIn(d, c) THEN stray ELSE stray \cup {d}
    /\ UNCHANGED <<activePeer, doing, dialler, offered, signals, answered>>

-----------------------------------------------------------------------------
(* The TurnProxy, and the signal *)

Return(t) == doing' = [doing EXCEPT ![t] = None]

\* Media goes to the peer of call c, which may have ended meanwhile.
Connect(d, c) ==
    /\ activePeer' = [activePeer EXCEPT ![d] = PeerOf(d)]
    /\ stray' = IF c \in Ids(d) THEN stray ELSE stray \cup {d}

SetPeer(t, d, c) ==
    /\ \/ doing[t] = In("initiate", d, c) /\ Send(d, "Offer", c)
       \/ doing[t] = In("accept", d, c) /\ Send(d, "Answer", c)
    /\ Connect(d, c)
    /\ Return(t)
    /\ UNCHANGED <<calls, history, dialler, offered, answered, untold>>

\* Slip: the proxy keeps its peer.
KeptPeer(d) == activePeer
\* The proxy has no peer, whichever call it was.
Dropped(d) == [activePeer EXCEPT ![d] = None]

DropPeer(t, d, c) ==
    /\ doing[t] = In("hangup", d, c)
    /\ activePeer' = Dropped(d)
    /\ stray' = stray \ {d}
    /\ \/ Sent(d, "Hangup", c) /\ UNCHANGED untold
       \/ UNCHANGED signals /\ Silent(d, c)
    /\ Return(t)
    /\ UNCHANGED <<calls, history, dialler, offered, answered>>

-----------------------------------------------------------------------------
(* Signals handed to the CallManager *)

\* handle_offer pushes a session, whatever is there.
TakeOffer(d, c) ==
    /\ calls' = Push(d, c, "Ringing")
    /\ offered' = [offered EXCEPT ![d] = @ \cup {c}]
    /\ UNCHANGED <<history, doing>>

\* Slip: the session is found by its peer.
FirstConnects(d, c) ==
    IF calls[d] # <<>> THEN [calls EXCEPT ![d][1].state = "Active"] ELSE calls
\* Slip: an answer to a call that is not held gets a session, as in
\* accept_call.
ConnectedOrPushed(d, c) ==
    IF c \in Ids(d) THEN SetState(d, c, "Active") ELSE Push(d, c, "Active")
\* handle_answer: the call is active, whatever its state was.
Connected(d, c) == SetState(d, c, "Active")

TakeAnswer(d, c) ==
    /\ calls' = Connected(d, c)
    /\ UNCHANGED <<history, doing, offered>>

\* The other side hung up: a thread calls cipher_call_hangup.
TakeEnd(d, c) ==
    /\ \E t \in Thread : Enter(t, "hangup", d, c)
    /\ Ended(d, c)
    /\ UNCHANGED offered

Deliver(s) ==
    /\ \/ s.kind = "Offer" /\ TakeOffer(s.to, s.id)
       \/ s.kind = "Answer" /\ TakeAnswer(s.to, s.id)
       \/ s.kind = "Hangup" /\ TakeEnd(s.to, s.id)
    /\ signals' = signals \ {s}
    /\ UNCHANGED <<activePeer, dialler, answered, untold, stray>>

CallsNext == \/ \E d \in Party, c \in CallId :
                \/ Decline(d, c)
                \/ \E t \in Thread :
                      \/ Initiate(t, d, c) \/ Accept(t, d, c)
                      \/ Hangup(t, d, c)
                      \/ SetPeer(t, d, c) \/ DropPeer(t, d, c)
             \/ \E s \in signals : Deliver(s)

CallsSpec == CallsInit /\ [][CallsNext]_callsVars

-----------------------------------------------------------------------------
(* Properties *)

CallsTypeOK ==
    /\ calls \in [Party -> Seq(Session)]
    /\ history \in [Party -> SUBSET CallId]
    /\ activePeer \in [Party -> Party \cup {None}]
    /\ doing \in [Thread -> Function \cup {None}]
    /\ dialler \in [CallId -> Party \cup {None}]
    /\ offered \in [Party -> SUBSET CallId]
    /\ signals \in SUBSET Signal
    /\ answered \in SUBSET (Party \X CallId)
    /\ untold \in SUBSET CallId
    /\ stray \in SUBSET Party

\* The other side of d knows call c, or d is to hear of its end: a signal is on
\* its way, or about to be sent, or there was none: the transport refused it, or
\* decline_call was used, which sends nothing.
Shared(d, c) ==
    \/ c \in Ids(PeerOf(d))
    \/ [kind |-> "Hangup", id |-> c, to |-> d] \in signals
    \/ Doing("hangup", PeerOf(d), c)
    \/ c \in untold

\* A call active on one side is no ghost: the other side has a session of it,
\* or has hung up and said so, if the transport carried that; only decline_call
\* leaves the other side in the call.  So it is however signals cross or are
\* lost, an answer comes after the end of its call, and a call is accepted again
\* or hung up while it is accepted.
ActiveIsShared ==
    \A d \in Party : \A i \in DOMAIN calls[d] :
        calls[d][i].state = "Active" => Shared(d, calls[d][i].id)

\* A call is active on one side only if the other side accepted that call: the
\* answer to one call never connects another one with the same peer.
ConnectedWasAnswered ==
    \A d \in Party : \A i \in DOMAIN calls[d] :
        calls[d][i].state = "Active" =>
            <<PeerOf(d), calls[d][i].id>> \in answered

\* Once cipher_call_hangup has returned, media packets go to a peer only while
\* there is a call with that peer.  Two orders of calls break the rule until
\* the next hangup: decline_call for a call that was dialled or accepted, and
\* cipher_call_accept overtaken by the hangup of its call between its locks.
MediaHasACall ==
    \A d \in Party :
        /\ activePeer[d] # None
        /\ \A c \in CallId : ~Doing("hangup", d, c)
        /\ d \notin stray
        => \E i \in DOMAIN calls[d] : calls[d][i].peer = activePeer[d]
=============================================================================
