------------------------------ MODULE CliRecv ------------------------------
(***************************************************************************)
(* `cipher-cli recv` (src/commands/recv.rs): the command starts the sync   *)
(* daemon, and then polls once, processes once, prints what receive_all    *)
(* returns, and exits; with --follow it does so again and again.  The      *)
(* loops of the daemon share the queues of SwarmInbox with it until the    *)
(* process is gone.                                                        *)
(***************************************************************************)
EXTENDS SwarmInbox

CONSTANT Receiver       \* the task that runs the command

ASSUME CliRecvAssumption == Receiver \in Poller \cap Worker

VARIABLE phase          \* what the command does next

recvVars == <<inboxVars, phase>>

RecvInit == InboxInit /\ phase = "poll"

RecvRunning == phase # "exited"

\* poll_incoming of the command starts.
RecvFetch == /\ phase = "poll"
             /\ \E A \in SUBSET Base : Fetch(Receiver, A)
             /\ phase' = "push"

\* The responses are pushed and acknowledged one after the other.
RecvPush == /\ phase = "push"
            /\ \/ \E b \in Base : TakeResponse(Receiver, b)
               \/ \E reached \in BOOLEAN : AckEnds(Receiver, reached)
            /\ UNCHANGED phase

\* poll_incoming has returned.
PollReturned == /\ phase = "push"
                /\ responses[Receiver] = NoResponse
                /\ acking[Receiver] = None

\* process_incoming of the command starts.
RecvDrain == /\ PollReturned
             /\ Drain(Receiver)
             /\ phase' = "process"

RecvHandle == /\ phase = "process"
              /\ \/ \E m \in Envelope :
                       DropCopy(Receiver, m) \/ Handle(Receiver, m)
                 \/ EnterInbox(Receiver)
              /\ UNCHANGED phase

\* process_incoming has returned; receive_all gives what is printed.
RecvShow == /\ phase = "process"
            /\ drained[Receiver] = Nothing
            /\ handling[Receiver] = None
            /\ shown' = Plus(shown, inbox)
            /\ inbox' = Nothing
            /\ phase' = "printed"
            /\ UNCHANGED <<netVars, pollVars, wsVars, unread, workVars>>

\* With --follow the command sleeps and starts over.
Follow == /\ phase = "printed"
          /\ phase' = "poll"
          /\ UNCHANGED inboxVars

\* The process ends, and with it all that only its memory holds.
Exit == /\ phase = "printed"
        /\ phase' = "exited"
        /\ responses' = [p \in Poller |-> NoResponse]
        /\ acking' = [p \in Poller |-> None]
        /\ ackIds' = [p \in Poller |-> {}]
        /\ wsAcks' = {}
        /\ wsQueue' = Nothing
        /\ unread' = Nothing
        /\ drained' = [w \in Worker |-> Nothing]
        /\ handling' = [w \in Worker |-> None]
        /\ seen' = {}
        /\ inbox' = Nothing
        /\ UNCHANGED <<netVars, shown>>

\* The daemon, started beside the command, polls and processes too, and the
\* WebSocket pushes.
Daemon == /\ RecvRunning
          /\ \/ \E p \in Poller \ {Receiver} : Poll(p)
             \/ \E w \in Worker \ {Receiver} : Process(w)
             \/ Poller # {Receiver} /\ WebSocket
          /\ UNCHANGED phase

Senders == /\ \E b \in Base, m \in Envelope : RelayStores(b, m)
           /\ UNCHANGED phase

RecvNext == \/ RecvFetch
            \/ RecvPush
            \/ RecvDrain
            \/ RecvHandle
            \/ RecvShow
            \/ Follow
            \/ Exit
            \/ Daemon
            \/ Senders

RecvSpec == RecvInit /\ [][RecvNext]_recvVars

-----------------------------------------------------------------------------
\* Until the command exits nothing is lost, although its poll and the
\* daemon's fill the same list and two workers empty it.
HeldUntilExit == RecvRunning => StoredIsHeld

\* The federation document says that a message is acknowledged after its
\* delivery.  Then what no relay holds any more when the command has ended
\* was shown: the command may be run again to see the rest.
AckedIsShown ==
    phase = "exited" =>
        \A m \in Shown : copies[m] > 0 =>
            (\E b \in Base : m \in mailbox[b]) \/ shown[m] > 0

=============================================================================
