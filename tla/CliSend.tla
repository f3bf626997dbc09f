------------------------------ MODULE CliSend ------------------------------
(***************************************************************************)
(* `cipher-cli send` (src/commands/send.rs) over the outbox: the command   *)
(* starts the sync daemon, calls send_text, which queues the message and   *)
(* flushes the outbox whatever comes of it, flushes once more, sleeps,     *)
(* reports, and exits.  Meanwhile the daemon flushes the same outbox and   *)
(* process_incoming and the presence heartbeat queue messages of their own *)
(* (receipts, heartbeats).  The outbox is memory only: what is still owed  *)
(* at the exit is lost.                                                    *)
(***************************************************************************)
EXTENDS Outbox

CONSTANTS Mine,         \* the message the command sends
          Caller        \* the task that runs the command

ASSUME CliSendAssumption == Mine \in Msg /\ Caller \in Task

VARIABLE cmd            \* where the command is, and what it reported

sendVars == <<outboxVars, cmd>>

SendInit == OutboxInit /\ cmd = "start"

SendRunning == cmd \notin {"sent", "failed"}

\* send_text queues; an error ends the command.
SendQueue == /\ cmd = "start"
             /\ QueueMessage(Mine)
             /\ cmd' = IF Mine \in refused' THEN "failed" ELSE "queued"

\* The flush inside send_text, and then the one of the command.
SendFlush == /\ \/ cmd = "queued" /\ cmd' = "first"
                \/ cmd = "again" /\ cmd' = "second"
             /\ StartFlush(Caller)

\* Slip: the command ignores the result, as send_text does.
SecondIgnored == "sleep"
\* The result of the first flush is ignored, that of the second decides.
SecondDecides == IF FlushResult = "err" THEN "failed" ELSE "sleep"

SendFlushed == /\ EndFlush
               /\ holder = Caller
               /\ cmd' = IF cmd = "first" THEN "again" ELSE SecondDecides

\* Half a second later the command prints "Message sent!" and exits.
SendReport == /\ cmd = "sleep"
              /\ cmd' = "sent"
              /\ UNCHANGED outboxVars

\* The rest of the flushes, the other tasks, and discovery.
Others == /\ SendRunning
          /\ \/ \E m \in Msg \ {Mine} : QueueMessage(m)
             \/ \E t \in Task \ {Caller} : StartFlush(t)
             \/ FlushStep /\ ~(EndFlush /\ holder = Caller)
             \/ \E b \in Relay : MergeBase(b)
          /\ UNCHANGED cmd

SendNext == \/ SendQueue
            \/ SendFlush
            \/ SendFlushed
            \/ SendReport
            \/ Others

SendSpec == SendInit /\ [][SendNext]_sendVars

-----------------------------------------------------------------------------
\* What the command prints is true: "Message sent!" (send.rs:52) only for a
\* message a relay confirmed.
SentMeansStored == cmd = "sent" => Mine \in confirmed

\* A false "Message sent!" needs other traffic: the message was not dropped
\* on the way, it waits in the outbox for a retry that the exit forestalls,
\* and some other message was stored in its place.  With nothing else to
\* send the report is true, though two tasks flush the same outbox.
FalseReportNeedsTraffic ==
    cmd = "sent" /\ Mine \notin confirmed =>
        Mine \in OwedMsgs /\ confirmed # {}

\* A false "Relay store failed" (send.rs:48) needs other traffic too: the
\* flush that decides is not the one that stored the message, and failed on
\* a message that is still owed.
FalseAlarmNeedsTraffic ==
    cmd = "failed" /\ Mine \in confirmed => OwedMsgs \ {Mine} # {}
=============================================================================
