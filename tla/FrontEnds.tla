------------------------------ MODULE FrontEnds ------------------------------
(***************************************************************************)
(* What the users of the library call: the managers behind the functions   *)
(* of ffi.rs and the commands of cipher-cli.                               *)
(*                                                                         *)
(* Each component keeps its state to itself: a manager behind locks of its *)
(* own, a command in a process and in files of its own.  What one does     *)
(* enables and disables nothing in another, so that a behavior of them all *)
(* is an interleaving of behaviors of each, and it is enough to let each   *)
(* run while the others rest.                                              *)
(***************************************************************************)
EXTENDS CallSignaling, Groups, Bots, DoubleRatchet, Usernames, AppClients,
        CliSend, CliRecv, CliSession, CliRecords, TokenTransfer, Shell

VARIABLE part  \* the component that runs

vars == <<part, callsVars, groupsVars, botsVars, ratchetVars, namesVars,
          appVars, sendVars, recvVars, sessionVars, recordsVars,
          transferVars, shellVars>>

Init ==
    /\ part \in {"calls", "groups", "bots", "ratchet", "usernames", "init",
                 "send", "recv", "session", "records", "transfer", "shell"}
    /\ CallsInit
    /\ GroupsInit
    /\ BotsInit
    /\ RatchetInit
    /\ NamesInit
    /\ AppInit
    /\ SendInit
    /\ RecvInit
    /\ SessionInit
    /\ RecordsInit
    /\ TransferInit
    /\ ShellInit
    /\ part # "send" => pool = {}

\* One component runs; the others stay as they began.
Rest(p) ==
    /\ UNCHANGED part
    /\ p # "calls" => UNCHANGED callsVars
    /\ p # "groups" => UNCHANGED groupsVars
    /\ p # "bots" => UNCHANGED botsVars
    /\ p # "ratchet" => UNCHANGED ratchetVars
    /\ p # "usernames" => UNCHANGED namesVars
    /\ p # "init" => UNCHANGED appVars
    /\ p # "send" => UNCHANGED sendVars
    /\ p # "recv" => UNCHANGED recvVars
    /\ p # "session" => UNCHANGED sessionVars
    /\ p # "records" => UNCHANGED recordsVars
    /\ p # "transfer" => UNCHANGED transferVars
    /\ p # "shell" => UNCHANGED shellVars

CallsStep == part = "calls" /\ CallsNext /\ Rest("calls")
GroupsStep == part = "groups" /\ GroupsNext /\ Rest("groups")
BotsStep == part = "bots" /\ BotsNext /\ Rest("bots")
RatchetStep == part = "ratchet" /\ RatchetNext /\ Rest("ratchet")
UsernamesStep == part = "usernames" /\ NamesNext /\ Rest("usernames")
InitStep == part = "init" /\ AppNext /\ Rest("init")
SendStep == part = "send" /\ SendNext /\ Rest("send")
RecvStep == part = "recv" /\ RecvNext /\ Rest("recv")
SessionStep == part = "session" /\ SessionNext /\ Rest("session")
RecordsStep == part = "records" /\ RecordsNext /\ Rest("records")
TransferStep == part = "transfer" /\ TransferNext /\ Rest("transfer")
ShellStep == part = "shell" /\ ShellNext /\ Rest("shell")

Next ==
    \/ CallsStep
    \/ GroupsStep
    \/ BotsStep
    \/ RatchetStep
    \/ UsernamesStep
    \/ InitStep
    \/ SendStep
    \/ RecvStep
    \/ SessionStep
    \/ RecordsStep
    \/ TransferStep
    \/ ShellStep

Spec == Init /\ [][Next]_vars

-----------------------------------------------------------------------------
TypeOK ==
    /\ CallsTypeOK
    /\ GroupsTypeOK
    /\ BotsTypeOK
    /\ RatchetTypeOK
    /\ NamesTypeOK
    /\ AppTypeOK
    /\ InboxTypeOK
    /\ SessionTypeOK
    /\ RecordsTypeOK
    /\ TransferTypeOK
    /\ ShellTypeOK
=============================================================================
