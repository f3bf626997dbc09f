-------------------------- MODULE FrontEndsProofs --------------------------
(***************************************************************************)
(* The front ends together.  What one does leaves the others alone, so     *)
(* that a behavior of FrontEnds is a behavior of each of them, and what    *)
(* was proved of one of them holds of FrontEnds.                           *)
(***************************************************************************)
EXTENDS FrontEnds, ManagersProofs, UsernamesProofs, CommandsProofs,
        InboxProofs, OutboxProofs

Components ==
    /\ CallsSpec
    /\ GroupsSpec
    /\ BotsSpec
    /\ RatchetSpec
    /\ NamesSpec
    /\ AppSpec
    /\ SendSpec
    /\ RecvSpec
    /\ SessionSpec
    /\ RecordsSpec
    /\ TransferSpec
    /\ ShellSpec

ComponentSteps ==
    /\ [CallsNext]_callsVars
    /\ [GroupsNext]_groupsVars
    /\ [BotsNext]_botsVars
    /\ [RatchetNext]_ratchetVars
    /\ [NamesNext]_namesVars
    /\ [AppNext]_appVars
    /\ [SendNext]_sendVars
    /\ [RecvNext]_recvVars
    /\ [SessionNext]_sessionVars
    /\ [RecordsNext]_recordsVars
    /\ [TransferNext]_transferVars
    /\ [ShellNext]_shellVars

\* Each step is one of a component, and a stutter of every other.
LEMMA StepsOfEach ==
  ASSUME [Next]_vars
  PROVE  ComponentSteps
<1>1. CASE CallsStep
  BY <1>1 DEF CallsStep, Rest, ComponentSteps
<1>2. CASE GroupsStep
  BY <1>2 DEF GroupsStep, Rest, ComponentSteps
<1>3. CASE BotsStep
  BY <1>3 DEF BotsStep, Rest, ComponentSteps
<1>4. CASE RatchetStep
  BY <1>4 DEF RatchetStep, Rest, ComponentSteps
<1>5. CASE UsernamesStep
  BY <1>5 DEF UsernamesStep, Rest, ComponentSteps
<1>6. CASE InitStep
  BY <1>6 DEF InitStep, Rest, ComponentSteps
<1>7. CASE SendStep
  BY <1>7 DEF SendStep, Rest, ComponentSteps
<1>8. CASE RecvStep
  BY <1>8 DEF RecvStep, Rest, ComponentSteps
<1>9. CASE SessionStep
  BY <1>9 DEF SessionStep, Rest, ComponentSteps
<1>10. CASE RecordsStep
  BY <1>10 DEF RecordsStep, Rest, ComponentSteps
<1>11. CASE TransferStep
  BY <1>11 DEF TransferStep, Rest, ComponentSteps
<1>12. CASE ShellStep
  BY <1>12 DEF ShellStep, Rest, ComponentSteps
<1>13. CASE UNCHANGED vars
  BY <1>13 DEF vars, ComponentSteps
<1> QED
  BY <1>1, <1>2, <1>3, <1>4, <1>5, <1>6, <1>7, <1>8, <1>9, <1>10, <1>11,
     <1>12, <1>13
  DEF Next

\* A behavior of the front ends is a behavior of each of them: the state of a
\* manager or a command is changed by its own steps only.
THEOREM EachIsItself == Spec => Components
<1>1. Init => /\ CallsInit /\ GroupsInit /\ BotsInit /\ RatchetInit
              /\ NamesInit /\ AppInit /\ SendInit /\ RecvInit
              /\ SessionInit /\ RecordsInit /\ TransferInit /\ ShellInit
  BY DEF Init
<1>2. [Next]_vars => ComponentSteps
  BY StepsOfEach
<1>3. ComponentSteps => /\ [CallsNext]_callsVars
                        /\ [GroupsNext]_groupsVars
                        /\ [BotsNext]_botsVars
                        /\ [RatchetNext]_ratchetVars
                        /\ [NamesNext]_namesVars
                        /\ [AppNext]_appVars
                        /\ [SendNext]_sendVars
                        /\ [RecvNext]_recvVars
                        /\ [SessionNext]_sessionVars
                        /\ [RecordsNext]_recordsVars
                        /\ [TransferNext]_transferVars
                        /\ [ShellNext]_shellVars
  BY DEF ComponentSteps
<1> QED
  BY <1>1, <1>2, <1>3, PTL
  DEF Spec, Components, CallsSpec, GroupsSpec, BotsSpec, RatchetSpec,
      NamesSpec, AppSpec, SendSpec, RecvSpec, SessionSpec, RecordsSpec,
      TransferSpec, ShellSpec

-----------------------------------------------------------------------------
\* The types of every component, for any devices, groups, bots, keys, names,
\* calls, relays, processes, runs and peers.
THEOREM TypesAreKept == Spec => []TypeOK
<1>1. CallsSpec => []CallsTypeOK
  <2>1. CallsInv => CallsTypeOK
    BY DEF CallsInv
  <2> QED
    BY <2>1, CallsInvInit, CallsInvariant, PTL DEF CallsSpec
<1>2. GroupsSpec => []GroupsTypeOK
  <2>1. GroupsInv => GroupsTypeOK
    BY DEF GroupsInv
  <2> QED
    BY <2>1, GroupsInvariant, PTL
<1>3. NamesSpec => []NamesTypeOK
  <2>1. NamesInv => NamesTypeOK
    BY DEF NamesInv
  <2> QED
    BY <2>1, NamesInvInit, NamesInvStep, PTL DEF NamesSpec
<1>4. AppSpec => []AppTypeOK
  <2>1. AppInit => AppInv
    BY AppAssumption
    DEF AppInit, AppInv, AppTypeOK, StagesFit, TakenIsSomewhere
  <2>2. AppInv => AppTypeOK
    BY DEF AppInv
  <2> QED
    BY <2>1, <2>2, AppInvStep, PTL DEF AppSpec
<1>5. RecordsSpec => []RecordsTypeOK
  <2>1. RecordsInv => RecordsTypeOK
    BY DEF RecordsInv
  <2> QED
    BY <2>1, RecordsInvariant, PTL
<1>6. TransferSpec => []TransferTypeOK
  <2>1. TransferInv => TransferTypeOK
    BY DEF TransferInv
  <2> QED
    BY <2>1, TransferInvariant, PTL
<1>7. (/\ CallsTypeOK /\ GroupsTypeOK /\ BotsTypeOK /\ RatchetTypeOK
       /\ NamesTypeOK /\ AppTypeOK /\ InboxTypeOK /\ SessionTypeOK
       /\ RecordsTypeOK /\ TransferTypeOK /\ ShellTypeOK) => TypeOK
  BY DEF TypeOK
<1> QED
  BY <1>1, <1>2, <1>3, <1>4, <1>5, <1>6, <1>7, BotsTypes, RatchetTypeCorrect,
     RecvTypes, SessionTypes, ShellTypesInvariant, EachIsItself, PTL
  DEF Components

-----------------------------------------------------------------------------
\* What each front end promises holds of them together: media goes to a call,
\* a connected call was answered and the other side knows of it or is told, a
\* group key is the members', a command reaches the bot it was routed to, a
\* message decrypts just when none before it under its key is lost, a name told
\* to be ours is ours, an engine is lost only behind a failed init, a sender is
\* misled only by other traffic, what was received is held until the exit, a
\* logout and a record that was told hold, a run pays once and after what was
\* mined, and what the shell took is shown.  Each with the exceptions that its
\* property names.
THEOREM PromisesAreKept ==
  Spec => [](/\ MediaHasACall
             /\ ConnectedWasAnswered
             /\ ActiveIsShared
             /\ KeyIsTheMembers
             /\ RoutedArrives
             /\ DecryptsUnlessGap
             /\ ToldIsOwned
             /\ LossNeedsFailedInit
             /\ FalseReportNeedsTraffic
             /\ FalseAlarmNeedsTraffic
             /\ HeldUntilExit
             /\ LockedStaysLocked
             /\ ToldIsKept
             /\ OnePaymentPerRun
             /\ PaysAfterTheMined
             /\ ShownUnlessAway)
<1> QED
  BY EachIsItself, MediaGoesToACall, ConnectsTheAccepted,
     ActiveCallsAreShared, KeyBelongsToMembers, RoutedIsDelivered,
     DecryptsWhatFollows, NamesAreKept, LossIsExplained, ReportIsExplained,
     AlarmIsExplained, NothingReceivedIsLost, LogoutKeeps, WhatWasToldIsKept,
     PaysOnce, PaysOnTopOfTheMined, NothingGoesMissing, PTL
  DEF Components

\* Beside the other front ends too, a seed phrase is overwritten only by a
\* command that another one overtook between its check and its save.
THEOREM SeedPhraseIsKeptHere == Spec => OverwriteNeedsOverlap
  BY EachIsItself, SeedPhraseIsKept, PTL DEF Components

\* And a message is handled once, so long as the seen set has room for all
\* that can be handled.
THEOREM HandlesOnceHere == NeverPruned /\ Spec => []HandledOnce
<1> SUFFICES ASSUME NeverPruned PROVE Spec => []HandledOnce
  OBVIOUS
<1>1. RecvSpec => []HandledOnce
  BY RecvHandlesOnce
<1> QED
  BY <1>1, EachIsItself, PTL DEF Components
=============================================================================
