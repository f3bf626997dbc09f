--------------------------- MODULE CommandsProofs ---------------------------
(***************************************************************************)
(* What the commands of cipher-cli promise that keep files, pay, or talk   *)
(* with the user: for any processes, runs, peers and messages.             *)
(***************************************************************************)
EXTENDS CliSession, CliRecords, TokenTransfer, Shell, FiniteSetTheorems,
        SequenceTheorems, TLAPS

-----------------------------------------------------------------------------
(***************************************************************************)
(* What holds of module CliSession for any processes, identities, lifetime *)
(* of a session and clock: a logout keeps, and a seed phrase is            *)
(* overwritten only by an init that overlapped another one.                *)
(***************************************************************************)

\* Who is about to create a session holds an identity.
HoldersHold ==
    \A p \in Proc :
        sessionStep[p] \in {"create", "login"} => identity[p] \in Identity

\* After a logout nobody is about to create a session.
LockedInv ==
    locked => /\ ~IsSessionActive
              /\ \A p \in Proc : sessionStep[p] \notin {"create", "login"}

\* An init that asks for its password began without a file, or its check is
\* outdated.
OvertakenInv ==
    identityFile # None =>
        {p \in Proc : sessionStep[p] = "new password"} \subseteq overtaken

SessionInv == /\ SessionTypeOK
              /\ HoldersHold
              /\ LockedInv
              /\ OvertakenInv

\* A session was created at some time up to now.
LEMMA CreatedBefore ==
  ASSUME SessionTypeOK
  PROVE  /\ now \in Nat
         /\ session.created_at \in Nat
         /\ session.created_at <= now
<1>1. now \in Nat
  <2>1. now \in 0 .. MaxTime
    BY DEF SessionTypeOK
  <2> QED
    BY <2>1, SessionAssumption
<1>2. CASE session = NoSession
  <2>1. session.created_at = 0
    BY <1>2 DEF NoSession
  <2> QED
    BY <1>1, <2>1
<1>3. CASE session \in [of : Identity, created_at : 0 .. now]
  <2>1. session.created_at \in 0 .. now
    BY <1>3
  <2> QED
    BY <1>1, <2>1
<1> QED
  BY <1>2, <1>3 DEF SessionTypeOK

\* A step that leaves the session and the clock alone activates nothing.
LEMMA StaysInactive ==
  ASSUME UNCHANGED <<session, now>>
  PROVE  IsSessionActive' = IsSessionActive
BY DEF IsSessionActive, Elapsed, NoSession

\* Each access to a file, each step of a command and each tick keeps it.
LEMMA SessionInvStep ==
  ASSUME SessionInv, [SessionNext]_sessionVars
  PROVE  SessionInv'
<1> USE SessionAssumption DEF Goes, Holds
<1>1. ASSUME NEW p \in Proc, LoadFromSession(p)
      PROVE  SessionInv'
  <2>1. CASE IsSessionActive
    <3>1. session.of \in Identity
      BY <2>1 DEF IsSessionActive, SessionInv, SessionTypeOK
    <3> QED
      BY <1>1, <2>1, <3>1
      DEF LoadFromSession, SessionInv, SessionTypeOK, HoldersHold, LockedInv,
          OvertakenInv
  <2>2. CASE ~IsSessionActive
    <3>1. /\ session' = NoSession
          /\ sessionStep' = [sessionStep EXCEPT ![p] = "password"]
          /\ UNCHANGED <<now, identityFile, identity, locked, overtaken>>
      BY <1>1, <2>2 DEF LoadFromSession
    <3>2. ~IsSessionActive'
      BY <3>1 DEF IsSessionActive, NoSession
    <3>3. SessionTypeOK'
      BY <3>1 DEF SessionInv, SessionTypeOK, NoSession
    <3> QED
      BY <3>1, <3>2, <3>3 DEF SessionInv, SessionTypeOK, HoldersHold, LockedInv,
                              OvertakenInv
  <2> QED
    BY <2>1, <2>2
<1>2. ASSUME NEW p \in Proc, CreateSession(p)
      PROVE  SessionInv'
  <2>1. /\ identity[p] \in Identity
        /\ ~locked
    BY <1>2 DEF CreateSession, SessionInv, HoldersHold, LockedInv
  <2>2. /\ session' \in {session, [of |-> identity[p], created_at |-> now]}
        /\ \/ /\ sessionStep' = [sessionStep EXCEPT ![p] = "acting"]
              /\ UNCHANGED identity
           \/ /\ sessionStep' = [sessionStep EXCEPT ![p] = "idle"]
              /\ identity' = [identity EXCEPT ![p] = None]
        /\ UNCHANGED <<now, identityFile, locked, overtaken>>
    BY <1>2 DEF CreateSession
  <2>3. [of |-> identity[p], created_at |-> now] \in
            [of : Identity, created_at : 0 .. now]
    BY <2>1, CreatedBefore DEF SessionInv
  <2>4. session' \in [of : Identity, created_at : 0 .. now] \cup {NoSession}
    BY <2>2, <2>3 DEF SessionInv, SessionTypeOK
  <2>5. SessionTypeOK' /\ HoldersHold'
    BY <2>2, <2>4 DEF SessionInv, SessionTypeOK, HoldersHold, NoSession
  <2>6. OvertakenInv'
    BY <2>2 DEF SessionInv, SessionTypeOK, OvertakenInv
  <2> QED
    BY <2>1, <2>2, <2>5, <2>6 DEF SessionInv, LockedInv
<1>3. ASSUME NEW p \in Proc, GetIdentity(p) \/ RunLogin(p)
      PROVE  SessionInv'
  <2>1. /\ UNCHANGED <<now, identityFile, session, identity, locked, overtaken>>
        /\ \E s \in {"load", "password", "login password"} :
              sessionStep' = [sessionStep EXCEPT ![p] = s]
    BY <1>3 DEF GetIdentity, RunLogin
  <2>2. SessionTypeOK' /\ HoldersHold'
    BY <2>1 DEF SessionInv, SessionTypeOK, HoldersHold, NoSession
  <2>3. LockedInv'
    BY <2>1, StaysInactive DEF SessionInv, SessionTypeOK, LockedInv
  <2>4. OvertakenInv'
    BY <2>1 DEF SessionInv, SessionTypeOK, OvertakenInv
  <2> QED
    BY <2>2, <2>3, <2>4 DEF SessionInv
<1>4. ASSUME NEW p \in Proc, LoadIdentity(p)
      PROVE  SessionInv'
  <2>1. UNCHANGED <<now, identityFile, session, overtaken>>
    BY <1>4 DEF LoadIdentity
  <2>2. CASE /\ identityFile \in Identity
             /\ identity' = [identity EXCEPT ![p] = identityFile]
             /\ \/ sessionStep' = [sessionStep EXCEPT ![p] = "create"]
                \/ sessionStep' = [sessionStep EXCEPT ![p] = "login"]
             /\ locked' = FALSE
    BY <2>1, <2>2 DEF SessionInv, SessionTypeOK, HoldersHold, LockedInv,
                      OvertakenInv
  <2>3. CASE /\ sessionStep' = [sessionStep EXCEPT ![p] = "idle"]
             /\ UNCHANGED <<identity, locked>>
    BY <2>1, <2>3 DEF SessionInv, SessionTypeOK, HoldersHold, LockedInv,
                      OvertakenInv,
                      IsSessionActive, Elapsed
  <2> QED
    BY <1>4, <2>2, <2>3 DEF LoadIdentity, SessionInv, SessionTypeOK
<1>5. ASSUME NEW p \in Proc, Done(p)
      PROVE  SessionInv'
  BY <1>5 DEF Done, IsSessionActive, Elapsed, SessionInv, SessionTypeOK,
              HoldersHold,
              LockedInv, OvertakenInv
<1>6. ASSUME NEW p \in Proc, RunLogout(p)
      PROVE  SessionInv'
  BY <1>6 DEF RunLogout, LoggedIn, Locks, IsSessionActive, Elapsed, SessionInv,
              SessionTypeOK, HoldersHold, LockedInv, OvertakenInv
<1>7. ASSUME NEW p \in Proc, DestroySession(p)
      PROVE  SessionInv'
  <2>1. /\ session' = NoSession
        /\ locked' \in BOOLEAN
        /\ locked' => \A q \in Proc : sessionStep[q] \notin {"create", "login"}
        /\ sessionStep' = [sessionStep EXCEPT ![p] = "idle"]
        /\ UNCHANGED <<now, identityFile, identity, overtaken>>
    BY <1>7 DEF DestroySession, Locks
  <2> QED
    BY <1>7, <2>1 DEF DestroySession, SessionInv, SessionTypeOK, HoldersHold,
                      LockedInv,
                      OvertakenInv, IsSessionActive
<1>8. ASSUME NEW p \in Proc, BeginInit(p)
      PROVE  SessionInv'
  BY <1>8 DEF BeginInit, MayStart, IsSessionActive, Elapsed, SessionInv,
              SessionTypeOK,
              HoldersHold, LockedInv, OvertakenInv
<1>9. ASSUME NEW p \in Proc, NEW i \in Identity, SaveIdentity(p, i)
      PROVE  SessionInv'
  BY <1>9 DEF SaveIdentity, IsSessionActive, Elapsed, SessionInv, SessionTypeOK,
              HoldersHold, LockedInv, OvertakenInv
<1>10. ASSUME NEW p \in Proc, GiveUpInit(p)
       PROVE  SessionInv'
  BY <1>10 DEF GiveUpInit, IsSessionActive, Elapsed, SessionInv, SessionTypeOK,
               HoldersHold, LockedInv, OvertakenInv
<1>11. CASE UserDeletesFile
  BY <1>11 DEF UserDeletesFile, IsSessionActive, Elapsed, SessionInv,
               SessionTypeOK,
               HoldersHold, LockedInv, OvertakenInv
<1>12. CASE Tick
  <2>1. /\ now' = now + 1
        /\ now < MaxTime
        /\ UNCHANGED <<identityFile, session, sessionStep, identity, locked,
                       overtaken>>
    BY <1>12 DEF Tick
  <2>2. now \in Nat /\ session.created_at \in Nat
    BY CreatedBefore DEF SessionInv
  <2>3. SessionTypeOK'
    <3>1. now' \in 0 .. MaxTime
      BY <2>1, <2>2
    <3>2. session' \in [of : Identity, created_at : 0 .. now'] \cup {NoSession}
      <4>1. CASE session = NoSession
        BY <4>1, <2>1 DEF NoSession
      <4>2. CASE session \in [of : Identity, created_at : 0 .. now]
        BY <4>2, <2>1, <2>2
      <4> QED
        BY <4>1, <4>2 DEF SessionInv, SessionTypeOK
    <3> QED
      BY <2>1, <3>1, <3>2 DEF SessionInv, SessionTypeOK, NoSession
  <2>4. IsSessionActive' => IsSessionActive
    BY <2>1, <2>2 DEF IsSessionActive, Elapsed, NoSession
  <2> QED
    BY <2>1, <2>3, <2>4 DEF SessionInv, HoldersHold, LockedInv, OvertakenInv
<1>13. CASE UNCHANGED sessionVars
  BY <1>13 DEF sessionVars, IsSessionActive, Elapsed, SessionInv, SessionTypeOK,
               HoldersHold,
               LockedInv, OvertakenInv
<1> QED
  BY <1>1, <1>2, <1>3, <1>4, <1>5, <1>6, <1>7, <1>8, <1>9, <1>10, <1>11,
     <1>12, <1>13
  DEF SessionNext

\* No session, no file and nobody at work.
LEMMA SessionInvInit == ASSUME SessionInit PROVE SessionInv
<1>1. SessionTypeOK
  <2>1. now \in 0 .. MaxTime
    BY SessionAssumption DEF SessionInit
  <2>2. session \in [of : Identity, created_at : 0 .. now] \cup {NoSession}
    BY DEF SessionInit
  <2> QED
    BY <2>1, <2>2 DEF SessionInit, SessionTypeOK
<1> QED
  BY <1>1 DEF SessionInit, SessionInv, HoldersHold, LockedInv, OvertakenInv

\* The types, in every reachable state: in particular a session was never
\* created in the future.
THEOREM SessionTypes ==
  SessionSpec => []SessionTypeOK
<1>1. SessionInit => SessionInv
  BY SessionInvInit
<1>2. SessionInv /\ [SessionNext]_sessionVars => SessionInv'
  BY SessionInvStep
<1>3. SessionInv => SessionTypeOK
  BY DEF SessionInv
<1> QED
  BY <1>1, <1>2, <1>3, PTL DEF SessionSpec

\* After a logout no session is active until a password was given again.
THEOREM LogoutKeeps ==
  SessionSpec => []LockedStaysLocked
<1>1. SessionInit => SessionInv
  BY SessionInvInit
<1>2. SessionInv /\ [SessionNext]_sessionVars => SessionInv'
  BY SessionInvStep
<1>3. SessionInv => LockedStaysLocked
  BY DEF SessionInv, LockedInv, LockedStaysLocked
<1> QED
  BY <1>1, <1>2, <1>3, PTL DEF SessionSpec

\* A step that overwrites a seed phrase is the save of an init that another
\* one's save has overtaken.
LEMMA OverwriteStep ==
  ASSUME SessionInv, [SessionNext]_sessionVars, identityFile # None,
         identityFile' \notin {None, identityFile}
  PROVE  \E p \in overtaken : /\ sessionStep[p] = "new password"
                               /\ sessionStep'[p] = "idle"
<1>1. PICK p \in Proc, i \in Identity : SaveIdentity(p, i)
  BY DEF SessionNext, sessionVars, LoadFromSession, CreateSession, GetIdentity,
         RunLogin,
         LoadIdentity, Done, RunLogout, DestroySession, BeginInit, GiveUpInit,
         UserDeletesFile, Tick
<1>2. sessionStep[p] = "new password" /\ sessionStep'[p] = "idle"
  BY <1>1 DEF SaveIdentity, Goes, SessionInv, SessionTypeOK
<1>3. p \in overtaken
  BY <1>2 DEF SessionInv, OvertakenInv
<1> QED
  BY <1>2, <1>3

\* A seed phrase on disk is never overwritten otherwise.
THEOREM SeedPhraseIsKept ==
  SessionSpec => OverwriteNeedsOverlap
<1>1. SessionInit => SessionInv
  BY SessionInvInit
<1>2. SessionInv /\ [SessionNext]_sessionVars => SessionInv'
  BY SessionInvStep
<1>3. SessionInv /\ [SessionNext]_sessionVars =>
        [identityFile # None /\ identityFile' \notin {None, identityFile} =>
            \E p \in overtaken : /\ sessionStep[p] = "new password"
                                 /\ sessionStep'[p] = "idle"
        ]_sessionVars
  BY OverwriteStep
<1> QED
  BY <1>1, <1>2, <1>3, PTL DEF SessionSpec, OverwriteNeedsOverlap

-----------------------------------------------------------------------------
(***************************************************************************)
(* What the shell took from the relay is shown, for any messages and       *)
(* peers, so long as no peer was ever in focus and no second client runs.  *)
(***************************************************************************)

\* Each of the two loops waits for the lock at most once, and where it is in
\* its code says whether it does.
ReceiverWaits == receiver \in {"focus", "prompt"}
ReaderWaits == reader \in {"write", "prompt"}
QueueOfWaiters ==
    \/ ~ReceiverWaits /\ ~ReaderWaits /\ queue = <<>>
    \/ ReceiverWaits /\ ~ReaderWaits /\ queue = <<"receiver">>
    \/ ~ReceiverWaits /\ ReaderWaits /\ queue = <<"reader">>
    \/ ReceiverWaits /\ ReaderWaits /\ queue = <<"receiver", "reader">>
    \/ ReceiverWaits /\ ReaderWaits /\ queue = <<"reader", "receiver">>

\* Between two rounds the receiver holds nothing, between two messages no
\* message; when it waits to print the prompt its message has been shown.
HoldsWhatItShould ==
    /\ receiver \in {"collect", "next", "focus", "filter", "prompt"}
    /\ receiver = "collect" => messages = {}
    /\ receiver \in {"collect", "next"} => current = None
    /\ receiver = "prompt" => current \in printed

ShellInv == ShellRunning => /\ QueueOfWaiters
                            /\ HoldsWhatItShould
                            /\ ~focused => focus_peer = None
                            /\ sent \in SUBSET Text
                            /\ ShownUnlessAway

\* What Append adds to a queue of one.
LEMMA AppendToOne ==
    ASSUME NEW a, NEW b
    PROVE  Append(<<b>>, a) = <<b, a>>
<1>1. <<b>> \in Seq({a, b}) /\ Len(<<b>>) = 1 /\ a \in {a, b}
  OBVIOUS
<1>2. /\ Append(<<b>>, a) \in Seq({a, b})
      /\ Len(Append(<<b>>, a)) = 2
      /\ Append(<<b>>, a)[1] = b
      /\ Append(<<b>>, a)[2] = a
  BY <1>1, AppendProperties
<1>3. <<b, a>> \in Seq({a, b}) /\ Len(<<b, a>>) = 2
  OBVIOUS
<1>4. \A i \in 1 .. 2 : Append(<<b>>, a)[i] = <<b, a>>[i]
  BY <1>2
<1> QED
  BY <1>2, <1>3, <1>4, SeqEqual

\* The queue by cases, as sequences.
LEMMA Queues ==
    /\ Append(<<>>, "receiver") = <<"receiver">>
    /\ Append(<<>>, "reader") = <<"reader">>
    /\ Append(<<"reader">>, "receiver") = <<"reader", "receiver">>
    /\ Append(<<"receiver">>, "reader") = <<"receiver", "reader">>
    /\ Head(<<"receiver">>) = "receiver" /\ Tail(<<"receiver">>) = <<>>
    /\ Head(<<"reader">>) = "reader" /\ Tail(<<"reader">>) = <<>>
    /\ Head(<<"receiver", "reader">>) = "receiver"
    /\ Tail(<<"receiver", "reader">>) = <<"reader">>
    /\ Head(<<"reader", "receiver">>) = "reader"
    /\ Tail(<<"reader", "receiver">>) = <<"receiver">>
<1>1. \A a : /\ Append(<<>>, a) = <<a>>
             /\ Head(<<a>>) = a /\ Tail(<<a>>) = <<>>
  OBVIOUS
<1>2. \A a, b : Head(<<a, b>>) = a /\ Tail(<<a, b>>) = <<b>>
  OBVIOUS
<1> QED
  BY <1>1, <1>2, AppendToOne

LEMMA ShellInvStep ==
    ASSUME ShellInv, [ShellNext]_shellVars
    PROVE  ShellInv'
<1> USE DEF ShellRunning
<1>1. ASSUME NEW m \in Text, StoreText(m)
      PROVE  ShellInv'
  BY <1>1 DEF StoreText, receiverVars, inputVars, lockVars, ShellInv,
              QueueOfWaiters,
     ReceiverWaits, ReaderWaits, HoldsWhatItShould, ShownUnlessAway, InMemory
<1>2. ASSUME NEW m \in Text, TakeText(m)
      PROVE  ShellInv'
  BY <1>2 DEF TakeText, receiverVars, inputVars, lockVars, ShellInv,
              QueueOfWaiters,
     ReceiverWaits, ReaderWaits, HoldsWhatItShould, ShownUnlessAway, InMemory
<1>3. CASE Collect
  BY <1>3 DEF Collect, inputVars, lockVars, ShellInv, QueueOfWaiters,
     ReceiverWaits, ReaderWaits, HoldsWhatItShould, ShownUnlessAway, InMemory
<1>4. CASE NextMessage
  <2>1. QueueOfWaiters'
    BY <1>4, Queues DEF NextMessage, Waits, inputVars, clientVars, ShellInv,
       QueueOfWaiters, ReceiverWaits, ReaderWaits
  <2>2. HoldsWhatItShould'
    BY <1>4 DEF NextMessage, inputVars, clientVars, ShellInv, HoldsWhatItShould
  <2>3. ShownUnlessAway'
    BY <1>4, ShellAssumption DEF NextMessage, inputVars, clientVars, ShellInv,
       HoldsWhatItShould, ShownUnlessAway, InMemory
  <2> QED
    BY <1>4, <2>1, <2>2, <2>3 DEF NextMessage, inputVars, clientVars, ShellInv
<1>5. CASE Filter
  <2>1. QueueOfWaiters'
    BY <1>5, Queues DEF Filter, Waits, inputVars, clientVars, ShellInv,
       QueueOfWaiters, ReceiverWaits, ReaderWaits
  <2>2. HoldsWhatItShould'
    BY <1>5 DEF Filter, inputVars, clientVars, ShellInv, HoldsWhatItShould
  <2>3. ShownUnlessAway'
    BY <1>5 DEF Filter, Skips, inputVars, clientVars, ShellInv,
                HoldsWhatItShould,
       ShownUnlessAway, InMemory
  <2> QED
    BY <1>5, <2>1, <2>2, <2>3 DEF Filter, inputVars, clientVars, ShellInv
<1>6. CASE ReceiverReads
  <2>1. ReceiverWaits
    BY <1>6, Queues DEF ReceiverReads, ShellInv, QueueOfWaiters
  <2>2. QueueOfWaiters'
    BY <1>6, <2>1, Queues DEF ReceiverReads, inputVars, clientVars, ShellInv,
       QueueOfWaiters, ReceiverWaits, ReaderWaits
  <2>3. HoldsWhatItShould'
    BY <1>6, <2>1 DEF ReceiverReads, inputVars, clientVars, ShellInv,
                      ReceiverWaits,
       HoldsWhatItShould
  <2>4. ShownUnlessAway'
    BY <1>6, <2>1 DEF ReceiverReads, inputVars, clientVars, ShellInv,
                      ReceiverWaits,
       HoldsWhatItShould, ShownUnlessAway, InMemory
  <2> QED
    BY <1>6, <2>2, <2>3, <2>4 DEF ReceiverReads, inputVars, clientVars, ShellInv
<1>7. ASSUME NEW line \in Lines, Type(line)
      PROVE  ShellInv'
  BY <1>7 DEF Type, clientVars, receiverVars, lockVars, ShellInv,
              QueueOfWaiters,
     ReceiverWaits, ReaderWaits, HoldsWhatItShould, ShownUnlessAway, InMemory
<1>8. CASE Say \/ Status \/ Chat
  <2>1. /\ reader = "input" /\ reader' \in {"prompt", "write"}
        /\ Waits("reader")
        /\ spare => spare'
        /\ UNCHANGED <<focus_peer, focused, sent, shellMail, shellInbox,
                       receiverVars>>
    BY <1>8 DEF Say, Status, Chat, clientVars
  <2>2. QueueOfWaiters'
    BY <2>1, Queues DEF Waits, receiverVars, ShellInv, QueueOfWaiters,
                        ReceiverWaits,
       ReaderWaits
  <2> QED
    BY <2>1, <2>2 DEF receiverVars, ShellInv, HoldsWhatItShould,
                      ShownUnlessAway,
       InMemory
<1>9. CASE Quit
  BY <1>9 DEF Quit, ShellInv
<1>10. CASE ReaderWrites
  <2>1. QueueOfWaiters'
    BY <1>10, Queues DEF ReaderWrites, receiverVars, ShellInv, QueueOfWaiters,
       ReceiverWaits, ReaderWaits
  <2> QED
    BY <1>10, <2>1 DEF ReaderWrites, receiverVars, clientVars, ShellInv,
       HoldsWhatItShould, ShownUnlessAway, InMemory
<1>11. CASE ReaderReads
  <2>1. QueueOfWaiters'
    BY <1>11, Queues DEF ReaderReads, receiverVars, ShellInv, QueueOfWaiters,
       ReceiverWaits, ReaderWaits
  <2> QED
    BY <1>11, <2>1 DEF ReaderReads, receiverVars, clientVars, ShellInv,
       HoldsWhatItShould, ShownUnlessAway, InMemory
<1>12. CASE UNCHANGED shellVars
  BY <1>12 DEF shellVars, receiverVars, inputVars, clientVars, lockVars,
               ShellInv,
     QueueOfWaiters, ReceiverWaits, ReaderWaits, HoldsWhatItShould,
     ShownUnlessAway, InMemory
<1> QED
  BY <1>1, <1>2, <1>3, <1>4, <1>5, <1>6, <1>7, <1>8, <1>9, <1>10, <1>11, <1>12
  DEF ShellNext, ReceiverStep, ReaderStep

\* However the two loops take turns at the focus, and whatever is typed when,
\* nothing that was acknowledged to the relay goes missing between them.
THEOREM NothingGoesMissing ==
    ShellSpec => []ShownUnlessAway
<1>1. ShellInit => ShellInv
  BY DEF ShellInit, ShellInv, ShellRunning, QueueOfWaiters, ReceiverWaits,
         ReaderWaits,
     HoldsWhatItShould, ShownUnlessAway, InMemory
<1>2. ShellInv /\ [ShellNext]_shellVars => ShellInv'
  BY ShellInvStep
<1>3. ShellInv => ShownUnlessAway
  BY DEF ShellInv, ShownUnlessAway
<1> QED
  BY <1>1, <1>2, <1>3, PTL DEF ShellSpec
-----------------------------------------------------------------------------
(***************************************************************************)
(* A run of transfer pays at most once, and pays on top of nothing that    *)
(* was still waiting when it asked for its nonce: for any runs, nodes and  *)
(* bundle, however the nodes lag and the answers get lost.  The chain      *)
(* itself decides: a transaction of nonce n can only be its nth entry.     *)
(***************************************************************************)

\* The run has a nonce and keeps it.
HasNonce(c) == runStep[c] \in {"submit", "submitted", "failed"}

\* What is on the chain, or waits for it, was signed with the nonce that the
\* run still has.
PaidAtNonce ==
    \A i \in DOMAIN chain :
        nonce[chain[i]] = i - 1 /\ HasNonce(chain[i])
WaitsAtNonce ==
    \A c \in Run, n \in Nat :
        <<c, n>> \in transactions => n = nonce[c] /\ HasNonce(c)

\* Below its nonce a run knew the whole chain.
KnewBelow ==
    \A c \in Run : \A i \in 1 .. nonce[c] : chain[i] \in knew[c]

TransferInv == TransferTypeOK /\ PaidAtNonce /\ WaitsAtNonce /\ KnewBelow

LEMMA TransferInvInit == TransferInit => TransferInv
  BY BundleAssumption
  DEF TransferInit, TransferInv, TransferTypeOK, PaidAtNonce, WaitsAtNonce,
      KnewBelow

\* The next endpoint is one of the bundle, or the call has failed.
LEMMA NextEndpointFits ==
  ASSUME TransferTypeOK, NEW c \in Run, NextEndpoint(c)
  PROVE  /\ tried' \in [Run -> Nat]
         /\ \A d \in Run : tried'[d] = 0 \/ tried'[d] < Len(Bundle)
         /\ \/ UNCHANGED runStep
            \/ runStep' = [runStep EXCEPT ![c] = "failed"]
<1>1. tried[c] \in Nat /\ Len(Bundle) \in Nat
  BY BundleAssumption DEF TransferTypeOK
<1>2. CASE tried[c] + 1 < Len(Bundle)
  <2>1. tried' = [tried EXCEPT ![c] = tried[c] + 1] /\ UNCHANGED runStep
    BY <1>2 DEF NextEndpoint
  <2> QED
    BY <1>1, <1>2, <2>1 DEF TransferTypeOK
<1>3. CASE ~(tried[c] + 1 < Len(Bundle))
  <2>1. tried' = [tried EXCEPT ![c] = 0]
        /\ runStep' = [runStep EXCEPT ![c] = "failed"]
    BY <1>3 DEF NextEndpoint, RunGoes
  <2> QED
    BY <2>1 DEF TransferTypeOK
<1> QED
  BY <1>2, <1>3

\* A run that has a nonce keeps it while its transaction is handed on.
LEMMA SubmitStep ==
  ASSUME TransferInv, NEW c \in Run, runStep[c] = "submit",
         tried' \in [Run -> Nat],
         \A d \in Run : tried'[d] = 0 \/ tried'[d] < Len(Bundle),
         \/ UNCHANGED runStep
         \/ runStep' = [runStep EXCEPT ![c] = "failed"]
         \/ runStep' = [runStep EXCEPT ![c] = "submitted"],
         transactions' \in {transactions, transactions \cup {Signed(c)}},
         UNCHANGED <<nonce, knew, chain, height>>
  PROVE  TransferInv'
<1>1. TransferTypeOK'
  <2>1. Signed(c) \in Run \X (0 .. Len(chain))
    BY DEF TransferInv, TransferTypeOK, Signed
  <2>2. runStep' \in [Run -> {"idle", "nonce", "submit", "submitted", "failed"}]
    BY DEF TransferInv, TransferTypeOK
  <2> QED
    BY <2>1, <2>2 DEF TransferInv, TransferTypeOK
<1>2. \A d \in Run : HasNonce(d) => HasNonce(d)'
  BY DEF TransferInv, TransferTypeOK, HasNonce
<1>3. HasNonce(c)'
  BY <1>2 DEF HasNonce
<1>4. PaidAtNonce'
  <2>1. \A i \in DOMAIN chain : chain[i] \in Run
    BY DEF TransferInv, TransferTypeOK
  <2> QED
    BY <1>2, <2>1 DEF TransferInv, PaidAtNonce
<1>5. WaitsAtNonce'
  BY <1>2, <1>3 DEF TransferInv, WaitsAtNonce, Signed
<1>6. KnewBelow'
  BY DEF TransferInv, KnewBelow
<1> QED
  BY <1>1, <1>4, <1>5, <1>6 DEF TransferInv

LEMMA TransferInvStep ==
  TransferInv /\ [TransferNext]_transferVars => TransferInv'
<1> SUFFICES ASSUME TransferInv, [TransferNext]_transferVars
             PROVE  TransferInv'
  OBVIOUS
<1> USE BundleAssumption
<1>0. \A i \in DOMAIN chain : chain[i] \in Run
  BY DEF TransferInv, TransferTypeOK
<1>1. ASSUME NEW c \in Run, Begin(c)
      PROVE  TransferInv'
  <2>1. TransferTypeOK'
    BY <1>1 DEF Begin, RunGoes, chainVars, TransferInv, TransferTypeOK
  <2>2. \A d \in Run : HasNonce(d) => HasNonce(d)'
    BY <1>1 DEF Begin, RunGoes, HasNonce, TransferInv, TransferTypeOK
  <2> QED
    BY <1>0, <1>1, <2>1, <2>2
    DEF Begin, chainVars, TransferInv, PaidAtNonce, WaitsAtNonce, KnewBelow
<1>2. ASSUME NEW c \in Run, NonceComes(c)
      PROVE  TransferInv'
  <2>0. Endpoint(c) \in Node /\ height[Endpoint(c)] \in 0 .. Len(chain)
    <3>0. Len(Bundle) \in Nat \ {0}
      <4>1. Bundle \in Seq(Node) /\ Bundle # <<>>
        BY <1>2 DEF NonceComes
      <4> QED
        BY <4>1, EmptySeq
    <3>1. tried[c] + 1 \in 1 .. Len(Bundle)
      <4>1. tried[c] \in Nat /\ (tried[c] = 0 \/ tried[c] < Len(Bundle))
        BY DEF TransferInv, TransferTypeOK
      <4> HIDE BundleAssumption
      <4> QED
        BY <3>0, <4>1
    <3>2. Bundle[tried[c] + 1] \in Node
      BY <3>1
    <3> QED
      BY <3>2 DEF Endpoint, TransferInv, TransferTypeOK
  <2>1. TransferTypeOK'
    <3>1. Range(chain) \in SUBSET Run
      BY <1>0 DEF Range
    <3>2. /\ runStep' = [runStep EXCEPT ![c] = "submit"]
          /\ tried' = [tried EXCEPT ![c] = 0]
          /\ nonce' = [nonce EXCEPT ![c] = height[Endpoint(c)]]
          /\ knew' = [knew EXCEPT ![c] = Range(chain)]
          /\ UNCHANGED <<transactions, chain, height>>
      BY <1>2 DEF NonceComes, RunGoes, chainVars, Latest
    <3> QED
      BY <2>0, <3>1, <3>2 DEF TransferInv, TransferTypeOK
  <2>2. ~HasNonce(c)
    BY <1>2 DEF NonceComes, HasNonce
  <2>3. \A d \in Run : d # c => /\ HasNonce(d) => HasNonce(d)'
                                /\ nonce'[d] = nonce[d]
                                /\ knew'[d] = knew[d]
    BY <1>2
    DEF NonceComes, RunGoes, HasNonce, TransferInv, TransferTypeOK
  <2>4. UNCHANGED <<chain, transactions>>
    BY <1>2 DEF NonceComes, chainVars
  <2>5. PaidAtNonce'
    BY <1>0, <2>2, <2>3, <2>4 DEF TransferInv, PaidAtNonce
  <2>6. WaitsAtNonce'
    BY <2>2, <2>3, <2>4 DEF TransferInv, WaitsAtNonce
  <2>7. \A i \in 1 .. nonce'[c] : chain[i] \in knew'[c]
    BY <1>2, <2>0
    DEF NonceComes, Latest, Range, TransferInv, TransferTypeOK
  <2>8. KnewBelow'
    BY <2>3, <2>4, <2>7 DEF TransferInv, KnewBelow
  <2> QED
    BY <2>1, <2>5, <2>6, <2>8 DEF TransferInv
<1>3. ASSUME NEW c \in Run, NonceFails(c)
      PROVE  TransferInv'
  <2>1. /\ tried' \in [Run -> Nat]
        /\ \A d \in Run : tried'[d] = 0 \/ tried'[d] < Len(Bundle)
        /\ \/ UNCHANGED runStep
           \/ runStep' = [runStep EXCEPT ![c] = "failed"]
    BY <1>3, NextEndpointFits DEF NonceFails, TransferInv
  <2>2. TransferTypeOK'
    BY <1>3, <2>1 DEF NonceFails, chainVars, TransferInv, TransferTypeOK
  <2>3. \A d \in Run : HasNonce(d) => HasNonce(d)'
    BY <1>3, <2>1 DEF NonceFails, HasNonce, TransferInv, TransferTypeOK
  <2> QED
    BY <1>0, <1>3, <2>2, <2>3
    DEF NonceFails, chainVars, TransferInv, PaidAtNonce, WaitsAtNonce,
        KnewBelow
<1>4. ASSUME NEW c \in Run, SubmitOk(c)
      PROVE  TransferInv'
  <2>1. /\ tried' \in [Run -> Nat]
        /\ \A d \in Run : tried'[d] = 0 \/ tried'[d] < Len(Bundle)
    BY <1>4 DEF SubmitOk, TransferInv, TransferTypeOK
  <2> QED
    BY <1>4, <2>1, SubmitStep DEF SubmitOk, RunGoes
<1>5. ASSUME NEW c \in Run, SubmitFails(c)
      PROVE  TransferInv'
  BY <1>5, NextEndpointFits, SubmitStep DEF SubmitFails, TransferInv
<1>6. ASSUME NEW tx \in transactions, Execute(tx)
      PROVE  TransferInv'
  <2>1. PICK c \in Run, n \in Nat : tx = <<c, n>>
    BY DEF TransferInv, TransferTypeOK
  <2>2. /\ n = Len(chain)
        /\ chain' = Append(chain, c)
        /\ transactions' = transactions \ {tx}
        /\ UNCHANGED <<height, runStep, tried, nonce, knew>>
    BY <1>6, <2>1 DEF Execute, runVars
  <2>3. n = nonce[c] /\ HasNonce(c)
    BY <2>1 DEF TransferInv, WaitsAtNonce
  <2>4. /\ chain' \in Seq(Run)
        /\ Len(chain') = Len(chain) + 1
        /\ \A i \in 1 .. Len(chain) : chain'[i] = chain[i]
        /\ chain'[Len(chain) + 1] = c
    BY <2>2 DEF TransferInv, TransferTypeOK
  <2>5. TransferTypeOK'
    <3>1. nonce' \in [Run -> 0 .. Len(chain')]
      BY <2>2, <2>4 DEF TransferInv, TransferTypeOK
    <3>2. transactions' \in SUBSET (Run \X (0 .. Len(chain')))
      BY <2>2, <2>4 DEF TransferInv, TransferTypeOK
    <3>3. height' \in [Node -> 0 .. Len(chain')]
      BY <2>2, <2>4 DEF TransferInv, TransferTypeOK
    <3> QED
      BY <2>2, <2>4, <3>1, <3>2, <3>3 DEF TransferInv, TransferTypeOK
  <2>6. PaidAtNonce'
    BY <1>0, <2>2, <2>3, <2>4
    DEF TransferInv, TransferTypeOK, PaidAtNonce, HasNonce
  <2>7. WaitsAtNonce'
    BY <2>2 DEF TransferInv, WaitsAtNonce, HasNonce
  <2>8. KnewBelow'
    BY <2>2, <2>4 DEF TransferInv, TransferTypeOK, KnewBelow
  <2> QED
    BY <2>5, <2>6, <2>7, <2>8 DEF TransferInv
<1>7. ASSUME NEW tx \in transactions, Evict(tx)
      PROVE  TransferInv'
  BY <1>7
  DEF Evict, runVars, TransferInv, TransferTypeOK, PaidAtNonce, WaitsAtNonce,
      KnewBelow, HasNonce
<1>8. ASSUME NEW n \in Node, Import(n)
      PROVE  TransferInv'
  <2>1. TransferTypeOK'
    BY <1>8 DEF Import, runVars, TransferInv, TransferTypeOK
  <2> QED
    BY <1>8, <2>1
    DEF Import, runVars, TransferInv, PaidAtNonce, WaitsAtNonce, KnewBelow,
        HasNonce
<1>9. CASE UNCHANGED transferVars
  BY <1>9
  DEF transferVars, runVars, chainVars, TransferInv, TransferTypeOK,
      PaidAtNonce, WaitsAtNonce, KnewBelow, HasNonce
<1> QED
  BY <1>1, <1>2, <1>3, <1>4, <1>5, <1>6, <1>7, <1>8, <1>9 DEF TransferNext

LEMMA TransferInvariant == TransferSpec => []TransferInv
  BY TransferInvInit, TransferInvStep, PTL DEF TransferSpec

\* However many nodes a run hands its transaction to, and however their
\* answers are lost, it pays at most once (commands/transfer.rs,
\* TksRpcClient::call_failover): its nonce is the place on the chain.
THEOREM PaysOnce == TransferSpec => []OnePaymentPerRun
<1>1. TransferInv => OnePaymentPerRun
  BY DEF TransferInv, TransferTypeOK, PaidAtNonce, OnePaymentPerRun,
         IsInjective
<1> QED
  BY <1>1, TransferInvariant, PTL

\* A run never pays on top of a transfer that was still waiting when it asked
\* for its nonce: eth_getTransactionCount "latest" leaves that one out, and
\* only one of the two can have the nonce.
THEOREM PaysOnTopOfTheMined == TransferSpec => []PaysAfterTheMined
<1>1. TransferInv => PaysAfterTheMined
  <2> SUFFICES ASSUME TransferInv, NEW i \in DOMAIN chain,
                      NEW j \in DOMAIN chain, i < j
               PROVE  chain[i] \in knew[chain[j]]
    BY DEF PaysAfterTheMined
  <2>1. chain[j] \in Run /\ i \in Nat /\ j \in Nat /\ i >= 1
    BY DEF TransferInv, TransferTypeOK
  <2>2. nonce[chain[j]] = j - 1
    BY DEF TransferInv, PaidAtNonce
  <2> QED
    BY <2>1, <2>2 DEF TransferInv, KnewBelow
<1> QED
  BY <1>1, TransferInvariant, PTL
-----------------------------------------------------------------------------
(***************************************************************************)
(* What `cipher-cli group` and `cipher-cli channel` said is stored stays   *)
(* in the file, for any processes, records and members, until a command    *)
(* writes an outdated copy or finds the file torn.  A copy that no other   *)
(* command has outdated differs from the file by its own edit.             *)
(***************************************************************************)

\* A record that does not exist has no members.
Sound(f) == \A r \in Record : ~f[r].exists => f[r].members = {}

\* What p adds, and what the file has and p does not drop, is in its copy.
CopyKeeps(p) ==
    \A r \in Record, m \in Member :
        /\ m \in file[r].members \/ <<r, m>> \in edit[p].add
        /\ <<r, m>> \notin edit[p].drop
        => m \in copy[p][r].members

\* What was told is in the file, which may be torn by now.
ToldIsWritten ==
    \A r \in Record, m \in Member :
        <<r, m>> \in told => m \in file[r].members

RecordsInv ==
    /\ RecordsTypeOK
    /\ Sound(file)
    /\ \A p \in Editor : Sound(copy[p])
    /\ ~raced =>
          /\ ToldIsWritten
          /\ \A p \in Editor :
                step[p] # "idle" /\ p \notin late => CopyKeeps(p)

\* The four commands load and edit.  It is enough to know what they make of
\* the record: it exists, and has the members it had, with those the command
\* adds and without those it drops.
LEMMA LoadStep ==
  ASSUME RecordsInv, NEW p \in Editor, NEW r \in Record, NEW new \in Records,
         NEW e \in [add : SUBSET (Record \X Member),
                    drop : SUBSET (Record \X Member)],
         LoadsAndEdits(p, r, new, e),
         new.exists,
         \A q \in Record, m \in Member :
             <<q, m>> \in e.add => q = r /\ m \in new.members,
         \A m \in Member :
             m \in Loaded[r].members /\ <<r, m>> \notin e.drop =>
                 m \in new.members
  PROVE  RecordsInv'
<1>1. /\ step[p] = "idle"
      /\ copy' = [copy EXCEPT ![p] = [Loaded EXCEPT ![r] = new]]
      /\ edit' = [edit EXCEPT ![p] = e]
      /\ raced' = (raced \/ torn)
      /\ step' = [step EXCEPT ![p] = "save"]
      /\ UNCHANGED <<file, torn, late, told>>
  BY DEF LoadsAndEdits, EditorGoes
<1>2. Loaded \in [Record -> Records] /\ Sound(Loaded)
  BY DEF Loaded, Empty, NoRecord, RecordsInv, RecordsTypeOK, Records, Sound
<1>3. RecordsTypeOK'
  <2>1. [Loaded EXCEPT ![r] = new] \in [Record -> Records]
    BY <1>2
  <2>2. raced' \in BOOLEAN
    BY <1>1 DEF RecordsInv, RecordsTypeOK
  <2>3. copy' \in [Editor -> [Record -> Records]]
    BY <1>1, <2>1 DEF RecordsInv, RecordsTypeOK
  <2> QED
    BY <1>1, <2>2, <2>3 DEF RecordsInv, RecordsTypeOK
<1>4. Sound(file)' /\ \A q \in Editor : Sound(copy[q])'
  <2>1. Sound([Loaded EXCEPT ![r] = new])
    BY <1>2 DEF Sound
  <2>2. \A q \in Editor : Sound(copy'[q])
    BY <1>1, <2>1 DEF RecordsInv, RecordsTypeOK
  <2> QED
    BY <1>1, <2>2 DEF RecordsInv, Sound
<1>5. ASSUME ~raced'
      PROVE  /\ ToldIsWritten'
             /\ \A q \in Editor :
                   step'[q] # "idle" /\ q \notin late' => CopyKeeps(q)'
  <2>1. ~raced /\ Loaded = file
    BY <1>1, <1>5 DEF Loaded, RecordsInv, RecordsTypeOK
  <2>2. ToldIsWritten'
    BY <1>1, <2>1 DEF RecordsInv, ToldIsWritten
  <2>3. CopyKeeps(p)'
    <3>1. copy'[p] = [file EXCEPT ![r] = new] /\ edit'[p] = e
      BY <1>1, <2>1 DEF RecordsInv, RecordsTypeOK
    <3> SUFFICES ASSUME NEW q \in Record, NEW m \in Member,
                        m \in file[q].members \/ <<q, m>> \in e.add,
                        <<q, m>> \notin e.drop
                 PROVE  m \in copy'[p][q].members
      BY <1>1, <3>1 DEF CopyKeeps
    <3>2. CASE q = r
      <4>1. copy'[p][q] = new
        BY <3>1, <3>2 DEF RecordsInv, RecordsTypeOK
      <4> QED
        BY <2>1, <3>2, <4>1
    <3>3. CASE q # r
      <4>1. copy'[p][q] = file[q]
        BY <3>1, <3>3 DEF RecordsInv, RecordsTypeOK
      <4> QED
        BY <3>3, <4>1
    <3> QED
      BY <3>2, <3>3
  <2>4. ASSUME NEW q \in Editor \ {p}, step'[q] # "idle", q \notin late'
        PROVE  CopyKeeps(q)'
    <3>1. /\ copy'[q] = copy[q] /\ edit'[q] = edit[q]
          /\ step'[q] = step[q]
      BY <1>1 DEF RecordsInv, RecordsTypeOK
    <3>2. CopyKeeps(q)
      BY <1>1, <2>1, <2>4, <3>1 DEF RecordsInv
    <3> QED
      BY <1>1, <3>1, <3>2 DEF CopyKeeps
  <2> QED
    BY <2>2, <2>3, <2>4
<1> QED
  BY <1>3, <1>4, <1>5 DEF RecordsInv

LEMMA RecordsInvInit == RecordsInit => RecordsInv
<1> SUFFICES ASSUME RecordsInit PROVE RecordsInv
  OBVIOUS
<1>1. Empty \in [Record -> Records] /\ Sound(Empty)
  BY DEF Empty, NoRecord, Records, Sound
<1>2. NoEdit \in [add : SUBSET (Record \X Member),
                 drop : SUBSET (Record \X Member)]
  BY DEF NoEdit
<1>3. RecordsTypeOK
  BY <1>1, <1>2 DEF RecordsInit, RecordsTypeOK
<1>4. Sound(file) /\ \A p \in Editor : Sound(copy[p])
  BY <1>1 DEF RecordsInit
<1>5. ToldIsWritten /\ \A p \in Editor : step[p] = "idle"
  BY DEF RecordsInit, ToldIsWritten
<1> QED
  BY <1>3, <1>4, <1>5 DEF RecordsInv

LEMMA RecordsInvStep == RecordsInv /\ [RecordsNext]_recordsVars => RecordsInv'
<1> SUFFICES ASSUME RecordsInv, [RecordsNext]_recordsVars
             PROVE  RecordsInv'
  OBVIOUS
<1>0. /\ Loaded \in [Record -> Records] /\ Sound(Loaded)
      /\ Self \in Member
  BY DEF Loaded, Empty, NoRecord, RecordsInv, RecordsTypeOK, Records, Sound,
         Member
<1>1. ASSUME NEW p \in Editor, NEW r \in Record, Create(p, r)
      PROVE  RecordsInv'
  <2>1. NewRecord \in Records /\ NewRecord.exists
        /\ NewRecord.members = {Self}
    BY <1>0 DEF NewRecord, Records
  <2>2. Loaded[r].members = {}
    BY <1>1 DEF Create, Loaded, Empty, NoRecord, RecordsInv, Sound
  <2>3. [add |-> {<<r, Self>>}, drop |-> {}] \in
            [add : SUBSET (Record \X Member), drop : SUBSET (Record \X Member)]
    BY <1>0
  <2> QED
    BY <1>1, <2>1, <2>2, <2>3, LoadStep DEF Create
<1>2. ASSUME NEW p \in Editor, NEW r \in Record, NEW m \in Member,
             Enlist(p, r, m)
      PROVE  RecordsInv'
  <2> DEFINE new == [Loaded[r] EXCEPT !.members = @ \cup {m}]
  <2>1. new \in Records /\ new.exists
        /\ new.members = Loaded[r].members \cup {m}
    BY <1>0, <1>2 DEF Enlist, Records
  <2>3. [add |-> {<<r, m>>}, drop |-> {}] \in
            [add : SUBSET (Record \X Member), drop : SUBSET (Record \X Member)]
    OBVIOUS
  <2>4. LoadsAndEdits(p, r, new, [add |-> {<<r, m>>}, drop |-> {}])
    BY <1>2 DEF Enlist
  <2> HIDE DEF new
  <2> QED
    BY <2>1, <2>3, <2>4, LoadStep
<1>3. ASSUME NEW p \in Editor, NEW r \in Record, Leave(p, r)
      PROVE  RecordsInv'
  <2> DEFINE new == [Loaded[r] EXCEPT !.members = @ \ {Self}]
  <2>1. new \in Records /\ new.exists
        /\ new.members = Loaded[r].members \ {Self}
    BY <1>0, <1>3 DEF Leave, Records
  <2>3. [add |-> {}, drop |-> {<<r, Self>>}] \in
            [add : SUBSET (Record \X Member), drop : SUBSET (Record \X Member)]
    BY <1>0
  <2>4. LoadsAndEdits(p, r, new, [add |-> {}, drop |-> {<<r, Self>>}])
    BY <1>3 DEF Leave
  <2> HIDE DEF new
  <2> QED
    BY <2>1, <2>3, <2>4, LoadStep
<1>4. ASSUME NEW p \in Editor, NEW r \in Record, Post(p, r)
      PROVE  RecordsInv'
  <2>1. NoEdit \in [add : SUBSET (Record \X Member),
                    drop : SUBSET (Record \X Member)]
        /\ NoEdit.add = {}
    BY DEF NoEdit
  <2> QED
    BY <1>0, <1>4, <2>1, LoadStep DEF Post
<1>5. ASSUME NEW p \in Editor, Truncate(p)
      PROVE  RecordsInv'
  <2>1. RecordsTypeOK' /\ UNCHANGED <<file, copy, edit, late, told, raced>>
    BY <1>5 DEF Truncate, EditorGoes, RecordsInv, RecordsTypeOK
  <2>2. \A q \in Editor : step'[q] # "idle" => step[q] # "idle"
    BY <1>5 DEF Truncate, EditorGoes, RecordsInv, RecordsTypeOK
  <2> QED
    BY <2>1, <2>2 DEF RecordsInv, Sound, ToldIsWritten, CopyKeeps
<1>6. ASSUME NEW p \in Editor, Write(p)
      PROVE  RecordsInv'
  <2>1. /\ file' = copy[p]
        /\ told' = (told \cup edit[p].add) \ edit[p].drop
        /\ raced' = (raced \/ p \in late)
        /\ late' = {q \in Editor \ {p} : step[q] # "idle"} \cup (late \ {p})
        /\ step' = [step EXCEPT ![p] = "idle"]
        /\ copy' = [copy EXCEPT ![p] = Empty]
        /\ edit' = [edit EXCEPT ![p] = NoEdit]
        /\ torn' \in BOOLEAN
        /\ step[p] = "write"
    BY <1>6 DEF Write, EditorGoes
  <2>2. Empty \in [Record -> Records] /\ Sound(Empty)
    BY DEF Empty, NoRecord, Records, Sound
  <2>3. NoEdit \in [add : SUBSET (Record \X Member),
                    drop : SUBSET (Record \X Member)]
    BY DEF NoEdit
  <2>4. RecordsTypeOK'
    BY <2>1, <2>2, <2>3 DEF RecordsInv, RecordsTypeOK
  <2>5. Sound(file)' /\ \A q \in Editor : Sound(copy[q])'
    <3>1. Sound(copy[p])
      BY DEF RecordsInv
    <3>2. \A q \in Editor : Sound(copy'[q])
      BY <2>1, <2>2 DEF RecordsInv, RecordsTypeOK
    <3> QED
      BY <2>1, <3>1, <3>2 DEF Sound
  <2>6. ASSUME ~raced'
        PROVE  ToldIsWritten'
    <3>1. ~raced /\ CopyKeeps(p) /\ ToldIsWritten
      BY <2>1, <2>6 DEF RecordsInv, RecordsTypeOK
    <3> QED
      BY <2>1, <3>1 DEF CopyKeeps, ToldIsWritten
  <2>7. \A q \in Editor : step'[q] = "idle" \/ q \in late'
    BY <2>1 DEF RecordsInv, RecordsTypeOK
  <2> QED
    BY <2>4, <2>5, <2>6, <2>7 DEF RecordsInv
<1>7. ASSUME NEW p \in Editor, Die(p)
      PROVE  RecordsInv'
  <2>1. /\ step' = [step EXCEPT ![p] = "idle"]
        /\ copy' = [copy EXCEPT ![p] = Empty]
        /\ edit' = [edit EXCEPT ![p] = NoEdit]
        /\ late' = late \ {p}
        /\ UNCHANGED <<file, told, raced>>
    BY <1>7 DEF Die, EditorGoes
  <2>2. torn' \in BOOLEAN
    BY <1>7 DEF Die, RecordsInv, RecordsTypeOK
  <2>3. Empty \in [Record -> Records] /\ Sound(Empty)
    BY DEF Empty, NoRecord, Records, Sound
  <2>4. NoEdit \in [add : SUBSET (Record \X Member),
                    drop : SUBSET (Record \X Member)]
    BY DEF NoEdit
  <2>5. RecordsTypeOK'
    BY <2>1, <2>2, <2>3, <2>4 DEF RecordsInv, RecordsTypeOK
  <2>6. \A q \in Editor : Sound(copy'[q])
    BY <2>1, <2>3 DEF RecordsInv, RecordsTypeOK
  <2>7. \A q \in Editor :
           step'[q] # "idle" =>
               /\ step[q] # "idle"
               /\ copy'[q] = copy[q] /\ edit'[q] = edit[q]
               /\ q \notin late' => q \notin late
    BY <2>1 DEF RecordsInv, RecordsTypeOK
  <2>8. \A q \in Editor :
           step'[q] # "idle" /\ CopyKeeps(q) => CopyKeeps(q)'
    BY <2>1, <2>7 DEF CopyKeeps
  <2> QED
    BY <2>1, <2>5, <2>6, <2>7, <2>8
    DEF RecordsInv, Sound, ToldIsWritten
<1>8. CASE UNCHANGED recordsVars
  BY <1>8 DEF recordsVars, RecordsInv, RecordsTypeOK, Sound, ToldIsWritten,
              CopyKeeps
<1> QED
  BY <1>1, <1>2, <1>3, <1>4, <1>5, <1>6, <1>7, <1>8 DEF RecordsNext

LEMMA RecordsInvariant == RecordsSpec => []RecordsInv
  BY RecordsInvInit, RecordsInvStep, PTL DEF RecordsSpec

\* What a command said it stored is in the file (save_groups and
\* save_channels of commands/groups.rs and channels.rs), unless a copy that
\* another command had outdated was written, or a torn file was read.
THEOREM WhatWasToldIsKept == RecordsSpec => []ToldIsKept
<1>1. RecordsInv => ToldIsKept
  BY DEF RecordsInv, RecordsTypeOK, ToldIsWritten, ToldIsKept
<1> QED
  BY <1>1, RecordsInvariant, PTL

-----------------------------------------------------------------------------
(* The types of the shell: what it prints it has.                          *)

ShellTypes ==
    /\ ShellTypeOK
    /\ ShellRunning /\ receiver \in {"focus", "filter", "prompt"} =>
          current # None
    /\ ~ShellRunning => queue = <<>>

LEMMA QueueTypes ==
    ASSUME NEW q,
           \/ q = <<>> \/ q = <<"receiver">> \/ q = <<"reader">>
           \/ q = <<"receiver", "reader">> \/ q = <<"reader", "receiver">>
    PROVE  q \in Seq({"reader", "receiver"}) /\ Len(q) <= 2
<1>1. \A a, b \in {"reader", "receiver"} :
         /\ <<>> \in Seq({"reader", "receiver"}) /\ Len(<<>>) <= 2
         /\ <<a>> \in Seq({"reader", "receiver"}) /\ Len(<<a>>) <= 2
         /\ <<a, b>> \in Seq({"reader", "receiver"}) /\ Len(<<a, b>>) <= 2
  OBVIOUS
<1> QED
  BY <1>1

LEMMA ShellTypesStep ==
    ASSUME ShellInv, ShellTypes, [ShellNext]_shellVars
    PROVE  ShellTypes'
<1> USE DEF ShellRunning, ShellTypes, ShellTypeOK
<1>0. ShellInv' /\ None \notin Text /\ None \notin Peer
  BY ShellInvStep, ShellAssumption
<1>q. ASSUME ShellRunning'
      PROVE  queue' \in Seq({"reader", "receiver"}) /\ Len(queue') <= 2
  <2>1. QueueOfWaiters'
    BY <1>0, <1>q DEF ShellInv
  <2>2. \/ queue' = <<>> \/ queue' = <<"receiver">> \/ queue' = <<"reader">>
        \/ queue' = <<"receiver", "reader">>
        \/ queue' = <<"reader", "receiver">>
    BY <2>1 DEF QueueOfWaiters
  <2> QED
    BY <2>2, QueueTypes
<1>1. ASSUME NEW m \in Text, StoreText(m)
      PROVE  ShellTypes'
  BY <1>1 DEF StoreText, receiverVars, inputVars, lockVars
<1>2. ASSUME NEW m \in Text, TakeText(m)
      PROVE  ShellTypes'
  BY <1>2 DEF TakeText, receiverVars, inputVars, lockVars
<1>3. CASE Collect
  BY <1>3 DEF Collect, inputVars, lockVars
<1>4. CASE NextMessage
  <2>1. /\ ShellRunning /\ UNCHANGED <<printed, guards, clientVars, inputVars>>
        /\ \/ /\ receiver' = "collect"
              /\ messages' = messages /\ current' = current
           \/ \E m \in messages : /\ current' = m /\ receiver' = "focus"
                                  /\ messages' = messages \ {m}
    BY <1>4 DEF NextMessage
  <2>2. ShellRunning'
    BY <2>1 DEF inputVars
  <2>3. messages' \subseteq messages /\ current' \in sent \cup {None}
        /\ receiver' \in {"collect", "focus"}
        /\ receiver' = "focus" => current' # None
    BY <1>0, <2>1
  <2> QED
    BY <1>q, <2>1, <2>2, <2>3 DEF clientVars, inputVars
<1>5. CASE Filter
  <2>1. /\ ShellRunning /\ receiver = "filter"
        /\ \/ receiver' = "next" /\ guards' = 0 /\ printed' = printed
              /\ current' = None
           \/ receiver' = "prompt" /\ guards' = guards /\ current' = current
              /\ printed' = printed \cup {current}
        /\ UNCHANGED <<messages, clientVars, inputVars>>
    BY <1>5 DEF Filter
  <2>2. ShellRunning'
    BY <2>1 DEF inputVars
  <2>3. printed' \in SUBSET sent
    BY <2>1
  <2>4. guards' \in 0 .. 1
    BY <2>1
  <2> QED
    BY <1>q, <2>1, <2>2, <2>3, <2>4 DEF clientVars, inputVars
<1>6. CASE ReceiverReads
  <2>1. receiver \in {"focus", "prompt"}
    BY <1>6, Queues DEF ReceiverReads, ShellInv, QueueOfWaiters, ReceiverWaits
  <2>2. /\ ShellRunning
        /\ \/ receiver' = "filter" /\ guards' = 1 /\ current' = current
           \/ receiver' = "next" /\ guards' = 0 /\ current' = None
        /\ UNCHANGED <<messages, printed, clientVars, inputVars>>
    BY <1>6 DEF ReceiverReads
  <2>3. ShellRunning' /\ guards' \in 0 .. 1
    BY <2>2 DEF inputVars
  <2> QED
    BY <1>q, <2>1, <2>2, <2>3 DEF clientVars, inputVars
<1>7. ASSUME NEW line \in Lines, Type(line)
      PROVE  ShellTypes'
  BY <1>7 DEF Type, clientVars, receiverVars, lockVars
<1>8. CASE Say \/ Status \/ Chat
  <2>1. /\ reader' \in {"prompt", "write"} /\ typed' = None
        /\ spare' \in BOOLEAN /\ target' \in Peer \cup {"all", None}
        /\ ShellRunning
        /\ UNCHANGED <<focus_peer, focused, sent, shellMail, shellInbox,
                       strays, receiverVars, guards>>
    BY <1>8 DEF Say, Status, Chat, clientVars
  <2>2. ShellRunning'
    BY <2>1
  <2> QED
    BY <1>q, <2>1, <2>2 DEF receiverVars
<1>9. CASE Quit
  <2>1. /\ reader' = "ended" /\ queue' = <<>> /\ guards' = 0
        /\ shellInbox' = {} /\ strays' = {} /\ messages' = {}
        /\ current' = None
        /\ UNCHANGED <<typed, target, focus_peer, focused, sent, shellMail,
                       spare, receiver, printed>>
    BY <1>9 DEF Quit
  <2>2. /\ queue' \in Seq({"reader", "receiver"}) /\ Len(queue') <= 2
        /\ guards' \in 0 .. 1
    BY <2>1
  <2> QED
    BY <2>1, <2>2
<1>10. CASE ReaderWrites
  <2>1. /\ focus_peer' \in Peer \cup {None} /\ focused' \in BOOLEAN
        /\ target' = None /\ reader' = "prompt"
        /\ UNCHANGED <<typed, guards, clientVars, receiverVars>>
        /\ ShellRunning
    BY <1>10 DEF ReaderWrites
  <2>2. ShellRunning'
    BY <2>1
  <2> QED
    BY <1>q, <2>1, <2>2 DEF clientVars, receiverVars
<1>11. CASE ReaderReads
  <2>1. /\ reader' = "input" /\ ShellRunning
        /\ UNCHANGED <<typed, target, focus_peer, focused, guards, clientVars,
                       receiverVars>>
    BY <1>11 DEF ReaderReads
  <2>2. ShellRunning'
    BY <2>1
  <2> QED
    BY <1>q, <2>1, <2>2 DEF clientVars, receiverVars
<1>12. CASE UNCHANGED shellVars
  BY <1>12 DEF shellVars, receiverVars, inputVars, clientVars, lockVars
<1> QED
  BY <1>1, <1>2, <1>3, <1>4, <1>5, <1>6, <1>7, <1>8, <1>9, <1>10, <1>11, <1>12
  DEF ShellNext, ReceiverStep, ReaderStep

LEMMA ShellTypesInvariant == ShellSpec => []ShellTypeOK
<1>1. ShellInit => ShellInv
  BY DEF ShellInit, ShellInv, ShellRunning, QueueOfWaiters, ReceiverWaits,
     ReaderWaits, HoldsWhatItShould, ShownUnlessAway, InMemory
<1>2. ShellInit => ShellTypes
  <2>1. <<>> \in Seq({"reader", "receiver"}) /\ Len(<<>>) <= 2 /\ 0 \in 0 .. 1
    OBVIOUS
  <2> QED
    BY <2>1 DEF ShellInit, ShellTypes, ShellTypeOK, ShellRunning
<1>3. ShellTypes => ShellTypeOK
  BY DEF ShellTypes
<1> QED
  BY <1>1, <1>2, <1>3, ShellInvStep, ShellTypesStep, PTL DEF ShellSpec
=============================================================================
