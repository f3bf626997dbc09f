---------------------------- MODULE DoubleRatchet ----------------------------
(***************************************************************************)
(* The Double Ratchet of encryption.rs between a session opened with       *)
(* init_sender and one opened with init_receiver, over a link that keeps   *)
(* the order of messages and may lose some.                                *)
(*                                                                         *)
(* Keys are symbolic: a key pair is a number; the secret two key pairs     *)
(* agree on is the set of the two; a root key is the sequence of secrets   *)
(* that went into it; a chain key is a root, the label it was derived with *)
(* and how often it was advanced.  A message decrypts exactly when the     *)
(* receiver derives the key it was encrypted with (AES-GCM).               *)
(***************************************************************************)
EXTENDS Naturals, Sequences

CONSTANTS
    MaxPair,      \* bound: the key pairs drawn
    MaxSent,      \* bound: the messages of one chain
    MaxWire       \* bound: the messages in flight one way

ASSUME RatchetAssumption == MaxPair \in Nat /\ MaxPair >= 2

Side == {"alice", "bob"}
Far(d) == IF d = "alice" THEN "bob" ELSE "alice"
Unset == 0        \* their_dh_public = [0u8; 32]

VARIABLES
    root,         \* root_key
    send,         \* chain_key_send
    recv,         \* chain_key_recv
    pair,         \* dh_secret
    their,        \* their_dh_public
    drawn,        \* how many key pairs there are
    ciphertexts,  \* the messages on their way to each party
    gap,          \* history: the keys a message was lost from, per receiver
    outcome       \* history: of the latest decryption

keyVars == <<root, send, recv, pair, their, drawn>>
ratchetVars == <<keyVars, ciphertexts, gap, outcome>>

Chain(r, label) == [root |-> r, label |-> label, n |-> 0]
ZeroChain == Chain(<<>>, "zero")
Advance(chain) == [chain EXCEPT !.n = @ + 1]

Both(a, b) == [d \in Side |-> IF d = "alice" THEN a ELSE b]

\* Bob's key pair is 1 and Alice's 2; the shared secret is the empty root.
RatchetInit ==
    LET first == <<{1, 2}>> IN
    /\ root = Both(first, <<>>)
    /\ send = Both(Chain(first, "send"), ZeroChain)
    /\ recv = Both(Chain(first, "recv"), ZeroChain)
    /\ pair = Both(2, 1)
    /\ their = Both(1, Unset)
    /\ drawn = 2
    /\ ciphertexts = [d \in Side |-> <<>>]
    /\ gap = [d \in Side |-> {}]
    /\ outcome = [ok |-> TRUE, whole |-> TRUE]

\* encrypt, and the message is sent.
Encrypt(d) ==
    /\ send[d].n < MaxSent
    /\ Len(ciphertexts[Far(d)]) < MaxWire
    /\ ciphertexts' = [ciphertexts EXCEPT ![Far(d)] =
                   Append(@, [dh_public |-> pair[d], key |-> send[d]])]
    /\ send' = [send EXCEPT ![d] = Advance(@)]
    /\ UNCHANGED <<root, recv, pair, their, drawn, gap, outcome>>

\* Slip: the new key pair is drawn before the receiving chain is derived.
DrawnFirst(d, theirs) ==
    LET new_root == Append(root[d], {drawn + 1, theirs}) IN
    [recv |-> Chain(new_root, "send"),
     root |-> Append(new_root, {drawn + 1, theirs})]
\* dh_ratchet_step: the receiving chain from our old key pair, the sending
\* chain from a new one.
Stepped(d, theirs) ==
    LET new_root == Append(root[d], {pair[d], theirs}) IN
    [recv |-> Chain(new_root, "send"),
     root |-> Append(new_root, {drawn + 1, theirs})]

\* decrypt: a new public key makes a ratchet step; the receiving chain
\* advances whether or not the message decrypts, and its counter is not read.
Decrypt(d) ==
    /\ ciphertexts[d] # <<>>
    /\ LET m == Head(ciphertexts[d])
           step == Stepped(d, m.dh_public)
           fresh == m.dh_public # their[d]
           chain == IF fresh THEN step.recv ELSE recv[d]
       IN /\ fresh => drawn < MaxPair
          /\ IF fresh
             THEN /\ their' = [their EXCEPT ![d] = m.dh_public]
                  /\ pair' = [pair EXCEPT ![d] = drawn + 1]
                  /\ root' = [root EXCEPT ![d] = step.root]
                  /\ send' = [send EXCEPT ![d] = Chain(step.root, "send")]
                  /\ drawn' = drawn + 1
             ELSE UNCHANGED <<their, pair, root, send, drawn>>
          /\ recv' = [recv EXCEPT ![d] = Advance(chain)]
          /\ outcome' = [ok |-> m.key = chain,
                         whole |-> /\ m.dh_public \notin gap[d]
                                   /\ m.key.label # "zero"]
    /\ ciphertexts' = [ciphertexts EXCEPT ![d] = Tail(@)]
    /\ UNCHANGED gap

Lose(d) ==
    /\ ciphertexts[d] # <<>>
    /\ gap' = [gap EXCEPT ![d] = @ \cup {Head(ciphertexts[d]).dh_public}]
    /\ ciphertexts' = [ciphertexts EXCEPT ![d] = Tail(@)]
    /\ UNCHANGED <<keyVars, outcome>>

RatchetNext == \E d \in Side : Encrypt(d) \/ Decrypt(d) \/ Lose(d)

RatchetSpec == RatchetInit /\ [][RatchetNext]_ratchetVars

-----------------------------------------------------------------------------
(* Properties *)

Pairs == 1 .. MaxPair
ChainOK(c) == c.label \in {"send", "recv", "zero"} /\ c.n \in Nat

RatchetTypeOK ==
    /\ \A d \in Side : ChainOK(send[d]) /\ ChainOK(recv[d])
    /\ pair \in [Side -> Pairs]
    /\ their \in [Side -> Pairs \cup {Unset}]
    /\ drawn \in Pairs
    /\ gap \in [Side -> SUBSET Pairs]

\* A message decrypts exactly when no earlier message under the same public
\* key was lost: the sessions survive messages that cross and whole chains
\* that are lost, and heal with the next key, but have no skipped keys.  (What
\* the receiver of the session sends before it has received anything is
\* encrypted under zeros and never decrypts.)
DecryptsUnlessGap == outcome.ok = outcome.whole
=============================================================================
