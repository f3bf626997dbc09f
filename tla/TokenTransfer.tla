---------------------------- MODULE TokenTransfer ----------------------------
(***************************************************************************)
(* `cipher-cli transfer` (src/commands/transfer.rs): each run asks for the *)
(* nonce of the sender's account, signs one transaction, and hands it to   *)
(* the RPC nodes of the bundle one after the other until one takes it      *)
(* (TksRpcClient::call_failover).  A node may lag behind the chain, refuse *)
(* what it is given, or take it and fail to answer in time.  Nothing keeps *)
(* two runs, or a run and its repetition, apart.                           *)
(*                                                                         *)
(* The recipient and the amount do not matter here; a run that ends before *)
(* it signs is one that never starts, but for the nonce it cannot get.     *)
(***************************************************************************)
EXTENDS Naturals, Sequences, SequencesExt, FiniteSets

CONSTANTS
    Run,          \* the runs of the command, all of one account
    Node,         \* the RPC nodes
    Bundle        \* endpoints_from_bundle: the nodes in their order

ASSUME BundleAssumption == Bundle \in Seq(Node)

VARIABLES
    runStep,      \* where each run is
    tried,        \* how many endpoints it has tried in this call
    nonce,        \* the nonce it signs with
    transactions,  \* the transactions the nodes hold, <<run, nonce>>
    chain,        \* the runs whose payments were executed, in order
    height,       \* how much of the chain each node knows
    knew          \* history: what was executed when a run got its nonce

runVars == <<runStep, tried, nonce, knew>>
chainVars == <<transactions, chain, height>>
transferVars == <<runVars, chainVars>>

TransferInit == /\ runStep = [c \in Run |-> "idle"]
                /\ tried = [c \in Run |-> 0]
                /\ nonce = [c \in Run |-> 0]
                /\ transactions = {}
                /\ chain = <<>>
                /\ height = [n \in Node |-> 0]
                /\ knew = [c \in Run |-> {}]

RunGoes(c, s) == runStep' = [runStep EXCEPT ![c] = s]

Begin(c) == /\ runStep[c] = "idle"
            /\ RunGoes(c, "nonce")
            /\ UNCHANGED <<tried, nonce, knew, chainVars>>

\* call_failover goes on to the next endpoint, or has tried them all.
Endpoint(c) == Bundle[tried[c] + 1]
NextEndpoint(c) ==
    IF tried[c] + 1 < Len(Bundle)
    THEN tried' = [tried EXCEPT ![c] = @ + 1] /\ UNCHANGED runStep
    ELSE tried' = [tried EXCEPT ![c] = 0] /\ RunGoes(c, "failed")

\* Slip: what waits to be executed is counted too, as by the tag "pending".
Pending(n) == height[n] + Cardinality(transactions)
\* eth_getTransactionCount with the tag "latest".
Latest(n) == height[n]

\* get_nonce: the first node that answers.
NonceComes(c) ==
    /\ runStep[c] = "nonce"
    /\ Bundle # <<>>
    /\ nonce' = [nonce EXCEPT ![c] = Latest(Endpoint(c))]
    /\ knew' = [knew EXCEPT ![c] = Range(chain)]
    /\ tried' = [tried EXCEPT ![c] = 0]
    /\ RunGoes(c, "submit")
    /\ UNCHANGED chainVars

NonceFails(c) == /\ runStep[c] = "nonce"
                 /\ NextEndpoint(c)
                 /\ UNCHANGED <<nonce, knew, chainVars>>

\* Slip: each node is given a transaction with the nonce that it reports.
SignedAnew(c) == <<c, Latest(Endpoint(c))>>
\* The transaction is signed once; every node is given the same bytes.
Signed(c) == <<c, nonce[c]>>

\* A node takes no transaction whose nonce it knows was used.
Takes(n, tx) == tx[2] >= height[n]

\* eth_sendRawTransaction: "Transfer Submitted!".
SubmitOk(c) ==
    /\ runStep[c] = "submit"
    /\ Takes(Endpoint(c), Signed(c))
    /\ transactions' = transactions \cup {Signed(c)}
    /\ tried' = [tried EXCEPT ![c] = 0]
    /\ RunGoes(c, "submitted")
    /\ UNCHANGED <<nonce, knew, chain, height>>

\* The node refuses, or cannot be reached, or its answer does not come in
\* time.
SubmitFails(c) ==
    /\ runStep[c] = "submit"
    /\ \/ UNCHANGED transactions
       \/ /\ Takes(Endpoint(c), Signed(c))
          /\ transactions' = transactions \cup {Signed(c)}
    /\ NextEndpoint(c)
    /\ UNCHANGED <<nonce, knew, chain, height>>

-----------------------------------------------------------------------------
(* The chain and its nodes *)

Execute(tx) == /\ tx[2] = Len(chain)
               /\ chain' = Append(chain, tx[1])
               /\ transactions' = transactions \ {tx}
               /\ UNCHANGED <<height, runVars>>

\* Outdated, or too many.
Evict(tx) == /\ transactions' = transactions \ {tx}
             /\ UNCHANGED <<chain, height, runVars>>

Import(n) == /\ height[n] < Len(chain)
             /\ height' = [height EXCEPT ![n] = @ + 1]
             /\ UNCHANGED <<transactions, chain, runVars>>

TransferNext == \/ \E c \in Run : \/ Begin(c)
                                  \/ NonceComes(c) \/ NonceFails(c)
                                  \/ SubmitOk(c) \/ SubmitFails(c)
                \/ \E tx \in transactions : Execute(tx) \/ Evict(tx)
                \/ \E n \in Node : Import(n)

TransferSpec == TransferInit /\ [][TransferNext]_transferVars

-----------------------------------------------------------------------------
(* Properties *)

\* The types, and the nonces: none is ahead of the chain.
TransferTypeOK ==
    /\ runStep \in [Run -> {"idle", "nonce", "submit", "submitted", "failed"}]
    /\ tried \in [Run -> Nat]
    /\ \A c \in Run : tried[c] = 0 \/ tried[c] < Len(Bundle)
    /\ nonce \in [Run -> 0 .. Len(chain)]
    /\ transactions \in SUBSET (Run \X (0 .. Len(chain)))
    /\ chain \in Seq(Run)
    /\ height \in [Node -> 0 .. Len(chain)]
    /\ knew \in [Run -> SUBSET Run]

\* However many nodes a run hands its transaction to, and however their
\* answers are lost, it pays at most once.
OnePaymentPerRun == IsInjective(chain)

\* A run never pays on top of one that was still waiting when it asked for
\* its nonce: who repeats a transfer that failed, or that shows no effect yet,
\* pays twice only if the first was executed before the second began.
PaysAfterTheMined ==
    \A i, j \in DOMAIN chain : i < j => chain[i] \in knew[chain[j]]
=============================================================================
