--------------------------------- MODULE Vec ---------------------------------
(***************************************************************************)
(* Vec::retain, with which the managers drop members and sessions: the     *)
(* entries of a sequence that stay, in the order they had.  (It is written *)
(* without recursion so that proofs can use it.)                           *)
(***************************************************************************)
EXTENDS Naturals, Sequences, FiniteSets

\* The j-th smallest number of K.
Nth(K, j) == CHOOSE i \in K : Cardinality({k \in K : k <= i}) = j

\* The entries of s whose indexes are in K.
Retain(s, K) == [j \in 1 .. Cardinality(K) |-> s[Nth(K, j)]]
=============================================================================
