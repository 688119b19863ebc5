-------------------------- MODULE MCContractQuery --------------------------
(* Two queries and a transaction, one node. *)
EXTENDS ContractQuery, TLC

CONSTANTS q1, q2, t1

MCNonce == q1 :> 1 @@ q2 :> 2 @@ t1 :> 0

=============================================================================
