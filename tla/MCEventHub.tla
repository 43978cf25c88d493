------------------------------ MODULE MCEventHub ------------------------------
(* Small instances of EventHub for TLC. *)
EXTENDS EventHub, TLC

\* A subscription without a query, one for KYC changes.
Both == {"changed", "kyc"}
Queries == [s \in Subscribers |-> IF s = "all" THEN Both ELSE {"kyc"}]

Symmetry == Permutations(Replicas)
=============================================================================
