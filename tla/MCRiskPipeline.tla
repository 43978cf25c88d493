--------------------------- MODULE MCRiskPipeline ---------------------------
(* Small instances of RiskPipeline for TLC. *)
EXTENDS RiskPipeline, TLC

\* A status the language model may answer that the KYCStatus enum lacks.
Statuses3 == {"pending", "in_review", "approved"}
Statuses4 == Statuses3 \cup {"rejected"}
OutOfEnum == {"approved", "manual_review"}

AllFaults == FaultKinds
\* Faults that lose no job and leave no PATCH behind to be served late.
Lossless == {"rollout", "patch_lost", "reply_lost"}

\* Replicas and customers are interchangeable.
Symmetry ==
  Permutations(Customers) \cup Permutations(Gateways) \cup Permutations(Workers)
=============================================================================
