--------------------------- MODULE MCPartyRecords ---------------------------
(* Small instances of PartyRecords for TLC. *)
EXTENDS PartyRecords, TLC

Symmetry == Permutations(Replicas)
=============================================================================
