---------------------------- MODULE MCTabSession ----------------------------
(* Small instances of TabSession for TLC. *)
EXTENDS TabSession, TLC

AllScopes == Scopes
\* The manager and the admin have the same scopes.
DemoScopes == [u \in Users |-> IF u = "analyst" THEN {"party:read"} ELSE Scopes]

\* Tabs are interchangeable.
Symmetry == Permutations(Tabs)
=============================================================================
