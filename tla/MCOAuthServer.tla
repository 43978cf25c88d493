---------------------------- MODULE MCOAuthServer ----------------------------
(* Small instances of OAuthServer for TLC. *)
EXTENDS OAuthServer, TLC

\* An analyst and a manager, and a scope neither of them nor the client has.
SomeScopes == {"read", "write", "other"}
SomeRequests == {{"read"}, {"read", "write", "other"}}
OfClient == {"read", "write"}
OfUsers == [u \in Users |-> IF u = "analyst" THEN {"read"} ELSE OfClient]

Symmetry == Permutations(Replicas)
=============================================================================
