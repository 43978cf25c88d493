---------------------------- MODULE MCAuthSession ----------------------------
(* Small instances of AuthSession for TLC. *)
EXTENDS AuthSession

OneScope == {"read"}
OneRequest == {OneScope}
OfUsers == [u \in Users |-> OneScope]
=============================================================================
