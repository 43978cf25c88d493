------------------------------ MODULE LoginGrant ------------------------------
(***************************************************************************)
(* What the token endpoint promises for each login: one grant that is      *)
(* handed on, from the authorization code to the refresh tokens in the     *)
(* order of their issue, until it is over.  It never forks, is never       *)
(* handed back, and nothing follows its end.                               *)
(***************************************************************************)
EXTENDS Naturals

CONSTANT Logins

VARIABLE grant \* what is kept for each login: nothing, once it is over

ToCome == {<< "none", 0 >>}
Code(l) == << "code", l >>
Refresh(n) == << "refresh", n >>

GInit == grant = [l \in Logins |-> ToCome]

Issue(l) ==
  /\ grant[l] = ToCome
  /\ grant' = [grant EXCEPT ![l] = {Code(l)}]

\* The code for the first token, or a token for a later one.
Exchange(l) ==
  /\ \E old \in grant[l] :
       /\ grant[l] = {old} /\ old \notin ToCome
       /\ \E new \in grant'[l] :
            /\ grant'[l] = {new} /\ new[1] = "refresh"
            /\ old[1] = "refresh" => old[2] < new[2]
  /\ grant' = [grant EXCEPT ![l] = grant'[l]]

\* Used up, expired, or forgotten with the replica that kept them.
End(over) ==
  /\ \A l \in over : grant[l] # ToCome
  /\ grant' = [l \in Logins |-> IF l \in over THEN {} ELSE grant[l]]

GNext ==
  \/ \E l \in Logins : Issue(l) \/ Exchange(l)
  \/ \E over \in SUBSET Logins : End(over)

GSpec == GInit /\ [][GNext]_grant
=============================================================================
