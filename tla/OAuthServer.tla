----------------------------- MODULE OAuthServer -----------------------------
(***************************************************************************)
(* The gateway's OAuth2 authorization server: the login that issues an     *)
(* authorization code, and the token endpoint with its two grants          *)
(* (gateway/src/routes/auth.ts over gateway/src/auth/oauth.ts).  Each      *)
(* gateway replica keeps codes and refresh tokens in a Map of its own,     *)
(* which a restart empties; access tokens are signed, so no state is kept  *)
(* for them.                                                               *)
(*                                                                         *)
(* The browsers are free here: they may present any code or refresh token  *)
(* they were ever sent, again, late, to any replica, with a code_verifier  *)
(* that fits or not.  Handlers do not await between reading and writing a  *)
(* Map, so each is one step.                                               *)
(***************************************************************************)
EXTENDS Naturals, FiniteSets

CONSTANTS
  Replicas,     \* gateway pods
  Users,
  Scopes,       \* the scopes a browser may ask for
  Requests,     \* the sets of scopes they do ask for
  UserScopes,   \* the scopes of each user
  ClientScopes, \* allowedScopes of the one public client
  MaxLogins,    \* bound: codes issued
  MaxPairs,     \* bound: token pairs issued
  MaxRestarts   \* bound: restarts of replicas

ASSUME ScopeAssumption ==
  /\ Requests \subseteq SUBSET Scopes
  /\ UserScopes \in [Users -> SUBSET Scopes]
  /\ ClientScopes \subseteq Scopes
ASSUME BoundAssumption ==
  MaxLogins \in Nat /\ MaxPairs \in Nat /\ MaxRestarts \in Nat

VARIABLES
  authCodes,     \* each replica's Map of authorization codes
  refreshTokens, \* each replica's Map of refresh tokens
  logins,        \* the number of codes issued; a code is its index
  pairs,         \* history: the token pairs issued; a pair is its index
  attempts,      \* history: how often each code passed consumption
  expired,       \* the codes and refresh tokens past their expiresAt
  restarts       \* the number of restarts so far

vars == << authCodes, refreshTokens, logins, pairs, attempts,
           expired, restarts >>

-----------------------------------------------------------------------------
(* Values *)

\* An entry of authCodes; asked are the scopes of the authorization request.
Codes == [ id : Nat, user : Users, asked : SUBSET Scopes,
           scopes : SUBSET ClientScopes, used : BOOLEAN ]

\* An entry of refreshTokens.  asked and login are history: the scopes and the
\* code its chain began with.
Tokens == [ id : Nat, user : Users, asked : SUBSET Scopes,
            scopes : SUBSET ClientScopes, login : Nat ]

\* A pair; from is the kind of grant and key the code or token it was for.
Pairs == [ id : Nat, from : {"code", "refresh"}, key : Nat, user : Users,
           asked : SUBSET Scopes, scopes : SUBSET ClientScopes, login : Nat ]

Code(c) == << "code", c >>
Refresh(t) == << "refresh", t >>

\* The entry a replica has under a key: a set of at most one.
CodesAt(r, c) == {e \in authCodes[r] : e.id = c}
TokensAt(r, t) == {e \in refreshTokens[r] : e.id = t}

Init ==
  /\ authCodes = [r \in Replicas |-> {}]
  /\ refreshTokens = [r \in Replicas |-> {}]
  /\ logins = 0
  /\ pairs = {}
  /\ attempts = [c \in 1 .. MaxLogins |-> 0]
  /\ expired = {}
  /\ restarts = 0

-----------------------------------------------------------------------------
\* Mutant of Allowed: the scopes asked for are granted.
AllowedAsAsked(asked, u) == asked

\* intersectScopes(requested, client.allowedScopes of the user's scopes)
Allowed(asked, u) == asked \cap {s \in ClientScopes : s \in UserScopes[u]}

\* GET /authorize keeps nothing; POST /login checks the password and creates
\* the code for the scopes the authorization request asked for (openid, when it
\* named none).
Login(r, u, asked) ==
  /\ logins < MaxLogins
  /\ logins' = logins + 1
  /\ authCodes' = [authCodes EXCEPT ![r] = @ \cup
       {[id |-> logins', user |-> u, asked |-> asked,
         scopes |-> Allowed(asked, u), used |-> FALSE]}]
  /\ UNCHANGED << refreshTokens, pairs, attempts, expired, restarts >>

\* Mutant of Consume: the entry is not marked.
ConsumeUnmarked(r, e) ==
  /\ ~e.used /\ Code(e.id) \notin expired
  /\ UNCHANGED authCodes
  /\ attempts' = [attempts EXCEPT ![e.id] = @ + 1]

\* consumeAuthorizationCode when it returns the entry: it is marked used.
Consume(r, e) ==
  /\ ~e.used /\ Code(e.id) \notin expired
  /\ authCodes' = [authCodes EXCEPT ![r] =
                    (@ \ {e}) \cup {[e EXCEPT !.used = TRUE]}]
  /\ attempts' = [attempts EXCEPT ![e.id] = @ + 1]

\* Mutant of IssuePair: the token that was presented is kept.
IssuePairBesides(r, from, key, e, login, spent) ==
  LET n == Cardinality(pairs) + 1 IN
  /\ n <= MaxPairs
  /\ pairs' = pairs \cup {[id |-> n, from |-> from, key |-> key, user |-> e.user,
                           asked |-> e.asked, scopes |-> e.scopes,
                           login |-> login]}
  /\ refreshTokens' = [refreshTokens EXCEPT ![r] = @ \cup
       {[id |-> n, user |-> e.user, asked |-> e.asked, scopes |-> e.scopes,
         login |-> login]}]

\* Mutant of IssuePair: a pair carries all the scopes of the user.
IssuePairForUser(r, from, key, e, login, spent) ==
  LET n == Cardinality(pairs) + 1
      scopes == ClientScopes \cap UserScopes[e.user] IN
  /\ n <= MaxPairs
  /\ pairs' = pairs \cup {[id |-> n, from |-> from, key |-> key, user |-> e.user,
                           asked |-> e.asked, scopes |-> scopes,
                           login |-> login]}
  /\ refreshTokens' = [refreshTokens EXCEPT ![r] = (@ \ spent) \cup
       {[id |-> n, user |-> e.user, asked |-> e.asked, scopes |-> scopes,
         login |-> login]}]

\* generateTokenPair: only the refresh token is remembered.  spent is the entry
\* of the token the pair is exchanged for, if any.
IssuePair(r, from, key, e, login, spent) ==
  LET n == Cardinality(pairs) + 1 IN
  /\ n <= MaxPairs
  /\ pairs' = pairs \cup {[id |-> n, from |-> from, key |-> key, user |-> e.user,
                           asked |-> e.asked, scopes |-> e.scopes,
                           login |-> login]}
  /\ refreshTokens' = [refreshTokens EXCEPT ![r] = (@ \ spent) \cup
       {[id |-> n, user |-> e.user, asked |-> e.asked, scopes |-> e.scopes,
         login |-> login]}]

\* POST /token with a code, and the client, redirect_uri and code_verifier it
\* was issued for.
Redeem(r, e) ==
  /\ Consume(r, e)
  /\ IssuePair(r, "code", e.id, e, e.id, {})
  /\ UNCHANGED << logins, expired, restarts >>

\* ... with another client, redirect_uri or code_verifier: the code is consumed
\* before they are compared.
Mismatch(r, e) ==
  /\ Consume(r, e)
  /\ UNCHANGED << refreshTokens, logins, pairs, expired, restarts >>

\* ... with a code that is unknown to the replica, used or expired.  An expired
\* one that was not used is deleted on the way.
RefuseCode(r, c) ==
  /\ \A e \in CodesAt(r, c) : e.used \/ Code(c) \in expired
  /\ authCodes' = [authCodes EXCEPT ![r] = {e \in @ : e.id # c \/ e.used}]
  /\ UNCHANGED << refreshTokens, logins, pairs, attempts, expired, restarts >>

\* POST /token with a refresh token the replica knows: it is exchanged for a
\* pair with the same scopes, kept by the same replica.
Rotate(r, e) ==
  /\ Refresh(e.id) \notin expired
  /\ IssuePair(r, "refresh", e.id, e, e.login, {e})
  /\ UNCHANGED << authCodes, logins, attempts, expired, restarts >>

\* ... with one that is unknown to it or expired; an expired one is deleted.
RefuseToken(r, t) ==
  /\ \A e \in TokensAt(r, t) : Refresh(t) \in expired
  /\ refreshTokens' = [refreshTokens EXCEPT ![r] = @ \ TokensAt(r, t)]
  /\ UNCHANGED << authCodes, logins, pairs, attempts, expired, restarts >>

\* Time passes: a code is 10 minutes old, a refresh token refreshTokenTtlDays.
Keys == {Code(c) : c \in 1 .. logins} \cup {Refresh(p.id) : p \in pairs}
Expire(key) ==
  /\ expired' = expired \cup {key}
  /\ UNCHANGED << authCodes, refreshTokens, logins, pairs, attempts, restarts >>

\* The timers that delete a code: 10 minutes after it was created, 5 seconds
\* after it was consumed.  Refresh tokens have none.
DropCode(r, e) ==
  /\ e.used \/ Code(e.id) \in expired
  /\ authCodes' = [authCodes EXCEPT ![r] = @ \ {e}]
  /\ UNCHANGED << refreshTokens, logins, pairs, attempts, expired, restarts >>

\* A replica is replaced, in a rollout or after a crash: its Maps start empty.
Restart(r) ==
  /\ restarts < MaxRestarts
  /\ restarts' = restarts + 1
  /\ authCodes' = [authCodes EXCEPT ![r] = {}]
  /\ refreshTokens' = [refreshTokens EXCEPT ![r] = {}]
  /\ UNCHANGED << logins, pairs, attempts, expired >>

TokenEndpoint(r) ==
  \/ \E e \in authCodes[r] : Redeem(r, e) \/ Mismatch(r, e)
  \/ \E c \in 1 .. logins : RefuseCode(r, c)
  \/ \E e \in refreshTokens[r] : Rotate(r, e)
  \/ \E p \in pairs : RefuseToken(r, p.id)

Next ==
  \/ \E key \in Keys : Expire(key)
  \/ \E r \in Replicas :
       \/ \E u \in Users, asked \in Requests : Login(r, u, asked)
       \/ TokenEndpoint(r)
       \/ \E e \in authCodes[r] : DropCode(r, e)
       \/ Restart(r)

Spec == Init /\ [][Next]_vars

-----------------------------------------------------------------------------
(* Properties *)

\* The types of the two Maps of every replica and of the histories: what is kept
\* or signed never carries a scope the client is not allowed.
TypeOK ==
  /\ authCodes \in [Replicas -> SUBSET Codes]
  /\ refreshTokens \in [Replicas -> SUBSET Tokens]
  /\ logins \in 0 .. MaxLogins
  /\ pairs \subseteq Pairs
  /\ attempts \in [1 .. MaxLogins -> Nat]
  /\ expired \subseteq Keys
  /\ restarts \in 0 .. MaxRestarts

\* "Mark as used - single use only" and "Refresh token rotation - invalidate
\* old, issue new" (oauth.ts): over all replicas, whatever is presented again,
\* a code passes consumption at most once, so that it yields nothing after a
\* wrong code_verifier, and a code or refresh token is exchanged for at most
\* one pair.
SpentOnce ==
  /\ \A c \in 1 .. MaxLogins : attempts[c] <= 1
  /\ \A p, q \in pairs : p.from = q.from /\ p.key = q.key => p = q

\* All that a login leaves is one thing, its unused code or the latest refresh
\* token of its chain: presenting keys again, in any order, to any replica,
\* never makes two, and what was handed on or lost never comes back.  That is
\* the promise of LoginGrant.
KeptFor(l) ==
  {Code(e.id) : e \in {e \in UNION {authCodes[r] : r \in Replicas} :
                         e.id = l /\ ~e.used}} \cup
  {Refresh(e.id) : e \in {e \in UNION {refreshTokens[r] : r \in Replicas} :
                         e.login = l}}
Grant == [l \in 1 .. MaxLogins |->
           IF l > logins THEN {<< "none", 0 >>} ELSE KeptFor(l)]
Grants == INSTANCE LoginGrant WITH Logins <- 1 .. MaxLogins, grant <- Grant
GrantSpec == Grants!GSpec

\* However often a chain is rotated, a pair carries exactly the scopes that were
\* asked for at its login and that client and user both have: rotation and
\* redemption neither widen nor lose a scope.
ScopesKept ==
  \A p \in pairs : p.scopes = p.asked \cap ClientScopes \cap UserScopes[p.user]
=============================================================================
