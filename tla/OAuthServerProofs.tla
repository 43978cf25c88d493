-------------------------- MODULE OAuthServerProofs --------------------------
(***************************************************************************)
(* Proofs about OAuthServer, for any replicas, users, scopes and bounds.   *)
(***************************************************************************)
EXTENDS OAuthServer, FiniteSetTheorems, TLAPS

-----------------------------------------------------------------------------
(* The inductive invariant *)

\* One replica has a code, once; a code not yet used was never consumed.
CodesInv ==
  /\ \A r \in Replicas : \A e \in authCodes[r] :
       e.id \in 1 .. logins /\ (~e.used => attempts[e.id] = 0)
  /\ \A r, s \in Replicas : \A e \in authCodes[r], f \in authCodes[s] :
       e.id = f.id => r = s /\ e = f
  /\ \A c \in 1 .. MaxLogins : /\ attempts[c] <= 1
                               /\ c > logins => attempts[c] = 0

\* Pairs are numbered in the order of their issue, for a code that was consumed
\* or an earlier token, and no code or token has two.
PairsInv ==
  /\ IsFiniteSet(pairs)
  /\ \A p \in pairs :
       /\ p.id \in 1 .. Cardinality(pairs)
       /\ p.from = "code" => p.key \in 1 .. logins /\ attempts[p.key] = 1
       /\ p.from = "refresh" => p.key < p.id
  /\ \A p, q \in pairs : p.from = q.from /\ p.key = q.key => p = q

\* A kept token was not exchanged, the code of its login was consumed, and it is
\* the only one, over all replicas, of its number and of its login.
TokensInv ==
  /\ \A r \in Replicas : \A e \in refreshTokens[r] :
       /\ e.id \in 1 .. Cardinality(pairs)
       /\ e.login \in 1 .. logins /\ attempts[e.login] = 1
       /\ \A p \in pairs : p.from = "refresh" => p.key # e.id
  /\ \A r, s \in Replicas : \A e \in refreshTokens[r], f \in refreshTokens[s] :
       e.id = f.id \/ e.login = f.login => r = s /\ e = f

\* Whatever is kept or issued carries what was granted at the login.
Granted(e) == e.scopes = Allowed(e.asked, e.user)
ScopesInv ==
  /\ \A r \in Replicas : /\ \A e \in authCodes[r] : Granted(e)
                         /\ \A e \in refreshTokens[r] : Granted(e)
  /\ \A p \in pairs : Granted(p)

OAuthInv == TypeOK /\ CodesInv /\ PairsInv /\ TokensInv /\ ScopesInv
-----------------------------------------------------------------------------
(* The kinds of steps *)

\* Refusals, timers, restarts and the passing of time only forget.
Forget ==
  /\ \A r \in Replicas : authCodes'[r] \subseteq authCodes[r]
  /\ \A r \in Replicas : refreshTokens'[r] \subseteq refreshTokens[r]
  /\ UNCHANGED << logins, pairs, attempts >>

\* Every step issues a code, consumes one, exchanges a code or a token, or
\* forgets.
LEMMA StepKinds ==
  ASSUME TypeOK, [Next]_vars
  PROVE  \/ \E r \in Replicas, u \in Users, asked \in Requests :
              Login(r, u, asked)
         \/ \E r \in Replicas : \E e \in authCodes[r] :
              Redeem(r, e) \/ Mismatch(r, e)
         \/ \E r \in Replicas : \E e \in refreshTokens[r] : Rotate(r, e)
         \/ Forget
<1>1. ASSUME NEW key \in Keys, Expire(key) PROVE Forget
  BY <1>1 DEF Expire, Forget
<1>2. ASSUME NEW r \in Replicas, NEW c \in 1 .. logins, RefuseCode(r, c)
      PROVE  Forget
  BY <1>2 DEF RefuseCode, Forget, TypeOK
<1>3. ASSUME NEW r \in Replicas, NEW p \in pairs, RefuseToken(r, p.id)
      PROVE  Forget
  BY <1>3 DEF RefuseToken, Forget, TypeOK
<1>4. ASSUME NEW r \in Replicas, NEW e \in authCodes[r], DropCode(r, e)
      PROVE  Forget
  BY <1>4 DEF DropCode, Forget, TypeOK
<1>5. ASSUME NEW r \in Replicas, Restart(r) PROVE Forget
  BY <1>5 DEF Restart, Forget, TypeOK
<1>6. CASE UNCHANGED vars
  BY <1>6 DEF vars, Forget
<1> QED
  BY <1>1, <1>2, <1>3, <1>4, <1>5, <1>6 DEF Next, TokenEndpoint

-----------------------------------------------------------------------------
(* Type correctness *)

LEMMA AllowedOK ==
  ASSUME NEW asked, NEW u
  PROVE  Allowed(asked, u) \subseteq ClientScopes
BY DEF Allowed

\* A code that is consumed is marked, and stays in its place.
LEMMA ConsumeTypeOK ==
  ASSUME TypeOK, CodesInv, NEW r \in Replicas, NEW e \in authCodes[r],
         Consume(r, e)
  PROVE  /\ authCodes' \in [Replicas -> SUBSET Codes]
         /\ attempts' \in [1 .. MaxLogins -> Nat]
         /\ e \in Codes
         /\ e.id \in 1 .. MaxLogins
<1>1. e \in Codes
  BY DEF TypeOK
<1>2. e.id \in 1 .. MaxLogins
  BY BoundAssumption DEF CodesInv, TypeOK
<1>3. [e EXCEPT !.used = TRUE] \in Codes
  BY <1>1 DEF Codes
<1>4. authCodes' \in [Replicas -> SUBSET Codes]
  BY <1>3 DEF Consume, TypeOK
<1>5. attempts' \in [1 .. MaxLogins -> Nat]
  BY <1>2 DEF Consume, TypeOK
<1> QED
  BY <1>1, <1>2, <1>4, <1>5

\* A pair is issued for a user, scopes and a login of the right types.
LEMMA IssueTypeOK ==
  ASSUME TypeOK, PairsInv, NEW r \in Replicas, NEW from \in {"code", "refresh"},
         NEW key \in Nat, NEW e, NEW login \in Nat, NEW spent,
         e.user \in Users, e.asked \in SUBSET Scopes,
         e.scopes \in SUBSET ClientScopes,
         IssuePair(r, from, key, e, login, spent)
  PROVE  /\ pairs' \subseteq Pairs
         /\ pairs \subseteq pairs'
         /\ refreshTokens' \in [Replicas -> SUBSET Tokens]
<1> DEFINE n == Cardinality(pairs) + 1
<1>1. n \in Nat
  BY FS_CardinalityType DEF PairsInv
<1>2. [id |-> n, from |-> from, key |-> key, user |-> e.user, asked |-> e.asked,
       scopes |-> e.scopes, login |-> login] \in Pairs
  BY <1>1 DEF Pairs
<1>3. [id |-> n, user |-> e.user, asked |-> e.asked, scopes |-> e.scopes,
       login |-> login] \in Tokens
  BY <1>1 DEF Tokens
<1> HIDE DEF n
<1>4. pairs' \subseteq Pairs /\ pairs \subseteq pairs'
  BY <1>2 DEF IssuePair, TypeOK, n
<1>5. refreshTokens' \in [Replicas -> SUBSET Tokens]
  BY <1>3 DEF IssuePair, TypeOK, n
<1> QED
  BY <1>4, <1>5

\* What has expired was issued.
LEMMA KeysGrow ==
  ASSUME TypeOK, pairs \subseteq pairs', logins' \in Nat, logins <= logins',
         expired' = expired
  PROVE  expired' \subseteq Keys'
BY DEF TypeOK, Keys

LEMMA StepTypeOK ==
  ASSUME TypeOK, CodesInv, PairsInv, TokensInv, [Next]_vars
  PROVE  TypeOK'
<1>0. logins \in Nat /\ restarts \in Nat
  BY BoundAssumption DEF TypeOK
<1>1. ASSUME NEW r \in Replicas, NEW u \in Users, NEW asked \in Requests,
             Login(r, u, asked)
      PROVE  TypeOK'
  <2>1. logins' \in 0 .. MaxLogins /\ logins' \in Nat /\ logins <= logins'
    BY <1>0, <1>1, BoundAssumption DEF Login, TypeOK
  <2>2. [id |-> logins', user |-> u, asked |-> asked,
         scopes |-> Allowed(asked, u), used |-> FALSE] \in Codes
    BY <2>1, AllowedOK, ScopeAssumption DEF Codes
  <2>3. authCodes' \in [Replicas -> SUBSET Codes]
    BY <1>1, <2>2 DEF Login, TypeOK
  <2>4. expired' \subseteq Keys'
    BY <1>0, <1>1, <2>1, KeysGrow DEF Login
  <2> QED
    BY <1>1, <2>1, <2>3, <2>4 DEF Login, TypeOK
<1>2. ASSUME NEW r \in Replicas, NEW e \in authCodes[r], Redeem(r, e)
      PROVE  TypeOK'
  <2>1. /\ authCodes' \in [Replicas -> SUBSET Codes]
        /\ attempts' \in [1 .. MaxLogins -> Nat]
        /\ e \in Codes
    BY <1>2, ConsumeTypeOK DEF Redeem
  <2>2. /\ pairs' \subseteq Pairs
        /\ pairs \subseteq pairs'
        /\ refreshTokens' \in [Replicas -> SUBSET Tokens]
    BY <1>2, <2>1, IssueTypeOK DEF Redeem, Codes
  <2>3. expired' \subseteq Keys'
    BY <1>0, <1>2, <2>2, KeysGrow DEF Redeem
  <2> QED
    BY <1>2, <2>1, <2>2, <2>3 DEF Redeem, TypeOK
<1>3. ASSUME NEW r \in Replicas, NEW e \in authCodes[r], Mismatch(r, e)
      PROVE  TypeOK'
  <2>1. /\ authCodes' \in [Replicas -> SUBSET Codes]
        /\ attempts' \in [1 .. MaxLogins -> Nat]
    BY <1>3, ConsumeTypeOK DEF Mismatch
  <2>2. expired' \subseteq Keys'
    BY <1>0, <1>3, KeysGrow DEF Mismatch
  <2> QED
    BY <1>3, <2>1, <2>2 DEF Mismatch, TypeOK
<1>4. ASSUME NEW r \in Replicas, NEW e \in refreshTokens[r], Rotate(r, e)
      PROVE  TypeOK'
  <2>1. e \in Tokens
    BY DEF TypeOK
  <2>2. /\ pairs' \subseteq Pairs
        /\ pairs \subseteq pairs'
        /\ refreshTokens' \in [Replicas -> SUBSET Tokens]
    BY <1>4, <2>1, IssueTypeOK DEF Rotate, Tokens
  <2>3. expired' \subseteq Keys'
    BY <1>0, <1>4, <2>2, KeysGrow DEF Rotate
  <2> QED
    BY <1>4, <2>2, <2>3 DEF Rotate, TypeOK
<1>5. ASSUME NEW r \in Replicas, NEW c \in 1 .. logins, RefuseCode(r, c)
      PROVE  TypeOK'
  BY <1>5 DEF RefuseCode, TypeOK, Keys
<1>6. ASSUME NEW r \in Replicas, NEW p \in pairs, RefuseToken(r, p.id)
      PROVE  TypeOK'
  BY <1>6 DEF RefuseToken, TypeOK, Keys
<1>7. ASSUME NEW r \in Replicas, NEW e \in authCodes[r], DropCode(r, e)
      PROVE  TypeOK'
  BY <1>7 DEF DropCode, TypeOK, Keys
<1>8. ASSUME NEW r \in Replicas, Restart(r) PROVE TypeOK'
  BY <1>0, <1>8, BoundAssumption DEF Restart, TypeOK, Keys
<1>9. ASSUME NEW key \in Keys, Expire(key) PROVE TypeOK'
  <2>1. Keys' = Keys
    BY <1>9 DEF Expire, Keys
  <2> QED
    BY <1>9, <2>1 DEF Expire, TypeOK
<1>10. CASE UNCHANGED vars
  BY <1>10 DEF vars, TypeOK, Keys
<1> QED
  BY <1>1, <1>2, <1>3, <1>4, <1>5, <1>6, <1>7, <1>8, <1>9, <1>10
  DEF Next, TokenEndpoint

-----------------------------------------------------------------------------
(* What each kind of step does to the books *)

\* Consuming a code marks its entry, and touches no other entry.
LEMMA ConsumeEffect ==
  ASSUME TypeOK, CodesInv, NEW r \in Replicas, NEW e \in authCodes[r],
         Consume(r, e)
  PROVE  /\ e.id \in 1 .. logins /\ attempts[e.id] = 0
         /\ attempts' = [attempts EXCEPT ![e.id] = 1]
         /\ \A s \in Replicas : \A f \in authCodes'[s] :
              \/ f \in authCodes[s] /\ f.id # e.id
              \/ s = r /\ f = [e EXCEPT !.used = TRUE]
<1>1. e \in Codes /\ e.id \in 1 .. logins /\ attempts[e.id] = 0
  BY DEF Consume, CodesInv, TypeOK
<1>2. attempts' = [attempts EXCEPT ![e.id] = 1]
  BY <1>1 DEF Consume
<1>3. ASSUME NEW s \in Replicas, NEW f \in authCodes'[s]
      PROVE  \/ f \in authCodes[s] /\ f.id # e.id
             \/ s = r /\ f = [e EXCEPT !.used = TRUE]
  <2>1. authCodes' = [authCodes EXCEPT ![r] =
          (authCodes[r] \ {e}) \cup {[e EXCEPT !.used = TRUE]}]
    BY DEF Consume
  <2>2. \/ f \in authCodes[s] /\ (s # r \/ f # e)
        \/ s = r /\ f = [e EXCEPT !.used = TRUE]
    BY <2>1 DEF TypeOK
  <2>3. f \in authCodes[s] /\ f.id = e.id => s = r /\ f = e
    BY DEF CodesInv
  <2> QED
    BY <2>2, <2>3
<1> QED
  BY <1>1, <1>2, <1>3

\* The entries of a code that is consumed keep the invariant of codes.
LEMMA ConsumeCodesInv ==
  ASSUME TypeOK, CodesInv, NEW r \in Replicas, NEW e \in authCodes[r],
         Consume(r, e), logins' = logins
  PROVE  CodesInv'
<1>1. e \in Codes /\ e.id \in 1 .. MaxLogins
  BY ConsumeTypeOK
<1> DEFINE marked == [e EXCEPT !.used = TRUE]
<1>2. marked.id = e.id /\ marked.used = TRUE
  BY <1>1 DEF Codes
<1>3. /\ e.id \in 1 .. logins /\ attempts[e.id] = 0
      /\ attempts' = [attempts EXCEPT ![e.id] = 1]
      /\ \A s \in Replicas : \A f \in authCodes'[s] :
           \/ f \in authCodes[s] /\ f.id # e.id
           \/ s = r /\ f = marked
  BY ConsumeEffect
<1> HIDE DEF marked
<1>4. \A s \in Replicas : \A f \in authCodes'[s] :
        f.id \in 1 .. logins' /\ (~f.used => attempts'[f.id] = 0)
  BY <1>1, <1>2, <1>3, BoundAssumption DEF CodesInv, TypeOK
<1>5. \A s, t \in Replicas : \A f \in authCodes'[s], g \in authCodes'[t] :
        f.id = g.id => s = t /\ f = g
  BY <1>2, <1>3 DEF CodesInv
<1>6. \A c \in 1 .. MaxLogins : /\ attempts'[c] <= 1
                                /\ c > logins' => attempts'[c] = 0
  BY <1>1, <1>3, BoundAssumption DEF CodesInv, TypeOK
<1> QED
  BY <1>4, <1>5, <1>6 DEF CodesInv

\* The pair and the token of a grant.
PairFor(n, from, key, e, login) ==
  [id |-> n, from |-> from, key |-> key, user |-> e.user, asked |-> e.asked,
   scopes |-> e.scopes, login |-> login]
TokenFor(n, e, login) ==
  [id |-> n, user |-> e.user, asked |-> e.asked, scopes |-> e.scopes,
   login |-> login]

\* A pair gets the next number, and its token replaces the one that was spent.
LEMMA IssueEffect ==
  ASSUME TypeOK, PairsInv, NEW r \in Replicas, NEW from, NEW key, NEW e,
         NEW login, NEW spent, IssuePair(r, from, key, e, login, spent),
         NEW n, n = Cardinality(pairs) + 1
  PROVE  /\ n \in Nat
         /\ pairs' = pairs \cup {PairFor(n, from, key, e, login)}
         /\ refreshTokens' = [refreshTokens EXCEPT ![r] =
              (refreshTokens[r] \ spent) \cup {TokenFor(n, e, login)}]
         /\ IsFiniteSet(pairs') /\ Cardinality(pairs') = n
<1>1. Cardinality(pairs) \in Nat
  BY FS_CardinalityType DEF PairsInv
<1>2. PairFor(n, from, key, e, login) \notin pairs
  BY <1>1 DEF PairsInv, PairFor
<1>3. pairs' = pairs \cup {PairFor(n, from, key, e, login)}
  BY DEF IssuePair, PairFor
<1>4. IsFiniteSet(pairs') /\ Cardinality(pairs') = n
  BY <1>2, <1>3, FS_AddElement DEF PairsInv
<1> QED
  BY <1>1, <1>3, <1>4 DEF IssuePair, TokenFor

\* A pair for a key that has none keeps the invariant of pairs.
LEMMA IssuePairsInv ==
  ASSUME TypeOK, PairsInv, NEW r \in Replicas, NEW from \in {"code", "refresh"},
         NEW key \in Nat, NEW e, NEW login, NEW spent,
         IssuePair(r, from, key, e, login, spent),
         logins' = logins,
         \A p \in pairs : ~(p.from = from /\ p.key = key),
         from = "code" => key \in 1 .. logins /\ attempts'[key] = 1,
         from = "refresh" => key \in 1 .. Cardinality(pairs),
         \A c \in 1 .. logins : attempts[c] = 1 => attempts'[c] = 1
  PROVE  PairsInv'
<1>1. Cardinality(pairs) \in Nat
  BY FS_CardinalityType DEF PairsInv
<1> DEFINE n == Cardinality(pairs) + 1
           pair == PairFor(n, from, key, e, login)
<1>2. /\ n = Cardinality(pairs) + 1 /\ n \in Nat
      /\ pairs' = pairs \cup {pair}
      /\ IsFiniteSet(pairs') /\ Cardinality(pairs') = n
  BY IssueEffect
<1>3. /\ pair.id = n /\ pair.from = from /\ pair.key = key
  BY DEF PairFor
<1> HIDE DEF n, pair
<1>4. ASSUME NEW p \in pairs'
      PROVE  /\ p.id \in 1 .. Cardinality(pairs')
             /\ p.from = "code" => p.key \in 1 .. logins' /\ attempts'[p.key] = 1
             /\ p.from = "refresh" => p.key < p.id
  <2>1. CASE p \in pairs
    BY <1>1, <1>2, <2>1 DEF PairsInv
  <2>2. CASE p = pair
    BY <1>1, <1>2, <1>3, <2>2
  <2> QED
    BY <1>2, <2>1, <2>2
<1>5. \A p, q \in pairs' : p.from = q.from /\ p.key = q.key => p = q
  BY <1>2, <1>3 DEF PairsInv
<1> QED
  BY <1>2, <1>4, <1>5 DEF PairsInv

\* The token of a new pair, kept where the token it was exchanged for was, keeps
\* the invariant of tokens.
LEMMA IssueTokensInv ==
  ASSUME TypeOK, PairsInv, TokensInv, NEW r \in Replicas, NEW from, NEW key,
         NEW e, NEW login, NEW spent,
         IssuePair(r, from, key, e, login, spent),
         logins' = logins, login \in 1 .. logins, attempts'[login] = 1,
         \A c \in 1 .. logins : attempts[c] = 1 => attempts'[c] = 1,
         from = "refresh" => key \in 1 .. Cardinality(pairs),
         \A s \in Replicas : \A f \in refreshTokens[s] :
           f.login = login => s = r /\ f \in spent,
         \A s \in Replicas : \A f \in refreshTokens[s] :
           from = "refresh" /\ f.id = key => s = r /\ f \in spent
  PROVE  TokensInv'
<1>1. Cardinality(pairs) \in Nat
  BY FS_CardinalityType DEF PairsInv
<1> DEFINE n == Cardinality(pairs) + 1
           pair == PairFor(n, from, key, e, login)
           token == TokenFor(n, e, login)
<1>2. /\ n = Cardinality(pairs) + 1 /\ n \in Nat
      /\ pairs' = pairs \cup {pair}
      /\ refreshTokens' = [refreshTokens EXCEPT ![r] =
                            (refreshTokens[r] \ spent) \cup {token}]
      /\ Cardinality(pairs') = n
  BY IssueEffect
<1>3. /\ pair.from = from /\ pair.key = key
      /\ token.id = n /\ token.login = login
  BY DEF PairFor, TokenFor
<1> HIDE DEF n, pair, token
<1>4. \A s \in Replicas : \A f \in refreshTokens'[s] :
        \/ f \in refreshTokens[s] /\ (s # r \/ f \notin spent)
        \/ s = r /\ f = token
  BY <1>2 DEF TypeOK
<1>5. ASSUME NEW s \in Replicas, NEW f \in refreshTokens'[s]
      PROVE  /\ f.id \in 1 .. Cardinality(pairs')
             /\ f.login \in 1 .. logins' /\ attempts'[f.login] = 1
             /\ \A p \in pairs' : p.from = "refresh" => p.key # f.id
  <2>1. CASE f \in refreshTokens[s] /\ (s # r \/ f \notin spent)
    <3>1. ~(from = "refresh" /\ f.id = key)
      BY <2>1
    <3> QED
      BY <1>1, <1>2, <1>3, <2>1, <3>1 DEF TokensInv
  <2>2. CASE s = r /\ f = token
    <3>1. \A p \in pairs : p.from = "refresh" => p.key # n
      BY <1>1, <1>2 DEF PairsInv, TypeOK, Pairs
    <3> QED
      BY <1>1, <1>2, <1>3, <2>2, <3>1
  <2> QED
    BY <1>4, <2>1, <2>2
<1>6. ASSUME NEW s \in Replicas, NEW t \in Replicas,
             NEW f \in refreshTokens'[s], NEW g \in refreshTokens'[t],
             f.id = g.id \/ f.login = g.login
      PROVE  s = t /\ f = g
  <2>1. CASE f = token /\ s = r /\ g = token /\ t = r
    BY <2>1
  <2>2. \A u \in Replicas : \A h \in refreshTokens[u] :
          u # r \/ h \notin spent => h.id # n /\ h.login # login
    BY <1>1, <1>2 DEF TokensInv
  <2> QED
    BY <1>3, <1>4, <1>6, <2>1, <2>2 DEF TokensInv
<1> QED
  BY <1>5, <1>6 DEF TokensInv

\* Forgetting keeps the invariant.
LEMMA ForgetInv ==
  ASSUME CodesInv, PairsInv, TokensInv, ScopesInv, Forget
  PROVE  CodesInv' /\ PairsInv' /\ TokensInv' /\ ScopesInv'
<1>1. CodesInv'
  BY DEF CodesInv, Forget
<1>2. PairsInv'
  BY DEF PairsInv, Forget
<1>3. TokensInv'
  BY DEF TokensInv, Forget
<1>4. ScopesInv'
  BY DEF ScopesInv, Granted, Forget
<1> QED
  BY <1>1, <1>2, <1>3, <1>4

\* A code is new when it is issued: no entry, pair or token has its number.
LEMMA LoginInv ==
  ASSUME TypeOK, CodesInv, PairsInv, TokensInv, ScopesInv,
         NEW r \in Replicas, NEW u \in Users, NEW asked \in Requests,
         Login(r, u, asked)
  PROVE  CodesInv' /\ PairsInv' /\ TokensInv' /\ ScopesInv'
<1> DEFINE n == logins + 1
           code == [id |-> n, user |-> u, asked |-> asked,
                    scopes |-> Allowed(asked, u), used |-> FALSE]
<1>1. /\ logins \in Nat /\ n \in 1 .. MaxLogins
      /\ logins' = n
      /\ UNCHANGED << refreshTokens, pairs, attempts >>
  BY BoundAssumption DEF Login, TypeOK
<1>2. \A s \in Replicas : \A f \in authCodes'[s] :
        f \in authCodes[s] \/ (s = r /\ f = code)
  BY DEF Login, TypeOK
<1>3. code.id = n /\ code.used = FALSE /\ Granted(code)
  BY DEF Granted
<1>4. attempts[n] = 0
  BY <1>1 DEF CodesInv
<1> HIDE DEF n, code
<1>5. CodesInv'
  BY <1>1, <1>2, <1>3, <1>4 DEF CodesInv, n
<1>6. PairsInv'
  BY <1>1 DEF PairsInv, n
<1>7. TokensInv'
  BY <1>1 DEF TokensInv, n
<1>8. ScopesInv'
  BY <1>1, <1>2, <1>3 DEF ScopesInv, Granted
<1> QED
  BY <1>5, <1>6, <1>7, <1>8

\* A pair and a token for what was granted are granted the same.
LEMMA IssueScopesInv ==
  ASSUME TypeOK, PairsInv, ScopesInv, NEW r \in Replicas, NEW from, NEW key,
         NEW e, NEW login, NEW spent,
         IssuePair(r, from, key, e, login, spent), Granted(e),
         \A s \in Replicas : \A f \in authCodes'[s] : Granted(f)
  PROVE  ScopesInv'
<1> DEFINE n == Cardinality(pairs) + 1
           pair == PairFor(n, from, key, e, login)
           token == TokenFor(n, e, login)
<1>1. /\ pairs' = pairs \cup {pair}
      /\ refreshTokens' = [refreshTokens EXCEPT ![r] =
                            (refreshTokens[r] \ spent) \cup {token}]
  BY IssueEffect
<1>2. Granted(pair) /\ Granted(token)
  BY DEF Granted, PairFor, TokenFor
<1> HIDE DEF n, pair, token
<1> QED
  BY <1>1, <1>2 DEF ScopesInv, TypeOK, Granted

\* What follows of the consumption of a code for its pair, if one is issued.
LEMMA ConsumeScopes ==
  ASSUME TypeOK, CodesInv, ScopesInv, NEW r \in Replicas,
         NEW e \in authCodes[r], Consume(r, e)
  PROVE  \A s \in Replicas : \A f \in authCodes'[s] : Granted(f)
<1>1. Granted([e EXCEPT !.used = TRUE])
  BY DEF ScopesInv, Granted, TypeOK, Codes
<1> QED
  BY <1>1, ConsumeEffect DEF ScopesInv

LEMMA RedeemInv ==
  ASSUME TypeOK, CodesInv, PairsInv, TokensInv, ScopesInv,
         NEW r \in Replicas, NEW e \in authCodes[r], Redeem(r, e)
  PROVE  CodesInv' /\ PairsInv' /\ TokensInv' /\ ScopesInv'
<1>1. /\ Consume(r, e)
      /\ IssuePair(r, "code", e.id, e, e.id, {})
      /\ logins' = logins
  BY DEF Redeem
<1>2. /\ e.id \in 1 .. logins /\ attempts[e.id] = 0
      /\ attempts' = [attempts EXCEPT ![e.id] = 1]
      /\ e.id \in 1 .. MaxLogins
  BY <1>1, ConsumeEffect, ConsumeTypeOK
<1>3. attempts'[e.id] = 1
  BY <1>2 DEF TypeOK
<1>4. \A c \in 1 .. logins : attempts[c] = 1 => attempts'[c] = 1
  BY <1>2 DEF TypeOK
<1>5. CodesInv'
  BY <1>1, ConsumeCodesInv
<1>6. \A p \in pairs : ~(p.from = "code" /\ p.key = e.id)
  BY <1>2 DEF PairsInv
<1>7. PairsInv'
  BY <1>1, <1>2, <1>3, <1>4, <1>6, IssuePairsInv
<1>8. \A s \in Replicas : \A f \in refreshTokens[s] : f.login # e.id
  BY <1>2 DEF TokensInv
<1>9. TokensInv'
  BY <1>1, <1>2, <1>3, <1>4, <1>8, IssueTokensInv
<1>10. ScopesInv'
  <2>1. Granted(e)
    BY DEF ScopesInv
  <2> QED
    BY <1>1, <2>1, ConsumeScopes, IssueScopesInv
<1> QED
  BY <1>5, <1>7, <1>9, <1>10

LEMMA MismatchInv ==
  ASSUME TypeOK, CodesInv, PairsInv, TokensInv, ScopesInv,
         NEW r \in Replicas, NEW e \in authCodes[r], Mismatch(r, e)
  PROVE  CodesInv' /\ PairsInv' /\ TokensInv' /\ ScopesInv'
<1>1. Consume(r, e) /\ UNCHANGED << refreshTokens, logins, pairs >>
  BY DEF Mismatch
<1>2. /\ e.id \in 1 .. MaxLogins
      /\ attempts' = [attempts EXCEPT ![e.id] = 1]
  BY <1>1, ConsumeEffect, ConsumeTypeOK
<1>3. \A c \in Nat : c \in 1 .. MaxLogins /\ attempts[c] = 1 => attempts'[c] = 1
  BY <1>2 DEF TypeOK
<1>4. 1 .. logins \subseteq 1 .. MaxLogins
  BY BoundAssumption DEF TypeOK
<1>5. CodesInv'
  BY <1>1, ConsumeCodesInv
<1>6. PairsInv'
  BY <1>1, <1>3, <1>4 DEF PairsInv
<1>7. TokensInv'
  BY <1>1, <1>3, <1>4 DEF TokensInv
<1>8. ScopesInv'
  BY <1>1, ConsumeScopes DEF ScopesInv, Granted
<1> QED
  BY <1>5, <1>6, <1>7, <1>8

LEMMA RotateInv ==
  ASSUME TypeOK, CodesInv, PairsInv, TokensInv, ScopesInv,
         NEW r \in Replicas, NEW e \in refreshTokens[r], Rotate(r, e)
  PROVE  CodesInv' /\ PairsInv' /\ TokensInv' /\ ScopesInv'
<1>1. /\ IssuePair(r, "refresh", e.id, e, e.login, {e})
      /\ UNCHANGED << authCodes, logins, attempts >>
  BY DEF Rotate
<1>2. /\ e \in Tokens
      /\ e.id \in 1 .. Cardinality(pairs)
      /\ e.login \in 1 .. logins /\ attempts[e.login] = 1
      /\ \A p \in pairs : ~(p.from = "refresh" /\ p.key = e.id)
  BY DEF TokensInv, TypeOK
<1>3. \A s \in Replicas : \A f \in refreshTokens[s] :
        f.id = e.id \/ f.login = e.login => s = r /\ f \in {e}
  BY DEF TokensInv
<1>4. e.id \in Nat
  BY <1>2 DEF Tokens
<1>5. CodesInv'
  BY <1>1 DEF CodesInv
<1>6. PairsInv'
  BY <1>1, <1>2, <1>4, IssuePairsInv
<1>7. TokensInv'
  BY <1>1, <1>2, <1>3, IssueTokensInv
<1>8. ScopesInv'
  <2>1. Granted(e) /\ \A s \in Replicas : \A f \in authCodes'[s] : Granted(f)
    BY <1>1 DEF ScopesInv, Granted
  <2> QED
    BY <1>1, <2>1, IssueScopesInv
<1> QED
  BY <1>5, <1>6, <1>7, <1>8

-----------------------------------------------------------------------------
(* The invariant and what it implies *)

LEMMA InitInv == Init => OAuthInv
<1> SUFFICES ASSUME Init PROVE OAuthInv
  OBVIOUS
<1>1. TypeOK
  BY BoundAssumption DEF Init, TypeOK, Keys
<1>2. CodesInv
  BY DEF Init, CodesInv
<1>3. PairsInv /\ TokensInv /\ ScopesInv
  BY FS_EmptySet DEF Init, PairsInv, TokensInv, ScopesInv
<1> QED
  BY <1>1, <1>2, <1>3 DEF OAuthInv

\* Every step of the server keeps the invariant.
LEMMA StepInv == OAuthInv /\ [Next]_vars => OAuthInv'
<1> SUFFICES ASSUME OAuthInv, [Next]_vars PROVE OAuthInv'
  OBVIOUS
<1>0. TypeOK /\ CodesInv /\ PairsInv /\ TokensInv /\ ScopesInv
  BY DEF OAuthInv
<1>1. TypeOK'
  BY <1>0, StepTypeOK
<1>2. CodesInv' /\ PairsInv' /\ TokensInv' /\ ScopesInv'
  BY <1>0, StepKinds, LoginInv, RedeemInv, MismatchInv, RotateInv, ForgetInv
<1> QED
  BY <1>1, <1>2 DEF OAuthInv

\* OAuthInv holds always: of the Maps of all replicas and the histories.
THEOREM OAuthInvariant == Spec => []OAuthInv
<1> QED
  BY InitInv, StepInv, PTL DEF Spec

\* The Maps of every replica and the histories are well typed, whatever the
\* browsers present and whenever replicas restart; no kept or signed scope is
\* outside the client's.
THEOREM OAuthTypeCorrect == Spec => []TypeOK
<1>1. OAuthInv => TypeOK
  BY DEF OAuthInv
<1> QED
  BY <1>1, OAuthInvariant, PTL

\* Over all replicas a code is consumed at most once, and a code or a refresh
\* token is exchanged for at most one pair (consumeAuthorizationCode and the
\* rotation in oauth.ts).
THEOREM KeysSpentOnce == Spec => []SpentOnce
<1>1. OAuthInv => SpentOnce
  BY DEF OAuthInv, CodesInv, PairsInv, SpentOnce
<1> QED
  BY <1>1, OAuthInvariant, PTL

\* However often a chain is rotated, its pairs carry the scopes asked for at the
\* login that client and user both have (intersectScopes).
THEOREM ChainsKeepScopes == Spec => []ScopesKept
<1>1. OAuthInv => ScopesKept
  BY DEF OAuthInv, ScopesInv, Granted, Allowed, ScopesKept, TypeOK, Pairs
<1> QED
  BY <1>1, OAuthInvariant, PTL

-----------------------------------------------------------------------------
(* The server implements LoginGrant *)

\* What is kept for a login is its unused code and its tokens.
LEMMA KeptForMembers ==
  ASSUME NEW l, NEW k
  PROVE  k \in KeptFor(l) <=>
           \/ \E r \in Replicas : \E e \in authCodes[r] :
                e.id = l /\ ~e.used /\ k = Code(e.id)
           \/ \E r \in Replicas : \E e \in refreshTokens[r] :
                e.login = l /\ k = Refresh(e.id)
BY DEF KeptFor

\* A kept key is all that its login has.
OneForEach ==
  \A l \in 1 .. MaxLogins :
    /\ \A r \in Replicas : \A e \in authCodes[r] :
         e.id = l /\ ~e.used => KeptFor(l) = {Code(l)}
    /\ \A r \in Replicas : \A e \in refreshTokens[r] :
         e.login = l => KeptFor(l) = {Refresh(e.id)}
    /\ \E k : KeptFor(l) \subseteq {k}

LEMMA OneKept == OAuthInv => OneForEach
<1> SUFFICES ASSUME OAuthInv, NEW l \in 1 .. MaxLogins
             PROVE  /\ \A r \in Replicas : \A e \in authCodes[r] :
                         e.id = l /\ ~e.used => KeptFor(l) = {Code(l)}
                    /\ \A r \in Replicas : \A e \in refreshTokens[r] :
                         e.login = l => KeptFor(l) = {Refresh(e.id)}
                    /\ \E k : KeptFor(l) \subseteq {k}
  BY DEF OneForEach
<1>0. CodesInv /\ TokensInv
  BY DEF OAuthInv
<1>1. ASSUME NEW r \in Replicas, NEW e \in authCodes[r], e.id = l, ~e.used
      PROVE  KeptFor(l) = {Code(l)}
  <2>1. \A s \in Replicas : \A f \in refreshTokens[s] : f.login # l
    BY <1>0, <1>1 DEF CodesInv, TokensInv
  <2> QED
    BY <1>1, <2>1, KeptForMembers
<1>2. ASSUME NEW r \in Replicas, NEW e \in refreshTokens[r], e.login = l
      PROVE  KeptFor(l) = {Refresh(e.id)}
  <2>1. \A s \in Replicas : \A f \in authCodes[s] : f.id = l => f.used
    BY <1>0, <1>2 DEF CodesInv, TokensInv
  <2>2. \A s \in Replicas : \A f \in refreshTokens[s] : f.login = l => f = e
    BY <1>0, <1>2 DEF TokensInv
  <2> QED
    BY <1>2, <2>1, <2>2, KeptForMembers
<1>3. \E k : KeptFor(l) \subseteq {k}
  <2>1. CASE KeptFor(l) = {}
    BY <2>1
  <2>2. CASE KeptFor(l) # {}
    BY <1>1, <1>2, <2>2, KeptForMembers
  <2> QED
    BY <2>1, <2>2
<1> QED
  BY <1>1, <1>2, <1>3

LEMMA OneKeptAfter == OAuthInv' => OneForEach'
BY OneKept, PTL

\* What is kept is told from what is to come.
LEMMA NeverToCome ==
  ASSUME NEW l
  PROVE  KeptFor(l) # {<< "none", 0 >>}
<1>1. \A x : Code(x) # << "none", 0 >> /\ Refresh(x) # << "none", 0 >>
  BY DEF Code, Refresh
<1>2. << "none", 0 >> \notin KeptFor(l)
  BY <1>1, KeptForMembers
<1> QED
  BY <1>2

\* What is kept for a login changes only with the entries of that login.
LEMMA KeptForOthers ==
  ASSUME NEW l,
         \A r \in Replicas :
           {e \in authCodes'[r] : e.id = l /\ ~e.used}
             = {e \in authCodes[r] : e.id = l /\ ~e.used},
         \A r \in Replicas :
           {e \in refreshTokens'[r] : e.login = l}
             = {e \in refreshTokens[r] : e.login = l}
  PROVE  KeptFor(l)' = KeptFor(l)
<1>1. UNION {{e \in authCodes'[r] : e.id = l /\ ~e.used} : r \in Replicas}
        = UNION {{e \in authCodes[r] : e.id = l /\ ~e.used} : r \in Replicas}
  OBVIOUS
<1>2. UNION {{e \in refreshTokens'[r] : e.login = l} : r \in Replicas}
        = UNION {{e \in refreshTokens[r] : e.login = l} : r \in Replicas}
  OBVIOUS
<1>3. \A e : e.id = l /\ ~e.used =>
         ((\E r \in Replicas : e \in authCodes'[r])
            <=> \E r \in Replicas : e \in authCodes[r])
  BY <1>1
<1>4. \A e : e.login = l =>
         ((\E r \in Replicas : e \in refreshTokens'[r])
            <=> \E r \in Replicas : e \in refreshTokens[r])
  BY <1>2
<1> QED
  BY <1>3, <1>4 DEF KeptFor

\* Forgetting is the end of some grants, or of none.
LEMMA ForgettingEnds ==
  ASSUME OAuthInv, logins' = logins,
         \A l \in 1 .. MaxLogins : KeptFor(l)' \subseteq KeptFor(l)
  PROVE  Grants!GNext
<1> DEFINE over == {l \in 1 .. MaxLogins : l <= logins /\ KeptFor(l)' = {}}
<1>1. logins \in Nat
  BY BoundAssumption DEF OAuthInv, TypeOK
<1>2. ASSUME NEW l \in over PROVE Grant[l] # {<< "none", 0 >>}
  <2>1. Grant[l] = KeptFor(l)
    BY <1>1 DEF Grant
  <2> QED
    BY <2>1, NeverToCome
<1>3. ASSUME NEW l \in 1 .. MaxLogins
      PROVE  (IF l > logins' THEN {<< "none", 0 >>} ELSE KeptFor(l)')
               = (IF l \in over THEN {} ELSE Grant[l])
  <2>1. KeptFor(l)' = {} \/ KeptFor(l)' = KeptFor(l)
    BY OneKept DEF OneForEach
  <2> QED
    BY <1>1, <2>1 DEF Grant
<1>4. Grant' = [l \in 1 .. MaxLogins |-> IF l \in over THEN {} ELSE Grant[l]]
  BY <1>3 DEF Grant
<1>5. over \in SUBSET (1 .. MaxLogins)
  OBVIOUS
<1> HIDE DEF over
<1>6. Grants!End(over)
  BY <1>2, <1>4 DEF Grants!End, Grants!ToCome
<1> QED
  BY <1>5, <1>6 DEF Grants!GNext

LEMMA ForgetRefines ==
  ASSUME OAuthInv, Forget
  PROVE  Grants!GNext
<1>1. \A l : KeptFor(l)' \subseteq KeptFor(l)
  BY DEF Forget, KeptFor
<1> QED
  BY <1>1, ForgettingEnds DEF Forget

LEMMA MismatchRefines ==
  ASSUME OAuthInv, NEW r \in Replicas, NEW e \in authCodes[r], Mismatch(r, e)
  PROVE  Grants!GNext
<1>0. TypeOK /\ CodesInv /\ Consume(r, e)
  BY DEF OAuthInv, Mismatch
<1>1. \A s \in Replicas : \A f \in authCodes'[s] : ~f.used => f \in authCodes[s]
  BY <1>0, ConsumeEffect DEF TypeOK, Codes
<1>2. \A l : KeptFor(l)' \subseteq KeptFor(l)
  BY <1>1 DEF KeptFor, Mismatch
<1> QED
  BY <1>2, ForgettingEnds DEF Mismatch

\* A login is the issue of its grant.
LEMMA LoginRefines ==
  ASSUME OAuthInv, OAuthInv', NEW r \in Replicas, NEW u \in Users,
         NEW asked \in Requests, Login(r, u, asked)
  PROVE  Grants!GNext
<1>0. logins \in Nat
  BY BoundAssumption DEF OAuthInv, TypeOK
<1> PICK n \in Nat : n = logins + 1
  BY <1>0
<1> DEFINE code == [id |-> n, user |-> u, asked |-> asked,
                    scopes |-> Allowed(asked, u), used |-> FALSE]
<1>1. n = logins + 1 /\ n \in 1 .. MaxLogins /\ logins' = n
  BY <1>0, BoundAssumption DEF Login
<1>2. /\ authCodes' = [authCodes EXCEPT ![r] = authCodes[r] \cup {code}]
      /\ refreshTokens' = refreshTokens
      /\ authCodes \in [Replicas -> SUBSET Codes]
  BY <1>1 DEF Login, OAuthInv, TypeOK
<1>3. code.id = n /\ ~code.used
  OBVIOUS
<1> HIDE DEF code
<1>4. Grant[n] = {<< "none", 0 >>}
  BY <1>0, <1>1 DEF Grant
<1>5. KeptFor(n)' = {Code(n)}
  <2>1. code \in authCodes'[r]
    BY <1>2
  <2> QED
    BY <1>1, <1>3, <2>1, OneKeptAfter DEF OneForEach
<1>6. ASSUME NEW l \in 1 .. MaxLogins, l # n
      PROVE  KeptFor(l)' = KeptFor(l)
  <2>1. \A s \in Replicas : {f \in authCodes'[s] : f.id = l /\ ~f.used}
                              = {f \in authCodes[s] : f.id = l /\ ~f.used}
    BY <1>2, <1>3, <1>6
  <2> QED
    BY <1>2, <2>1, KeptForOthers
<1>7. Grant' = [Grant EXCEPT ![n] = {Code(n)}]
  <2>1. Grant' = [l \in 1 .. MaxLogins |->
                   IF l > n THEN {<< "none", 0 >>} ELSE KeptFor(l)']
    BY <1>1 DEF Grant
  <2>2. ASSUME NEW l \in 1 .. MaxLogins
        PROVE  (IF l > n THEN {<< "none", 0 >>} ELSE KeptFor(l)')
                 = (IF l = n THEN {Code(n)} ELSE Grant[l])
    BY <1>0, <1>1, <1>5, <1>6, <2>2 DEF Grant
  <2>3. Grant = [l \in 1 .. MaxLogins |-> Grant[l]]
    BY DEF Grant
  <2> QED
    BY <2>1, <2>2, <2>3
<1>8. Grants!Issue(n)
  BY <1>4, <1>7 DEF Grants!Issue, Grants!ToCome, Grants!Code, Code
<1> QED
  BY <1>1, <1>8 DEF Grants!GNext

\* A pair is the exchange of what its login had for the new token.
LEMMA ExchangeRefines ==
  ASSUME OAuthInv, OAuthInv', NEW r \in Replicas, NEW from, NEW key, NEW e,
         NEW l \in 1 .. logins, NEW spent,
         IssuePair(r, from, key, e, l, spent), logins' = logins,
         \/ KeptFor(l) = {Code(l)}
         \/ \E m \in 1 .. Cardinality(pairs) : KeptFor(l) = {Refresh(m)},
         \A f \in spent : f.login = l,
         \A s \in Replicas : \A f :
           f.id # l => (f \in authCodes'[s] <=> f \in authCodes[s])
  PROVE  Grants!GNext
<1>0. /\ TypeOK /\ PairsInv
      /\ Cardinality(pairs) \in Nat
      /\ logins \in Nat /\ l \in 1 .. MaxLogins /\ l <= logins
  BY BoundAssumption, FS_CardinalityType DEF OAuthInv, TypeOK, PairsInv
<1> PICK n \in Nat : n = Cardinality(pairs) + 1
  BY <1>0
<1> PICK old :
      /\ KeptFor(l) = {old}
      /\ old = Code(l) \/ \E m \in 1 .. Cardinality(pairs) : old = Refresh(m)
  OBVIOUS
<1> DEFINE token == TokenFor(n, e, l)
<1>1. /\ refreshTokens' = [refreshTokens EXCEPT ![r] =
                            (refreshTokens[r] \ spent) \cup {token}]
      /\ refreshTokens \in [Replicas -> SUBSET Tokens]
  BY <1>0, IssueEffect DEF TypeOK
<1>2. token.id = n /\ token.login = l
  BY DEF TokenFor
<1> HIDE DEF token
<1>3. KeptFor(l)' = {Refresh(n)}
  <2>1. token \in refreshTokens'[r]
    BY <1>1
  <2> QED
    BY <1>0, <1>2, <2>1, OneKeptAfter DEF OneForEach
<1>4. ASSUME NEW k \in 1 .. MaxLogins, k # l
      PROVE  KeptFor(k)' = KeptFor(k)
  <2>1. \A s \in Replicas : {f \in refreshTokens'[s] : f.login = k}
                              = {f \in refreshTokens[s] : f.login = k}
    BY <1>1, <1>2, <1>4
  <2>2. \A s \in Replicas : {f \in authCodes'[s] : f.id = k /\ ~f.used}
                              = {f \in authCodes[s] : f.id = k /\ ~f.used}
    BY <1>4
  <2> QED
    BY <2>1, <2>2, KeptForOthers
<1>5. Grant[l] = {old} /\ Grant = [k \in 1 .. MaxLogins |-> Grant[k]]
  BY <1>0 DEF Grant
<1>6. Grant' = [Grant EXCEPT ![l] = {Refresh(n)}]
  <2>1. Grant' = [k \in 1 .. MaxLogins |->
                   IF k > logins THEN {<< "none", 0 >>} ELSE KeptFor(k)']
    BY DEF Grant
  <2>2. ASSUME NEW k \in 1 .. MaxLogins
        PROVE  (IF k > logins THEN {<< "none", 0 >>} ELSE KeptFor(k)')
                 = (IF k = l THEN {Refresh(n)} ELSE Grant[k])
    BY <1>0, <1>3, <1>4, <2>2 DEF Grant
  <2> QED
    BY <1>5, <2>1, <2>2
<1>7. Grant'[l] = {Refresh(n)}
  BY <1>0, <1>5, <1>6
<1>8. /\ old \notin {<< "none", 0 >>}
      /\ Refresh(n)[1] = "refresh" /\ Refresh(n)[2] = n
      /\ old[1] = "refresh" => old[2] < n
  BY <1>0 DEF Code, Refresh
<1>9. Grants!Exchange(l)
  <2>1. Grant' = [Grant EXCEPT ![l] = Grant'[l]]
    BY <1>6, <1>7
  <2>2. \E new \in Grant'[l] : /\ Grant'[l] = {new} /\ new[1] = "refresh"
                               /\ old[1] = "refresh" => old[2] < new[2]
    BY <1>7, <1>8
  <2> QED
    BY <1>5, <1>8, <2>1, <2>2 DEF Grants!Exchange, Grants!ToCome
<1> QED
  BY <1>0, <1>9 DEF Grants!GNext

LEMMA RedeemRefines ==
  ASSUME OAuthInv, OAuthInv', NEW r \in Replicas, NEW e \in authCodes[r],
         Redeem(r, e)
  PROVE  Grants!GNext
<1>0. /\ TypeOK /\ CodesInv
      /\ Consume(r, e) /\ ~e.used
      /\ IssuePair(r, "code", e.id, e, e.id, {}) /\ logins' = logins
      /\ e \in Codes
  BY DEF OAuthInv, Redeem, Consume, TypeOK
<1>1. e.id \in 1 .. logins /\ e.id \in 1 .. MaxLogins
  BY <1>0, ConsumeEffect, ConsumeTypeOK
<1>2. KeptFor(e.id) = {Code(e.id)}
  BY <1>0, <1>1, OneKept DEF OneForEach
<1>3. ASSUME NEW s \in Replicas, NEW f, f.id # e.id
      PROVE  f \in authCodes'[s] <=> f \in authCodes[s]
  <2>1. authCodes' = [authCodes EXCEPT ![r] =
                       (authCodes[r] \ {e}) \cup {[e EXCEPT !.used = TRUE]}]
    BY <1>0 DEF Consume
  <2>2. [e EXCEPT !.used = TRUE].id = e.id
    BY <1>0 DEF Codes
  <2> QED
    BY <1>0, <1>3, <2>1, <2>2 DEF TypeOK
<1> QED
  BY <1>0, <1>1, <1>2, <1>3, ExchangeRefines

LEMMA RotateRefines ==
  ASSUME OAuthInv, OAuthInv', NEW r \in Replicas, NEW e \in refreshTokens[r],
         Rotate(r, e)
  PROVE  Grants!GNext
<1>0. /\ TypeOK /\ TokensInv
      /\ IssuePair(r, "refresh", e.id, e, e.login, {e})
      /\ logins' = logins /\ authCodes' = authCodes
  BY DEF OAuthInv, Rotate
<1>1. /\ e.login \in 1 .. logins /\ e.login \in 1 .. MaxLogins
      /\ e.id \in 1 .. Cardinality(pairs)
  BY <1>0, BoundAssumption DEF TokensInv, TypeOK
<1>2. KeptFor(e.login) = {Refresh(e.id)}
  BY <1>1, OneKept DEF OneForEach
<1>3. \E m \in 1 .. Cardinality(pairs) : KeptFor(e.login) = {Refresh(m)}
  BY <1>1, <1>2
<1>4. \A s \in Replicas : \A f :
        f.id # e.login => (f \in authCodes'[s] <=> f \in authCodes[s])
  BY <1>0
<1>5. \A f \in {e} : f.login = e.login
  OBVIOUS
<1> QED
  BY <1>0, <1>1, <1>2, <1>3, <1>4, <1>5, ExchangeRefines

LEMMA InitRefines == Init => Grants!GInit
<1> SUFFICES ASSUME Init PROVE Grants!GInit
  OBVIOUS
<1>1. \A l \in 1 .. MaxLogins : l > logins
  BY DEF Init
<1> QED
  BY <1>1 DEF Grants!GInit, Grants!ToCome, Grant

LEMMA StepRefines ==
  OAuthInv /\ OAuthInv' /\ [Next]_vars => [Grants!GNext]_Grant
<1> SUFFICES ASSUME OAuthInv, OAuthInv', [Next]_vars PROVE Grants!GNext
  OBVIOUS
<1>1. TypeOK
  BY DEF OAuthInv
<1> QED
  BY <1>1, StepKinds, LoginRefines, RedeemRefines, MismatchRefines,
     RotateRefines, ForgetRefines

\* The token endpoint keeps the promise of LoginGrant: what a login leaves is
\* handed on from its code to its tokens in the order of their issue, never
\* forks, and never comes back, however many replicas there are, whatever they
\* are presented and whenever they restart.
THEOREM ServerKeepsGrants == Spec => GrantSpec
<1> QED
  BY OAuthInvariant, InitRefines, StepRefines, PTL
  DEF Spec, GrantSpec, Grants!GSpec
=============================================================================
