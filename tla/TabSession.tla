------------------------------ MODULE TabSession ------------------------------
(***************************************************************************)
(* Who is signed in, and what they may do: the tabs of one browser share   *)
(* localStorage, each keeps the user it shows and offers what that user's  *)
(* scopes allow (frontend/src/app/services/auth.service.ts), and each      *)
(* request carries the token that is stored when it is sent                *)
(* (interceptors/auth.interceptor.ts).  The gateway looks at the token and *)
(* its scopes only (gateway/src/middleware/auth.ts, proxy/party.ts and     *)
(* proxy/ai.ts).  The user comes from GET /auth/userinfo, which is asked   *)
(* in the background: it may be answered late, in another order, or not.   *)
(*                                                                         *)
(* How a tab gets its code and tokens is AuthSession; here it is one step. *)
(* refreshTokens() is never called and POST /revoke does nothing.          *)
(***************************************************************************)
EXTENDS Naturals, Sequences, FiniteSets

CONSTANTS
  Tabs,         \* tabs of the browser
  Users,        \* DEMO_USERS
  UserScopes,   \* the scopes of each user
  ClientScopes, \* allowedScopes of bankonboard-angular
  Asked,        \* SCOPES, what login() asks for
  MaxTokens,    \* bound: sign-ins
  MaxVisits,    \* bound: pages opened or reloaded
  MaxCalls,     \* bound: API requests under way at a time
  MaxFaults     \* bound: userinfo requests that fail on the way

Scopes == {"party:read", "party:write", "ai:invoke"}

ASSUME ScopeAssumption ==
  /\ UserScopes \in [Users -> SUBSET Scopes]
  /\ ClientScopes \subseteq Scopes /\ Asked \subseteq Scopes
  \* The pages show their lists to everybody: every demo user may read.
  /\ \A u \in Users : "party:read" \in Asked \cap ClientScopes \cap UserScopes[u]
ASSUME BoundAssumption ==
  /\ MaxTokens \in Nat /\ MaxVisits \in Nat /\ MaxCalls \in Nat
  /\ MaxFaults \in Nat

VARIABLES
  issued,  \* the user of each access token; a token is its index
  age,     \* "fresh"; "closing" in its last 60 s; "expired"
  token,   \* localStorage access_token, 0 when there is none
  info,    \* localStorage user_info
  tab,     \* the page of each tab: its AuthService
  asking,  \* GET /auth/userinfo requests and answers under way
  calls,   \* API requests under way
  visits,  \* the number of pages opened so far
  faults   \* the number of userinfo requests that failed on the way

vars == << issued, age, token, info, tab, asking, calls, visits, faults >>

-----------------------------------------------------------------------------
(* Values *)

Nobody == "nobody"
People == Users \cup {Nobody}

\* intersectScopes at /login, kept in the code and signed into the token.
ScopesOf(u) == IF u = Nobody THEN {} ELSE Asked \cap ClientScopes \cap UserScopes[u]
OwnerOf(n) == IF n = 0 THEN Nobody ELSE issued[n]

\* The operations of customer.service.ts.
Operations == {"list", "create", "patch", "delete", "trigger", "result"}

\* flag and user are _isAuthenticated and _currentUser; signing is who signed in
\* for the callback that is being handled.  The rest is history: the token that
\* was stored when the page was loaded or that it stored itself, the token of
\* the last userinfo answer it received, and whether one failed.
Pages == [flag : BOOLEAN, user : People, signing : People, seen : Nat,
          heard : Nat, missed : BOOLEAN]

\* hasValidToken(): the stored token is not in its last 60 s.
HasValidToken == token # 0 /\ age[token] = "fresh"

\* verifyAccessToken: signature and exp.
Verified(n) == n # 0 /\ age[n] # "expired"

Init ==
  /\ issued = << >> /\ age = << >>
  /\ token = 0 /\ info = Nobody
  /\ tab = [t \in Tabs |->
       [flag |-> FALSE, user |-> Nobody, signing |-> Nobody, seen |-> 0,
        heard |-> 0, missed |-> FALSE]]
  /\ asking = {} /\ calls = {}
  /\ visits = 0 /\ faults = 0

-----------------------------------------------------------------------------
(* Pages and sign-in *)

\* loadUserInfo() of tab t; the interceptor adds the token stored now.
Asking(t, n) == [tab |-> t, bearer |-> n, st |-> "asked", user |-> Nobody]

\* Mutant of Load: the constructor asks for the user with or without a token.
LoadAsks(t, signing) ==
  /\ tab' = [tab EXCEPT ![t] =
       [flag |-> HasValidToken, user |-> info, signing |-> signing,
        seen |-> token, heard |-> 0, missed |-> FALSE]]
  /\ asking' = {i \in asking : i.tab # t} \cup {Asking(t, token)}
  /\ UNCHANGED << token, info >>

\* Mutant of Load: the user is asked for only if none is cached.
LoadCached(t, signing) ==
  /\ tab' = [tab EXCEPT ![t] =
       [flag |-> HasValidToken, user |-> info, signing |-> signing,
        seen |-> token, heard |-> 0, missed |-> FALSE]]
  /\ asking' = {i \in asking : i.tab # t} \cup
       (IF HasValidToken /\ info = Nobody THEN {Asking(t, token)} ELSE {})
  /\ UNCHANGED << token, info >>

\* A page is loaded in tab t: nobody receives what the old one has asked for.
\* The cached user is shown at once, and refreshed in the background.
Load(t, signing) ==
  /\ tab' = [tab EXCEPT ![t] =
       [flag |-> HasValidToken, user |-> info, signing |-> signing,
        seen |-> token, heard |-> 0, missed |-> FALSE]]
  /\ asking' = {i \in asking : i.tab # t} \cup
       (IF HasValidToken THEN {Asking(t, token)} ELSE {})
  /\ UNCHANGED << token, info >>

\* A tab is opened or reloaded.
Open(t) ==
  /\ visits < MaxVisits
  /\ visits' = visits + 1
  /\ Load(t, Nobody)
  /\ UNCHANGED << issued, age, calls, faults >>

\* The guard or the button calls login(); u signs in and is redirected to the
\* callback page, the code in its URL.
SignIn(t, u) ==
  /\ ~tab[t].flag /\ tab[t].signing = Nobody
  /\ Len(issued) < MaxTokens
  /\ Load(t, u)
  /\ UNCHANGED << issued, age, calls, visits, faults >>

\* handleCallback() gets its answer: generateAccessToken, storeTokens and
\* loadUserInfo, which does not wait.
Exchange(t) ==
  /\ tab[t].signing # Nobody
  /\ Len(issued) < MaxTokens
  /\ issued' = Append(issued, tab[t].signing)
  /\ age' = Append(age, "fresh")
  /\ token' = Len(issued')
  /\ tab' = [tab EXCEPT ![t] = [@ EXCEPT !.flag = TRUE, !.signing = Nobody,
                                        !.seen = token']]
  /\ asking' = asking \cup {Asking(t, token')}
  /\ UNCHANGED << info, calls, visits, faults >>

\* logout(): what is under way is not cancelled, and other tabs are not told.
Logout(t) ==
  /\ tab[t].flag
  /\ token' = 0 /\ info' = Nobody
  /\ tab' = [tab EXCEPT ![t] = [@ EXCEPT !.flag = FALSE, !.user = Nobody, !.seen = 0]]
  /\ UNCHANGED << issued, age, asking, calls, visits, faults >>

\* Fourteen minutes, fifteen minutes.
Age(n) ==
  /\ age[n] # "expired"
  /\ age' = [age EXCEPT ![n] = IF @ = "fresh" THEN "closing" ELSE "expired"]
  /\ UNCHANGED << issued, token, info, tab, asking, calls, visits, faults >>

-----------------------------------------------------------------------------
(* GET /auth/userinfo *)

\* The token's user with the token's scopes, or 401.
UserInfo(n) == IF Verified(n) THEN issued[n] ELSE Nobody

ServeUserInfo(i) ==
  /\ i.st = "asked"
  /\ asking' = (asking \ {i}) \cup
       {[i EXCEPT !.st = "answered", !.user = UserInfo(i.bearer)]}
  /\ UNCHANGED << issued, age, token, info, tab, calls, visits, faults >>

\* `next` stores and shows the user, whatever happened since; `error` logs.
ReceiveUserInfo(i) ==
  /\ i.st = "answered"
  /\ asking' = asking \ {i}
  /\ \/ /\ i.user # Nobody
        /\ info' = i.user
        /\ tab' = [tab EXCEPT ![i.tab] = [@ EXCEPT !.user = i.user,
                                                   !.heard = i.bearer]]
     \/ /\ i.user = Nobody
        /\ tab' = [tab EXCEPT ![i.tab].missed = TRUE]
        /\ UNCHANGED info
  /\ UNCHANGED << issued, age, token, calls, visits, faults >>

FailUserInfo(i) ==
  /\ faults < MaxFaults
  /\ faults' = faults + 1
  /\ asking' = asking \ {i}
  /\ tab' = [tab EXCEPT ![i.tab].missed = TRUE]
  /\ UNCHANGED << issued, age, token, info, calls, visits >>

-----------------------------------------------------------------------------
(* API requests *)

Send(op, n, u) ==
  /\ Cardinality(calls) < MaxCalls
  /\ calls' = calls \cup {[op |-> op, bearer |-> n, user |-> u]}
  /\ UNCHANGED << issued, age, token, info, tab, asking, visits, faults >>

\* Mutant of Offered: the link to the form is shown to everybody.
OfferedToAll(u, op) ==
  \/ op \in {"list", "create"}
  \/ op = "trigger" /\ "ai:invoke" \in ScopesOf(u)

\* hasScope() in the templates: what a page shows user u.  The lists are always
\* there; no page has a PATCH, a DELETE or a cached result.
Offered(u, op) ==
  \/ op = "list"
  \/ op = "create" /\ "party:write" \in ScopesOf(u)
  \/ op = "trigger" /\ "ai:invoke" \in ScopesOf(u)

\* The user of tab t uses what its page offers.
Click(t, op) ==
  /\ tab[t].flag /\ Offered(tab[t].user, op)
  /\ Send(op, token, tab[t].user)

\* A request that no page offers: the URL of the form, which its guard opens
\* to whoever is authenticated, or another program that has the token.
Request(op, n) == n # 0 /\ Send(op, n, Nobody)

\* The scope that a route checks: by method in party.ts, by route in ai.ts.
Required(op) ==
  CASE op \in {"create", "patch", "delete"} -> "party:write"
    [] op = "trigger" -> "ai:invoke"
    [] OTHER -> "party:read"

\* authenticate, then requireScope, before anything else is done.
Status(c) ==
  CASE ~Verified(c.bearer) -> 401
    [] Verified(c.bearer) /\ Required(c.op) \notin ScopesOf(OwnerOf(c.bearer)) -> 403
    [] OTHER -> 200

\* The gateway answers with Status(c), of this moment; what a served request
\* does is in PartyRecords and RiskPipeline.  No page reacts to a 401 by signing
\* in again.
Serve(c) ==
  /\ calls' = calls \ {c}
  /\ UNCHANGED << issued, age, token, info, tab, asking, visits, faults >>

-----------------------------------------------------------------------------
Next ==
  \/ \E t \in Tabs : \/ Open(t) \/ Exchange(t) \/ Logout(t)
                     \/ \E u \in Users : SignIn(t, u)
                     \/ \E op \in Operations : Click(t, op)
  \/ \E n \in DOMAIN issued : Age(n) \/ \E op \in Operations : Request(op, n)
  \/ \E i \in asking : ServeUserInfo(i) \/ ReceiveUserInfo(i) \/ FailUserInfo(i)
  \/ \E c \in calls : Serve(c)

Spec == Init /\ [][Next]_vars

-----------------------------------------------------------------------------
(* Properties *)

TypeOK ==
  /\ issued \in Seq(Users) /\ Len(issued) <= MaxTokens
  /\ age \in Seq({"fresh", "closing", "expired"}) /\ Len(age) = Len(issued)
  /\ token \in 0 .. Len(issued) /\ info \in People
  /\ tab \in [Tabs -> Pages]
  /\ asking \subseteq [tab : Tabs, bearer : 1 .. Len(issued),
                       st : {"asked", "answered"}, user : People]
  /\ calls \subseteq [op : Operations, bearer : 0 .. Len(issued), user : People]
  /\ visits \in 0 .. MaxVisits /\ faults \in 0 .. MaxFaults

\* What a page offers the user it shows, that user may do: the scopes of the
\* button, of the sign-in, of the token and of the route agree.  A click is
\* refused only when the token stored meanwhile is another user's, or expired,
\* or gone.
OfferedIsServed ==
  \A c \in calls : c.user # Nobody /\ Status(c) # 200 =>
    OwnerOf(c.bearer) # c.user \/ ~Verified(c.bearer)

\* A tab that is signed in shows the user whose token it sends, and neither
\* nobody nor the user whom another tab left in the cache, unless another tab has
\* signed in or out since, or the answer of userinfo for that token is still to
\* come, failed, or was overtaken by that for an older one.
ShownIsOwner ==
  \A t \in Tabs :
    tab[t].flag /\ token # 0 /\ tab[t].user # OwnerOf(token) =>
      \/ tab[t].seen # token
      \/ \E i \in asking : i.tab = t /\ i.bearer = token
      \/ tab[t].missed
      \/ tab[t].heard \notin {0, token}
=============================================================================
