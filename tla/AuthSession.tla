----------------------------- MODULE AuthSession -----------------------------
(***************************************************************************)
(* A browser tab that signs in (frontend/src/app/services/auth.service.ts  *)
(* with the guard, the router outlet and the callback page), composed with *)
(* the authorization server.  login() awaits a digest before it keeps      *)
(* verifier and state and navigates away; the page goes on running until   *)
(* it is unloaded.  handleCallback() awaits the answer of the token        *)
(* endpoint, and two components may have called it.  The user may click,   *)
(* reload, open the application anew or return to an older login page.     *)
(*                                                                         *)
(* refreshTokens() is never called, so it is no action.                    *)
(***************************************************************************)
EXTENDS OAuthServer

CONSTANTS
  Asked,      \* SCOPES, what every login() asks for
  MaxCalls,   \* bound: calls of login()
  MaxVisits,  \* bound: pages the user opens, reloads or goes back to
  MaxFaults   \* bound: requests to the token endpoint that fail on the way

ASSUME SessionAssumption ==
  /\ Asked \in Requests
  /\ MaxCalls \in Nat \ {0} /\ MaxVisits \in Nat /\ MaxFaults \in Nat

VARIABLES
  page,      \* the page that is shown, and the login it is about to leave for
  flag,      \* _isAuthenticated of its AuthService
  handlers,  \* the progress of the two handleCallback() of the page
  calls,     \* the calls of login() of the page that await the digest
  asks,      \* the number of calls of login(); a verifier and state is an index
  session,   \* sessionStorage: pkce_verifier and oauth_state, 0 when there is none
  stored,    \* localStorage: the number of the token pair, 0 when there is none
  valid,     \* hasValidToken() of what is stored
  challenge, \* history: the call of login() that each code was issued for
  opened,    \* history: the calls of login() whose login page was loaded
  visits,    \* the number of pages the user loaded
  requests,  \* POSTs to the token endpoint that are under way
  replies,   \* their answers: the number of a pair, or 0 for an error
  faults     \* the number of faults so far

browser == << page, flag, handlers, calls, asks, session, stored, valid,
              challenge, opened, visits, requests, replies, faults >>

-----------------------------------------------------------------------------
(* Values *)

Handlers == {"app", "callback"} \* AppComponent, CallbackComponent

\* A login page has the state of a call of login(), a callback page a code too.
\* leaving is the call whose navigation is under way; byUser, that the user
\* loaded the page instead of being redirected.
Page(at, code, state, byUser) ==
  [at |-> at, code |-> code, state |-> state, leaving |-> 0, byUser |-> byUser]
Nothing == [verifier |-> 0, state |-> 0]

SInit ==
  /\ Init
  /\ page = Page("app", 0, 0, FALSE)
  /\ flag = FALSE
  /\ handlers = [h \in Handlers |-> "done"]
  /\ calls = {1} /\ asks = 1
  /\ session = Nothing
  /\ stored = 0 /\ valid = FALSE
  /\ challenge = [c \in 1 .. MaxLogins |-> 0]
  /\ opened = {} /\ visits = 0
  /\ requests = {} /\ replies = {}
  /\ faults = 0

-----------------------------------------------------------------------------
(* Pages *)

\* A page is loaded: what ran on the last one is gone, and nobody awaits its
\* requests.  Its AuthService looks at localStorage once, and the outlet that
\* holds CallbackComponent exists for an authenticated user only.
Load(at, code, state, byUser) ==
  /\ page' = Page(at, code, state, byUser)
  /\ flag' = (valid /\ at # "login")
  /\ handlers' = [h \in Handlers |->
       IF at = "callback" /\ (h = "app" \/ valid) THEN "ready" ELSE "done"]
  /\ requests' = {[q EXCEPT !.by = "nobody"] : q \in requests}
  /\ replies' = {}
  /\ opened' = IF at = "login" THEN opened \cup {state} ELSE opened

\* login(), up to the await of the digest
Ask ==
  /\ asks < MaxCalls
  /\ asks' = asks + 1

\* The user opens the application: the guard of its routes calls login().
Open ==
  /\ Load("app", 0, 0, TRUE)
  /\ IF valid THEN calls' = {} /\ UNCHANGED asks
              ELSE Ask /\ calls' = {asks'}

\* ... reloads the callback page, with the code in its URL,
Reload ==
  /\ page.at = "callback"
  /\ Load("callback", page.code, page.state, TRUE)
  /\ calls' = {} /\ UNCHANGED asks

\* ... or goes back to a login page.
Back(a) ==
  /\ a \in opened
  /\ Load("login", 0, a, TRUE)
  /\ calls' = {} /\ UNCHANGED asks

Visit ==
  /\ visits < MaxVisits
  /\ visits' = visits + 1
  /\ Open \/ Reload \/ \E a \in opened : Back(a)
  /\ UNCHANGED << vars, session, stored, valid, challenge, faults >>

\* The button "Sign in with OAuth2", shown on every page of the application
\* while it is not authenticated, the callback page included.
Click ==
  /\ page.at # "login" /\ ~flag
  /\ Ask
  /\ calls' = calls \cup {asks'}
  /\ UNCHANGED << vars, page, flag, handlers, session, stored, valid, challenge,
                  opened, visits, requests, replies, faults >>

\* The rest of login(): verifier and state are kept, and the navigation starts,
\* instead of any that was under way.
Digested(a) ==
  /\ a \in calls
  /\ calls' = calls \ {a}
  /\ session' = [verifier |-> a, state |-> a]
  /\ page' = [page EXCEPT !.leaving = a]
  /\ UNCHANGED << vars, flag, handlers, asks, stored, valid, challenge, opened,
                  visits, requests, replies, faults >>

\* GET /authorize answers with the login page, and the old page is unloaded.
Unload ==
  /\ page.leaving # 0
  /\ Load("login", 0, page.leaving, FALSE)
  /\ calls' = {}
  /\ UNCHANGED << vars, asks, session, stored, valid, challenge, visits, faults >>

\* The user signs in: POST /login, and the redirect to the callback page.
Submit(r, u) ==
  /\ page.at = "login"
  /\ Login(r, u, Asked)
  /\ Load("callback", logins', page.state, FALSE)
  /\ challenge' = [challenge EXCEPT ![logins'] = page.state]
  /\ calls' = {}
  /\ UNCHANGED << asks, session, stored, valid, visits, faults >>

\* Sign out.  The guard runs when the user was not on the dashboard already.
Logout ==
  /\ page.at = "app" /\ flag
  /\ flag' = FALSE /\ stored' = 0 /\ valid' = FALSE
  /\ \/ UNCHANGED << calls, asks >>
     \/ Ask /\ calls' = calls \cup {asks'}
  /\ UNCHANGED << vars, page, handlers, session, challenge, opened,
                  visits, requests, replies, faults >>

\* The access token is 15 minutes old, or a minute less: nobody is told.
Outdate ==
  /\ stored # 0 /\ valid
  /\ valid' = FALSE
  /\ UNCHANGED << vars, page, flag, handlers, calls, asks, session, stored,
                  challenge, opened, visits, requests, replies, faults >>

-----------------------------------------------------------------------------
(* handleCallback() *)

\* Mutant of Fits: the state is not compared.
FitsAnyState == session.verifier # 0

\* `state !== storedState`, `!verifier`
Fits == session.state = page.state /\ session.verifier # 0

\* Up to the POST.  A handler that sees no code or other storage returns.
Start(h) ==
  /\ page.at = "callback" /\ handlers[h] = "ready"
  /\ \/ /\ Fits
        /\ handlers' = [handlers EXCEPT ![h] = "sent"]
        /\ requests' = requests \cup
             {[by |-> h, code |-> page.code, verifier |-> session.verifier]}
     \/ /\ ~Fits
        /\ handlers' = [handlers EXCEPT ![h] = "done"]
        /\ UNCHANGED requests
  /\ UNCHANGED << vars, page, flag, calls, asks, session, stored, valid,
                  challenge, opened, visits, replies, faults >>

\* Mutant of Answer: it finds its handler on any page.
AnswerAnyPage(q, pair) ==
  /\ requests' = requests \ {q}
  /\ replies' = replies \cup {[by |-> q.by, pair |-> pair]}

\* An answer is dropped when the page that asked is gone.
Answer(q, pair) ==
  /\ requests' = requests \ {q}
  /\ replies' = IF q.by = "nobody" THEN replies
                ELSE replies \cup {[by |-> q.by, pair |-> pair]}

\* The token endpoint of some replica
Serve(q, r) ==
  /\ \/ \E e \in CodesAt(r, q.code) :
          /\ q.verifier = challenge[q.code]
          /\ Redeem(r, e)
          /\ Answer(q, Cardinality(pairs) + 1)
     \/ \E e \in CodesAt(r, q.code) :
          /\ q.verifier # challenge[q.code]
          /\ Mismatch(r, e)
          /\ Answer(q, 0)
     \/ RefuseCode(r, q.code) /\ Answer(q, 0)
  /\ UNCHANGED << page, flag, handlers, calls, asks, session, stored, valid,
                  challenge, opened, visits, faults >>

\* A request fails on the way: its handler sees an error, and the request may
\* still arrive.
Fail(q) ==
  /\ faults < MaxFaults
  /\ faults' = faults + 1
  /\ q.by # "nobody"
  /\ requests' = (requests \ {q}) \cup {[q EXCEPT !.by = "nobody"]}
  /\ replies' = replies \cup {[by |-> q.by, pair |-> 0]}
  /\ UNCHANGED << vars, page, flag, handlers, calls, asks, session, stored,
                  valid, challenge, opened, visits >>

\* Mutant of Resume: an error signs out, as it does in refreshTokens().
ResumeSignsOut(m) ==
  /\ handlers' = [handlers EXCEPT ![m.by] = "done"]
  /\ replies' = replies \ {m}
  /\ stored' = m.pair /\ valid' = (m.pair # 0) /\ flag' = (m.pair # 0)
  /\ session' = IF m.pair = 0 THEN session ELSE Nothing
  /\ page' = IF m.pair = 0 THEN page ELSE [page EXCEPT !.at = "app"]
  /\ UNCHANGED << vars, calls, asks, challenge, opened, visits, requests, faults >>

\* Mutant of Resume: tokens that come while signed in are ignored.
ResumeUnlessSignedIn(m) ==
  /\ handlers' = [handlers EXCEPT ![m.by] = "done"]
  /\ replies' = replies \ {m}
  /\ \/ /\ m.pair # 0 /\ ~flag
        /\ stored' = m.pair /\ valid' = TRUE /\ flag' = TRUE
        /\ session' = Nothing
        /\ page' = [page EXCEPT !.at = "app"]
     \/ /\ m.pair = 0 \/ flag
        /\ UNCHANGED << page, flag, session, stored, valid >>
  /\ UNCHANGED << vars, calls, asks, challenge, opened, visits, requests, faults >>

\* After the POST: the tokens are stored, the storage of the sign-in is cleared
\* and the dashboard shown, while a navigation under way goes on; an error is
\* logged.
Resume(m) ==
  /\ handlers' = [handlers EXCEPT ![m.by] = "done"]
  /\ replies' = replies \ {m}
  /\ \/ /\ m.pair # 0
        /\ stored' = m.pair /\ valid' = TRUE /\ flag' = TRUE
        /\ session' = Nothing
        /\ page' = [page EXCEPT !.at = "app"]
     \/ /\ m.pair = 0
        /\ UNCHANGED << page, flag, session, stored, valid >>
  /\ UNCHANGED << vars, calls, asks, challenge, opened, visits, requests, faults >>

-----------------------------------------------------------------------------
UserNext ==
  \/ Visit \/ Click \/ Logout
  \/ \E r \in Replicas, u \in Users : Submit(r, u)

CallbackStep ==
  \/ \E h \in Handlers : Start(h)
  \/ \E q \in requests, r \in Replicas : Serve(q, r)
  \/ \E m \in replies : Resume(m)

LoginStep == Unload \/ \E a \in calls : Digested(a)

\* What happens to the codes meanwhile.  A refresh token is never presented.
ServerNext ==
  /\ \/ \E c \in 1 .. logins : Expire(Code(c))
     \/ \E r \in Replicas : Restart(r) \/ \E e \in authCodes[r] : DropCode(r, e)
  /\ UNCHANGED browser

SNext ==
  \/ UserNext \/ LoginStep \/ CallbackStep \/ Outdate \/ ServerNext
  \/ \E q \in requests : Fail(q)

svars == << vars, browser >>

\* The browser's event loop and the network: pages load, handlers go on, and
\* requests that do not fail are answered.
Fairness == WF_svars(LoginStep) /\ WF_svars(CallbackStep)

SessionSpec == SInit /\ [][SNext]_svars
FairSessionSpec == SessionSpec /\ Fairness

-----------------------------------------------------------------------------
(* Properties *)

\* The types of the browser's state; the server's are those of OAuthServer.
SessionTypeOK ==
  /\ TypeOK
  /\ page \in [at : {"app", "login", "callback"}, code : 0 .. MaxLogins,
               state : 0 .. asks, leaving : 0 .. asks, byUser : BOOLEAN]
  /\ flag \in BOOLEAN /\ valid \in BOOLEAN
  /\ handlers \in [Handlers -> {"ready", "sent", "done"}]
  /\ calls \subseteq 1 .. asks /\ asks \in 1 .. MaxCalls
  /\ session \in [verifier : 0 .. asks, state : 0 .. asks]
  /\ stored \in 0 .. Cardinality(pairs)
  /\ challenge \in [1 .. MaxLogins -> 0 .. asks]
  /\ requests \subseteq [by : Handlers \cup {"nobody"}, code : 1 .. MaxLogins,
                         verifier : 1 .. asks]
  /\ opened \subseteq 1 .. asks /\ visits \in 0 .. MaxVisits
  /\ replies \subseteq [by : Handlers, pair : 0 .. MaxPairs]
  /\ faults \in 0 .. MaxFaults

\* A code is only ever presented with the verifier whose challenge it was
\* issued for, whichever calls of login() raced and whichever login page was
\* used in the end: the server, which consumes a code before it compares,
\* never wastes one.  That is what keeping verifier and state in one step and
\* comparing the state are for.
VerifierFits == \A q \in requests : q.verifier = challenge[q.code]

\* A sign-in that succeeded is not undone by its duplicate, an error or an
\* older answer: what is stored is only replaced by a later pair, or removed
\* by signing out.
Signed == stored' = stored \/ stored' > stored \/ (page.at = "app" /\ flag /\ ~flag')
KeptUntilLogout == [][Signed]_svars

\* The user is back from the login page with a code that is good.
Arrived(c) ==
  /\ page.at = "callback" /\ page.code = c /\ Fits
  /\ handlers["app"] = "ready"
  /\ attempts[c] = 0 /\ Code(c) \notin expired
  /\ \A r \in Replicas : CodesAt(r, c) # {}
StoredFor(c) == \E p \in pairs : p.from = "code" /\ p.key = c /\ p.id = stored

\* A good code is exchanged and the pair stored, though two handlers may present
\* it, unless the network, a restart, the code's expiry, another login() or the
\* user's leaving get in the way.
Disturbed(c) ==
  \/ faults + restarts > 0 \/ Code(c) \in expired
  \/ page.code # c \/ page.byUser \/ session.state \notin {page.state, 0}
ExchangeSucceeds ==
  \A c \in 1 .. MaxLogins : Arrived(c) ~> StoredFor(c) \/ Disturbed(c)
=============================================================================
