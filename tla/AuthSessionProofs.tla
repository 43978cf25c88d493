-------------------------- MODULE AuthSessionProofs --------------------------
(***************************************************************************)
(* Proofs about AuthSession, for any replicas, users, scopes and bounds:   *)
(* which verifier a code is presented with, and that a sign-in that        *)
(* succeeded stays, however clicks, digests, page loads, answers and the   *)
(* two handleCallback() interleave.  The server's part of a step is a step *)
(* of OAuthServer, so what is proved of it there holds here too.           *)
(***************************************************************************)
EXTENDS AuthSession, OAuthServerProofs

-----------------------------------------------------------------------------
(* The inductive invariant *)

\* The types of the browser's state, n being the number of calls of login().
PageType(n) == [at : {"app", "login", "callback"}, code : 0 .. MaxLogins,
                state : 0 .. n, leaving : 0 .. n, byUser : BOOLEAN]
RequestType(n) == [by : Handlers \cup {"nobody"}, code : 1 .. MaxLogins,
                   verifier : 1 .. n]
ReplyType == [by : Handlers, pair : 0 .. MaxPairs]

BrowserTypeOK ==
  /\ page \in PageType(asks)
  /\ flag \in BOOLEAN /\ valid \in BOOLEAN
  /\ handlers \in [Handlers -> {"ready", "sent", "done"}]
  /\ calls \subseteq 1 .. asks /\ asks \in 1 .. MaxCalls
  /\ session \in [verifier : 0 .. asks, state : 0 .. asks]
  /\ stored \in 0 .. Cardinality(pairs)
  /\ challenge \in [1 .. MaxLogins -> 0 .. asks]
  /\ requests \subseteq RequestType(asks)
  /\ opened \subseteq 1 .. asks /\ visits \in 0 .. MaxVisits
  /\ replies \subseteq ReplyType
  /\ faults \in 0 .. MaxFaults

\* Verifier and state are kept by one call of login().  A callback page has a
\* code, and the state of the call whose challenge the code was issued for.
PageInv ==
  /\ session.verifier = session.state
  /\ page.at = "callback" => /\ page.code \in 1 .. logins
                             /\ challenge[page.code] = page.state

\* What is presented was issued, and fits; what the page that is shown awaits is
\* about the code in its URL.
RequestsInv ==
  \A q \in requests :
    /\ q.code \in 1 .. logins /\ q.verifier = challenge[q.code]
    /\ q.by # "nobody" => q.code = page.code

\* A pair the page has not stored yet was issued for its code, after what is
\* stored.
PairAwaited(n) ==
  \E p \in pairs : p.from = "code" /\ p.key = page.code /\ p.id = n
RepliesInv ==
  \A m \in replies : m.pair # 0 => PairAwaited(m.pair) /\ m.pair >= stored

BrowserInv == BrowserTypeOK /\ PageInv /\ RequestsInv /\ RepliesInv
SessionInv == OAuthInv /\ BrowserInv

LEMMA SessionTypes == SessionTypeOK <=> TypeOK /\ BrowserTypeOK
BY DEF SessionTypeOK, BrowserTypeOK, PageType, RequestType, ReplyType

-----------------------------------------------------------------------------
(* The server's part of a step *)

LEMMA Numbers ==
  ASSUME SessionInv
  PROVE  /\ asks \in Nat /\ asks >= 1 /\ logins \in Nat /\ logins <= MaxLogins
         /\ Cardinality(pairs) \in Nat /\ stored \in Nat
         /\ stored <= Cardinality(pairs)
         /\ MaxLogins \in Nat /\ MaxPairs \in Nat /\ MaxCalls \in Nat
<1>1. Cardinality(pairs) \in Nat
  BY FS_CardinalityType DEF SessionInv, OAuthInv, PairsInv
<1>2. asks \in 1 .. MaxCalls /\ stored \in 0 .. Cardinality(pairs)
      /\ logins \in 0 .. MaxLogins
  BY DEF SessionInv, BrowserInv, BrowserTypeOK, OAuthInv, TypeOK
<1> QED
  BY <1>1, <1>2, SessionAssumption, BoundAssumption

\* Every step is one of the server's, or leaves it alone.
LEMMA ServerSteps ==
  ASSUME SessionInv, [SNext]_svars
  PROVE  [Next]_vars
<1>1. CASE UserNext
  <2>1. CASE Visit \/ Click \/ Logout
    BY <2>1 DEF Visit, Click, Logout
  <2>2. ASSUME NEW r \in Replicas, NEW u \in Users, Submit(r, u)
        PROVE  Next
    BY <2>2, SessionAssumption DEF Submit, Next
  <2> QED
    BY <1>1, <2>1, <2>2 DEF UserNext
<1>2. CASE LoginStep \/ Outdate
  BY <1>2 DEF LoginStep, Unload, Digested, Outdate
<1>3. ASSUME NEW q \in requests, NEW r \in Replicas, Serve(q, r)
      PROVE  Next
  <2>1. q.code \in 1 .. logins
    BY DEF SessionInv, BrowserInv, RequestsInv
  <2>2. \/ \E e \in authCodes[r] : Redeem(r, e) \/ Mismatch(r, e)
        \/ RefuseCode(r, q.code)
    BY <1>3 DEF Serve, CodesAt
  <2> QED
    BY <2>1, <2>2 DEF Next, TokenEndpoint
<1>4. CASE (\E h \in Handlers : Start(h)) \/ (\E m \in replies : Resume(m))
  BY <1>4 DEF Start, Resume
<1>5. CASE ServerNext
  BY <1>5 DEF ServerNext, Next, Keys
<1>6. CASE \E q \in requests : Fail(q)
  BY <1>6 DEF Fail
<1>7. CASE UNCHANGED svars
  BY <1>7 DEF svars
<1> QED
  BY <1>1, <1>2, <1>3, <1>4, <1>5, <1>6, <1>7 DEF SNext, CallbackStep

-----------------------------------------------------------------------------
(* Pages *)

\* A page that is loaded: nothing of the last one is left, and the requests
\* under way keep code and verifier.
Loads(at, code, state, byUser) ==
  /\ Load(at, code, state, byUser)
  /\ at \in {"app", "login", "callback"} /\ code \in 0 .. MaxLogins
  /\ state \in 0 .. asks' /\ byUser \in BOOLEAN
  /\ at = "login" => state # 0
  /\ at = "callback" => code \in 1 .. logins' /\ challenge'[code] = state
  /\ asks' \in asks .. MaxCalls /\ calls' \subseteq 1 .. asks'
  /\ challenge' \in [1 .. MaxLogins -> 0 .. asks']
  /\ \A c \in 1 .. logins : challenge'[c] = challenge[c]
  /\ logins' \in Nat /\ logins' >= logins /\ pairs' = pairs
  /\ visits' \in 0 .. MaxVisits
  /\ UNCHANGED << session, stored, valid, faults >>

LEMMA LoadInv ==
  ASSUME SessionInv, NEW at, NEW code, NEW state, NEW byUser,
         Loads(at, code, state, byUser)
  PROVE  BrowserInv'
<1> USE DEF Loads
<1>0. /\ asks \in Nat /\ asks' \in Nat /\ asks <= asks'
      /\ asks' \in 1 .. MaxCalls /\ logins \in Nat
  BY Numbers
<1>1. /\ page' = Page(at, code, state, byUser) /\ page' \in PageType(asks')
      /\ page'.at = at /\ page'.code = code /\ page'.state = state
  BY <1>0 DEF Load, Page, PageType
<1>2. flag' \in BOOLEAN /\ handlers' \in [Handlers -> {"ready", "sent", "done"}]
  BY DEF Load
<1>3. \A q \in RequestType(asks) :
        /\ [q EXCEPT !.by = "nobody"] \in RequestType(asks')
        /\ [q EXCEPT !.by = "nobody"].by = "nobody"
        /\ [q EXCEPT !.by = "nobody"].code = q.code
        /\ [q EXCEPT !.by = "nobody"].verifier = q.verifier
  BY <1>0 DEF RequestType
<1>4. requests \subseteq RequestType(asks)
  BY DEF SessionInv, BrowserInv, BrowserTypeOK
<1>5. requests' = {[q EXCEPT !.by = "nobody"] : q \in requests}
  BY DEF Load
<1>6. requests' \subseteq RequestType(asks')
  BY <1>3, <1>4, <1>5
<1>7. RequestsInv'
  <2>1. ASSUME NEW q \in requests'
        PROVE  /\ q.code \in 1 .. logins' /\ q.verifier = challenge'[q.code]
               /\ q.by = "nobody"
    <3>1. PICK p \in requests : q = [p EXCEPT !.by = "nobody"]
      BY <1>5
    <3>2. q.by = "nobody" /\ q.code = p.code /\ q.verifier = p.verifier
      BY <1>3, <1>4, <3>1
    <3>3. p.code \in 1 .. logins /\ p.verifier = challenge[p.code]
      BY DEF SessionInv, BrowserInv, RequestsInv
    <3> QED
      BY <1>0, <3>2, <3>3
  <2> QED
    BY <2>1 DEF RequestsInv
<1>8. opened' \subseteq 1 .. asks'
  <2>1. opened \subseteq 1 .. asks
    BY DEF SessionInv, BrowserInv, BrowserTypeOK
  <2> QED
    BY <1>0, <2>1 DEF Load
<1>9. /\ replies' = {} /\ session' \in [verifier : 0 .. asks', state : 0 .. asks']
      /\ session'.verifier = session'.state
      /\ stored' \in 0 .. Cardinality(pairs') /\ valid' \in BOOLEAN
      /\ faults' \in 0 .. MaxFaults
  BY <1>0 DEF Load, SessionInv, BrowserInv, BrowserTypeOK, PageInv
<1>10. BrowserTypeOK'
  BY <1>0, <1>1, <1>2, <1>6, <1>8, <1>9 DEF BrowserTypeOK
<1>11. PageInv' /\ RepliesInv'
  BY <1>1, <1>9 DEF PageInv, RepliesInv
<1> QED
  BY <1>7, <1>10, <1>11 DEF BrowserInv

LEMMA VisitInv ==
  ASSUME SessionInv, Visit
  PROVE  BrowserInv'
<1>0. /\ asks \in 1 .. MaxCalls /\ opened \subseteq 1 .. asks
      /\ challenge \in [1 .. MaxLogins -> 0 .. asks] /\ page \in PageType(asks)
      /\ visits \in 0 .. MaxVisits
  BY DEF SessionInv, BrowserInv, BrowserTypeOK
<1>1. visits' \in 0 .. MaxVisits
  BY <1>0, SessionAssumption DEF Visit
<1>2. UNCHANGED << session, stored, valid, challenge, logins, pairs, faults >>
  BY DEF Visit, vars
<1>a. /\ 0 \in 0 .. MaxLogins /\ logins' \in Nat /\ logins' >= logins
      /\ \A c \in 1 .. logins : challenge'[c] = challenge[c]
  BY <1>2, Numbers
<1>b. asks' = asks /\ calls' = {} =>
        /\ asks' \in asks .. MaxCalls /\ calls' \subseteq 1 .. asks'
        /\ challenge' \in [1 .. MaxLogins -> 0 .. asks']
  BY <1>0, <1>2, Numbers
<1>3. CASE Open
  <2>1. asks' \in asks .. MaxCalls /\ calls' \subseteq 1 .. asks'
    BY <1>0, <1>3, Numbers, SessionAssumption DEF Open, Ask
  <2>2. challenge' \in [1 .. MaxLogins -> 0 .. asks'] /\ 0 \in 0 .. asks'
    BY <1>0, <1>2, <2>1, Numbers
  <2> QED
    <3>1. Loads("app", 0, 0, TRUE)
      BY <1>1, <1>2, <1>a, <1>3, <2>1, <2>2 DEF Open, Loads
    <3> QED
      BY <3>1, LoadInv
<1>4. CASE Reload
  <2>1. /\ page.code \in 0 .. MaxLogins /\ page.state \in 0 .. asks
        /\ asks' = asks /\ calls' = {}
        /\ page.code \in 1 .. logins /\ challenge[page.code] = page.state
    BY <1>0, <1>4 DEF Reload, PageType, SessionInv, BrowserInv, PageInv
  <2> QED
    <3>1. Loads("callback", page.code, page.state, TRUE)
      BY <1>1, <1>2, <1>a, <1>b, <1>4, <2>1 DEF Reload, Loads
    <3> QED
      BY <3>1, LoadInv
<1>5. ASSUME NEW a \in opened, Back(a) PROVE BrowserInv'
  <2>1. a \in 1 .. asks /\ asks' = asks /\ calls' = {}
    BY <1>0, <1>5 DEF Back
  <2>2. a \in 0 .. asks' /\ a # 0
    BY <2>1, Numbers
  <2> QED
    <3>1. Loads("login", 0, a, TRUE)
      BY <1>1, <1>2, <1>a, <1>b, <1>5, <2>1, <2>2 DEF Back, Loads
    <3> QED
      BY <3>1, LoadInv
<1> QED
  BY <1>3, <1>4, <1>5 DEF Visit

LEMMA UnloadInv ==
  ASSUME SessionInv, Unload
  PROVE  BrowserInv'
<1>1. /\ page.leaving \in 0 .. asks /\ page.leaving # 0 /\ asks' = asks
      /\ asks \in 1 .. MaxCalls /\ challenge \in [1 .. MaxLogins -> 0 .. asks]
      /\ visits \in 0 .. MaxVisits
  BY DEF Unload, SessionInv, BrowserInv, BrowserTypeOK, PageType
<1>2. /\ Load("login", 0, page.leaving, FALSE) /\ calls' = {}
      /\ UNCHANGED << session, stored, valid, challenge, logins, pairs, faults,
                      visits >>
  BY DEF Unload, vars
<1>3. /\ 0 \in 0 .. MaxLogins /\ page.leaving \in 0 .. asks'
      /\ asks' \in asks .. MaxCalls /\ calls' \subseteq 1 .. asks'
  BY <1>1, <1>2, Numbers
<1>4. /\ challenge' \in [1 .. MaxLogins -> 0 .. asks']
      /\ \A c \in 1 .. logins : challenge'[c] = challenge[c]
      /\ logins' \in Nat /\ logins' >= logins
  BY <1>1, <1>2, Numbers
<1>5. Loads("login", 0, page.leaving, FALSE)
  BY <1>1, <1>2, <1>3, <1>4 DEF Loads
<1> QED
  BY <1>5, LoadInv

\* The user signs in: the code is issued for the state of the login page.
LEMMA SubmitInv ==
  ASSUME SessionInv, NEW r \in Replicas, NEW u \in Users, Submit(r, u)
  PROVE  BrowserInv'
<1>1. /\ page.state \in 0 .. asks /\ asks' = asks
      /\ asks \in 1 .. MaxCalls /\ challenge \in [1 .. MaxLogins -> 0 .. asks]
      /\ visits \in 0 .. MaxVisits
  BY DEF Submit, SessionInv, BrowserInv, BrowserTypeOK, PageType
<1>2. logins' = logins + 1 /\ logins < MaxLogins /\ pairs' = pairs
  BY DEF Submit, Login
<1>3. /\ Load("callback", logins', page.state, FALSE) /\ calls' = {}
      /\ challenge' = [challenge EXCEPT ![logins'] = page.state]
      /\ UNCHANGED << session, stored, valid, faults, visits >>
  BY DEF Submit
<1>4. /\ challenge' \in [1 .. MaxLogins -> 0 .. asks']
      /\ challenge'[logins'] = page.state
      /\ \A c \in 1 .. logins : challenge'[c] = challenge[c]
      /\ logins' \in 1 .. MaxLogins
  BY <1>1, <1>2, <1>3, Numbers
<1>5. /\ logins' \in 0 .. MaxLogins /\ logins' \in 1 .. logins'
      /\ logins' \in Nat /\ logins' >= logins
      /\ asks' \in asks .. MaxCalls /\ calls' \subseteq 1 .. asks'
  BY <1>1, <1>2, <1>3, Numbers
<1>6. Loads("callback", logins', page.state, FALSE)
  BY <1>1, <1>2, <1>3, <1>4, <1>5 DEF Loads
<1> QED
  BY <1>6, LoadInv

-----------------------------------------------------------------------------
(* What happens on a page *)

\* One more call of login() leaves every older one what it is.
LEMMA MoreAsks ==
  ASSUME SessionInv, asks' \in asks .. MaxCalls
  PROVE  /\ asks' \in 1 .. MaxCalls /\ page \in PageType(asks')
         /\ session \in [verifier : 0 .. asks', state : 0 .. asks']
         /\ challenge \in [1 .. MaxLogins -> 0 .. asks']
         /\ requests \subseteq RequestType(asks')
         /\ opened \subseteq 1 .. asks' /\ calls \subseteq 1 .. asks'
<1>1. 0 .. asks \subseteq 0 .. asks' /\ 1 .. asks \subseteq 1 .. asks'
      /\ asks' \in 1 .. MaxCalls
  BY Numbers
<1>2. PageType(asks) \subseteq PageType(asks')
      /\ RequestType(asks) \subseteq RequestType(asks')
  BY <1>1 DEF PageType, RequestType
<1>3. /\ page \in PageType(asks) /\ requests \subseteq RequestType(asks)
      /\ session \in [verifier : 0 .. asks, state : 0 .. asks]
      /\ challenge \in [1 .. MaxLogins -> 0 .. asks]
      /\ opened \subseteq 1 .. asks /\ calls \subseteq 1 .. asks
  BY DEF SessionInv, BrowserInv, BrowserTypeOK
<1>4. session \in [verifier : 0 .. asks', state : 0 .. asks']
  BY <1>1, <1>3
<1>5. challenge \in [1 .. MaxLogins -> 0 .. asks']
  BY <1>1, <1>3
<1> QED
  BY <1>1, <1>2, <1>3, <1>4, <1>5

LEMMA ClickInv ==
  ASSUME SessionInv, Click
  PROVE  BrowserInv'
<1>1. asks' \in asks .. MaxCalls /\ asks' \in 1 .. asks'
  BY Numbers DEF Click, Ask
<1>2. /\ calls' = calls \cup {asks'}
      /\ UNCHANGED << logins, pairs, page, flag, handlers, session, stored, valid,
                      challenge, opened, visits, requests, replies, faults >>
  BY DEF Click, vars
<1>3. BrowserTypeOK'
  BY <1>1, <1>2, MoreAsks DEF BrowserTypeOK, SessionInv, BrowserInv
<1>4. PageInv' /\ RequestsInv' /\ RepliesInv'
  BY <1>2 DEF SessionInv, BrowserInv, PageInv, RequestsInv, RepliesInv, PairAwaited
<1> QED
  BY <1>3, <1>4 DEF BrowserInv

\* Signing out forgets the pair: whatever comes is newer.
LEMMA LogoutInv ==
  ASSUME SessionInv, Logout
  PROVE  BrowserInv'
<1>1. asks' \in asks .. MaxCalls /\ (calls' = calls \/ calls' = calls \cup {asks'})
      /\ asks' \in 1 .. asks'
  BY Numbers DEF Logout, Ask, SessionInv, BrowserInv, BrowserTypeOK
<1>2. /\ flag' = FALSE /\ stored' = 0 /\ valid' = FALSE
      /\ UNCHANGED << logins, pairs, page, handlers, session,
                      challenge, opened, visits, requests, replies, faults >>
  BY DEF Logout, vars
<1>3. stored' \in 0 .. Cardinality(pairs')
  BY <1>2, Numbers
<1>4. BrowserTypeOK'
  BY <1>1, <1>2, <1>3, MoreAsks DEF BrowserTypeOK, SessionInv, BrowserInv
<1>5. RepliesInv'
  BY <1>2 DEF SessionInv, BrowserInv, BrowserTypeOK, ReplyType, RepliesInv,
              PairAwaited
<1>6. PageInv' /\ RequestsInv'
  BY <1>2 DEF SessionInv, BrowserInv, PageInv, RequestsInv
<1> QED
  BY <1>4, <1>5, <1>6 DEF BrowserInv

\* Verifier and state are kept together.
LEMMA DigestedInv ==
  ASSUME SessionInv, NEW a, Digested(a)
  PROVE  BrowserInv'
<1>1. a \in 1 .. asks /\ a \in 0 .. asks
  BY Numbers DEF Digested, SessionInv, BrowserInv, BrowserTypeOK
<1>2. /\ calls' = calls \ {a} /\ session' = [verifier |-> a, state |-> a]
      /\ page' = [page EXCEPT !.leaving = a]
      /\ UNCHANGED << logins, pairs, asks, flag, handlers, stored, valid,
                      challenge, opened, visits, requests, replies, faults >>
  BY DEF Digested, vars
<1>3. /\ page' \in PageType(asks) /\ page'.at = page.at
      /\ page'.code = page.code /\ page'.state = page.state
  BY <1>1, <1>2 DEF SessionInv, BrowserInv, BrowserTypeOK, PageType
<1>4. session' \in [verifier : 0 .. asks, state : 0 .. asks]
      /\ session'.verifier = session'.state
  BY <1>1, <1>2
<1>5. BrowserTypeOK'
  BY <1>2, <1>3, <1>4 DEF BrowserTypeOK, SessionInv, BrowserInv
<1>6. PageInv' /\ RequestsInv' /\ RepliesInv'
  BY <1>2, <1>3, <1>4
  DEF SessionInv, BrowserInv, PageInv, RequestsInv, RepliesInv, PairAwaited
<1> QED
  BY <1>5, <1>6 DEF BrowserInv

LEMMA OutdateInv ==
  ASSUME SessionInv, Outdate
  PROVE  BrowserInv'
<1>1. /\ valid' = FALSE
      /\ UNCHANGED << logins, pairs, page, flag, handlers, calls, asks, session,
                      stored, challenge, opened, visits, requests, replies, faults >>
  BY DEF Outdate, vars
<1> QED
  BY <1>1 DEF SessionInv, BrowserInv, BrowserTypeOK, PageInv, RequestsInv, RepliesInv,
              PairAwaited

-----------------------------------------------------------------------------
(* handleCallback() *)

\* What is sent fits: the state of the page is the call whose verifier is kept,
\* and the one whose challenge the code has.
LEMMA StartInv ==
  ASSUME SessionInv, NEW h \in Handlers, Start(h)
  PROVE  BrowserInv'
<1>1. UNCHANGED << logins, pairs, page, flag, calls, asks, session, stored, valid,
                   challenge, opened, visits, replies, faults >>
  BY DEF Start, vars
<1>2. handlers' \in [Handlers -> {"ready", "sent", "done"}]
  BY DEF Start, SessionInv, BrowserInv, BrowserTypeOK
<1>3. PageInv' /\ RepliesInv'
  BY <1>1 DEF SessionInv, BrowserInv, PageInv, RepliesInv, PairAwaited
<1>4. requests' \subseteq RequestType(asks) /\ RequestsInv'
  <2>1. CASE requests' = requests
    BY <1>1, <2>1 DEF SessionInv, BrowserInv, BrowserTypeOK, RequestsInv
  <2>2. ASSUME Fits, NEW q,
               q = [by |-> h, code |-> page.code, verifier |-> session.verifier],
               requests' = requests \cup {q}
        PROVE  requests' \subseteq RequestType(asks) /\ RequestsInv'
    <3>1. /\ page.code \in 1 .. logins /\ challenge[page.code] = page.state
          /\ session.verifier = page.state
      BY <2>2 DEF Start, Fits, SessionInv, BrowserInv, PageInv
    <3>2. session.verifier \in 1 .. asks /\ page.code \in 1 .. MaxLogins
      BY <2>2, <3>1, Numbers DEF Fits, SessionInv, BrowserInv, BrowserTypeOK
    <3>3. q \in RequestType(asks) /\ q.code = page.code
          /\ q.verifier = challenge[q.code]
      BY <2>2, <3>1, <3>2 DEF RequestType
    <3> QED
      BY <1>1, <2>2, <3>1, <3>3
      DEF SessionInv, BrowserInv, BrowserTypeOK, RequestsInv
  <2> QED
    BY <2>1, <2>2 DEF Start
<1>5. BrowserTypeOK'
  BY <1>1, <1>2, <1>4 DEF SessionInv, BrowserInv, BrowserTypeOK
<1> QED
  BY <1>3, <1>4, <1>5 DEF BrowserInv

\* The answer of the token endpoint: no pair, or a new one for the code.
LEMMA AnswerInv ==
  ASSUME SessionInv, NEW q \in requests, NEW n \in 0 .. MaxPairs, Answer(q, n),
         UNCHANGED << logins, page, flag, handlers, calls, asks, session, stored,
                      valid, challenge, opened, visits, faults >>,
         pairs \subseteq pairs',
         Cardinality(pairs') \in Nat, Cardinality(pairs') >= Cardinality(pairs),
         n # 0 => n > Cardinality(pairs)
                  /\ \E p \in pairs' : p.from = "code" /\ p.key = q.code /\ p.id = n
  PROVE  BrowserInv'
<1>1. requests' \subseteq requests
  BY DEF Answer
<1>2. stored' \in 0 .. Cardinality(pairs')
  BY Numbers
<1>3. q \in RequestType(asks) /\ (q.by # "nobody" => q.code = page.code)
  BY DEF SessionInv, BrowserInv, BrowserTypeOK, RequestsInv
<1>4. replies' \subseteq ReplyType /\ RepliesInv'
  <2>1. ASSUME NEW m \in replies
        PROVE  m \in ReplyType
               /\ (m.pair # 0 => PairAwaited(m.pair)' /\ m.pair >= stored')
    BY DEF SessionInv, BrowserInv, BrowserTypeOK, RepliesInv, PairAwaited
  <2>2. CASE replies' = replies
    BY <2>1, <2>2 DEF RepliesInv
  <2>3. ASSUME q.by # "nobody", NEW m, m = [by |-> q.by, pair |-> n],
               replies' = replies \cup {m}
        PROVE  replies' \subseteq ReplyType /\ RepliesInv'
    <3>1. m \in ReplyType /\ m.pair = n
      BY <1>3, <2>3 DEF ReplyType, RequestType
    <3>2. n # 0 => PairAwaited(n)' /\ n >= stored'
      BY <1>3, <2>3, Numbers DEF PairAwaited
    <3> QED
      BY <2>1, <2>3, <3>1, <3>2 DEF RepliesInv
  <2> QED
    BY <2>2, <2>3 DEF Answer
<1>5. BrowserTypeOK'
  BY <1>1, <1>2, <1>4 DEF SessionInv, BrowserInv, BrowserTypeOK
<1>6. PageInv' /\ RequestsInv'
  BY <1>1 DEF SessionInv, BrowserInv, PageInv, RequestsInv
<1> QED
  BY <1>4, <1>5, <1>6 DEF BrowserInv

LEMMA ServeInv ==
  ASSUME SessionInv, NEW q \in requests, NEW r \in Replicas, Serve(q, r)
  PROVE  BrowserInv'
<1>1. UNCHANGED << page, flag, handlers, calls, asks, session, stored, valid,
                   challenge, opened, visits, faults >>
  BY DEF Serve
<1>2. TypeOK /\ CodesInv /\ PairsInv
  BY DEF SessionInv, OAuthInv
<1>3. CASE pairs' = pairs /\ logins' = logins /\ Answer(q, 0)
  BY <1>1, <1>3, Numbers, AnswerInv
<1>4. ASSUME NEW e \in CodesAt(r, q.code), Redeem(r, e),
             Answer(q, Cardinality(pairs) + 1)
      PROVE  BrowserInv'
  <2>1. e.id = q.code /\ IssuePair(r, "code", e.id, e, e.id, {}) /\ logins' = logins
    BY <1>4 DEF CodesAt, Redeem
  <2>2. PICK n : n = Cardinality(pairs) + 1
    OBVIOUS
  <2>3. /\ n \in Nat /\ pairs' = pairs \cup {PairFor(n, "code", e.id, e, e.id)}
        /\ Cardinality(pairs') = n
    BY <1>2, <2>1, <2>2, IssueEffect
  <2>4. n \in 0 .. MaxPairs
    BY <2>1, <2>2, <2>3, Numbers DEF IssuePair
  <2>5. PICK p : p = PairFor(n, "code", e.id, e, e.id)
    OBVIOUS
  <2>6. p \in pairs' /\ p.from = "code" /\ p.key = q.code /\ p.id = n
    BY <2>1, <2>3, <2>5 DEF PairFor
  <2>7. n > Cardinality(pairs) /\ Cardinality(pairs') >= Cardinality(pairs)
        /\ pairs \subseteq pairs'
    BY <2>2, <2>3, Numbers
  <2>8. Answer(q, n)
    BY <1>4, <2>2
  <2> QED
    BY <1>1, <2>1, <2>3, <2>4, <2>6, <2>7, <2>8, AnswerInv
<1> QED
  BY <1>3, <1>4 DEF Serve, Mismatch, RefuseCode

LEMMA FailInv ==
  ASSUME SessionInv, NEW q \in requests, Fail(q)
  PROVE  BrowserInv'
<1>1. /\ UNCHANGED << logins, pairs, page, flag, handlers, calls, asks, session,
                      stored, valid, challenge, opened, visits >>
      /\ faults' \in 0 .. MaxFaults
  BY SessionAssumption
  DEF Fail, vars, SessionInv, BrowserInv, BrowserTypeOK
<1>2. q \in RequestType(asks) /\ q.by # "nobody"
  BY DEF Fail, SessionInv, BrowserInv, BrowserTypeOK
<1>3. PICK lost : lost = [q EXCEPT !.by = "nobody"]
  OBVIOUS
<1>4. lost \in RequestType(asks) /\ lost.by = "nobody" /\ lost.code = q.code
      /\ lost.verifier = q.verifier
  BY <1>2, <1>3 DEF RequestType
<1>5. requests' = (requests \ {q}) \cup {lost}
  BY <1>3 DEF Fail
<1>6. requests' \subseteq RequestType(asks) /\ RequestsInv'
  BY <1>1, <1>4, <1>5 DEF SessionInv, BrowserInv, BrowserTypeOK, RequestsInv
<1>7. PICK m : m = [by |-> q.by, pair |-> 0]
  OBVIOUS
<1>8. replies' = replies \cup {m} /\ m.pair = 0 /\ m \in ReplyType
  BY <1>2, <1>7, Numbers DEF Fail, RequestType, ReplyType
<1>9. replies' \subseteq ReplyType /\ RepliesInv'
  BY <1>1, <1>8 DEF SessionInv, BrowserInv, BrowserTypeOK, RepliesInv, PairAwaited
<1>10. BrowserTypeOK'
  BY <1>1, <1>6, <1>9 DEF SessionInv, BrowserInv, BrowserTypeOK
<1>11. PageInv'
  BY <1>1 DEF SessionInv, BrowserInv, PageInv
<1> QED
  BY <1>6, <1>9, <1>10, <1>11 DEF BrowserInv

\* Two answers with a pair bring the same one: a code is exchanged once.
LEMMA OnePair ==
  ASSUME SessionInv, NEW m \in replies, NEW n \in replies, m.pair # 0, n.pair # 0
  PROVE  m.pair = n.pair
<1>1. PairAwaited(m.pair) /\ PairAwaited(n.pair)
  BY DEF SessionInv, BrowserInv, RepliesInv
<1> QED
  BY <1>1 DEF PairAwaited, SessionInv, OAuthInv, PairsInv

LEMMA ResumeInv ==
  ASSUME SessionInv, NEW m \in replies, Resume(m)
  PROVE  BrowserInv'
<1>1. /\ UNCHANGED << logins, pairs, calls, asks, challenge, opened, visits,
                      requests, faults >>
      /\ replies' \subseteq replies
  BY DEF Resume, vars
<1>2. m \in ReplyType
  BY DEF SessionInv, BrowserInv, BrowserTypeOK
<1>3. handlers' \in [Handlers -> {"ready", "sent", "done"}]
  BY <1>2 DEF Resume, ReplyType, SessionInv, BrowserInv, BrowserTypeOK
<1>4. CASE m.pair = 0
  <2>1. UNCHANGED << page, flag, session, stored, valid >>
    BY <1>4 DEF Resume
  <2>2. BrowserTypeOK'
    BY <1>1, <1>3, <2>1 DEF SessionInv, BrowserInv, BrowserTypeOK
  <2> QED
    BY <1>1, <2>1, <2>2
    DEF SessionInv, BrowserInv, PageInv, RequestsInv, RepliesInv, PairAwaited
<1>5. CASE m.pair # 0
  <2>1. /\ stored' = m.pair /\ valid' = TRUE /\ flag' = TRUE
        /\ session' = Nothing /\ page' = [page EXCEPT !.at = "app"]
    BY <1>5 DEF Resume
  <2>2. page' \in PageType(asks) /\ page'.at = "app" /\ page'.code = page.code
    BY <2>1 DEF SessionInv, BrowserInv, BrowserTypeOK, PageType
  <2>3. session' \in [verifier : 0 .. asks, state : 0 .. asks]
        /\ session'.verifier = session'.state
    BY <2>1, Numbers DEF Nothing
  <2>4. stored' \in 0 .. Cardinality(pairs)
    <3>1. PairAwaited(m.pair)
      BY <1>5 DEF SessionInv, BrowserInv, RepliesInv
    <3>2. m.pair \in 1 .. Cardinality(pairs)
      BY <3>1 DEF PairAwaited, SessionInv, OAuthInv, PairsInv
    <3> QED
      BY <2>1, <3>2, Numbers
  <2>5. \A n \in replies' :
          n.pair # 0 => PairAwaited(n.pair)' /\ n.pair >= stored'
    <3>1. \A n \in replies' : n.pair # 0 => n.pair = stored'
      BY <1>1, <1>5, <2>1, OnePair
    <3>2. stored' \in Nat
      BY <2>4, Numbers
    <3>3. \A n \in replies' : n.pair # 0 => PairAwaited(n.pair)'
      BY <1>1, <2>2 DEF SessionInv, BrowserInv, RepliesInv, PairAwaited
    <3> QED
      BY <3>1, <3>2, <3>3
  <2>6. BrowserTypeOK'
    BY <1>1, <1>3, <2>1, <2>2, <2>3, <2>4 DEF SessionInv, BrowserInv, BrowserTypeOK
  <2>7. PageInv' /\ RequestsInv' /\ RepliesInv'
    BY <1>1, <2>2, <2>3, <2>5
    DEF SessionInv, BrowserInv, PageInv, RequestsInv, RepliesInv
  <2> QED
    BY <2>6, <2>7 DEF BrowserInv
<1> QED
  BY <1>4, <1>5

LEMMA ServerNextInv ==
  ASSUME SessionInv, ServerNext
  PROVE  BrowserInv'
<1>1. UNCHANGED << logins, pairs, browser >>
  BY DEF ServerNext, Expire, Restart, DropCode
<1> QED
  BY <1>1 DEF browser, SessionInv, BrowserInv, BrowserTypeOK, PageInv, RequestsInv,
              RepliesInv, PairAwaited

-----------------------------------------------------------------------------
(* The theorems *)

LEMMA InitSession == SInit => SessionInv
<1> SUFFICES ASSUME SInit PROVE SessionInv
  OBVIOUS
<1>1. OAuthInv
  BY InitInv DEF SInit
<1>2. /\ asks = 1 /\ calls = {1} /\ 1 \in 1 .. MaxCalls /\ 0 \in 0 .. 1
      /\ 0 \in 0 .. MaxLogins /\ 0 \in 0 .. MaxVisits /\ 0 \in 0 .. MaxFaults
  BY SessionAssumption, BoundAssumption DEF SInit
<1>3. page \in PageType(asks) /\ page.at = "app"
  BY <1>2 DEF SInit, Page, PageType
<1>4. session \in [verifier : 0 .. asks, state : 0 .. asks]
      /\ session.verifier = session.state
  BY <1>2 DEF SInit, Nothing
<1>5. stored \in 0 .. Cardinality(pairs)
  <2>1. Cardinality(pairs) \in Nat
    BY <1>1, FS_CardinalityType DEF OAuthInv, PairsInv
  <2> QED
    BY <2>1 DEF SInit
<1>6. /\ challenge \in [1 .. MaxLogins -> 0 .. asks]
      /\ handlers \in [Handlers -> {"ready", "sent", "done"}]
  BY <1>2 DEF SInit
<1>7. BrowserTypeOK
  <2>1. /\ requests = {} /\ replies = {} /\ opened = {}
        /\ flag \in BOOLEAN /\ valid \in BOOLEAN
    BY DEF SInit
  <2>2. calls \subseteq 1 .. asks /\ asks \in 1 .. MaxCalls
    BY <1>2
  <2>3. visits \in 0 .. MaxVisits /\ faults \in 0 .. MaxFaults
    BY <1>2 DEF SInit
  <2> QED
    BY <1>3, <1>4, <1>5, <1>6, <2>1, <2>2, <2>3 DEF BrowserTypeOK
<1>8. PageInv /\ RequestsInv /\ RepliesInv
  BY <1>3, <1>4 DEF SInit, PageInv, RequestsInv, RepliesInv
<1> QED
  BY <1>1, <1>7, <1>8 DEF SessionInv, BrowserInv

LEMMA StepBrowser ==
  ASSUME SessionInv, [SNext]_svars
  PROVE  BrowserInv'
<1>1. CASE UserNext
  BY <1>1, VisitInv, ClickInv, LogoutInv, SubmitInv DEF UserNext
<1>2. CASE LoginStep
  BY <1>2, UnloadInv, DigestedInv DEF LoginStep
<1>3. CASE CallbackStep
  BY <1>3, StartInv, ServeInv, ResumeInv DEF CallbackStep
<1>4. CASE Outdate \/ ServerNext \/ \E q \in requests : Fail(q)
  BY <1>4, OutdateInv, ServerNextInv, FailInv
<1>5. CASE UNCHANGED svars
  BY <1>5 DEF svars, vars, browser, SessionInv, BrowserInv, BrowserTypeOK, PageInv,
              RequestsInv, RepliesInv, PairAwaited
<1> QED
  BY <1>1, <1>2, <1>3, <1>4, <1>5 DEF SNext

\* SessionInv holds always: of the server, the page, the storage and what is
\* under way between them.
THEOREM SessionInvariant == SessionSpec => []SessionInv
<1>1. SessionInv /\ [SNext]_svars => SessionInv'
  BY StepBrowser, ServerSteps, StepInv DEF SessionInv
<1> QED
  BY <1>1, InitSession, PTL DEF SessionSpec

\* The browser's state and the server's always have their types (AuthService,
\* sessionStorage, localStorage).
THEOREM SessionTypeCorrect == SessionSpec => []SessionTypeOK
<1>1. SessionInv => SessionTypeOK
  BY SessionTypes DEF SessionInv, BrowserInv, OAuthInv
<1> QED
  BY <1>1, SessionInvariant, PTL

\* A code is only ever presented with the verifier it was issued for, whichever
\* calls of login() raced and whichever login page was used.
THEOREM VerifiersFit == SessionSpec => []VerifierFits
<1>1. SessionInv => VerifierFits
  BY DEF SessionInv, BrowserInv, RequestsInv, VerifierFits
<1> QED
  BY <1>1, SessionInvariant, PTL

\* The tokens that are stored stay until the user signs out, or are replaced by a
\* later pair.
LEMMA NextSigned ==
  ASSUME SessionInv, [SNext]_svars
  PROVE  Signed
<1>1. CASE UserNext
  BY <1>1 DEF UserNext, Visit, Click, Logout, Submit, Signed
<1>2. CASE LoginStep \/ Outdate \/ ServerNext \/ UNCHANGED svars
  BY <1>2 DEF LoginStep, Unload, Digested, Outdate, ServerNext, svars, browser, Signed
<1>3. CASE (\E h \in Handlers : Start(h)) \/ \E q \in requests : Fail(q)
  BY <1>3 DEF Start, Fail, Signed
<1>4. ASSUME NEW q \in requests, NEW r \in Replicas, Serve(q, r) PROVE Signed
  BY <1>4 DEF Serve, Signed
<1>5. ASSUME NEW m \in replies, Resume(m) PROVE Signed
  <2>1. m.pair # 0 => m.pair >= stored
    BY DEF SessionInv, BrowserInv, RepliesInv
  <2>2. m.pair \in Nat
    BY Numbers DEF SessionInv, BrowserInv, BrowserTypeOK, ReplyType
  <2> QED
    BY <1>5, <2>1, <2>2, Numbers DEF Resume, Signed
<1> QED
  BY <1>1, <1>2, <1>3, <1>4, <1>5 DEF SNext, CallbackStep

\* A sign-in that succeeded is not undone by its duplicate, an error or an older
\* answer (the two handleCallback() of a page).
THEOREM SignInsKept == SessionSpec => KeptUntilLogout
<1>1. SessionInv /\ [SNext]_svars => [Signed]_svars
  BY NextSigned
<1> QED
  BY <1>1, SessionInvariant, PTL DEF SessionSpec, KeptUntilLogout
=============================================================================
