--------------------------- MODULE TabSessionProofs ---------------------------
(***************************************************************************)
(* Proofs about TabSession, for any tabs, users, scopes and bounds.        *)
(***************************************************************************)
EXTENDS TabSession, SequenceTheorems, TLAPS

-----------------------------------------------------------------------------
(* The inductive invariant *)

\* What a tab heard of was issued, and so was what it saw.  It shows the owner
\* of the token it last heard of, or nobody if it signed out since; and as long
\* as it has heard of none, the answer for the token it saw is to come.
ShownInv ==
  \A t \in Tabs :
    /\ tab[t].seen \in 0 .. Len(issued) /\ tab[t].heard \in 0 .. Len(issued)
    /\ tab[t].heard # 0 /\ tab[t].seen = tab[t].heard =>
         tab[t].user = issued[tab[t].heard]
    /\ /\ tab[t].flag /\ token # 0 /\ tab[t].seen = token
       /\ tab[t].heard = 0 /\ ~tab[t].missed
       => \E i \in asking : i.tab = t /\ i.bearer = token

\* An answer names the owner of the token that asked.
AnswersInv ==
  \A i \in asking : i.st = "answered" /\ i.user # Nobody =>
    i.user = issued[i.bearer]

\* A click was offered to the user it was shown to.
ClicksInv == \A c \in calls : c.user # Nobody => Offered(c.user, c.op)

TabInv == TypeOK /\ ShownInv /\ AnswersInv /\ ClicksInv

-----------------------------------------------------------------------------
(* Pages and sign-in *)

Inquiries(n) == [tab : Tabs, bearer : 1 .. n, st : {"asked", "answered"},
                 user : People]

\* A page that is loaded knows who owns the stored token, or asks, or is signed
\* out.
LEMMA LoadInv ==
  ASSUME TabInv, NEW t \in Tabs, NEW signing \in People, Load(t, signing),
         UNCHANGED << issued, age, calls, faults >>, visits' \in 0 .. MaxVisits
  PROVE  TabInv'
<1> DEFINE page == [flag |-> HasValidToken, user |-> info, signing |-> signing,
                    seen |-> token, heard |-> 0, missed |-> FALSE]
<1>0. TypeOK /\ ShownInv /\ AnswersInv /\ ClicksInv
  BY DEF TabInv
<1>1. /\ tab' = [tab EXCEPT ![t] = page]
      /\ asking' = {i \in asking : i.tab # t} \cup
                     (IF HasValidToken THEN {Asking(t, token)} ELSE {})
      /\ token' = token /\ info' = info
  BY DEF Load
<1>2. Len(issued) \in Nat /\ token \in 0 .. Len(issued)
  BY <1>0 DEF TypeOK
<1>3. /\ page \in Pages /\ page.flag = HasValidToken /\ page.seen = token
      /\ page.heard = 0
  BY <1>0, <1>2 DEF Pages, TypeOK, HasValidToken
<1>4. HasValidToken => /\ token # 0
                       /\ Asking(t, token) \in Inquiries(Len(issued))
                       /\ Asking(t, token).st = "asked"
                       /\ Asking(t, token).tab = t
                       /\ Asking(t, token).bearer = token
  BY <1>2 DEF HasValidToken, Asking, Inquiries, People
<1> HIDE DEF page
<1>5. /\ tab' \in [Tabs -> Pages] /\ tab'[t] = page
      /\ \A o \in Tabs : o # t => tab'[o] = tab[o]
  BY <1>0, <1>1, <1>3 DEF TypeOK
<1>6. TypeOK'
  <2>1. asking' \subseteq Inquiries(Len(issued))
    BY <1>0, <1>1, <1>4 DEF TypeOK, Inquiries
  <2> QED
    BY <1>0, <1>1, <1>5, <2>1 DEF TypeOK, Inquiries
<1>7. ShownInv'
  <2>1. ASSUME NEW o \in Tabs
        PROVE  /\ tab'[o].seen \in 0 .. Len(issued)
               /\ tab'[o].heard \in 0 .. Len(issued)
               /\ tab'[o].heard # 0 /\ tab'[o].seen = tab'[o].heard =>
                    tab'[o].user = issued[tab'[o].heard]
               /\ /\ tab'[o].flag /\ token # 0 /\ tab'[o].seen = token
                  /\ tab'[o].heard = 0 /\ ~tab'[o].missed
                  => \E i \in asking' : i.tab = o /\ i.bearer = token
    <3>1. CASE o = t
      <4>1. HasValidToken => Asking(t, token) \in asking'
        BY <1>1
      <4> QED
        BY <1>2, <1>3, <1>4, <1>5, <3>1, <4>1
    <3>2. CASE o # t
      <4>1. \A i \in asking : i.tab = o => i \in asking'
        BY <1>1, <3>2
      <4> QED
        BY <1>0, <1>5, <3>2, <4>1 DEF ShownInv
    <3> QED
      BY <3>1, <3>2
  <2> QED
    BY <1>1, <2>1 DEF ShownInv
<1>8. AnswersInv'
  <2>1. \A i \in asking' : i.st = "answered" => i \in asking
    BY <1>1, <1>4
  <2> QED
    BY <1>0, <2>1 DEF AnswersInv
<1>9. ClicksInv'
  BY <1>0 DEF ClicksInv
<1> QED
  BY <1>6, <1>7, <1>8, <1>9 DEF TabInv

\* The new token is another than any page saw; the page that stored it asks.
LEMMA ExchangeInv ==
  ASSUME TabInv, NEW t \in Tabs, Exchange(t)
  PROVE  TabInv'
<1>0. TypeOK /\ ShownInv /\ AnswersInv /\ ClicksInv
  BY DEF TabInv
<1> DEFINE u == tab[t].signing
<1>1. /\ issued \in Seq(Users) /\ Len(issued) \in Nat
      /\ age \in Seq({"fresh", "closing", "expired"}) /\ Len(age) = Len(issued)
      /\ Len(issued) < MaxTokens
      /\ tab[t] \in Pages /\ u \in Users
  BY <1>0 DEF TypeOK, Exchange, Pages, People
<1> PICK n \in Nat : n = Len(issued) + 1
  BY <1>1
<1>2. /\ issued' = Append(issued, u) /\ issued' \in Seq(Users)
      /\ age' = Append(age, "fresh")
      /\ age' \in Seq({"fresh", "closing", "expired"})
      /\ Len(issued') = n /\ Len(age') = n /\ n <= MaxTokens
      /\ \A m \in 1 .. Len(issued) : issued'[m] = issued[m]
      /\ token' = n /\ info' = info
      /\ UNCHANGED << calls, visits, faults >>
  BY <1>1, BoundAssumption DEF Exchange
<1> DEFINE page == [tab[t] EXCEPT !.flag = TRUE, !.signing = Nobody, !.seen = n]
<1>3. tab' = [tab EXCEPT ![t] = page] /\ asking' = asking \cup {Asking(t, n)}
  BY <1>1, <1>2 DEF Exchange
<1>4. /\ page \in Pages /\ page.seen = n /\ page.heard = tab[t].heard
      /\ page.user = tab[t].user
  BY <1>1 DEF Pages, People
<1>5. /\ Asking(t, n) \in Inquiries(n) /\ Asking(t, n).tab = t
      /\ Asking(t, n).bearer = n /\ Asking(t, n).st = "asked"
  BY <1>1 DEF Asking, Inquiries, People
<1> HIDE DEF page
<1>6. /\ tab' \in [Tabs -> Pages] /\ tab'[t] = page
      /\ \A o \in Tabs : o # t => tab'[o] = tab[o]
  BY <1>0, <1>3, <1>4 DEF TypeOK
<1>7. asking \subseteq Inquiries(Len(issued))
  BY <1>0 DEF TypeOK, Inquiries
<1>8. TypeOK'
  <2>1. asking' \subseteq Inquiries(n)
    BY <1>1, <1>3, <1>5, <1>7 DEF Inquiries
  <2>2. calls' \subseteq [op : Operations, bearer : 0 .. n, user : People]
    BY <1>0, <1>1, <1>2 DEF TypeOK
  <2> QED
    BY <1>0, <1>2, <1>6, <2>1, <2>2 DEF TypeOK, Inquiries
<1>9. ShownInv'
  <2>1. ASSUME NEW o \in Tabs
        PROVE  /\ tab'[o].seen \in 0 .. n
               /\ tab'[o].heard \in 0 .. n
               /\ tab'[o].heard # 0 /\ tab'[o].seen = tab'[o].heard =>
                    tab'[o].user = issued'[tab'[o].heard]
               /\ tab'[o].seen = n => o = t
    <3>1. /\ tab[o].seen \in 0 .. Len(issued)
          /\ tab[o].heard \in 0 .. Len(issued)
          /\ tab[o].heard # 0 /\ tab[o].seen = tab[o].heard =>
               tab[o].user = issued[tab[o].heard]
      BY <1>0 DEF ShownInv
    <3>2. tab[o].heard # 0 => issued'[tab[o].heard] = issued[tab[o].heard]
      BY <1>1, <1>2, <3>1
    <3> QED
      BY <1>1, <1>4, <1>6, <3>1, <3>2
  <2>2. Asking(t, n) \in asking'
    BY <1>3
  <2> QED
    BY <1>2, <1>5, <2>1, <2>2 DEF ShownInv
<1>10. AnswersInv'
  <2>1. \A i \in asking' :
          i.st = "answered" => i \in asking /\ i.bearer \in 1 .. Len(issued)
    BY <1>3, <1>5, <1>7 DEF Inquiries
  <2> QED
    BY <1>0, <1>2, <2>1 DEF AnswersInv
<1>11. ClicksInv'
  BY <1>0, <1>2 DEF ClicksInv
<1> QED
  BY <1>8, <1>9, <1>10, <1>11 DEF TabInv

LEMMA LogoutInv ==
  ASSUME TabInv, NEW t \in Tabs, Logout(t)
  PROVE  TabInv'
<1>0. TypeOK /\ ShownInv /\ AnswersInv /\ ClicksInv
  BY DEF TabInv
<1> DEFINE page == [tab[t] EXCEPT !.flag = FALSE, !.user = Nobody, !.seen = 0]
<1>1. /\ tab' = [tab EXCEPT ![t] = page] /\ token' = 0 /\ info' = Nobody
      /\ UNCHANGED << issued, age, asking, calls, visits, faults >>
  BY DEF Logout
<1>2. tab[t] \in Pages /\ Len(issued) \in Nat
  BY <1>0 DEF TypeOK
<1>3. /\ page \in Pages /\ page.seen = 0 /\ page.heard = tab[t].heard
      /\ page.user = Nobody
  BY <1>2 DEF Pages, People
<1> HIDE DEF page
<1>4. /\ tab' \in [Tabs -> Pages] /\ tab'[t] = page
      /\ \A o \in Tabs : o # t => tab'[o] = tab[o]
  BY <1>0, <1>1, <1>3 DEF TypeOK
<1>5. TypeOK'
  BY <1>0, <1>1, <1>2, <1>4 DEF TypeOK, People
<1>6. ShownInv'
  BY <1>0, <1>1, <1>2, <1>3, <1>4 DEF ShownInv
<1>7. AnswersInv' /\ ClicksInv'
  BY <1>0, <1>1 DEF AnswersInv, ClicksInv
<1> QED
  BY <1>5, <1>6, <1>7 DEF TabInv

-----------------------------------------------------------------------------
(* GET /auth/userinfo *)

LEMMA ServeUserInfoInv ==
  ASSUME TabInv, NEW i \in asking, ServeUserInfo(i)
  PROVE  TabInv'
<1>0. TypeOK /\ ShownInv /\ AnswersInv /\ ClicksInv
  BY DEF TabInv
<1> DEFINE answer == [i EXCEPT !.st = "answered", !.user = UserInfo(i.bearer)]
<1>1. /\ asking' = (asking \ {i}) \cup {answer}
      /\ UNCHANGED << issued, age, token, info, tab, calls, visits, faults >>
  BY DEF ServeUserInfo
<1>2. i \in Inquiries(Len(issued))
  BY <1>0 DEF TypeOK, Inquiries
<1>3. UserInfo(i.bearer) \in {Nobody, issued[i.bearer]} /\ UserInfo(i.bearer) \in People
  <2>1. issued[i.bearer] \in Users
    BY <1>0, <1>2 DEF TypeOK, Inquiries
  <2> QED
    BY <2>1 DEF UserInfo, People
<1>4. /\ answer \in Inquiries(Len(issued)) /\ answer.tab = i.tab
      /\ answer.bearer = i.bearer /\ answer.user \in {Nobody, issued[i.bearer]}
  BY <1>2, <1>3 DEF Inquiries
<1> HIDE DEF answer
<1>5. TypeOK'
  BY <1>0, <1>1, <1>4 DEF TypeOK, Inquiries
<1>6. ShownInv'
  <2>1. \A j \in asking :
          \E k \in asking' : k.tab = j.tab /\ k.bearer = j.bearer
    BY <1>1, <1>4
  <2> QED
    BY <1>0, <1>1, <2>1 DEF ShownInv
<1>7. AnswersInv'
  BY <1>0, <1>1, <1>4 DEF AnswersInv
<1>8. ClicksInv'
  BY <1>0, <1>1 DEF ClicksInv
<1> QED
  BY <1>5, <1>6, <1>7, <1>8 DEF TabInv

\* The end of an inquiry: the page hears of the token's owner, or misses it.
LEMMA HeardInv ==
  ASSUME TabInv, NEW i \in asking, NEW page \in Pages,
         tab' = [tab EXCEPT ![i.tab] = page],
         asking' = asking \ {i},
         page.seen = tab[i.tab].seen, page.flag = tab[i.tab].flag,
         \/ /\ page.heard = i.bearer
            /\ page.user = issued[i.bearer]
         \/ /\ page.missed = TRUE /\ page.heard = tab[i.tab].heard
            /\ page.user = tab[i.tab].user,
         info' \in People, faults' \in 0 .. MaxFaults,
         UNCHANGED << issued, age, token, calls, visits >>
  PROVE  TabInv'
<1>0. TypeOK /\ ShownInv /\ AnswersInv /\ ClicksInv
  BY DEF TabInv
<1>1. i \in Inquiries(Len(issued)) /\ Len(issued) \in Nat
  BY <1>0 DEF TypeOK, Inquiries
<1>2. i.tab \in Tabs /\ i.bearer \in 1 .. Len(issued)
  BY <1>1 DEF Inquiries
<1>3. /\ tab' \in [Tabs -> Pages] /\ tab'[i.tab] = page
      /\ \A o \in Tabs : o # i.tab => tab'[o] = tab[o]
  BY <1>0, <1>2 DEF TypeOK
<1>4. TypeOK'
  BY <1>0, <1>3 DEF TypeOK
<1>5. ShownInv'
  <2>1. ASSUME NEW o \in Tabs
        PROVE  /\ tab'[o].seen \in 0 .. Len(issued)
               /\ tab'[o].heard \in 0 .. Len(issued)
               /\ tab'[o].heard # 0 /\ tab'[o].seen = tab'[o].heard =>
                    tab'[o].user = issued[tab'[o].heard]
               /\ /\ tab'[o].flag /\ token # 0 /\ tab'[o].seen = token
                  /\ tab'[o].heard = 0 /\ ~tab'[o].missed
                  => \E j \in asking' : j.tab = o /\ j.bearer = token
    <3>1. CASE o = i.tab
      BY <1>0, <1>1, <1>2, <1>3, <3>1 DEF ShownInv
    <3>2. CASE o # i.tab
      <4>1. \A j \in asking : j.tab = o => j \in asking'
        BY <3>2
      <4> QED
        BY <1>0, <1>3, <3>2, <4>1 DEF ShownInv
    <3> QED
      BY <3>1, <3>2
  <2> QED
    BY <2>1 DEF ShownInv
<1>6. AnswersInv' /\ ClicksInv'
  BY <1>0 DEF AnswersInv, ClicksInv
<1> QED
  BY <1>4, <1>5, <1>6 DEF TabInv

LEMMA ReceiveUserInfoInv ==
  ASSUME TabInv, NEW i \in asking, ReceiveUserInfo(i) \/ FailUserInfo(i)
  PROVE  TabInv'
<1>0. TypeOK /\ AnswersInv
  BY DEF TabInv
<1>1. i \in Inquiries(Len(issued)) /\ Len(issued) \in Nat
  BY <1>0 DEF TypeOK, Inquiries
<1>2. /\ i.tab \in Tabs /\ i.bearer \in Nat /\ i.user \in People
      /\ tab[i.tab] \in Pages /\ info \in People
      /\ faults \in 0 .. MaxFaults
  BY <1>0, <1>1 DEF TypeOK, Inquiries
<1>3. CASE /\ ReceiveUserInfo(i) /\ i.user # Nobody
           /\ info' = i.user
           /\ tab' = [tab EXCEPT ![i.tab] = [@ EXCEPT !.user = i.user,
                                                      !.heard = i.bearer]]
  <2> DEFINE page == [tab[i.tab] EXCEPT !.user = i.user, !.heard = i.bearer]
  <2>1. /\ page \in Pages /\ page.heard = i.bearer /\ page.user = i.user
        /\ page.seen = tab[i.tab].seen /\ page.flag = tab[i.tab].flag
    BY <1>2 DEF Pages
  <2>2. i.user = issued[i.bearer]
    BY <1>0, <1>3 DEF AnswersInv, ReceiveUserInfo
  <2>3. tab' = [tab EXCEPT ![i.tab] = page]
    BY <1>3
  <2> HIDE DEF page
  <2> QED
    BY <1>2, <1>3, <2>1, <2>2, <2>3, HeardInv DEF ReceiveUserInfo
<1>4. CASE /\ tab' = [tab EXCEPT ![i.tab].missed = TRUE]
           /\ asking' = asking \ {i} /\ info' = info
           /\ faults' \in 0 .. MaxFaults
           /\ UNCHANGED << issued, age, token, calls, visits >>
  <2> DEFINE page == [tab[i.tab] EXCEPT !.missed = TRUE]
  <2>1. /\ page \in Pages /\ page.heard = tab[i.tab].heard /\ page.missed = TRUE
        /\ page.user = tab[i.tab].user
        /\ page.seen = tab[i.tab].seen /\ page.flag = tab[i.tab].flag
    BY <1>2 DEF Pages
  <2>2. tab' = [tab EXCEPT ![i.tab] = page]
    BY <1>4
  <2> HIDE DEF page
  <2> QED
    BY <1>2, <1>4, <2>1, <2>2, HeardInv
<1>5. FailUserInfo(i) => faults' \in 0 .. MaxFaults
  BY <1>2, BoundAssumption DEF FailUserInfo
<1> QED
  BY <1>2, <1>3, <1>4, <1>5 DEF ReceiveUserInfo, FailUserInfo

-----------------------------------------------------------------------------
(* API requests, and the passing of time *)

LEMMA SendInv ==
  ASSUME TabInv, NEW op \in Operations, NEW n \in 0 .. Len(issued),
         NEW u \in People, u # Nobody => Offered(u, op), Send(op, n, u)
  PROVE  TabInv'
<1>0. TypeOK /\ ShownInv /\ AnswersInv /\ ClicksInv
  BY DEF TabInv
<1>1. /\ calls' = calls \cup {[op |-> op, bearer |-> n, user |-> u]}
      /\ UNCHANGED << issued, age, token, info, tab, asking, visits, faults >>
  BY DEF Send
<1>2. TypeOK'
  BY <1>0, <1>1 DEF TypeOK
<1>3. ShownInv' /\ AnswersInv'
  BY <1>0, <1>1 DEF ShownInv, AnswersInv
<1>4. ClicksInv'
  BY <1>0, <1>1 DEF ClicksInv
<1> QED
  BY <1>2, <1>3, <1>4 DEF TabInv

LEMMA AgeInv ==
  ASSUME TabInv, NEW n \in DOMAIN issued, Age(n)
  PROVE  TabInv'
<1>0. TypeOK /\ ShownInv /\ AnswersInv /\ ClicksInv
  BY DEF TabInv
<1>1. /\ age' \in Seq({"fresh", "closing", "expired"}) /\ Len(age') = Len(age)
      /\ UNCHANGED << issued, token, info, tab, asking, calls, visits, faults >>
  BY <1>0 DEF Age, TypeOK
<1>2. TypeOK'
  BY <1>0, <1>1 DEF TypeOK
<1>3. ShownInv' /\ AnswersInv' /\ ClicksInv'
  BY <1>0, <1>1 DEF ShownInv, AnswersInv, ClicksInv
<1> QED
  BY <1>2, <1>3 DEF TabInv

-----------------------------------------------------------------------------
(* The invariant and what it implies *)

LEMMA InitInv == Init => TabInv
<1> SUFFICES ASSUME Init PROVE TabInv
  OBVIOUS
<1>1. /\ issued = << >> /\ Len(issued) = 0 /\ issued \in Seq(Users)
      /\ age \in Seq({"fresh", "closing", "expired"}) /\ Len(age) = 0
  BY DEF Init
<1>2. tab \in [Tabs -> Pages]
  BY DEF Init, Pages, People
<1>3. TypeOK
  <2>1. /\ token \in 0 .. Len(issued) /\ Len(issued) <= MaxTokens
        /\ visits \in 0 .. MaxVisits /\ faults \in 0 .. MaxFaults
        /\ info \in People
    BY <1>1, BoundAssumption DEF Init, People
  <2>2. asking = {} /\ calls = {}
    BY DEF Init
  <2> QED
    BY <1>1, <1>2, <2>1, <2>2 DEF TypeOK
<1>4. ShownInv /\ AnswersInv /\ ClicksInv
  BY <1>1 DEF Init, ShownInv, AnswersInv, ClicksInv
<1> QED
  BY <1>3, <1>4 DEF TabInv

\* Every step of the browser and the gateway keeps the invariant.
LEMMA StepInv == TabInv /\ [Next]_vars => TabInv'
<1> SUFFICES ASSUME TabInv, [Next]_vars PROVE TabInv'
  OBVIOUS
<1>0. TypeOK /\ Len(issued) \in Nat /\ token \in 0 .. Len(issued)
  BY DEF TabInv, TypeOK
<1>1. ASSUME NEW t \in Tabs, Open(t) PROVE TabInv'
  <2>1. visits' \in 0 .. MaxVisits /\ Nobody \in People
    BY <1>0, <1>1, BoundAssumption DEF Open, TypeOK, People
  <2> QED
    BY <1>1, <2>1, LoadInv DEF Open
<1>2. ASSUME NEW t \in Tabs, NEW u \in Users, SignIn(t, u) PROVE TabInv'
  <2>1. visits' \in 0 .. MaxVisits /\ u \in People
    BY <1>0, <1>2 DEF SignIn, TypeOK, People
  <2> QED
    BY <1>2, <2>1, LoadInv DEF SignIn
<1>3. ASSUME NEW t \in Tabs, NEW op \in Operations, Click(t, op) PROVE TabInv'
  <2>1. tab[t].user \in People
    BY <1>0 DEF TypeOK, Pages
  <2> QED
    BY <1>0, <1>3, <2>1, SendInv DEF Click
<1>4. ASSUME NEW n \in DOMAIN issued, NEW op \in Operations, Request(op, n)
      PROVE  TabInv'
  <2>1. n \in 0 .. Len(issued) /\ Nobody \in People
    BY <1>0, <1>4 DEF TypeOK, People
  <2> QED
    BY <1>4, <2>1, SendInv DEF Request
<1>5. ASSUME NEW c \in calls, Serve(c) PROVE TabInv'
  BY <1>5 DEF Serve, TabInv, TypeOK, ShownInv, AnswersInv, ClicksInv
<1>6. CASE UNCHANGED vars
  BY <1>6 DEF vars, TabInv, TypeOK, ShownInv, AnswersInv, ClicksInv
<1> QED
  BY <1>1, <1>2, <1>3, <1>4, <1>5, <1>6, ExchangeInv, LogoutInv, AgeInv,
     ServeUserInfoInv, ReceiveUserInfoInv DEF Next

\* TabInv holds always: of the tab, its requests and what it shows.
THEOREM TabInvariant == Spec => []TabInv
<1> QED
  BY InitInv, StepInv, PTL DEF Spec

\* Tokens, pages and requests are well typed: no page or request refers to a
\* token that was never issued.
THEOREM TabTypeCorrect == Spec => []TypeOK
<1>1. TabInv => TypeOK
  BY DEF TabInv
<1> QED
  BY <1>1, TabInvariant, PTL

LEMMA StatusOK ==
  ASSUME NEW c
  PROVE  Status(c) = 200 <=> /\ Verified(c.bearer)
                             /\ Required(c.op) \in ScopesOf(OwnerOf(c.bearer))
BY DEF Status

\* What a page offers the user it shows is served, unless the token stored
\* meanwhile is another user's, expired or gone (hasScope against requireScope).
THEOREM OffersAreServed == Spec => []OfferedIsServed
<1>1. TabInv => OfferedIsServed
  <2> SUFFICES ASSUME TabInv, NEW c \in calls, c.user # Nobody, Status(c) # 200,
                      OwnerOf(c.bearer) = c.user, Verified(c.bearer)
               PROVE  FALSE
    BY DEF OfferedIsServed
  <2>1. c.op \in Operations /\ c.user \in Users
    BY DEF TabInv, TypeOK, People
  <2>2. Required(c.op) \in ScopesOf(c.user)
    <3>1. Offered(c.user, c.op)
      BY DEF TabInv, ClicksInv
    <3>2. "party:read" \in ScopesOf(c.user)
      BY <2>1, ScopeAssumption DEF ScopesOf
    <3> QED
      BY <3>1, <3>2 DEF Offered, Required
  <2> QED
    BY <2>2, StatusOK
<1> QED
  BY <1>1, TabInvariant, PTL

\* A tab that is signed in and shows nobody, or somebody else than the owner of
\* the stored token, has not seen that token, or waits for its answer, missed one,
\* or heard of an older token last (loadUserInfo, whose answers may overtake each
\* other).
THEOREM OwnerIsShown == Spec => []ShownIsOwner
<1>1. TabInv => ShownIsOwner
  <2> SUFFICES ASSUME TabInv, NEW t \in Tabs, tab[t].flag, token # 0,
                      tab[t].user # OwnerOf(token),
                      tab[t].seen = token, ~tab[t].missed,
                      tab[t].heard \in {0, token}
               PROVE  \E i \in asking : i.tab = t /\ i.bearer = token
    BY DEF ShownIsOwner
  <2>1. tab[t].heard = 0
    BY DEF TabInv, ShownInv, OwnerOf
  <2> QED
    BY <2>1 DEF TabInv, ShownInv
<1> QED
  BY <1>1, TabInvariant, PTL
=============================================================================
