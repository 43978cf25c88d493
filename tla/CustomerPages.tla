---------------------------- MODULE CustomerPages ----------------------------
(***************************************************************************)
(* The pages of one browser tab that show customers: dashboard, list,      *)
(* detail and onboarding form (frontend/src/app/features), over the        *)
(* records of the party service and the assessments that arrive there.     *)
(* Every GET is asked, answered with the record of that moment, and        *)
(* received later, if nothing cancelled it.  The list asks again every     *)
(* 15 s; the detail page asks every 5 s after a click on "Run AI Risk      *)
(* Assessment", until its takeWhile ends the poll.  Both go through        *)
(* switchMap: a new request cancels the one before.  A poll outlives the   *)
(* page that started it, because nothing unsubscribes it.                  *)
(*                                                                         *)
(* A record is the number of assessments written to it and what the last   *)
(* score looks like to the templates; RiskPipeline says how one gets       *)
(* there, TabSession who may open a page.                                  *)
(***************************************************************************)
EXTENDS Naturals, Sequences

CONSTANTS
  Customers, \* ids of individuals
  PollLimit, \* the answers a poll may use: 12 in the code
  MaxVisits, \* bound: pages the user opens after the first
  MaxViews,  \* bound: detail pages opened
  MaxClicks, \* bound: clicks on the button of a detail page
  MaxScores, \* bound: assessments of a customer
  MaxFaults  \* bound: requests that fail

ASSUME LimitAssumption == PollLimit \in Nat \ {0}
ASSUME BoundAssumption ==
  /\ MaxVisits \in Nat /\ MaxViews \in Nat /\ MaxClicks \in Nat
  /\ MaxScores \in Nat /\ MaxFaults \in Nat

VARIABLES
  row,    \* party database: the row of each customer
  jobs,   \* the assessments of each customer that are under way
  page,   \* the page shown: its URL, its loading flag, is its stream alive
  get,    \* the GET of that page
  table,  \* what dashboard or list shows
  form,   \* is the form of the onboarding page submitting?
  posts,  \* POST /individual requests that are under way
  timers, \* the customers whose page a setTimeout of the form will open
  views,  \* the DetailComponents created so far; the last one may be shown
  clicks, \* the clicks on their button, each with its POST and its poll
  visits, \* the number of pages the user opened
  faults  \* the number of requests that failed

recordVars == << row, jobs >>
pageVars == << page, get, table >>
formVars == << form, posts, timers >>
detailVars == << views, clicks >>
boundVars == << visits, faults >>
vars == << recordVars, pageVars, formVars, detailVars, boundVars >>

-----------------------------------------------------------------------------
(* Values *)

\* riskScore: null, 0 (a number that is falsy in JavaScript), or more.
Rows == [n : Nat, score : {"absent", "null", "zero", "some"}]
Absent == [n |-> 0, score |-> "absent"]
Unscored == [n |-> 0, score |-> "null"]
Scored(r) == r.score \in {"zero", "some"}

NoTable == [c \in Customers |-> Absent]
NoGet == [st |-> "none", rows |-> NoTable]
Asked == [st |-> "asked", rows |-> NoTable]

\* Polls that go on: no request, one the service has not answered, one whose
\* answer is on its way.
Polling == {"waiting", "polling", "polled"}
Ended == {"scored", "stopped", "failed"}

Fault ==
  /\ faults < MaxFaults
  /\ faults' = faults + 1

-----------------------------------------------------------------------------
(* Navigation *)

\* A component is created and its ngOnInit asks, except the form's.
NoId == "none"
Page(at, c) == [at |-> at, id |-> c, loading |-> at # "new", alive |-> at = "list"]
FirstGet(at) == IF at = "new" THEN NoGet ELSE Asked
EmptyTable == [rows |-> NoTable, filter |-> "", filtered |-> {}]
NewView(c) == [cust |-> c, shown |-> Absent, queued |-> FALSE]

\* The tab is opened at some URL (a bookmark, or what was typed) and some state
\* of the database.
Init ==
  /\ row \in [Customers -> {Absent, Unscored, [n |-> 1, score |-> "some"]}]
  /\ jobs = [c \in Customers |-> 0]
  /\ \/ /\ \E at \in {"dashboard", "list", "new"} : page = Page(at, NoId)
        /\ views = << >>
     \/ \E c \in Customers : page = Page("detail", c) /\ views = << NewView(c) >>
  /\ get = FirstGet(page.at)
  /\ table = EmptyTable
  /\ form = FALSE
  /\ posts = {} /\ timers = {}
  /\ clicks = << >>
  /\ visits = 0 /\ faults = 0

\* The router creates the component of URL (at, c).  The list's ngOnDestroy
\* unsubscribes; what the others wait for no longer shows.
Show(at, c) ==
  /\ at = "detail" => Len(views) < MaxViews
  /\ page' = Page(at, c)
  /\ get' = FirstGet(at)
  /\ table' = EmptyTable
  /\ form' = FALSE
  /\ posts' = {[p EXCEPT !.mine = FALSE] : p \in posts}
  /\ views' = IF at = "detail" THEN Append(views, NewView(c)) ELSE views

\* The user follows a link: of the sidebar, or of a row that is shown.
Visit(at, c) ==
  /\ visits < MaxVisits
  /\ visits' = visits + 1
  /\ IF at = "detail" THEN c \in table.filtered ELSE c = NoId /\ at # page.at
  /\ Show(at, c)
  /\ UNCHANGED << recordVars, timers, clicks, faults >>

-----------------------------------------------------------------------------
(* The GET of dashboard, list and detail page *)

\* interval(15_000) of the list: switchMap drops an answer not yet received.
ListTick ==
  /\ page.at = "list" /\ page.alive
  /\ get' = Asked
  /\ UNCHANGED << recordVars, page, table, formVars, detailVars, boundVars >>

\* The customers that the page asks for: all (its first 100), or the one of its
\* component, which the URL named when the component was created.
Wanted == IF page.at = "detail" THEN {views[Len(views)].cust} ELSE Customers

\* The party service answers with the rows of now.
ServeGet ==
  /\ get.st = "asked"
  /\ get' = [st |-> "answered",
             rows |-> [c \in Customers |-> IF c \in Wanted THEN row[c] ELSE Absent]]
  /\ UNCHANGED << recordVars, page, table, formVars, detailVars, boundVars >>

\* riskFilter (and search, kycFilter): some customers meet it once assessed.
Matching(rows, filter) ==
  {c \in Customers : rows[c] # Absent /\ (filter = "" \/ Scored(rows[c]))}

\* Mutant of Received: the filter is only applied when the user changes it.
ReceivedUnfiltered(rows) == [table EXCEPT !.rows = rows]

\* What dashboard and list do with an answer; the list applies its filter.
Received(rows) ==
  [table EXCEPT !.rows = rows, !.filtered = Matching(rows, table.filter)]

\* `next` of the three pages.
ReceiveGet ==
  /\ get.st = "answered"
  /\ get' = NoGet
  /\ page' = [page EXCEPT !.loading = FALSE]
  /\ \/ /\ page.at = "detail"
        /\ \E c \in Wanted : views' = [views EXCEPT ![Len(views)].shown = get.rows[c]]
        /\ UNCHANGED table
     \/ /\ page.at \in {"dashboard", "list"}
        /\ table' = Received(get.rows)
        /\ UNCHANGED views
  /\ UNCHANGED << recordVars, formVars, clicks, boundVars >>

\* Mutant of GetFailed: without an error handler the page says "Loading...".
GetFailedUnhandled == UNCHANGED page

\* `error` of the three pages; it ends the stream of the list for good.
GetFailed == page' = [page EXCEPT !.loading = FALSE, !.alive = FALSE]

FailGet ==
  /\ Fault
  /\ get.st # "none"
  /\ get' = NoGet
  /\ GetFailed
  /\ UNCHANGED << recordVars, table, formVars, detailVars, visits >>

\* The user chooses a filter of the list.
Filter(f) ==
  /\ page.at = "list"
  /\ table' = [table EXCEPT !.filter = f, !.filtered = Matching(table.rows, f)]
  /\ UNCHANGED << recordVars, page, get, formVars, detailVars, boundVars >>

-----------------------------------------------------------------------------
(* The onboarding form *)

\* submit(): the button is disabled while the form is submitting.  The customer
\* gets its id from the service, so no other POST has it.
Submit(c) ==
  /\ page.at = "new" /\ ~form
  /\ row[c] = Absent /\ \A p \in posts : p.cust # c
  /\ form' = TRUE
  /\ posts' = posts \cup {[cust |-> c, st |-> "asked", mine |-> TRUE]}
  /\ UNCHANGED << recordVars, pageVars, timers, detailVars, boundVars >>

\* The row is committed, and the gateway queues an assessment.
Onboard(c) ==
  /\ row' = [row EXCEPT ![c] = Unscored]
  /\ jobs' = [jobs EXCEPT ![c] = @ + 1]

ServePost(p) ==
  /\ p.st = "asked"
  /\ posts' = (posts \ {p}) \cup {[p EXCEPT !.st = "answered"]}
  /\ Onboard(p.cust)
  /\ UNCHANGED << pageVars, form, timers, detailVars, boundVars >>

\* `next`: the button works again, and in 1.5 s the customer's page is opened,
\* whatever page the user is on by then.
ReceivePost(p) ==
  /\ p.st = "answered"
  /\ posts' = posts \ {p}
  /\ form' = (form /\ ~p.mine)
  /\ timers' = timers \cup {p.cust}
  /\ UNCHANGED << recordVars, pageVars, detailVars, boundVars >>

\* `error`: a message, though the row may have been committed.
FailPost(p) ==
  /\ Fault
  /\ posts' = posts \ {p}
  /\ form' = (form /\ ~p.mine)
  /\ \/ p.st = "asked" /\ Onboard(p.cust)
     \/ UNCHANGED recordVars
  /\ UNCHANGED << pageVars, timers, detailVars, visits >>

\* router.navigate(['/customers', created.id]).  On a detail page already, the
\* router keeps the component and changes the URL only: ngOnInit does not run
\* again, and the page goes on showing the customer it showed.
Timeout(c) ==
  /\ c \in timers
  /\ timers' = timers \ {c}
  /\ \/ /\ page.at = "detail"
        /\ page' = [page EXCEPT !.id = c]
        /\ UNCHANGED << get, table, form, posts, views >>
     \/ /\ page.at # "detail"
        /\ Show("detail", c)
  /\ UNCHANGED << recordVars, clicks, boundVars >>

-----------------------------------------------------------------------------
(* "Run AI Risk Assessment" *)

ViewOf(k) == views[clicks[k].view]
SetClick(k, st) == clicks' = [clicks EXCEPT ![k].st = st]
\* What a click that has ended waited for no longer matters.
EndClick(k, st) ==
  clicks' = [clicks EXCEPT ![k] = [@ EXCEPT !.st = st, !.polls = 0, !.base = 0,
                                            !.got = Absent]]

\* The button, shown with the customer and while nothing is queued.
Click ==
  /\ page.at = "detail"
  /\ views[Len(views)].shown # Absent /\ ~views[Len(views)].queued
  /\ Len(clicks) < MaxClicks
  /\ clicks' = Append(clicks,
       [view |-> Len(views), st |-> "asked", polls |-> 0, got |-> Absent,
        base |-> views[Len(views)].shown.n])
  /\ UNCHANGED << recordVars, pageVars, formVars, views, boundVars >>

Request(k) == jobs' = [jobs EXCEPT ![ViewOf(k).cust] = @ + 1]

\* The gateway answers 'queued'.
ServeClick(k) ==
  /\ clicks[k].st = "asked"
  /\ SetClick(k, "answered")
  /\ Request(k)
  /\ UNCHANGED << row, pageVars, formVars, views, boundVars >>

\* `next` of the POST: the badge replaces the button and the poll starts.
ReceiveClick(k) ==
  /\ clicks[k].st = "answered"
  /\ SetClick(k, "waiting")
  /\ views' = [views EXCEPT ![clicks[k].view].queued = TRUE]
  /\ UNCHANGED << recordVars, pageVars, formVars, boundVars >>

\* Nobody handles an error of the POST.
FailClick(k) ==
  /\ Fault
  /\ clicks[k].st \in {"asked", "answered"}
  /\ EndClick(k, "failed")
  /\ \/ clicks[k].st = "asked" /\ Request(k)
     \/ UNCHANGED jobs
  /\ UNCHANGED << row, pageVars, formVars, views, visits >>

\* interval(5000): switchMap drops an answer that has not arrived by then.
PollTick(k) ==
  /\ clicks[k].st \in Polling
  /\ clicks' = [clicks EXCEPT ![k].st = "polling", ![k].got = Absent]
  /\ UNCHANGED << recordVars, pageVars, formVars, views, boundVars >>

ServePoll(k) ==
  /\ clicks[k].st = "polling"
  /\ clicks' = [clicks EXCEPT ![k].st = "polled", ![k].got = row[ViewOf(k).cust]]
  /\ UNCHANGED << recordVars, pageVars, formVars, views, boundVars >>

\* Mutant of KeepsOn: the condition is on the answer instead of the page.
KeepsOnUntilAnswered(k) ==
  clicks[k].polls < PollLimit /\ clicks[k].got.score # "some"

\* Mutant of KeepsOn: it only counts.
KeepsOnCounting(k) == clicks[k].polls < PollLimit

\* Mutant of KeepsOn: it does not look at the count.
KeepsOnForEver(k) == ViewOf(k).shown.score # "some"

\* takeWhile: `polls++ < 12 && !this.customer?.riskScore`, evaluated for an
\* answer before that answer is shown, on what the page shows.
KeepsOn(k) == clicks[k].polls < PollLimit /\ ViewOf(k).shown.score # "some"

\* Mutant of Counted: the counter is one of each answer.
CountedAnew(k) == 0

\* polls++, the counter of a click
Counted(k) == clicks[k].polls + 1

\* An answer arrives.  It ends the poll unseen, or is shown; then a riskScore
\* that is not null ends the poll and takes the badge away.
ReceivePoll(k) ==
  /\ clicks[k].st = "polled"
  /\ \/ /\ ~KeepsOn(k)
        /\ EndClick(k, "stopped")
        /\ UNCHANGED views
     \/ /\ KeepsOn(k) /\ ~Scored(clicks[k].got)
        /\ views' = [views EXCEPT ![clicks[k].view].shown = clicks[k].got]
        /\ clicks' = [clicks EXCEPT ![k].st = "waiting", ![k].got = Absent,
                                    ![k].polls = Counted(k)]
     \/ /\ KeepsOn(k) /\ Scored(clicks[k].got)
        /\ views' = [views EXCEPT ![clicks[k].view] =
                      [@ EXCEPT !.shown = clicks[k].got, !.queued = FALSE]]
        /\ EndClick(k, "scored")
  /\ UNCHANGED << recordVars, pageVars, formVars, boundVars >>

\* Nobody handles an error of the poll: it is over, and the badge stays.
FailPoll(k) ==
  /\ Fault
  /\ clicks[k].st \in {"polling", "polled"}
  /\ EndClick(k, "failed")
  /\ UNCHANGED << recordVars, pageVars, formVars, views, visits >>

-----------------------------------------------------------------------------
(* The worker's PATCH, sooner or later or never (RiskPipeline) *)

Assess(c) ==
  /\ jobs[c] > 0 /\ row[c].n < MaxScores
  /\ jobs' = [jobs EXCEPT ![c] = @ - 1]
  /\ \E s \in {"zero", "some"} :
       row' = [row EXCEPT ![c] = [n |-> @.n + 1, score |-> s]]
  /\ UNCHANGED << pageVars, formVars, detailVars, boundVars >>

-----------------------------------------------------------------------------
UserNext ==
  \/ \E at \in {"dashboard", "list", "new"} : Visit(at, NoId)
  \/ \E c \in Customers : Visit("detail", c) \/ Submit(c)
  \/ \E f \in {"", "assessed"} : Filter(f)
  \/ Click

ClickNext(k) ==
  \/ ServeClick(k) \/ ReceiveClick(k) \/ FailClick(k)
  \/ PollTick(k) \/ ServePoll(k) \/ ReceivePoll(k) \/ FailPoll(k)

PostStep(p) == ServePost(p) \/ ReceivePost(p)

Next ==
  \/ UserNext
  \/ ListTick \/ ServeGet \/ ReceiveGet \/ FailGet
  \/ \E p \in posts : PostStep(p) \/ FailPost(p)
  \/ \E c \in Customers : Timeout(c) \/ Assess(c)
  \/ \E k \in DOMAIN clicks : ClickNext(k)

\* The intervals tick, the services answer, and answers are received.  A tick
\* may drop an answer that took longer than the interval, so receiving one is
\* only possible again and again: not every answer is that late (SF).
Fairness ==
  /\ WF_vars(ListTick) /\ WF_vars(ServeGet) /\ SF_vars(ReceiveGet)
  /\ WF_vars(\E p \in posts : PostStep(p))
  /\ \A k \in 1 .. MaxClicks :
       /\ WF_vars(k \in DOMAIN clicks
                  /\ (ServeClick(k) \/ ReceiveClick(k) \/ PollTick(k)))
       /\ WF_vars(k \in DOMAIN clicks /\ ServePoll(k))
       /\ SF_vars(k \in DOMAIN clicks /\ ReceivePoll(k))

Spec == Init /\ [][Next]_vars
FairSpec == Spec /\ Fairness

-----------------------------------------------------------------------------
(* Properties *)

\* The types of the rows, of what the pages show and of the polls (triggerAI);
\* in particular, a poll never uses more than its answers.
PagesTypeOK ==
  /\ row \in [Customers -> Rows] /\ jobs \in [Customers -> Nat]
  /\ page \in [at : {"dashboard", "list", "detail", "new"},
               id : Customers \cup {NoId}, loading : BOOLEAN, alive : BOOLEAN]
  /\ get \in [st : {"none", "asked", "answered"}, rows : [Customers -> Rows]]
  /\ table \in [rows : [Customers -> Rows], filter : {"", "assessed"},
                filtered : SUBSET Customers]
  /\ form \in BOOLEAN /\ timers \subseteq Customers
  /\ posts \subseteq [cust : Customers, st : {"asked", "answered"}, mine : BOOLEAN]
  /\ views \in Seq([cust : Customers, shown : Rows, queued : BOOLEAN])
  /\ clicks \in Seq([view : 1 .. Len(views), polls : 0 .. PollLimit,
                     st : {"asked", "answered"} \cup Polling \cup Ended,
                     got : Rows, base : Nat])
  /\ visits \in 0 .. MaxVisits /\ faults \in 0 .. MaxFaults

\* "Loading..." and "Creating..." do not stay, whatever fails or is dropped on
\* the way: each page handles the error of its request.
LoadingEnds == (page.loading \/ form) ~> (~page.loading /\ ~form)

\* Polls end, though pages are left without stopping them and jobs are lost, as
\* long as not every answer takes longer than the interval.
EveryPollEnds ==
  \A k \in 1 .. MaxClicks :
    (k \in DOMAIN clicks /\ clicks[k].st \in Polling) ~>
    (k \in DOMAIN clicks /\ clicks[k].st \in Ended)

\* Does a poll end now by its own decision, without an error?
Decides(k) == clicks[k].st = "polled" /\ clicks'[k].st \in {"scored", "stopped"}
ShowsNews(k) == views'[clicks[k].view].shown.n > clicks[k].base
GaveUp(k) == clicks[k].polls = PollLimit

\* customer-detail.component.ts: "Poll until risk score arrives (max 60s)".  A
\* poll stops with a score newer than the one on the page when the button was
\* pressed, or has used its answers.  False when there was one already.
PollKeepsOn ==
  [][\A k \in DOMAIN clicks : Decides(k) => ShowsNews(k) \/ GaveUp(k)]_vars

\* It is true of the first assessment a page asks for, however clicks, polls
\* and an assessment asked for elsewhere interleave.
FirstPollKeepsOn ==
  [][\A k \in DOMAIN clicks :
       Decides(k) /\ clicks[k].base = 0 => ShowsNews(k) \/ GaveUp(k)]_vars

\* No page goes back to an older state of a customer, although answers arrive
\* later than they were given: switchMap keeps one request per stream, and two
\* polls of a page, started by a double click, stop at the first score.  (Not
\* at a score of 0, which takeWhile takes for none: the other poll's older
\* answer may then remove it.)
NeverOlder(old, new) == old.score = "zero" \/ new.n >= old.n
ShownNeverOlder ==
  [][/\ \A v \in DOMAIN views : NeverOlder(views[v].shown, views'[v].shown)
     /\ page' = page => \A c \in Customers :
          table'.rows[c].n >= table.rows[c].n]_vars

\* customer-list.component.ts: "shows async AI risk scores arriving".  As long as
\* the user stays on the list and none of its requests failed, an assessment
\* written to a record appears there, under every filter it meets.
ListBehind(c) ==
  /\ page.at = "list" /\ page.alive
  /\ Scored(row[c])
  /\ c \notin table.filtered \/ table.rows[c].n < row[c].n
ListShowsScores == \A c \in Customers : ListBehind(c) ~> ~ListBehind(c)
=============================================================================
