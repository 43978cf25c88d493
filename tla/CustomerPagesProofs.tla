------------------------- MODULE CustomerPagesProofs -------------------------
(***************************************************************************)
(* Proofs about CustomerPages, for any customers, bounds and poll limit:   *)
(* how a poll ends, and that pages do not go back to an older state of a   *)
(* customer, however visits, answers, ticks and failures interleave.       *)
(***************************************************************************)
EXTENDS CustomerPages, SequenceTheorems, TLAPS

-----------------------------------------------------------------------------
(* The inductive invariant *)

\* A row has a score once it was assessed, and not before.
Sane(r) == Scored(r) <=> r.n > 0

\* So has every copy of one.
ScoresInv ==
  /\ \A c \in Customers :
       Sane(row[c]) /\ Sane(get.rows[c]) /\ Sane(table.rows[c])
  /\ \A v \in DOMAIN views : Sane(views[v].shown)
  /\ \A k \in DOMAIN clicks : Sane(clicks[k].got)

\* A customer is onboarded once: a POST the service has not served is for one
\* without a row, and whoever is assessed or shown has one.
KnownInv ==
  /\ \A p, q \in posts : p.cust = q.cust => p = q
  /\ \A p \in posts : p.st = "asked" => row[p.cust] = Absent
  /\ \A c \in Customers : jobs[c] > 0 \/ get.rows[c] # Absent => row[c] # Absent
  /\ \A v \in DOMAIN views : views[v].shown # Absent => row[views[v].cust] # Absent
  /\ \A k \in DOMAIN clicks : row[ViewOf(k).cust] # Absent

\* A table is older than the answer that will replace it, which is older than
\* the row.  Pages without a table have none.
TableInv ==
  /\ page.at \notin {"dashboard", "list"} => table = EmptyTable
  /\ \A c \in Customers : table.rows[c].n <= row[c].n
  /\ get.st = "answered" /\ page.at \in {"dashboard", "list"} =>
       \A c \in Customers : /\ table.rows[c].n <= get.rows[c].n
                            /\ get.rows[c].n <= row[c].n

\* A detail page gets its customer once, before it has anything to show or poll.
DetailInv ==
  page.at = "detail" =>
    /\ views # << >>
    /\ get.st # "none" =>
         /\ views[Len(views)].shown = Absent
         /\ \A k \in DOMAIN clicks : clicks[k].view # Len(views)

PagesInv == PagesTypeOK /\ ScoresInv /\ KnownInv /\ TableInv /\ DetailInv

-----------------------------------------------------------------------------
(* The kinds of steps *)

\* Who writes records: the service, for a POST of the form or of a button, and
\* the worker.
RecordStep ==
  \/ \E p \in posts : p.st = "asked" /\ Onboard(p.cust)
  \/ \E k \in DOMAIN clicks : /\ clicks[k].st = "asked" /\ Request(k)
                              /\ UNCHANGED row
  \/ \E c \in Customers : Assess(c)

LEMMA RecordSteps == [Next]_vars => RecordStep \/ UNCHANGED recordVars
<1> SUFFICES ASSUME [Next]_vars PROVE RecordStep \/ UNCHANGED recordVars
  OBVIOUS
<1>1. CASE UserNext
  BY <1>1 DEF UserNext, Visit, Submit, Filter, Click
<1>2. CASE ListTick \/ ServeGet \/ ReceiveGet \/ FailGet
  BY <1>2 DEF ListTick, ServeGet, ReceiveGet, FailGet
<1>3. ASSUME NEW p \in posts, PostStep(p) \/ FailPost(p)
      PROVE  RecordStep \/ UNCHANGED recordVars
  BY <1>3 DEF PostStep, ServePost, ReceivePost, FailPost, RecordStep
<1>4. ASSUME NEW c \in Customers, Timeout(c) \/ Assess(c)
      PROVE  RecordStep \/ UNCHANGED recordVars
  BY <1>4 DEF Timeout, RecordStep
<1>5. ASSUME NEW k \in DOMAIN clicks, ClickNext(k)
      PROVE  RecordStep \/ UNCHANGED recordVars
  BY <1>5 DEF ClickNext, ServeClick, ReceiveClick, FailClick, PollTick,
              ServePoll, ReceivePoll, FailPoll, RecordStep, recordVars
<1>6. CASE UNCHANGED vars
  BY <1>6 DEF vars
<1> QED
  BY <1>1, <1>2, <1>3, <1>4, <1>5, <1>6 DEF Next

\* A page is shown because the user followed a link or a timer of the form
\* fired, and nothing else changes.
Shows ==
  /\ \/ \E at \in {"dashboard", "list", "new"} : at # page.at /\ Show(at, NoId)
     \/ \E c \in Customers : /\ Show("detail", c)
                             /\ page.at # "detail" \/ c \in table.filtered
  /\ UNCHANGED << recordVars, clicks >>

\* On a detail page, a timer changes the URL and nothing else.
Renames(c) ==
  /\ page.at = "detail" /\ page' = [page EXCEPT !.id = c]
  /\ UNCHANGED << recordVars, get, table, views, clicks >>

\* What page, GET and table are changed by.
PageStep ==
  \/ Shows
  \/ \E c \in Customers : Renames(c)
  \/ ListTick \/ ServeGet \/ ReceiveGet \/ FailGet
  \/ \E f \in {"", "assessed"} : Filter(f)

\* Otherwise the clicks may go on.
DetailStep == Click \/ (\E k \in DOMAIN clicks : ClickNext(k)) \/ UNCHANGED detailVars
OtherStep == UNCHANGED pageVars /\ DetailStep

LEMMA PageSteps == [Next]_vars => PageStep \/ OtherStep
<1> SUFFICES ASSUME [Next]_vars PROVE PageStep \/ OtherStep
  OBVIOUS
<1>1. CASE UserNext
  <2>1. ASSUME NEW at \in {"dashboard", "list", "new"}, Visit(at, NoId)
        PROVE  PageStep
    BY <2>1 DEF Visit, PageStep, Shows
  <2>2. ASSUME NEW c \in Customers, Visit("detail", c) PROVE PageStep
    BY <2>2 DEF Visit, PageStep, Shows
  <2>3. ASSUME NEW c \in Customers, Submit(c) PROVE OtherStep
    BY <2>3 DEF Submit, OtherStep, DetailStep
  <2>4. ASSUME NEW f \in {"", "assessed"}, Filter(f) PROVE PageStep
    BY <2>4 DEF PageStep
  <2>5. CASE Click
    BY <2>5 DEF Click, OtherStep, DetailStep
  <2> QED
    BY <1>1, <2>1, <2>2, <2>3, <2>4, <2>5 DEF UserNext
<1>2. CASE ListTick \/ ServeGet \/ ReceiveGet \/ FailGet
  BY <1>2 DEF PageStep
<1>3. ASSUME NEW p \in posts, PostStep(p) \/ FailPost(p)
      PROVE  OtherStep
  BY <1>3 DEF PostStep, ServePost, ReceivePost, FailPost, OtherStep, DetailStep
<1>4. ASSUME NEW c \in Customers, Timeout(c) PROVE PageStep
  BY <1>4 DEF Timeout, PageStep, Shows, Renames
<1>5. ASSUME NEW c \in Customers, Assess(c) PROVE OtherStep
  BY <1>5 DEF Assess, OtherStep, DetailStep
<1>6. ASSUME NEW k \in DOMAIN clicks, ClickNext(k)
      PROVE  OtherStep
  <2>1. UNCHANGED pageVars
    BY <1>6 DEF ClickNext, ServeClick, ReceiveClick, FailClick, PollTick,
                ServePoll, ReceivePoll, FailPoll
  <2> QED
    BY <1>6, <2>1 DEF OtherStep, DetailStep
<1>7. CASE UNCHANGED vars
  BY <1>7 DEF vars, OtherStep, DetailStep
<1> QED
  BY <1>1, <1>2, <1>3, <1>4, <1>5, <1>6, <1>7 DEF Next

LEMMA DetailSteps == [Next]_vars => Shows \/ ReceiveGet \/ DetailStep
BY PageSteps DEF PageStep, OtherStep, DetailStep, detailVars, Renames, ListTick,
     ServeGet, FailGet, Filter

-----------------------------------------------------------------------------
(* Type correctness, one group of variables at a time *)

\* A detail page, and a click on the button of one of n pages.
ViewType == [cust : Customers, shown : Rows, queued : BOOLEAN]
ClickType(n) == [view : 1 .. n, polls : 0 .. PollLimit,
                 st : {"asked", "answered"} \cup Polling \cup Ended,
                 got : Rows, base : Nat]
DetailTypeOK == views \in Seq(ViewType) /\ clicks \in Seq(ClickType(Len(views)))

LEMMA RowsOK ==
  /\ Absent \in Rows /\ Unscored \in Rows
  /\ Absent.n = 0 /\ Absent.score = "absent"
  /\ Unscored.n = 0 /\ Unscored.score = "null"
  /\ NoTable \in [Customers -> Rows]
  /\ \A c \in Customers : NoTable[c] = Absent
<1>1. Absent \in Rows /\ Unscored \in Rows
  BY DEF Rows, Absent, Unscored
<1>2. /\ Absent.n = 0 /\ Absent.score = "absent"
      /\ Unscored.n = 0 /\ Unscored.score = "null"
  BY DEF Absent, Unscored
<1> QED
  BY <1>1, <1>2 DEF NoTable

\* A click knows its page, and a page its customer.
LEMMA ClickOK ==
  ASSUME PagesTypeOK, NEW k \in DOMAIN clicks
  PROVE  /\ k \in 1 .. Len(clicks) /\ Len(views) \in Nat
         /\ clicks[k] \in ClickType(Len(views))
         /\ clicks[k].view \in 1 .. Len(views)
         /\ ViewOf(k) \in ViewType
         /\ ViewOf(k).cust \in Customers
<1>1. views \in Seq(ViewType) /\ clicks \in Seq(ClickType(Len(views)))
  BY DEF PagesTypeOK, ViewType, ClickType
<1>2. k \in 1 .. Len(clicks) /\ Len(views) \in Nat
  BY <1>1, LenProperties
<1>3. clicks[k] \in ClickType(Len(views))
  BY <1>1, <1>2, ElementOfSeq
<1>4. clicks[k].view \in 1 .. Len(views)
  BY <1>3 DEF ClickType
<1>5. views[clicks[k].view] \in ViewType
  BY <1>1, <1>4, ElementOfSeq
<1> QED
  BY <1>2, <1>3, <1>4, <1>5 DEF ViewOf, ViewType

\* The detail page that is shown is the last one.
LEMMA ShownViewOK ==
  ASSUME PagesTypeOK, DetailInv, page.at = "detail"
  PROVE  /\ Len(views) \in 1 .. Len(views)
         /\ views[Len(views)] \in ViewType
         /\ Wanted = {views[Len(views)].cust}
         /\ Wanted \subseteq Customers
<1>1. views \in Seq(ViewType) /\ views # << >>
  BY DEF PagesTypeOK, ViewType, DetailInv
<1>2. Len(views) \in 1 .. Len(views)
  BY <1>1, EmptySeq
<1>3. views[Len(views)] \in ViewType
  BY <1>1, <1>2, ElementOfSeq
<1> QED
  BY <1>2, <1>3 DEF Wanted, ViewType

LEMMA RecordTypes ==
  ASSUME PagesTypeOK, [Next]_vars
  PROVE  row' \in [Customers -> Rows] /\ jobs' \in [Customers -> Nat]
<1>0. row \in [Customers -> Rows] /\ jobs \in [Customers -> Nat]
  BY DEF PagesTypeOK
<1>1. ASSUME NEW p \in posts, Onboard(p.cust)
      PROVE  row' \in [Customers -> Rows] /\ jobs' \in [Customers -> Nat]
  <2>1. p.cust \in Customers
    BY DEF PagesTypeOK
  <2> QED
    BY <1>0, <1>1, <2>1, RowsOK DEF Onboard
<1>2. ASSUME NEW k \in DOMAIN clicks, Request(k), UNCHANGED row
      PROVE  row' \in [Customers -> Rows] /\ jobs' \in [Customers -> Nat]
  BY <1>0, <1>2, ClickOK DEF Request
<1>3. ASSUME NEW c \in Customers, Assess(c)
      PROVE  row' \in [Customers -> Rows] /\ jobs' \in [Customers -> Nat]
  <2>1. row[c].n + 1 \in Nat
    BY <1>0 DEF Rows
  <2>2. \A s \in {"zero", "some"} : [n |-> row[c].n + 1, score |-> s] \in Rows
    BY <2>1 DEF Rows
  <2>3. row' \in [Customers -> Rows]
    BY <1>0, <1>3, <2>2 DEF Assess
  <2>4. jobs' \in [Customers -> Nat]
    BY <1>0, <1>3 DEF Assess
  <2> QED
    BY <2>3, <2>4
<1>4. CASE UNCHANGED recordVars
  BY <1>0, <1>4 DEF recordVars
<1> QED
  BY <1>1, <1>2, <1>3, <1>4, RecordSteps DEF RecordStep

PageType == [at : {"dashboard", "list", "detail", "new"},
             id : Customers \cup {NoId}, loading : BOOLEAN, alive : BOOLEAN]
GetType == [st : {"none", "asked", "answered"}, rows : [Customers -> Rows]]
TableType == [rows : [Customers -> Rows], filter : {"", "assessed"},
              filtered : SUBSET Customers]
PageTypeOK == page \in PageType /\ get \in GetType /\ table \in TableType

\* A page that is opened
LEMMA ShowTypes ==
  ASSUME NEW at \in {"dashboard", "list", "detail", "new"},
         NEW c \in Customers \cup {NoId}, Show(at, c)
  PROVE  PageTypeOK'
<1>1. page' \in PageType
  BY DEF Show, Page, PageType
<1>2. NoGet \in GetType /\ Asked \in GetType
  BY RowsOK DEF GetType, NoGet, Asked
<1>3. get' \in GetType
  BY <1>2 DEF Show, FirstGet
<1>4. table' \in TableType
  BY RowsOK DEF Show, EmptyTable, TableType
<1> QED
  BY <1>1, <1>3, <1>4 DEF PageTypeOK

LEMMA PageTypes ==
  ASSUME PagesTypeOK, [Next]_vars
  PROVE  PageTypeOK'
<1>0. page \in PageType /\ get \in GetType /\ table \in TableType
  BY DEF PagesTypeOK, PageType, GetType, TableType
<1>a. NoGet \in GetType /\ Asked \in GetType
  BY RowsOK DEF GetType, NoGet, Asked
<1>b. \A rows \in [Customers -> Rows], f \in {"", "assessed"} :
        Matching(rows, f) \in SUBSET Customers
  BY DEF Matching
<1>1. CASE Shows
  BY <1>1, ShowTypes DEF Shows
<1>2. ASSUME NEW c \in Customers, Renames(c) PROVE PageTypeOK'
  BY <1>0, <1>2 DEF Renames, PageTypeOK, PageType
<1>3. CASE ListTick
  BY <1>0, <1>a, <1>3 DEF ListTick, PageTypeOK
<1>4. CASE ServeGet
  <2>1. [c \in Customers |-> IF c \in Wanted THEN row[c] ELSE Absent]
          \in [Customers -> Rows]
    BY RowsOK DEF PagesTypeOK
  <2>2. get' \in GetType
    BY <1>4, <2>1 DEF ServeGet, GetType
  <2> QED
    BY <1>0, <1>4, <2>2 DEF ServeGet, PageTypeOK
<1>5. CASE ReceiveGet
  <2>1. page' \in PageType
    BY <1>0, <1>5 DEF ReceiveGet, PageType
  <2>2. Received(get.rows) \in TableType
    BY <1>0, <1>b DEF Received, TableType, GetType
  <2> QED
    BY <1>0, <1>a, <1>5, <2>1, <2>2 DEF ReceiveGet, PageTypeOK
<1>6. CASE FailGet
  <2>1. page' \in PageType
    BY <1>0, <1>6 DEF FailGet, GetFailed, PageType
  <2> QED
    BY <1>0, <1>a, <1>6, <2>1 DEF FailGet, PageTypeOK
<1>7. ASSUME NEW f \in {"", "assessed"}, Filter(f) PROVE PageTypeOK'
  <2>1. table' \in TableType
    BY <1>0, <1>b, <1>7 DEF Filter, TableType
  <2> QED
    BY <1>0, <1>7, <2>1 DEF Filter, PageTypeOK
<1>8. CASE OtherStep
  BY <1>0, <1>8 DEF OtherStep, pageVars, PageTypeOK
<1> QED
  BY <1>1, <1>2, <1>3, <1>4, <1>5, <1>6, <1>7, <1>8, PageSteps DEF PageStep

PostType == [cust : Customers, st : {"asked", "answered"}, mine : BOOLEAN]
FormTypeOK == form \in BOOLEAN /\ timers \subseteq Customers /\ posts \subseteq PostType

\* Leaving the form changes whose POSTs they are.
LEMMA LeaveTypes ==
  ASSUME PagesTypeOK
  PROVE  {[p EXCEPT !.mine = FALSE] : p \in posts} \subseteq PostType
<1>1. \A p \in PostType : [p EXCEPT !.mine = FALSE] \in PostType
  BY DEF PostType
<1>2. posts \subseteq PostType
  BY DEF PagesTypeOK, PostType
<1> QED
  BY <1>1, <1>2

LEMMA FormTypes ==
  ASSUME PagesTypeOK, [Next]_vars
  PROVE  FormTypeOK'
<1>0. form \in BOOLEAN /\ timers \subseteq Customers /\ posts \subseteq PostType
  BY DEF PagesTypeOK, PostType
<1>1. CASE UserNext
  <2>1. ASSUME NEW at, NEW c, Visit(at, c) PROVE FormTypeOK'
    BY <1>0, <2>1, LeaveTypes DEF Visit, Show, FormTypeOK
  <2>2. ASSUME NEW c \in Customers, Submit(c) PROVE FormTypeOK'
    <3>1. [cust |-> c, st |-> "asked", mine |-> TRUE] \in PostType
      BY DEF PostType
    <3> QED
      BY <1>0, <2>2, <3>1 DEF Submit, FormTypeOK
  <2>3. ASSUME NEW f \in {"", "assessed"}, Filter(f) PROVE FormTypeOK'
    BY <1>0, <2>3 DEF Filter, FormTypeOK, formVars
  <2>4. CASE Click
    BY <1>0, <2>4 DEF Click, FormTypeOK, formVars
  <2> QED
    BY <1>1, <2>1, <2>2, <2>3, <2>4 DEF UserNext
<1>2. CASE ListTick \/ ServeGet \/ ReceiveGet \/ FailGet
  BY <1>0, <1>2 DEF ListTick, ServeGet, ReceiveGet, FailGet, FormTypeOK, formVars
<1>3. ASSUME NEW p \in posts, PostStep(p) \/ FailPost(p) PROVE FormTypeOK'
  <2>1. [p EXCEPT !.st = "answered"] \in PostType /\ p.mine \in BOOLEAN
        /\ p.cust \in Customers
    BY <1>0 DEF PostType
  <2>2. CASE ServePost(p)
    BY <1>0, <2>1, <2>2 DEF ServePost, FormTypeOK
  <2>3. CASE ReceivePost(p)
    BY <1>0, <2>1, <2>3 DEF ReceivePost, FormTypeOK
  <2>4. CASE FailPost(p)
    BY <1>0, <2>1, <2>4 DEF FailPost, FormTypeOK
  <2> QED
    BY <1>3, <2>2, <2>3, <2>4 DEF PostStep
<1>4. ASSUME NEW c \in Customers, Timeout(c) PROVE FormTypeOK'
  BY <1>0, <1>4, LeaveTypes DEF Timeout, Show, FormTypeOK
<1>5. ASSUME NEW c \in Customers, Assess(c) PROVE FormTypeOK'
  BY <1>0, <1>5 DEF Assess, FormTypeOK, formVars
<1>6. ASSUME NEW k \in DOMAIN clicks, ClickNext(k) PROVE FormTypeOK'
  BY <1>0, <1>6 DEF ClickNext, ServeClick, ReceiveClick, FailClick, PollTick,
    ServePoll, ReceivePoll, FailPoll, FormTypeOK, formVars
<1>7. CASE UNCHANGED vars
  BY <1>0, <1>7 DEF vars, FormTypeOK, formVars
<1> QED
  BY <1>1, <1>2, <1>3, <1>4, <1>5, <1>6, <1>7 DEF Next

BoundTypeOK == visits \in 0 .. MaxVisits /\ faults \in 0 .. MaxFaults

LEMMA BoundTypes ==
  ASSUME PagesTypeOK, [Next]_vars
  PROVE  BoundTypeOK'
<1>a. visits \in 0 .. MaxVisits /\ faults \in 0 .. MaxFaults
  BY DEF PagesTypeOK
<1>0. /\ visits \in Nat /\ visits <= MaxVisits
      /\ faults \in Nat /\ faults <= MaxFaults
  BY <1>a, BoundAssumption
<1>1. Fault => faults' \in 0 .. MaxFaults
  BY <1>0, BoundAssumption DEF Fault
<1>2. CASE UserNext
  BY <1>0, <1>2, BoundAssumption
  DEF UserNext, Visit, Submit, Filter, Click, BoundTypeOK, boundVars
<1>3. CASE ListTick \/ ServeGet \/ ReceiveGet \/ FailGet
  BY <1>0, <1>1, <1>3, BoundAssumption
  DEF ListTick, ServeGet, ReceiveGet, FailGet, BoundTypeOK, boundVars
<1>4. ASSUME NEW p \in posts, PostStep(p) \/ FailPost(p) PROVE BoundTypeOK'
  BY <1>0, <1>1, <1>4, BoundAssumption
  DEF PostStep, ServePost, ReceivePost, FailPost, BoundTypeOK, boundVars
<1>5. ASSUME NEW c \in Customers, Timeout(c) \/ Assess(c) PROVE BoundTypeOK'
  BY <1>0, <1>5, BoundAssumption DEF Timeout, Assess, BoundTypeOK, boundVars
<1>6. ASSUME NEW k \in DOMAIN clicks, ClickNext(k) PROVE BoundTypeOK'
  BY <1>0, <1>1, <1>6, BoundAssumption
  DEF ClickNext, ServeClick, ReceiveClick, FailClick, PollTick, ServePoll,
      ReceivePoll, FailPoll, BoundTypeOK, boundVars
<1>7. CASE UNCHANGED vars
  BY <1>0, <1>7, BoundAssumption DEF vars, BoundTypeOK, boundVars
<1> QED
  BY <1>2, <1>3, <1>4, <1>5, <1>6, <1>7 DEF Next

-----------------------------------------------------------------------------
(* What each step does to the detail pages and the clicks *)

\* One page changes, or one click.
ViewSet(v, w) == views' = [views EXCEPT ![v] = w]
ClickSet(k, d) == clicks' = [clicks EXCEPT ![k] = d]

LEMMA ViewSetOK ==
  ASSUME DetailTypeOK, NEW v \in 1 .. Len(views), NEW w \in ViewType, ViewSet(v, w)
  PROVE  /\ views' \in Seq(ViewType) /\ Len(views') = Len(views)
         /\ DOMAIN views' = DOMAIN views /\ DOMAIN views = 1 .. Len(views)
         /\ views'[v] = w
         /\ \A u \in 1 .. Len(views) : u # v => views'[u] = views[u]
<1>1. views \in Seq(ViewType)
  BY DEF DetailTypeOK
<1>2. /\ views' \in Seq(ViewType) /\ Len(views') = Len(views)
      /\ \A u \in 1 .. Len(views) : views'[u] = IF u = v THEN w ELSE views[u]
  BY <1>1, ExceptSeq DEF ViewSet
<1>3. DOMAIN views' = 1 .. Len(views') /\ DOMAIN views = 1 .. Len(views)
  BY <1>1, <1>2, LenProperties
<1> QED
  BY <1>2, <1>3

LEMMA ClickSetOK ==
  ASSUME DetailTypeOK, NEW k \in 1 .. Len(clicks),
         NEW d \in ClickType(Len(views)), ClickSet(k, d)
  PROVE  /\ clicks' \in Seq(ClickType(Len(views))) /\ Len(clicks') = Len(clicks)
         /\ DOMAIN clicks' = DOMAIN clicks /\ DOMAIN clicks = 1 .. Len(clicks)
         /\ clicks'[k] = d
         /\ \A j \in 1 .. Len(clicks) : j # k => clicks'[j] = clicks[j]
<1> DEFINE C == ClickType(Len(views))
<1>0. d \in C
  OBVIOUS
<1>1. clicks \in Seq(C)
  BY DEF DetailTypeOK
<1> HIDE DEF C
<1>2. /\ clicks' \in Seq(C) /\ Len(clicks') = Len(clicks)
      /\ \A j \in 1 .. Len(clicks) : clicks'[j] = IF j = k THEN d ELSE clicks[j]
  BY <1>0, <1>1, ExceptSeq DEF ClickSet
<1>3. DOMAIN clicks' = 1 .. Len(clicks') /\ DOMAIN clicks = 1 .. Len(clicks)
  BY <1>1, <1>2, LenProperties
<1> QED
  BY <1>2, <1>3 DEF C

\* Whatever happens to a click, it keeps its page and the page its customer; the
\* page goes on showing what it showed unless the poll keeps on; and only the
\* answer of a poll ends it by its own decision.
Makes(k, d, w) ==
  /\ ClickSet(k, d) /\ ViewSet(clicks[k].view, w)
  /\ d.view = clicks[k].view /\ w.cust = ViewOf(k).cust
  /\ d.got \in {Absent, clicks[k].got, row[ViewOf(k).cust]}
  /\ w.shown = ViewOf(k).shown \/ (KeepsOn(k) /\ w.shown = clicks[k].got)
  /\ d.st \notin {"scored", "stopped"} \/ ReceivePoll(k)
ClickEffect(k) ==
  \E d \in ClickType(Len(views)), w \in ViewType : Makes(k, d, w)

\* A click, field by field, and what the steps make of it
ClickOf(view, st, polls, got, base) ==
  [view |-> view, polls |-> polls, st |-> st, got |-> got, base |-> base]

LEMMA ClickEffectOK ==
  ASSUME PagesTypeOK, NEW k \in DOMAIN clicks, ClickNext(k)
  PROVE  ClickEffect(k)
<1> DEFINE n == Len(views)
           v == clicks[k].view
           c == clicks[k]
<1>0. DetailTypeOK /\ row \in [Customers -> Rows] /\ PollLimit \in Nat
  BY LimitAssumption DEF PagesTypeOK, DetailTypeOK, ViewType, ClickType
<1>1. /\ k \in 1 .. Len(clicks) /\ n \in Nat /\ c \in ClickType(n)
      /\ v \in 1 .. n /\ views[v] \in ViewType /\ views[v].cust \in Customers
      /\ ViewOf(k) = views[v]
  BY ClickOK DEF ViewOf
<1>2. /\ c.view = v /\ c.polls \in 0 .. PollLimit /\ c.got \in Rows
      /\ c.base \in Nat
      /\ c = ClickOf(v, c.st, c.polls, c.got, c.base)
      /\ row[views[v].cust] \in Rows
  BY <1>0, <1>1 DEF ClickType, ClickOf
<1>3. /\ views = [views EXCEPT ![v] = views[v]]
      /\ views[v].shown \in Rows /\ views[v].queued \in BOOLEAN
  BY <1>0, <1>1, LenProperties DEF DetailTypeOK, ViewType
<1>4. \A u \in Rows, q \in BOOLEAN :
        [cust |-> views[v].cust, shown |-> u, queued |-> q] \in ViewType
  BY <1>1 DEF ViewType
<1> HIDE DEF n, v, c
<1> DEFINE States == {"asked", "answered"} \cup Polling \cup Ended
<1>5. ASSUME NEW st \in States, NEW polls \in 0 .. PollLimit, NEW got \in Rows,
             NEW base \in Nat, NEW w \in ViewType,
             ClickSet(k, ClickOf(v, st, polls, got, base)), ViewSet(v, w),
             got \in {Absent, c.got, row[views[v].cust]},
             w.cust = views[v].cust,
             w.shown = views[v].shown \/ (KeepsOn(k) /\ w.shown = c.got),
             st \notin {"scored", "stopped"} \/ ReceivePoll(k)
      PROVE  ClickEffect(k)
  <2>1. PICK d : d = ClickOf(v, st, polls, got, base)
    OBVIOUS
  <2>2. d \in ClickType(n) /\ d.view = v /\ d.got = got /\ d.st = st
    BY <1>1, <2>1 DEF ClickType, ClickOf
  <2>3. d \in ClickType(Len(views)) /\ Makes(k, d, w)
    BY <1>1, <1>5, <2>1, <2>2 DEF n, v, c, Makes
  <2> QED
    BY <1>5, <2>3 DEF ClickEffect
<1>6. ASSUME NEW st \in States, NEW polls \in 0 .. PollLimit, NEW got \in Rows,
             NEW base \in Nat, UNCHANGED views,
             ClickSet(k, ClickOf(v, st, polls, got, base)),
             got \in {Absent, c.got, row[views[v].cust]},
             st \notin {"scored", "stopped"} \/ ReceivePoll(k)
      PROVE  ClickEffect(k)
  <2>1. ViewSet(v, views[v])
    BY <1>3, <1>6 DEF ViewSet
  <2> QED
    BY <1>1, <1>5, <1>6, <2>1
<1>7. ASSUME NEW st
      PROVE  [c EXCEPT !.st = st] = ClickOf(v, st, c.polls, c.got, c.base)
  BY <1>2 DEF ClickOf
<1>8. ASSUME NEW st, NEW got
      PROVE  [c EXCEPT !.st = st, !.got = got]
               = ClickOf(v, st, c.polls, got, c.base)
  <2>1. PICK d : d = [c EXCEPT !.st = st]
    OBVIOUS
  <2>2. d = ClickOf(v, st, c.polls, c.got, c.base)
    BY <1>7, <2>1
  <2>3. [d EXCEPT !.got = got] = ClickOf(v, st, c.polls, got, c.base)
    BY <2>2 DEF ClickOf
  <2> QED
    BY <2>1, <2>3
<1>9. ASSUME NEW st, NEW got, NEW polls
      PROVE  [c EXCEPT !.st = st, !.got = got, !.polls = polls]
               = ClickOf(v, st, polls, got, c.base)
  <2>1. PICK d : d = [c EXCEPT !.st = st, !.got = got]
    OBVIOUS
  <2>2. d = ClickOf(v, st, c.polls, got, c.base)
    BY <1>8, <2>1
  <2>3. [d EXCEPT !.polls = polls] = ClickOf(v, st, polls, got, c.base)
    BY <2>2 DEF ClickOf
  <2> QED
    BY <2>1, <2>3
<1>10. ASSUME NEW st
       PROVE  [c EXCEPT !.st = st, !.polls = 0, !.base = 0, !.got = Absent]
                = ClickOf(v, st, 0, Absent, 0)
  <2>1. PICK d : d = [c EXCEPT !.st = st]
    OBVIOUS
  <2>2. PICK e : e = [d EXCEPT !.polls = 0]
    OBVIOUS
  <2>3. PICK f : f = [e EXCEPT !.base = 0]
    OBVIOUS
  <2>4. d = ClickOf(v, st, c.polls, c.got, c.base)
    BY <1>7, <2>1
  <2>5. e = ClickOf(v, st, 0, c.got, c.base)
    BY <2>2, <2>4 DEF ClickOf
  <2>6. f = ClickOf(v, st, 0, c.got, 0)
    BY <2>3, <2>5 DEF ClickOf
  <2>7. [f EXCEPT !.got = Absent] = ClickOf(v, st, 0, Absent, 0)
    BY <2>6 DEF ClickOf
  <2> QED
    BY <2>1, <2>2, <2>3, <2>7
<1>11. /\ "asked" \in States /\ "answered" \in States
       /\ "polling" \in States /\ "polled" \in States /\ "waiting" \in States
       /\ "failed" \in States /\ "scored" \in States /\ "stopped" \in States
       /\ Absent \in Rows /\ 0 \in 0 .. PollLimit /\ 0 \in Nat
  BY <1>0, RowsOK DEF Polling, Ended
<1> HIDE DEF States
<1>12. CASE ServeClick(k)
  <2>1. ClickSet(k, ClickOf(v, "answered", c.polls, c.got, c.base))
    BY <1>7, <1>12 DEF ClickSet, ServeClick, SetClick, c
  <2> QED
    BY <1>2, <1>6, <1>11, <1>12, <2>1 DEF ServeClick
<1>13. CASE ReceiveClick(k)
  <2>1. ClickSet(k, ClickOf(v, "waiting", c.polls, c.got, c.base))
    BY <1>7, <1>13 DEF ClickSet, ReceiveClick, SetClick, c
  <2>2. PICK w : w = [views[v] EXCEPT !.queued = TRUE]
    OBVIOUS
  <2>3. ViewSet(v, w)
    BY <1>13, <2>2 DEF ViewSet, ReceiveClick, v
  <2>4. w \in ViewType /\ w.cust = views[v].cust /\ w.shown = views[v].shown
    BY <1>1, <2>2 DEF ViewType
  <2> QED
    BY <1>2, <1>5, <1>11, <2>1, <2>3, <2>4
<1>14. CASE FailClick(k)
  <2>1. ClickSet(k, ClickOf(v, "failed", 0, Absent, 0))
    BY <1>10, <1>14 DEF ClickSet, FailClick, EndClick, c
  <2> QED
    BY <1>2, <1>6, <1>11, <1>14, <2>1 DEF FailClick
<1>15. CASE PollTick(k)
  <2>1. ClickSet(k, ClickOf(v, "polling", c.polls, Absent, c.base))
    BY <1>8, <1>15 DEF ClickSet, PollTick, c
  <2> QED
    BY <1>2, <1>6, <1>11, <1>15, <2>1 DEF PollTick
<1>16. CASE ServePoll(k)
  <2>1. ClickSet(k, ClickOf(v, "polled", c.polls, row[views[v].cust], c.base))
    BY <1>1, <1>8, <1>16 DEF ClickSet, ServePoll, c
  <2> QED
    BY <1>2, <1>6, <1>11, <1>16, <2>1 DEF ServePoll
<1>17. CASE FailPoll(k)
  <2>1. ClickSet(k, ClickOf(v, "failed", 0, Absent, 0))
    BY <1>10, <1>17 DEF ClickSet, FailPoll, EndClick, c
  <2> QED
    BY <1>2, <1>6, <1>11, <1>17, <2>1 DEF FailPoll
<1>18. CASE ReceivePoll(k)
  <2>1. CASE ~KeepsOn(k) /\ EndClick(k, "stopped") /\ UNCHANGED views
    <3>1. ClickSet(k, ClickOf(v, "stopped", 0, Absent, 0))
      BY <1>10, <2>1 DEF ClickSet, EndClick, c
    <3> QED
      BY <1>2, <1>6, <1>11, <1>18, <2>1, <3>1
  <2>2. CASE /\ KeepsOn(k)
             /\ views' = [views EXCEPT ![clicks[k].view].shown = clicks[k].got]
             /\ clicks' = [clicks EXCEPT ![k].st = "waiting", ![k].got = Absent,
                                         ![k].polls = Counted(k)]
    <3>1. ClickSet(k, ClickOf(v, "waiting", c.polls + 1, Absent, c.base))
      <4>1. clicks' = [clicks EXCEPT ![k] =
              [c EXCEPT !.st = "waiting", !.got = Absent, !.polls = c.polls + 1]]
        BY <1>0, <1>1, <2>2, LenProperties DEF Counted, c, DetailTypeOK
      <4> QED
        BY <1>9, <4>1 DEF ClickSet
    <3>2. PICK w : w = [views[v] EXCEPT !.shown = c.got]
      OBVIOUS
    <3>3. ViewSet(v, w)
      BY <2>2, <3>2 DEF ViewSet, v, c
    <3>4. w \in ViewType /\ w.cust = views[v].cust /\ w.shown = c.got
      BY <1>1, <1>2, <3>2 DEF ViewType
    <3>5. c.polls + 1 \in 0 .. PollLimit
      BY <1>0, <1>2, <2>2 DEF KeepsOn, c
    <3> QED
      BY <1>2, <1>5, <1>11, <2>2, <3>1, <3>3, <3>4, <3>5
  <2>3. CASE /\ KeepsOn(k)
             /\ views' = [views EXCEPT ![clicks[k].view] =
                            [@ EXCEPT !.shown = clicks[k].got, !.queued = FALSE]]
             /\ EndClick(k, "scored")
    <3>1. ClickSet(k, ClickOf(v, "scored", 0, Absent, 0))
      BY <1>10, <2>3 DEF ClickSet, EndClick, c
    <3>2. PICK w : w = [views[v] EXCEPT !.shown = c.got, !.queued = FALSE]
      OBVIOUS
    <3>3. ViewSet(v, w)
      BY <2>3, <3>2 DEF ViewSet, v, c
    <3>4. w \in ViewType /\ w.cust = views[v].cust /\ w.shown = c.got
      BY <1>1, <1>2, <3>2 DEF ViewType
    <3> QED
      BY <1>2, <1>5, <1>11, <1>18, <2>3, <3>1, <3>3, <3>4
  <2> QED
    BY <1>18, <2>1, <2>2, <2>3 DEF ReceivePoll
<1> QED
  BY <1>12, <1>13, <1>14, <1>15, <1>16, <1>17, <1>18 DEF ClickNext

\* What an answer to the GET does to a detail page
LEMMA ReceiveEffect ==
  ASSUME PagesTypeOK, DetailInv, ReceiveGet, page.at = "detail"
  PROVE  \E w \in ViewType : /\ ViewSet(Len(views), w)
                             /\ w.cust = views[Len(views)].cust
                             /\ w.shown = get.rows[w.cust]
<1> DEFINE v == Len(views)
           c == views[v].cust
<1>1. /\ views[v] \in ViewType /\ c \in Customers /\ Wanted = {c}
  BY ShownViewOK DEF ViewType
<1>2. get.rows[c] \in Rows
  BY <1>1 DEF PagesTypeOK
<1>3. views' = [views EXCEPT ![v].shown = get.rows[c]]
  BY <1>1 DEF ReceiveGet
<1> HIDE DEF v, c
<1>4. PICK w : w = [views[v] EXCEPT !.shown = get.rows[c]]
  OBVIOUS
<1>5. w \in ViewType /\ w.cust = views[v].cust /\ w.shown = get.rows[c]
  BY <1>1, <1>2, <1>4 DEF ViewType
<1>6. ViewSet(v, w)
  BY <1>3, <1>4 DEF ViewSet
<1> QED
  BY <1>5, <1>6 DEF v, c

\* A page that is opened is a new one; the clicks keep theirs.
LEMMA ShowEffect ==
  ASSUME DetailTypeOK, NEW at, NEW c, Show(at, c),
         at = "detail" => c \in Customers, UNCHANGED clicks
  PROVE  /\ DetailTypeOK' /\ Len(views') >= Len(views)
         /\ DOMAIN views = 1 .. Len(views)
         /\ \A v \in DOMAIN views : v \in DOMAIN views' /\ views'[v] = views[v]
         /\ at = "detail" => /\ Len(views') = Len(views) + 1
                             /\ views'[Len(views')] = NewView(c)
         /\ at # "detail" => UNCHANGED views
<1>0. /\ views \in Seq(ViewType) /\ Len(views) \in Nat
      /\ DOMAIN views = 1 .. Len(views)
  BY LenProperties DEF DetailTypeOK
<1>1. CASE at = "detail"
  <2>1. NewView(c) \in ViewType
    BY <1>1, RowsOK DEF NewView, ViewType
  <2>2. /\ views' \in Seq(ViewType) /\ Len(views') = Len(views) + 1
        /\ \A v \in 1 .. Len(views) : views'[v] = views[v]
        /\ views'[Len(views) + 1] = NewView(c)
    BY <1>0, <1>1, <2>1, AppendProperties DEF Show
  <2>3. ClickType(Len(views)) \subseteq ClickType(Len(views'))
    BY <1>0, <2>2 DEF ClickType
  <2>4. clicks' \in Seq(ClickType(Len(views')))
    BY <2>3, SeqMonotonic DEF DetailTypeOK
  <2>5. DOMAIN views' = 1 .. Len(views')
    BY <2>2, LenProperties
  <2> QED
    BY <1>0, <1>1, <2>2, <2>4, <2>5 DEF DetailTypeOK
<1>2. CASE at # "detail"
  <2>1. views' = views
    BY <1>2 DEF Show
  <2>2. DetailTypeOK'
    BY <2>1 DEF DetailTypeOK
  <2>3. \A v \in DOMAIN views : v \in DOMAIN views' /\ views'[v] = views[v]
    BY <2>1
  <2>4. Len(views') >= Len(views)
    BY <1>0, <2>1
  <2> QED
    BY <1>0, <1>2, <2>1, <2>2, <2>3, <2>4
<1> QED
  BY <1>1, <1>2

\* A click on the button of the page that is shown
LEMMA PressEffect ==
  ASSUME PagesTypeOK, DetailInv, Click
  PROVE  /\ UNCHANGED views /\ DetailTypeOK'
         /\ DOMAIN clicks = 1 .. Len(clicks) /\ Len(clicks) \in Nat
         /\ DOMAIN clicks' = 1 .. Len(clicks) + 1
         /\ \A k \in DOMAIN clicks : clicks'[k] = clicks[k]
         /\ clicks'[Len(clicks) + 1].view = Len(views)
         /\ clicks'[Len(clicks) + 1].got = Absent
         /\ clicks'[Len(clicks) + 1].st = "asked"
<1> DEFINE C == ClickType(Len(views))
           d == [view |-> Len(views), st |-> "asked", polls |-> 0, got |-> Absent,
                 base |-> views[Len(views)].shown.n]
<1>0. page.at = "detail" /\ views' = views
  BY DEF Click
<1>1. clicks \in Seq(C) /\ DetailTypeOK /\ Len(clicks) \in Nat
      /\ DOMAIN clicks = 1 .. Len(clicks)
  <2>1. clicks \in Seq(C) /\ DetailTypeOK
    BY DEF PagesTypeOK, DetailTypeOK, ViewType, ClickType
  <2> QED
    BY <2>1, LenProperties
<1>2. Len(views) \in 1 .. Len(views) /\ views[Len(views)].shown.n \in Nat
  BY <1>0, ShownViewOK DEF ViewType, Rows
<1>3. d \in C
  BY <1>2, RowsOK, LimitAssumption DEF ClickType
<1>4. clicks' = Append(clicks, d)
  BY DEF Click
<1>5. d.view = Len(views) /\ d.got = Absent /\ d.st = "asked"
  OBVIOUS
<1> HIDE DEF C, d
<1>6. /\ clicks' \in Seq(C) /\ Len(clicks') = Len(clicks) + 1
      /\ \A k \in 1 .. Len(clicks) : clicks'[k] = clicks[k]
      /\ clicks'[Len(clicks) + 1] = d
  BY <1>1, <1>3, <1>4, AppendProperties
<1>7. DOMAIN clicks' = 1 .. Len(clicks')
  BY <1>6, LenProperties
<1> QED
  BY <1>0, <1>1, <1>5, <1>6, <1>7 DEF DetailTypeOK, C

LEMMA DetailTypes ==
  ASSUME PagesTypeOK, DetailInv, [Next]_vars
  PROVE  DetailTypeOK'
<1>0. DetailTypeOK
  BY DEF PagesTypeOK, DetailTypeOK, ViewType, ClickType
<1>1. CASE Shows
  BY <1>0, <1>1, ShowEffect DEF Shows
<1>2. CASE ReceiveGet
  <2>1. CASE page.at = "detail"
    <3>1. Len(views) \in 1 .. Len(views)
      BY <2>1, ShownViewOK
    <3>2. views' \in Seq(ViewType) /\ Len(views') = Len(views)
      BY <1>0, <1>2, <2>1, <3>1, ReceiveEffect, ViewSetOK
    <3>3. UNCHANGED clicks
      BY <1>2 DEF ReceiveGet
    <3> QED
      BY <1>0, <3>2, <3>3 DEF DetailTypeOK
  <2>2. CASE page.at # "detail"
    BY <1>0, <1>2, <2>2 DEF ReceiveGet, DetailTypeOK
  <2> QED
    BY <2>1, <2>2
<1>3. CASE Click
  BY <1>3, PressEffect
<1>4. ASSUME NEW k \in DOMAIN clicks, ClickNext(k) PROVE DetailTypeOK'
  <2>1. k \in 1 .. Len(clicks) /\ clicks[k].view \in 1 .. Len(views)
    BY <1>4, ClickOK
  <2>2. PICK d \in ClickType(Len(views)), w \in ViewType : Makes(k, d, w)
    BY <1>4, ClickEffectOK DEF ClickEffect
  <2>3. ClickSet(k, d) /\ ViewSet(clicks[k].view, w)
    BY <2>2 DEF Makes
  <2>4. views' \in Seq(ViewType) /\ Len(views') = Len(views)
    BY <1>0, <2>1, <2>3, ViewSetOK
  <2>5. clicks' \in Seq(ClickType(Len(views)))
    BY <1>0, <2>1, <2>3, ClickSetOK
  <2> QED
    BY <2>4, <2>5 DEF DetailTypeOK
<1>5. CASE UNCHANGED detailVars
  BY <1>0, <1>5 DEF detailVars, DetailTypeOK
<1> QED
  BY <1>1, <1>2, <1>3, <1>4, <1>5, DetailSteps DEF DetailStep

LEMMA TypesTogether ==
  PagesTypeOK <=>
    /\ row \in [Customers -> Rows] /\ jobs \in [Customers -> Nat]
    /\ PageTypeOK /\ FormTypeOK /\ DetailTypeOK /\ BoundTypeOK
BY DEF PagesTypeOK, PageTypeOK, PageType, GetType, TableType, FormTypeOK,
       PostType, DetailTypeOK, ViewType, ClickType, BoundTypeOK

LEMMA StepTypes ==
  ASSUME PagesTypeOK, DetailInv, [Next]_vars
  PROVE  PagesTypeOK'
<1>1. (/\ row \in [Customers -> Rows] /\ jobs \in [Customers -> Nat]
       /\ PageTypeOK /\ FormTypeOK /\ DetailTypeOK /\ BoundTypeOK)'
  BY RecordTypes, PageTypes, FormTypes, DetailTypes, BoundTypes
<1>2. (/\ row \in [Customers -> Rows] /\ jobs \in [Customers -> Nat]
       /\ PageTypeOK /\ FormTypeOK /\ DetailTypeOK /\ BoundTypeOK)' => PagesTypeOK'
  BY TypesTogether, PTL
<1> QED
  BY <1>1, <1>2

-----------------------------------------------------------------------------
(* The detail page that is shown *)

LEMMA NextDetailInv ==
  ASSUME PagesTypeOK, DetailInv, [Next]_vars
  PROVE  DetailInv'
<1>0. DetailTypeOK /\ Len(views) \in Nat /\ DOMAIN views = 1 .. Len(views)
  <2>1. DetailTypeOK
    BY DEF PagesTypeOK, DetailTypeOK, ViewType, ClickType
  <2> QED
    BY <2>1, LenProperties DEF DetailTypeOK
<1>1. \A k \in DOMAIN clicks : clicks[k].view \in 1 .. Len(views)
  BY ClickOK
<1>2. CASE Shows
  <2>1. ASSUME NEW at \in {"dashboard", "list", "new"}, Show(at, NoId)
        PROVE  DetailInv'
    BY <2>1 DEF Show, Page, DetailInv
  <2>2. ASSUME NEW c \in Customers, Show("detail", c), UNCHANGED clicks
        PROVE  DetailInv'
    <3>1. /\ Len(views') = Len(views) + 1 /\ views'[Len(views')] = NewView(c)
          /\ views' \in Seq(ViewType)
      BY <1>0, <2>2, ShowEffect DEF DetailTypeOK
    <3>2. views' # << >>
      BY <1>0, <3>1, EmptySeq
    <3>3. views'[Len(views')].shown = Absent
      BY <3>1 DEF NewView
    <3>4. \A k \in DOMAIN clicks' : clicks'[k].view # Len(views')
      BY <1>0, <1>1, <2>2, <3>1
    <3> QED
      BY <3>2, <3>3, <3>4 DEF DetailInv
  <2> QED
    BY <1>2, <2>1, <2>2 DEF Shows
<1>3. ASSUME NEW c \in Customers, Renames(c) PROVE DetailInv'
  BY <1>3 DEF Renames, DetailInv, PagesTypeOK
<1>4. CASE ListTick \/ \E f \in {"", "assessed"} : Filter(f)
  BY <1>4 DEF ListTick, Filter, DetailInv
<1>5. CASE ServeGet
  BY <1>5 DEF ServeGet, DetailInv, detailVars
<1>6. CASE FailGet
  BY <1>6 DEF FailGet, GetFailed, DetailInv, PagesTypeOK, NoGet, detailVars
<1>7. CASE ReceiveGet
  <2>1. get'.st = "none" /\ page'.at = page.at
    BY <1>7 DEF ReceiveGet, NoGet, PagesTypeOK
  <2>2. ASSUME page.at = "detail" PROVE views' # << >>
    <3>1. Len(views) \in 1 .. Len(views)
      BY <2>2, ShownViewOK
    <3>2. views' \in Seq(ViewType) /\ Len(views') = Len(views)
      BY <1>0, <1>7, <2>2, <3>1, ReceiveEffect, ViewSetOK
    <3> QED
      BY <3>1, <3>2, EmptySeq
  <2> QED
    BY <2>1, <2>2 DEF DetailInv
<1>8. CASE OtherStep
  <2>1. page' = page /\ get' = get
    BY <1>8 DEF OtherStep, pageVars
  <2>2. CASE Click
    <3>1. UNCHANGED views /\ page.at = "detail" /\ get.st = "none"
      BY <2>2 DEF Click, DetailInv
    <3> QED
      BY <2>1, <3>1 DEF DetailInv
  <2>3. ASSUME NEW k \in DOMAIN clicks, ClickNext(k) PROVE DetailInv'
    <3>1. k \in 1 .. Len(clicks) /\ clicks[k].view \in 1 .. Len(views)
      BY <2>3, ClickOK
    <3>2. PICK d \in ClickType(Len(views)), w \in ViewType : Makes(k, d, w)
      BY <2>3, ClickEffectOK DEF ClickEffect
    <3>3. ClickSet(k, d) /\ ViewSet(clicks[k].view, w) /\ d.view = clicks[k].view
      BY <3>2 DEF Makes
    <3>4. /\ views' \in Seq(ViewType) /\ Len(views') = Len(views)
          /\ \A u \in 1 .. Len(views) :
               u # clicks[k].view => views'[u] = views[u]
      BY <1>0, <3>1, <3>3, ViewSetOK
    <3>5. /\ DOMAIN clicks' = DOMAIN clicks /\ DOMAIN clicks = 1 .. Len(clicks)
          /\ clicks'[k] = d
          /\ \A j \in 1 .. Len(clicks) : j # k => clicks'[j] = clicks[j]
      BY <1>0, <3>1, <3>3, ClickSetOK
    <3>6. \A j \in DOMAIN clicks' : clicks'[j].view = clicks[j].view
      BY <3>3, <3>5
    <3>7. ASSUME page.at = "detail"
          PROVE  views' # << >> /\ Len(views) \in 1 .. Len(views)
      BY <3>4, <3>7, ShownViewOK, EmptySeq
    <3> QED
      BY <2>1, <3>1, <3>4, <3>5, <3>6, <3>7 DEF DetailInv
  <2>4. CASE UNCHANGED detailVars
    BY <2>1, <2>4 DEF DetailInv, detailVars
  <2> QED
    BY <1>8, <2>2, <2>3, <2>4 DEF OtherStep, DetailStep
<1> QED
  BY <1>2, <1>3, <1>4, <1>5, <1>6, <1>7, <1>8, PageSteps DEF PageStep

-----------------------------------------------------------------------------
(* Scores *)

LEMMA SaneRows ==
  /\ Sane(Absent) /\ Sane(Unscored)
  /\ \A c \in Customers : Sane(NoTable[c])
BY RowsOK DEF Sane, Scored

LEMMA NextRowScores ==
  ASSUME PagesTypeOK, ScoresInv, [Next]_vars, NEW c \in Customers
  PROVE  Sane(row'[c])
<1>0. row \in [Customers -> Rows] /\ Sane(row[c])
  BY DEF PagesTypeOK, ScoresInv
<1>1. ASSUME NEW p \in posts, Onboard(p.cust) PROVE Sane(row'[c])
  BY <1>0, <1>1, SaneRows DEF Onboard
<1>2. ASSUME NEW d \in Customers, Assess(d) PROVE Sane(row'[c])
  <2>1. PICK s \in {"zero", "some"} :
          row' = [row EXCEPT ![d] = [n |-> row[d].n + 1, score |-> s]]
    BY <1>2 DEF Assess
  <2>2. row[d].n \in Nat
    BY <1>0 DEF Rows
  <2>3. Sane([n |-> row[d].n + 1, score |-> s])
    BY <2>2 DEF Sane, Scored
  <2> QED
    BY <1>0, <2>1, <2>3
<1>3. CASE row' = row
  BY <1>0, <1>3
<1> QED
  BY <1>1, <1>2, <1>3, RecordSteps DEF RecordStep, recordVars

LEMMA NextPageScores ==
  ASSUME PagesTypeOK, ScoresInv, [Next]_vars, NEW c \in Customers
  PROVE  Sane(get'.rows[c]) /\ Sane(table'.rows[c])
<1>0. Sane(row[c]) /\ Sane(get.rows[c]) /\ Sane(table.rows[c])
  BY DEF ScoresInv
<1>1. Sane(NoGet.rows[c]) /\ Sane(Asked.rows[c]) /\ Sane(EmptyTable.rows[c])
  BY SaneRows DEF NoGet, Asked, EmptyTable
<1>2. CASE Shows
  BY <1>1, <1>2 DEF Shows, Show, FirstGet
<1>3. ASSUME NEW d \in Customers, Renames(d)
      PROVE  Sane(get'.rows[c]) /\ Sane(table'.rows[c])
  BY <1>0, <1>3 DEF Renames
<1>4. CASE ListTick
  BY <1>0, <1>1, <1>4 DEF ListTick
<1>5. CASE ServeGet
  <2>1. get'.rows[c] \in {row[c], Absent} /\ table' = table
    BY <1>5 DEF ServeGet
  <2> QED
    BY <1>0, <2>1, SaneRows
<1>6. CASE ReceiveGet
  <2>1. Received(get.rows).rows[c] = get.rows[c]
    BY DEF Received, PagesTypeOK
  <2>2. get' = NoGet /\ (table' = table \/ table' = Received(get.rows))
    BY <1>6 DEF ReceiveGet
  <2> QED
    BY <1>0, <1>1, <2>1, <2>2
<1>7. CASE FailGet
  BY <1>0, <1>1, <1>7 DEF FailGet
<1>8. ASSUME NEW f \in {"", "assessed"}, Filter(f)
      PROVE  Sane(get'.rows[c]) /\ Sane(table'.rows[c])
  <2>1. table'.rows = table.rows /\ get' = get
    BY <1>8 DEF Filter, PagesTypeOK
  <2> QED
    BY <1>0, <2>1
<1>9. CASE OtherStep
  BY <1>0, <1>9 DEF OtherStep, pageVars
<1> QED
  BY <1>2, <1>3, <1>4, <1>5, <1>6, <1>7, <1>8, <1>9, PageSteps DEF PageStep

\* What the pages and the polls have is nothing, or was there: on the page, in
\* the answer to its GET or to a poll of it, or in the record.
Sourced ==
  /\ \A v \in DOMAIN views' :
       \/ views'[v].shown = Absent
       \/ /\ v \in DOMAIN views /\ views'[v].cust = views[v].cust
          /\ \/ views'[v].shown = views[v].shown
             \/ /\ views[v].cust \in Customers
                /\ views'[v].shown = get.rows[views[v].cust]
             \/ \E k \in DOMAIN clicks :
                  clicks[k].view = v /\ views'[v].shown = clicks[k].got
  /\ \A k \in DOMAIN clicks' :
       \/ clicks'[k].got = Absent
       \/ k \in DOMAIN clicks /\ clicks'[k].got = clicks[k].got
       \/ k \in DOMAIN clicks /\ clicks'[k].got = row[ViewOf(k).cust]

\* Pages and clicks stay what they are; a new click is on the page that shows
\* a customer.
Kept ==
  /\ \A v \in DOMAIN views :
       v \in DOMAIN views' /\ views'[v].cust = views[v].cust
  /\ \A k \in DOMAIN clicks :
       k \in DOMAIN clicks' /\ clicks'[k].view = clicks[k].view
  /\ \A k \in DOMAIN clicks' :
       \/ k \in DOMAIN clicks
       \/ /\ UNCHANGED views /\ clicks'[k].view = Len(views)
          /\ Len(views) \in DOMAIN views /\ views[Len(views)].shown # Absent

LEMMA DetailSources ==
  ASSUME PagesTypeOK, DetailInv, [Next]_vars
  PROVE  Sourced /\ Kept
<1>0. /\ DetailTypeOK /\ Len(views) \in Nat /\ DOMAIN views = 1 .. Len(views)
      /\ DOMAIN clicks = 1 .. Len(clicks)
  <2>1. DetailTypeOK
    BY DEF PagesTypeOK, DetailTypeOK, ViewType, ClickType
  <2> QED
    BY <2>1, LenProperties DEF DetailTypeOK
<1>1. CASE UNCHANGED detailVars
  BY <1>1 DEF detailVars, Sourced, Kept
<1>2. CASE Shows
  <2>1. ASSUME NEW at, NEW c, Show(at, c), at = "detail" => c \in Customers
        PROVE  Sourced /\ Kept
    <3>1. /\ \A v \in DOMAIN views : v \in DOMAIN views' /\ views'[v] = views[v]
          /\ at = "detail" => /\ Len(views') = Len(views) + 1
                              /\ views'[Len(views')] = NewView(c)
          /\ at # "detail" => UNCHANGED views
          /\ UNCHANGED clicks /\ DOMAIN views' = 1 .. Len(views')
      <4>1. UNCHANGED clicks
        BY <1>2 DEF Shows
      <4> QED
        BY <1>0, <2>1, <4>1, ShowEffect, LenProperties DEF DetailTypeOK
    <3>2. \A v \in DOMAIN views' : v \in DOMAIN views \/ views'[v].shown = Absent
      <4>1. NewView(c).shown = Absent
        BY DEF NewView
      <4>2. CASE at = "detail"
        BY <1>0, <3>1, <4>1, <4>2
      <4>3. CASE at # "detail"
        BY <3>1, <4>3
      <4> QED
        BY <4>2, <4>3
    <3> QED
      BY <3>1, <3>2 DEF Sourced, Kept
  <2> QED
    BY <1>2, <2>1 DEF Shows
<1>3. CASE ReceiveGet
  <2>1. UNCHANGED clicks
    BY <1>3 DEF ReceiveGet
  <2>2. CASE page.at = "detail"
    <3>1. Len(views) \in 1 .. Len(views) /\ views[Len(views)].cust \in Customers
      BY <2>2, ShownViewOK DEF ViewType
    <3>2. PICK w \in ViewType : /\ ViewSet(Len(views), w)
                                /\ w.cust = views[Len(views)].cust
                                /\ w.shown = get.rows[w.cust]
      BY <1>3, <2>2, ReceiveEffect
    <3>3. /\ DOMAIN views' = DOMAIN views /\ views'[Len(views)] = w
          /\ \A u \in 1 .. Len(views) : u # Len(views) => views'[u] = views[u]
      BY <1>0, <3>1, <3>2, ViewSetOK
    <3> QED
      BY <1>0, <2>1, <3>1, <3>2, <3>3 DEF Sourced, Kept
  <2>3. CASE page.at # "detail"
    BY <1>3, <2>1, <2>3 DEF ReceiveGet, Sourced, Kept
  <2> QED
    BY <2>2, <2>3
<1>4. CASE Click
  <2>1. views[Len(views)].shown # Absent /\ Len(views) \in 1 .. Len(views)
    BY <1>4, ShownViewOK DEF Click
  <2> QED
    BY <1>0, <1>4, <2>1, PressEffect DEF Sourced, Kept
<1>5. ASSUME NEW k \in DOMAIN clicks, ClickNext(k) PROVE Sourced /\ Kept
  <2>1. k \in 1 .. Len(clicks) /\ clicks[k].view \in 1 .. Len(views)
    BY <1>5, ClickOK
  <2>2. PICK d \in ClickType(Len(views)), w \in ViewType : Makes(k, d, w)
    BY <1>5, ClickEffectOK DEF ClickEffect
  <2>3. /\ ClickSet(k, d) /\ ViewSet(clicks[k].view, w)
        /\ d.view = clicks[k].view /\ w.cust = views[clicks[k].view].cust
        /\ d.got \in {Absent, clicks[k].got, row[ViewOf(k).cust]}
        /\ w.shown \in {views[clicks[k].view].shown, clicks[k].got}
    BY <2>2 DEF Makes, ViewOf
  <2>4. /\ DOMAIN views' = DOMAIN views /\ views'[clicks[k].view] = w
        /\ \A u \in 1 .. Len(views) :
             u # clicks[k].view => views'[u] = views[u]
    BY <1>0, <2>1, <2>3, ViewSetOK
  <2>5. /\ DOMAIN clicks' = DOMAIN clicks /\ clicks'[k] = d
        /\ \A j \in 1 .. Len(clicks) : j # k => clicks'[j] = clicks[j]
    BY <1>0, <2>1, <2>3, ClickSetOK
  <2> QED
    BY <1>0, <2>1, <2>3, <2>4, <2>5 DEF Sourced, Kept
<1> QED
  BY <1>1, <1>2, <1>3, <1>4, <1>5, DetailSteps DEF DetailStep

LEMMA NextScores ==
  ASSUME PagesTypeOK, DetailInv, ScoresInv, [Next]_vars
  PROVE  ScoresInv'
<1>1. \A c \in Customers :
        Sane(row'[c]) /\ Sane(get'.rows[c]) /\ Sane(table'.rows[c])
  BY NextRowScores, NextPageScores
<1>2. \A v \in DOMAIN views' : Sane(views'[v].shown)
  BY DetailSources, SaneRows DEF Sourced, ScoresInv
<1>3. \A k \in DOMAIN clicks' : Sane(clicks'[k].got)
  <2>1. \A k \in DOMAIN clicks : Sane(row[ViewOf(k).cust])
    BY ClickOK DEF ScoresInv
  <2> QED
    BY <2>1, DetailSources, SaneRows DEF Sourced, ScoresInv
<1> QED
  BY <1>1, <1>2, <1>3 DEF ScoresInv

-----------------------------------------------------------------------------
(* Rows are only replaced by later ones *)

LEMMA RowsAdvance ==
  ASSUME PagesTypeOK, KnownInv, [Next]_vars, NEW c \in Customers
  PROVE  /\ row[c].n \in Nat /\ row'[c].n \in Nat /\ row'[c].n >= row[c].n
         /\ row[c] # Absent => row'[c] # Absent
<1>0. row \in [Customers -> Rows] /\ row[c].n \in Nat
  BY DEF PagesTypeOK, Rows
<1>1. ASSUME NEW p \in posts, p.st = "asked", Onboard(p.cust)
      PROVE  /\ row'[c].n \in Nat /\ row'[c].n >= row[c].n
             /\ row[c] # Absent => row'[c] # Absent
  <2>1. row[p.cust] = Absent
    BY <1>1 DEF KnownInv
  <2>2. row'[c] = IF c = p.cust THEN Unscored ELSE row[c]
    BY <1>0, <1>1 DEF Onboard
  <2> QED
    BY <1>0, <2>1, <2>2, RowsOK
<1>2. ASSUME NEW d \in Customers, Assess(d)
      PROVE  /\ row'[c].n \in Nat /\ row'[c].n >= row[c].n
             /\ row[c] # Absent => row'[c] # Absent
  <2>1. PICK s \in {"zero", "some"} :
          row' = [row EXCEPT ![d] = [n |-> row[d].n + 1, score |-> s]]
    BY <1>2 DEF Assess
  <2>2. \/ row'[c] = row[c]
        \/ row'[c].n = row[c].n + 1
    BY <1>0, <2>1
  <2> QED
    BY <1>0, <2>2, RowsOK
<1>3. CASE row' = row
  BY <1>0, <1>3
<1> QED
  BY <1>0, <1>1, <1>2, <1>3, RecordSteps DEF RecordStep, recordVars

LEMMA NextTable ==
  ASSUME PagesTypeOK, KnownInv, TableInv, [Next]_vars
  PROVE  TableInv'
<1> DEFINE Listing == {"dashboard", "list"}
<1>0. \A c \in Customers :
        /\ row[c].n \in Nat /\ row'[c].n \in Nat /\ row'[c].n >= row[c].n
        /\ table.rows[c].n \in Nat /\ get.rows[c].n \in Nat
  BY RowsAdvance DEF PagesTypeOK, Rows
<1>1. \A c \in Customers : EmptyTable.rows[c].n = 0
  BY RowsOK DEF EmptyTable
<1>2. CASE Shows
  <2>1. ASSUME NEW at, NEW c, Show(at, c) PROVE TableInv'
    <3>1. table' = EmptyTable /\ get'.st # "answered"
      BY <2>1 DEF Show, FirstGet, NoGet, Asked
    <3> QED
      BY <1>0, <1>1, <3>1 DEF TableInv
  <2> QED
    BY <1>2, <2>1 DEF Shows
<1>3. ASSUME NEW d \in Customers, Renames(d) PROVE TableInv'
  <2>1. page'.at = "detail" /\ get' = get /\ table' = table /\ row' = row
    BY <1>3 DEF Renames, PagesTypeOK, recordVars
  <2> QED
    BY <1>3, <2>1 DEF TableInv, Renames
<1>4. CASE ListTick
  <2>1. page' = page /\ table' = table /\ row' = row /\ get'.st = "asked"
    BY <1>4 DEF ListTick, Asked, recordVars
  <2> QED
    BY <2>1 DEF TableInv
<1>5. CASE ServeGet
  <2>1. page' = page /\ table' = table /\ row' = row
    BY <1>5 DEF ServeGet, recordVars
  <2>2. page.at \in Listing => \A c \in Customers : get'.rows[c] = row[c]
    BY <1>5 DEF ServeGet, Wanted
  <2> QED
    BY <1>0, <2>1, <2>2 DEF TableInv
<1>6. CASE ReceiveGet
  <2>1. get'.st = "none" /\ page'.at = page.at /\ row' = row
    BY <1>6 DEF ReceiveGet, NoGet, PagesTypeOK, recordVars
  <2>2. CASE page.at = "detail"
    <3>1. table' = table
      BY <1>6, <2>2 DEF ReceiveGet
    <3> QED
      BY <2>1, <2>2, <3>1 DEF TableInv
  <2>3. CASE page.at # "detail"
    <3>1. page.at \in Listing /\ get.st = "answered"
          /\ table' = Received(get.rows)
      BY <1>6, <2>3 DEF ReceiveGet
    <3>2. table'.rows = get.rows
      BY <3>1 DEF Received, PagesTypeOK
    <3> QED
      BY <2>1, <3>1, <3>2 DEF TableInv
  <2> QED
    BY <2>2, <2>3
<1>7. CASE FailGet
  <2>1. get'.st = "none" /\ page'.at = page.at /\ row' = row /\ table' = table
    BY <1>7 DEF FailGet, GetFailed, NoGet, PagesTypeOK, recordVars
  <2> QED
    BY <2>1 DEF TableInv
<1>8. ASSUME NEW f \in {"", "assessed"}, Filter(f) PROVE TableInv'
  <2>1. /\ table'.rows = table.rows /\ get' = get /\ page' = page /\ row' = row
        /\ page.at = "list"
    BY <1>8 DEF Filter, PagesTypeOK, recordVars
  <2> QED
    BY <2>1 DEF TableInv
<1>9. CASE OtherStep
  <2>1. get' = get /\ page' = page /\ table' = table
    BY <1>9 DEF OtherStep, pageVars
  <2>2. ASSUME NEW c \in Customers
        PROVE  /\ table.rows[c].n <= row'[c].n
               /\ get.rows[c].n <= row[c].n => get.rows[c].n <= row'[c].n
    BY <1>0 DEF TableInv
  <2> QED
    BY <2>1, <2>2 DEF TableInv
<1> QED
  BY <1>2, <1>3, <1>4, <1>5, <1>6, <1>7, <1>8, <1>9, PageSteps DEF PageStep

-----------------------------------------------------------------------------
(* Who is onboarded *)

\* No two POSTs are for the same customer, and what the service has not served
\* has no row.
PostsOK ==
  /\ \A p, q \in posts : p.cust = q.cust => p = q
  /\ \A p \in posts : p.st = "asked" => row[p.cust] = Absent

\* Those that remain are for customers that are not onboarded meanwhile.
LEMMA FewerPosts ==
  ASSUME PostsOK, posts' \subseteq posts,
         \A p \in posts' : p.st = "asked" => row'[p.cust] = row[p.cust]
  PROVE  PostsOK'
BY DEF PostsOK

\* The page of the form is left.
LEMMA LeavePosts ==
  ASSUME PagesTypeOK, PostsOK, NEW at, NEW c, Show(at, c), UNCHANGED row
  PROVE  PostsOK'
<1>1. \A p \in posts' : \E q \in posts :
        p = [q EXCEPT !.mine = FALSE] /\ p.cust = q.cust /\ p.st = q.st
  BY DEF Show, PagesTypeOK
<1>2. ASSUME NEW p \in posts', NEW q \in posts', p.cust = q.cust PROVE p = q
  <2>1. PICK a \in posts : p = [a EXCEPT !.mine = FALSE] /\ p.cust = a.cust
    BY <1>1
  <2>2. PICK b \in posts : q = [b EXCEPT !.mine = FALSE] /\ q.cust = b.cust
    BY <1>1
  <2>3. a = b
    BY <1>2, <2>1, <2>2 DEF PostsOK
  <2> QED
    BY <2>1, <2>2, <2>3
<1>3. \A p \in posts' : p.st = "asked" => row'[p.cust] = Absent
  BY <1>1 DEF PostsOK
<1> QED
  BY <1>2, <1>3 DEF PostsOK

LEMMA NextPosts ==
  ASSUME PagesTypeOK, KnownInv, [Next]_vars
  PROVE  PostsOK'
<1>0. PostsOK /\ posts \subseteq PostType
  BY DEF KnownInv, PostsOK, PagesTypeOK, PostType
<1>1. CASE UNCHANGED << posts, row >>
  BY <1>0, <1>1, FewerPosts
<1>2. ASSUME NEW at, NEW c, Visit(at, c) PROVE PostsOK'
  BY <1>0, <1>2, LeavePosts DEF Visit, recordVars
<1>3. ASSUME NEW c \in Customers, Submit(c) PROVE PostsOK'
  <2>1. PICK new : /\ new = [cust |-> c, st |-> "asked", mine |-> TRUE]
                   /\ posts' = posts \cup {new}
    BY <1>3 DEF Submit
  <2>2. new.cust = c /\ row' = row /\ row[c] = Absent /\ \A p \in posts : p.cust # c
    BY <1>3, <2>1 DEF Submit, recordVars
  <2> QED
    BY <1>0, <2>1, <2>2 DEF PostsOK
<1>4. ASSUME NEW p \in posts, PostStep(p) \/ FailPost(p) PROVE PostsOK'
  <2>1. \A q \in posts : q # p => q.cust # p.cust
    BY <1>0 DEF PostsOK
  <2>2. \A q \in posts : q.cust \in Customers
    BY <1>0 DEF PostType
  <2>3. Onboard(p.cust) => \A q \in posts : q # p => row'[q.cust] = row[q.cust]
    BY <2>1, <2>2 DEF Onboard, PagesTypeOK
  <2>4. CASE ServePost(p)
    <3>1. PICK new : /\ new = [p EXCEPT !.st = "answered"]
                     /\ posts' = (posts \ {p}) \cup {new}
      BY <2>4 DEF ServePost
    <3>2. new.cust = p.cust /\ new.st = "answered"
      BY <1>0, <3>1 DEF PostType
    <3>3. \A q \in posts' : q = new \/ (q \in posts /\ q # p)
      BY <3>1
    <3>4. Onboard(p.cust)
      BY <2>4 DEF ServePost
    <3> QED
      BY <1>0, <2>1, <2>3, <3>2, <3>3, <3>4 DEF PostsOK
  <2>5. CASE ReceivePost(p)
    <3>1. posts' \subseteq posts /\ row' = row
      BY <2>5 DEF ReceivePost, recordVars
    <3> QED
      BY <1>0, <3>1, FewerPosts
  <2>6. CASE FailPost(p)
    <3>1. posts' = posts \ {p} /\ (Onboard(p.cust) \/ row' = row)
      BY <2>6 DEF FailPost, recordVars
    <3>2. \A q \in posts' : row'[q.cust] = row[q.cust]
      BY <2>3, <3>1
    <3> QED
      BY <1>0, <3>1, <3>2, FewerPosts
  <2> QED
    BY <1>4, <2>4, <2>5, <2>6 DEF PostStep
<1>5. ASSUME NEW c \in Customers, Timeout(c) PROVE PostsOK'
  BY <1>0, <1>1, <1>5, LeavePosts DEF Timeout, recordVars
<1>6. ASSUME NEW c \in Customers, Assess(c) PROVE PostsOK'
  <2>1. posts' = posts /\ row[c] # Absent
    BY <1>6 DEF Assess, formVars, KnownInv
  <2>2. \A d \in Customers : d # c => row'[d] = row[d]
    BY <1>6 DEF Assess, PagesTypeOK
  <2>3. \A p \in posts : p.cust \in Customers
    BY <1>0 DEF PostType
  <2>4. \A p \in posts : p.st = "asked" => row'[p.cust] = row[p.cust]
    BY <1>0, <2>1, <2>2, <2>3 DEF PostsOK
  <2> QED
    BY <1>0, <2>1, <2>4, FewerPosts
<1>7. ASSUME NEW k \in DOMAIN clicks, ClickNext(k) PROVE UNCHANGED << posts, row >>
  BY <1>7 DEF ClickNext, ServeClick, ReceiveClick, FailClick, PollTick,
              ServePoll, ReceivePoll, FailPoll, formVars, recordVars
<1>8. ASSUME NEW f \in {"", "assessed"}, Filter(f) PROVE UNCHANGED << posts, row >>
  BY <1>8 DEF Filter, formVars, recordVars
<1>9. Click => UNCHANGED << posts, row >>
  BY DEF Click, formVars, recordVars
<1>10. ListTick \/ ServeGet \/ ReceiveGet \/ FailGet => UNCHANGED << posts, row >>
  BY DEF ListTick, ServeGet, ReceiveGet, FailGet, formVars, recordVars
<1>11. UNCHANGED vars => UNCHANGED << posts, row >>
  BY DEF vars, formVars, recordVars
<1> QED
  BY <1>1, <1>2, <1>3, <1>4, <1>5, <1>6, <1>7, <1>8, <1>9, <1>10, <1>11
  DEF Next, UserNext

\* A customer that is assessed or shown has a row.
LEMMA NextKnown ==
  ASSUME PagesTypeOK, DetailInv, KnownInv, [Next]_vars
  PROVE  KnownInv'
<1>0. \A c \in Customers : row[c] # Absent => row'[c] # Absent
  BY RowsAdvance
<1>a. \A k \in DOMAIN clicks : ViewOf(k).cust \in Customers
      /\ clicks[k].view \in DOMAIN views
  <2>1. views \in Seq(ViewType)
    BY DEF PagesTypeOK, ViewType
  <2> QED
    BY <2>1, ClickOK, LenProperties
<1>b. \A v \in DOMAIN views : views[v].cust \in Customers
  <2>1. views \in Seq(ViewType)
    BY DEF PagesTypeOK, ViewType
  <2>2. \A v \in DOMAIN views : views[v] \in ViewType
    BY <2>1, ElementOfSeq, LenProperties
  <2> QED
    BY <2>2 DEF ViewType
<1>1. \A c \in Customers : jobs'[c] > 0 => row'[c] # Absent
  <2>0. jobs \in [Customers -> Nat] /\ row \in [Customers -> Rows]
    BY DEF PagesTypeOK
  <2>1. ASSUME NEW c \in Customers, NEW p \in posts, Onboard(p.cust), jobs'[c] > 0
        PROVE  row'[c] # Absent
    <3>1. CASE c = p.cust
      BY <2>0, <2>1, <3>1, RowsOK DEF Onboard
    <3>2. CASE c # p.cust
      <4>1. jobs'[c] = jobs[c]
        BY <2>0, <2>1, <3>2 DEF Onboard
      <4> QED
        BY <1>0, <2>1, <4>1 DEF KnownInv
    <3> QED
      BY <3>1, <3>2
  <2>2. ASSUME NEW c \in Customers, NEW k \in DOMAIN clicks, Request(k), jobs'[c] > 0
        PROVE  row'[c] # Absent
    <3>1. c = ViewOf(k).cust \/ jobs'[c] = jobs[c]
      BY <2>0, <2>2 DEF Request
    <3> QED
      BY <1>0, <2>2, <3>1 DEF KnownInv
  <2>3. ASSUME NEW c \in Customers, NEW d \in Customers, Assess(d), jobs'[c] > 0
        PROVE  row'[c] # Absent
    <3>1. jobs[d] > 0
      BY <2>3 DEF Assess
    <3>2. c = d \/ jobs'[c] = jobs[c]
      BY <2>0, <2>3 DEF Assess
    <3> QED
      BY <1>0, <2>3, <3>1, <3>2 DEF KnownInv
  <2>4. CASE UNCHANGED recordVars
    BY <2>4 DEF recordVars, KnownInv
  <2> QED
    BY <2>1, <2>2, <2>3, <2>4, RecordSteps DEF RecordStep
<1>2. \A c \in Customers : get'.rows[c] # Absent => row'[c] # Absent
  <2>1. ASSUME NEW c \in Customers
        PROVE  get'.rows[c] \in {Absent, get.rows[c], row[c]}
    <3>0. NoGet.rows[c] = Absent /\ Asked.rows[c] = Absent
      BY RowsOK DEF NoGet, Asked
    <3>1. CASE Shows
      BY <3>0, <3>1 DEF Shows, Show, FirstGet
    <3>2. ASSUME NEW d \in Customers, Renames(d) PROVE get' = get
      BY <3>2 DEF Renames
    <3>3. CASE ListTick \/ ReceiveGet \/ FailGet
      BY <3>0, <3>3 DEF ListTick, ReceiveGet, FailGet
    <3>4. CASE ServeGet
      BY <3>4 DEF ServeGet
    <3>5. ASSUME NEW f \in {"", "assessed"}, Filter(f) PROVE get' = get
      BY <3>5 DEF Filter
    <3>6. OtherStep => get' = get
      BY DEF OtherStep, pageVars
    <3> QED
      BY <3>1, <3>2, <3>3, <3>4, <3>5, <3>6, PageSteps DEF PageStep
  <2> QED
    BY <1>0, <2>1 DEF KnownInv
<1>3. \A v \in DOMAIN views' : views'[v].shown # Absent => row'[views'[v].cust] # Absent
  <2>1. ASSUME NEW v \in DOMAIN views' , views'[v].shown # Absent
        PROVE  row'[views'[v].cust] # Absent
    <3>1. /\ v \in DOMAIN views /\ views'[v].cust = views[v].cust
          /\ \/ views'[v].shown = views[v].shown
             \/ /\ views[v].cust \in Customers
                /\ views'[v].shown = get.rows[views[v].cust]
             \/ \E k \in DOMAIN clicks :
                  clicks[k].view = v /\ views'[v].shown = clicks[k].got
      BY <2>1, DetailSources DEF Sourced
    <3>2. views[v].cust \in Customers
      BY <1>b, <3>1
    <3>3. row[views[v].cust] # Absent
      BY <2>1, <3>1, <3>2 DEF KnownInv, ViewOf
    <3> QED
      BY <1>0, <3>1, <3>2, <3>3
  <2> QED
    BY <2>1
<1>4. \A k \in DOMAIN clicks' : row'[(ViewOf(k).cust)'] # Absent
  <2>1. ASSUME NEW k \in DOMAIN clicks', k \in DOMAIN clicks
        PROVE  row'[views'[clicks'[k].view].cust] # Absent
    <3>1. views'[clicks'[k].view].cust = views[clicks[k].view].cust
      BY <1>a, <2>1, DetailSources DEF Kept
    <3> QED
      BY <1>0, <1>a, <2>1, <3>1 DEF ViewOf, KnownInv
  <2>2. ASSUME NEW k \in DOMAIN clicks', k \notin DOMAIN clicks
        PROVE  row'[views'[clicks'[k].view].cust] # Absent
    <3>1. /\ UNCHANGED views /\ clicks'[k].view = Len(views)
          /\ Len(views) \in DOMAIN views /\ views[Len(views)].shown # Absent
      BY <2>2, DetailSources DEF Kept
    <3>2. views[Len(views)].cust \in Customers
      BY <1>b, <3>1
    <3> QED
      BY <1>0, <3>1, <3>2 DEF KnownInv
  <2> QED
    BY <2>1, <2>2 DEF ViewOf
<1>5. PostsOK'
  BY NextPosts
<1> QED
  BY <1>1, <1>2, <1>3, <1>4, <1>5 DEF KnownInv, PostsOK

-----------------------------------------------------------------------------
(* The theorems *)

LEMMA InitInv == Init => PagesInv
<1> SUFFICES ASSUME Init PROVE PagesInv
  OBVIOUS
<1>0. /\ get \in GetType /\ table \in TableType /\ get.rows = NoTable
      /\ get.st # "answered" /\ table.rows = NoTable
      /\ \A c \in Customers : NoTable[c] = Absent
  BY RowsOK DEF Init, FirstGet, NoGet, Asked, EmptyTable, GetType, TableType
<1>1. row \in [Customers -> Rows] /\ \A c \in Customers : Sane(row[c])
  <2>1. PICK r : r = [n |-> 1, score |-> "some"]
    OBVIOUS
  <2>2. r \in Rows /\ Sane(r)
    BY <2>1 DEF Rows, Sane, Scored
  <2>3. row \in [Customers -> {Absent, Unscored, r}]
    BY <2>1 DEF Init
  <2> QED
    BY <2>2, <2>3, RowsOK, SaneRows
<1>2. /\ page \in PageType /\ views \in Seq(ViewType)
      /\ \A v \in DOMAIN views : views[v].shown = Absent
      /\ page.at = "detail" => views # << >>
  <2>1. CASE page.at # "detail" /\ views = << >>
    <3>1. PICK at \in {"dashboard", "list", "new"} : page = Page(at, NoId)
      BY <2>1, EmptySeq DEF Init, Page
    <3>2. page \in PageType
      BY <3>1 DEF Page, PageType
    <3> QED
      BY <2>1, <3>2, EmptySeq
  <2>2. ASSUME NEW c \in Customers, page = Page("detail", c), views = << NewView(c) >>
        PROVE  /\ page \in PageType /\ views \in Seq(ViewType)
               /\ \A v \in DOMAIN views : views[v].shown = Absent
               /\ views # << >>
    <3>1. NewView(c) \in ViewType /\ NewView(c).shown = Absent
      BY RowsOK DEF NewView, ViewType
    <3>2. page \in PageType
      BY <2>2 DEF Page, PageType
    <3> HIDE DEF NewView
    <3>3. views \in Seq(ViewType) /\ Len(views) = 1 /\ views[1] = NewView(c)
      BY <2>2, <3>1
    <3>4. DOMAIN views = 1 .. 1
      BY <3>3, LenProperties
    <3> QED
      BY <2>2, <3>1, <3>2, <3>3, <3>4
  <2> QED
    BY <2>1, <2>2 DEF Init, Page
<1>3. clicks \in Seq(ClickType(Len(views))) /\ DOMAIN clicks = {}
  BY DEF Init
<1>4. PagesTypeOK
  <2>1. PageTypeOK /\ DetailTypeOK
    BY <1>0, <1>2, <1>3 DEF PageTypeOK, DetailTypeOK
  <2>2. FormTypeOK
    BY DEF Init, FormTypeOK
  <2>3. BoundTypeOK
    BY BoundAssumption DEF Init, BoundTypeOK
  <2>4. jobs \in [Customers -> Nat]
    BY DEF Init
  <2> QED
    BY <1>1, <2>1, <2>2, <2>3, <2>4, TypesTogether
<1>5. ScoresInv
  BY <1>0, <1>1, <1>2, <1>3, SaneRows DEF ScoresInv
<1>6. KnownInv
  <2>1. posts = {} /\ \A c \in Customers : jobs[c] = 0
    BY DEF Init
  <2> QED
    BY <1>0, <1>2, <1>3, <2>1 DEF KnownInv
<1>7. TableInv
  <2>1. table = EmptyTable /\ \A c \in Customers : table.rows[c].n = 0
    BY <1>0, RowsOK DEF Init
  <2>2. \A c \in Customers : row[c].n \in Nat
    BY <1>1 DEF Rows
  <2> QED
    BY <1>0, <2>1, <2>2 DEF TableInv
<1>8. DetailInv
  <2>1. page.at = "detail" => Len(views) \in DOMAIN views
    BY <1>2, EmptySeq, LenProperties
  <2> QED
    BY <1>2, <1>3, <2>1 DEF DetailInv
<1> QED
  BY <1>4, <1>5, <1>6, <1>7, <1>8 DEF PagesInv

LEMMA StepInv == PagesInv /\ [Next]_vars => PagesInv'
BY StepTypes, NextScores, NextKnown, NextTable, NextDetailInv DEF PagesInv

\* PagesInv holds always: of the rows, the pages, the form and the polls.
THEOREM PagesInvariant == Spec => []PagesInv
<1> QED
  BY InitInv, StepInv, PTL DEF Spec

\* What the pages show and what the polls count always has its type; a poll
\* never uses more than its answers (triggerAI, takeWhile).
THEOREM PagesTypeCorrect == Spec => []PagesTypeOK
<1>1. PagesInv => PagesTypeOK
  BY DEF PagesInv
<1> QED
  BY <1>1, PagesInvariant, PTL

\* A poll is ended by its own decision by its answer only.
LEMMA WhoDecides ==
  ASSUME PagesTypeOK, DetailInv, [Next]_vars, NEW k \in DOMAIN clicks, Decides(k)
  PROVE  ReceivePoll(k)
<1>0. DetailTypeOK /\ DOMAIN clicks = 1 .. Len(clicks)
  <2>1. DetailTypeOK
    BY DEF PagesTypeOK, DetailTypeOK, ViewType, ClickType
  <2> QED
    BY <2>1, LenProperties DEF DetailTypeOK
<1>1. clicks'[k].st \in {"scored", "stopped"} /\ clicks'[k] # clicks[k]
  BY DEF Decides
<1>2. ~(Shows \/ ReceiveGet \/ UNCHANGED detailVars)
  BY <1>1 DEF Shows, ReceiveGet, detailVars
<1>3. ~Click
  BY <1>1, PressEffect
<1>4. PICK j \in DOMAIN clicks : ClickNext(j)
  BY <1>2, <1>3, DetailSteps DEF DetailStep
<1>5. PICK d \in ClickType(Len(views)), w \in ViewType : Makes(j, d, w)
  BY <1>4, ClickEffectOK DEF ClickEffect
<1>6. clicks'[j] = d /\ \A i \in 1 .. Len(clicks) : i # j => clicks'[i] = clicks[i]
  BY <1>0, <1>5, ClickSetOK DEF Makes
<1> QED
  BY <1>0, <1>1, <1>5, <1>6 DEF Makes

LEMMA NextKeepsOn ==
  ASSUME PagesInv, [Next]_vars, NEW k \in DOMAIN clicks, Decides(k),
         clicks[k].base = 0
  PROVE  ShowsNews(k) \/ GaveUp(k)
<1>0. /\ DetailTypeOK /\ PagesTypeOK /\ PollLimit \in Nat
      /\ ViewOf(k) = views[clicks[k].view]
  BY LimitAssumption DEF PagesInv, PagesTypeOK, DetailTypeOK, ViewType, ClickType,
                         ViewOf
<1>1. /\ clicks[k] \in ClickType(Len(views)) /\ clicks[k].view \in 1 .. Len(views)
      /\ ViewOf(k) \in ViewType /\ clicks[k].polls \in 0 .. PollLimit
      /\ clicks[k].view \in DOMAIN views
  <2>1. clicks[k] \in ClickType(Len(views)) /\ clicks[k].view \in 1 .. Len(views)
        /\ ViewOf(k) \in ViewType
    BY <1>0, ClickOK
  <2>2. DOMAIN views = 1 .. Len(views)
    BY <1>0, LenProperties DEF DetailTypeOK
  <2> QED
    BY <2>1, <2>2 DEF ClickType
<1>2. Sane(ViewOf(k).shown) /\ Sane(clicks[k].got)
  BY <1>0, <1>1 DEF PagesInv, ScoresInv
<1>3. ReceivePoll(k)
  BY WhoDecides DEF PagesInv
<1>4. CASE ~KeepsOn(k) /\ UNCHANGED views
  <2>1. clicks[k].polls = PollLimit \/ ViewOf(k).shown.score = "some"
    BY <1>0, <1>1, <1>4 DEF KeepsOn
  <2>2. ViewOf(k).shown.score = "some" => ViewOf(k).shown.n > 0
    BY <1>2 DEF Sane, Scored
  <2> QED
    BY <1>0, <1>4, <2>1, <2>2 DEF ShowsNews, GaveUp
<1>5. CASE /\ Scored(clicks[k].got)
           /\ views' = [views EXCEPT ![clicks[k].view] =
                          [@ EXCEPT !.shown = clicks[k].got, !.queued = FALSE]]
  <2>1. PICK w : w = [ViewOf(k) EXCEPT !.shown = clicks[k].got, !.queued = FALSE]
    OBVIOUS
  <2>2. views'[clicks[k].view] = w
    BY <1>0, <1>1, <1>5, <2>1
  <2>3. w.shown = clicks[k].got
    BY <1>1, <2>1 DEF ViewType
  <2>4. clicks[k].got.n > 0
    BY <1>2, <1>5 DEF Sane
  <2> QED
    BY <2>2, <2>3, <2>4 DEF ShowsNews
<1>6. ASSUME clicks' = [clicks EXCEPT ![k].st = "waiting", ![k].got = Absent,
                                      ![k].polls = Counted(k)]
      PROVE  FALSE
  <2>1. DOMAIN clicks = 1 .. Len(clicks)
    BY <1>0, LenProperties DEF DetailTypeOK
  <2>2. clicks'[k].st = "waiting"
    BY <1>1, <1>6, <2>1 DEF ClickType
  <2> QED
    BY <2>2 DEF Decides
<1> QED
  BY <1>3, <1>4, <1>5, <1>6 DEF ReceivePoll

\* "Poll until risk score arrives (max 60s)", of the first assessment a page asks
\* for: the poll ends with a newer score on its page, or with its answers used.
THEOREM FirstPollsKeepOn == Spec => FirstPollKeepsOn
<1>1. PagesInv /\ [Next]_vars =>
        [\A k \in DOMAIN clicks :
           Decides(k) /\ clicks[k].base = 0 => ShowsNews(k) \/ GaveUp(k)]_vars
  BY NextKeepsOn
<1> QED
  BY <1>1, PagesInvariant, PTL DEF Spec, FirstPollKeepsOn

\* What a page shows is replaced by what is not older, unless a score of 0 was
\* shown, which takeWhile takes for none.
LEMMA NextViewsNotOlder ==
  ASSUME PagesInv, [Next]_vars, NEW v \in DOMAIN views
  PROVE  NeverOlder(views[v].shown, views'[v].shown)
<1>0. /\ DetailTypeOK /\ PagesTypeOK /\ DetailInv /\ views[v] \in ViewType
      /\ DOMAIN views = 1 .. Len(views) /\ Sane(views[v].shown)
      /\ DOMAIN clicks = 1 .. Len(clicks)
  <2>1. DetailTypeOK /\ PagesTypeOK /\ DetailInv
    BY DEF PagesInv, PagesTypeOK, DetailTypeOK, ViewType, ClickType
  <2> QED
    BY <2>1, LenProperties, ElementOfSeq DEF DetailTypeOK, PagesInv, ScoresInv
<1>a. views[v].shown.n \in Nat
  BY <1>0 DEF ViewType, Rows
<1>1. CASE views'[v].shown = views[v].shown
  BY <1>a, <1>1 DEF NeverOlder
<1>2. CASE Shows
  BY <1>0, <1>1, <1>2, ShowEffect DEF Shows
<1>3. CASE ReceiveGet
  <2>1. CASE page.at = "detail"
    <3>1. Len(views) \in 1 .. Len(views)
      BY <1>0, <2>1, ShownViewOK
    <3>2. PICK w \in ViewType : ViewSet(Len(views), w)
      BY <1>0, <1>3, <2>1, ReceiveEffect
    <3>3. /\ v # Len(views) => views'[v] = views[v]
          /\ views'[Len(views)] = w
      BY <1>0, <3>1, <3>2, ViewSetOK
    <3>4. views[Len(views)].shown = Absent
      BY <1>0, <1>3, <2>1 DEF ReceiveGet, DetailInv
    <3>5. w.shown.n >= 0
      BY DEF ViewType, Rows
    <3> QED
      BY <1>1, <3>3, <3>4, <3>5, RowsOK DEF NeverOlder
  <2>2. CASE page.at # "detail"
    BY <1>1, <1>3, <2>2 DEF ReceiveGet
  <2> QED
    BY <2>1, <2>2
<1>4. ASSUME NEW k \in DOMAIN clicks, ClickNext(k)
      PROVE  NeverOlder(views[v].shown, views'[v].shown)
  <2>1. clicks[k].view \in 1 .. Len(views) /\ clicks[k].got \in Rows
    BY <1>0, <1>4, ClickOK DEF ClickType
  <2>2. PICK d \in ClickType(Len(views)), w \in ViewType : Makes(k, d, w)
    BY <1>0, <1>4, ClickEffectOK DEF ClickEffect
  <2>3. /\ v # clicks[k].view => views'[v] = views[v]
        /\ views'[clicks[k].view] = w
    BY <1>0, <2>1, <2>2, ViewSetOK DEF Makes
  <2>4. CASE v = clicks[k].view /\ KeepsOn(k) /\ w.shown = clicks[k].got
    <3>1. views[v].shown.score # "some"
      BY <2>4 DEF KeepsOn, ViewOf
    <3>2. views[v].shown.score = "zero" \/ views[v].shown.n = 0
      BY <1>0, <1>a, <3>1 DEF Sane, Scored
    <3>3. clicks[k].got.n >= 0
      BY <2>1 DEF Rows
    <3> QED
      BY <2>3, <2>4, <3>2, <3>3 DEF NeverOlder
  <2>5. CASE v = clicks[k].view /\ w.shown = views[v].shown
    BY <1>1, <2>3, <2>5
  <2> QED
    BY <1>1, <2>2, <2>3, <2>4, <2>5 DEF Makes, ViewOf
<1>5. Click \/ UNCHANGED detailVars => views' = views
  BY DEF Click, detailVars
<1> QED
  BY <1>0, <1>1, <1>2, <1>3, <1>4, <1>5, DetailSteps DEF DetailStep

\* A list or a dashboard replaces its table by one that is not older.
LEMMA NextTableNotOlder ==
  ASSUME PagesInv, [Next]_vars, page' = page, NEW c \in Customers
  PROVE  table'.rows[c].n >= table.rows[c].n
<1>0. /\ table.rows[c].n \in Nat /\ get.rows[c].n \in Nat
      /\ page.at \notin {"dashboard", "list"} => table = EmptyTable
      /\ get.st = "answered" /\ page.at \in {"dashboard", "list"} =>
           table.rows[c].n <= get.rows[c].n
  BY DEF PagesInv, PagesTypeOK, TableInv, Rows
<1>1. CASE table'.rows = table.rows
  BY <1>0, <1>1
<1>2. CASE Shows
  <2>1. PICK at, d : /\ Show(at, d) /\ at \in {"dashboard", "list", "new", "detail"}
                     /\ at # page.at \/ (at = "detail" /\
                          (page.at # "detail" \/ d \in table.filtered))
    BY <1>2 DEF Shows
  <2>2. page.at = at
    BY <2>1 DEF Show, Page
  <2>3. at = "detail" /\ d \in table.filtered
    BY <2>1, <2>2
  <2>4. table = EmptyTable
    BY <1>0, <2>2, <2>3
  <2>5. EmptyTable.filtered = {}
    BY DEF EmptyTable
  <2> QED
    BY <2>3, <2>4, <2>5
<1>3. CASE ReceiveGet
  <2>1. table' = table \/ (page.at \in {"dashboard", "list"}
                           /\ table' = Received(get.rows) /\ get.st = "answered")
    BY <1>3 DEF ReceiveGet
  <2>2. Received(get.rows).rows = get.rows
    BY DEF Received, PagesInv, PagesTypeOK
  <2> QED
    BY <1>0, <1>1, <2>1, <2>2
<1>4. ASSUME NEW f \in {"", "assessed"}, Filter(f) PROVE table'.rows = table.rows
  BY <1>4 DEF Filter, PagesInv, PagesTypeOK
<1>5. (\E d \in Customers : Renames(d)) \/ ListTick \/ ServeGet \/ FailGet
        => table' = table
  BY DEF Renames, ListTick, ServeGet, FailGet
<1>6. OtherStep => table' = table
  BY DEF OtherStep, pageVars
<1> QED
  BY <1>1, <1>2, <1>3, <1>4, <1>5, <1>6, PageSteps DEF PageStep

\* No page goes back to an older state of a customer, although answers are late:
\* one request per stream (switchMap), and polls that stop at the first score.
THEOREM PagesNeverOlder == Spec => ShownNeverOlder
<1>1. PagesInv /\ [Next]_vars =>
        [/\ \A v \in DOMAIN views : NeverOlder(views[v].shown, views'[v].shown)
         /\ page' = page => \A c \in Customers :
              table'.rows[c].n >= table.rows[c].n]_vars
  BY NextViewsNotOlder, NextTableNotOlder
<1> QED
  BY <1>1, PagesInvariant, PTL DEF Spec, ShownNeverOlder
=============================================================================
