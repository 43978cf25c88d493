-------------------------- MODULE PartyRecordsProofs --------------------------
(***************************************************************************)
(* Proofs about PartyRecords, for any replicas, rows, staff, columns and   *)
(* values: what a PATCH writes, what the audit log tells and what events   *)
(* show, whichever replicas interleave and whenever one is killed.         *)
(***************************************************************************)
EXTENDS PartyRecords, SequenceTheorems, FiniteSetTheorems, TLAPS

-----------------------------------------------------------------------------
(* Type correctness *)

\* Audit entries, event types and background tasks.
LEMMA EntryOK ==
  ASSUME NEW e \in Entities, NEW a \in {"CREATE", "PATCH", "DELETE"},
         NEW fs \in SUBSET Fields, NEW u \in Staff
  PROVE  /\ Entry(e, a, fs, u) \in AuditEntries
         /\ Entry(e, a, fs, u).ent = e /\ Entry(e, a, fs, u).action = a
         /\ Entry(e, a, fs, u).fields = fs
BY DEF Entry, AuditEntries, CurrentUser

LEMMA RequestOK ==
  ASSUME NEW h \in Requests
  PROVE  /\ DOMAIN h.upd \subseteq Fields
         /\ \A f \in DOMAIN h.upd : h.upd[f] \in Values
<1>1. h.upd \in Updates \cup {NoUpdate}
  BY DEF Requests
<1>2. CASE h.upd \in Updates
  <2>1. PICK fs \in SUBSET Fields : h.upd \in [fs -> Values]
    BY <1>2 DEF Updates
  <2> QED
    BY <2>1
<1>3. CASE h.upd = NoUpdate
  BY <1>3 DEF NoUpdate
<1> QED
  BY <1>1, <1>2, <1>3

LEMMA TaskOK ==
  ASSUME NEW h \in Requests, NEW val \in Contents
  PROVE  /\ Task(h, val) \in [by : Replicas, event : Events]
         /\ Task(h, val).event.ent = h.ent
         /\ Task(h, val).event.val = val
         /\ Task(h, val).event.since = h.since
<1>1. EventType(h.ent, h.op, DOMAIN h.upd) \in EventTypes
  BY DEF EventType, EventTypes, Requests, Entities
<1>2. DOMAIN h.upd \in SUBSET Fields
  BY RequestOK
<1> QED
  BY <1>1, <1>2 DEF Task, Events, Requests

\* Fresh contents, and contents with some columns written.
LEMMA ContentsOK ==
  /\ Fresh \in Contents
  /\ \A h \in Requests : rows[h.ent].val \in Contents => Written(h) \in Contents
<1>1. Fresh \in Contents
  BY ValueAssumption DEF Fresh, Contents
<1>2. ASSUME NEW h \in Requests, rows[h.ent].val \in Contents
      PROVE  Written(h) \in Contents
  BY <1>2, RequestOK DEF Written, Contents
<1> QED
  BY <1>1, <1>2

LEMMA InitTypeOK == Init => TypeOK
<1> SUFFICES ASSUME Init PROVE TypeOK
  OBVIOUS
<1>1. [life |-> "unborn", val |-> Fresh] \in Rows
  BY ContentsOK DEF Rows
<1> QED
  BY <1>1 DEF Init, TypeOK

LEMMA NextTypeOK ==
  ASSUME TypeOK, [Next]_vars
  PROVE  TypeOK'
<1>0. /\ rows \in [Entities -> Rows] /\ audit \in Seq(AuditEntries)
      /\ open \subseteq Requests /\ \A h, k \in open : h.by = k.by => h = k
      /\ outbox \subseteq [by : Replicas, event : Events]
      /\ past \in [Entities -> Seq(Contents)]
      /\ \A e \in Entities : rows[e] \in Rows /\ rows[e].val \in Contents
      /\ \A h \in open : h.ent \in Entities /\ h.staff \in Staff
  BY DEF TypeOK, Rows, Requests
\* A request that is opened by an idle replica.
<1>1. ASSUME NEW k \in Requests, Idle(k.by), open' = open \cup {k}
      PROVE  /\ open' \subseteq Requests
             /\ \A h, g \in open' : h.by = g.by => h = g
  BY <1>0, <1>1 DEF Idle
\* A row that is set to live or deleted.
<1>2. ASSUME NEW e \in Entities, NEW l \in {"live", "deleted"},
             rows' = [rows EXCEPT ![e].life = l]
      PROVE  rows' \in [Entities -> Rows]
  <2>1. [rows[e] EXCEPT !.life = l] \in Rows
    BY <1>0 DEF Rows
  <2> QED
    BY <1>0, <1>2, <2>1
<1>3. ASSUME NEW e \in Entities, NEW a \in {"CREATE", "PATCH", "DELETE"},
             NEW fs \in SUBSET Fields, NEW u \in Staff,
             audit' = Append(audit, Entry(e, a, fs, u))
      PROVE  audit' \in Seq(AuditEntries)
  BY <1>0, <1>3, EntryOK
<1>4. ASSUME NEW r \in Replicas, NEW e \in Entities, Create(r, e) PROVE TypeOK'
  <2>1. PICK u \in Staff :
          /\ open' = open \cup {[by |-> r, pc |-> "committed", op |-> "create",
                                 ent |-> e, upd |-> NoUpdate, seen |-> Fresh,
                                 staff |-> u, since |-> 1]}
          /\ audit' = Append(audit, Entry(e, "CREATE", {}, u))
    BY <1>4 DEF Create
  <2> DEFINE k == [by |-> r, pc |-> "committed", op |-> "create", ent |-> e,
                   upd |-> NoUpdate, seen |-> Fresh, staff |-> u, since |-> 1]
  <2>2. k \in Requests /\ k.by = r
    BY ContentsOK DEF Requests
  <2> HIDE DEF k
  <2>3. /\ open' \subseteq Requests
        /\ \A h, g \in open' : h.by = g.by => h = g
    BY <1>1, <1>4, <2>1, <2>2 DEF Create, k
  <2>4. audit' \in Seq(AuditEntries)
    BY <1>3, <2>1
  <2>5. rows' \in [Entities -> Rows]
    BY <1>2, <1>4 DEF Create
  <2>6. past' \in [Entities -> Seq(Contents)]
    <3>1. << Fresh >> \in Seq(Contents)
      BY ContentsOK
    <3> QED
      BY <1>0, <1>4, <3>1 DEF Create
  <2> QED
    BY <1>0, <1>4, <2>3, <2>4, <2>5, <2>6 DEF TypeOK, Create
<1>5. ASSUME NEW r \in Replicas, NEW e \in Entities,
             LoadForPatch(r, e) \/ LoadForDelete(r, e)
      PROVE  TypeOK'
  <2>1. PICK op \in {"patch", "delete"}, upd \in Updates \cup {NoUpdate} :
          Load(r, e, op, upd)
    BY <1>5 DEF LoadForPatch, LoadForDelete
  <2>2. PICK u \in Staff :
          open' = open \cup {[by |-> r, pc |-> "loaded", op |-> op, ent |-> e,
                              upd |-> upd, seen |-> rows[e].val, staff |-> u,
                              since |-> 0]}
    BY <2>1 DEF Load
  <2> DEFINE k == [by |-> r, pc |-> "loaded", op |-> op, ent |-> e,
                   upd |-> upd, seen |-> rows[e].val, staff |-> u, since |-> 0]
  <2>3. k \in Requests /\ k.by = r
    BY <1>0 DEF Requests
  <2> HIDE DEF k
  <2>4. /\ open' \subseteq Requests
        /\ \A h, g \in open' : h.by = g.by => h = g
    BY <1>1, <2>1, <2>2, <2>3 DEF Load, k
  <2> QED
    BY <1>0, <2>1, <2>4 DEF TypeOK, Load
<1>6. ASSUME NEW h \in open, CommitPatch(h) PROVE TypeOK'
  <2> DEFINE e == h.ent
             k == [h EXCEPT !.pc = "committed", !.since = Version(e) + 1]
  <2>1. k \in Requests /\ k.by = h.by
    <3>1. Version(e) + 1 \in Nat
      BY <1>0 DEF Version
    <3> HIDE DEF e
    <3> QED
      BY <1>0, <3>1 DEF Requests
  <2>2. open' = (open \ {h}) \cup {k}
    BY <1>6 DEF CommitPatch
  <2>3. e \in Entities /\ Written(h) \in Contents
    BY <1>0, ContentsOK
  <2>4. audit' \in Seq(AuditEntries)
    <3>1. DOMAIN h.upd \in SUBSET Fields
      BY <1>0, RequestOK
    <3> QED
      BY <1>0, <1>3, <1>6, <3>1 DEF CommitPatch
  <2>5. /\ rows' \in [Entities -> Rows] /\ rows'[e].val = Written(h)
        /\ past' = [past EXCEPT ![e] = Append(past[e], rows'[e].val)]
    <3>1. [rows[e] EXCEPT !.val = Written(h)] \in Rows
      BY <1>0, <2>3 DEF Rows
    <3>2. rows' = [rows EXCEPT ![e] = [rows[e] EXCEPT !.val = Written(h)]]
      BY <1>6 DEF CommitPatch
    <3>3. [rows[e] EXCEPT !.val = Written(h)].val = Written(h)
      BY <1>0, <2>3 DEF Rows
    <3> QED
      BY <1>0, <1>6, <2>3, <3>1, <3>2, <3>3 DEF CommitPatch
  <2>6. past' \in [Entities -> Seq(Contents)]
    BY <1>0, <2>3, <2>5
  <2> HIDE DEF k
  <2>7. /\ open' \subseteq Requests
        /\ \A g, f \in open' : g.by = f.by => g = f
    BY <1>0, <2>1, <2>2
  <2> QED
    BY <1>0, <1>6, <2>4, <2>5, <2>6, <2>7 DEF TypeOK, CommitPatch
<1>7. ASSUME NEW h \in open, StalePatch(h) PROVE TypeOK'
  BY <1>0, <1>7 DEF TypeOK, StalePatch
<1>8. ASSUME NEW h \in open, Refresh(h) PROVE TypeOK'
  <2>1. outbox' \subseteq [by : Replicas, event : Events]
    BY <1>0, <1>8, TaskOK DEF Refresh
  <2> QED
    BY <1>0, <1>8, <2>1 DEF TypeOK, Refresh
<1>9. ASSUME NEW h \in open, DeleteIndividual(h) PROVE TypeOK'
  <2>1. outbox' \subseteq [by : Replicas, event : Events]
    <3>1. h \in Requests /\ h.seen \in Contents
      BY <1>0 DEF Requests
    <3> QED
      BY <1>0, <1>9, <3>1, TaskOK DEF DeleteIndividual
  <2>2. audit' \in Seq(AuditEntries)
    BY <1>0, <1>3, <1>9 DEF DeleteIndividual
  <2>3. rows' \in [Entities -> Rows]
    BY <1>0, <1>2, <1>9 DEF DeleteIndividual
  <2> QED
    BY <1>0, <1>9, <2>1, <2>2, <2>3 DEF TypeOK, DeleteIndividual
<1>10. ASSUME NEW h \in open, DeleteOrganization(h) PROVE TypeOK'
  <2>1. rows' \in [Entities -> Rows]
    BY <1>0, <1>2, <1>10 DEF DeleteOrganization
  <2> QED
    BY <1>0, <1>10, <2>1 DEF TypeOK, DeleteOrganization
<1>11. ASSUME NEW t \in outbox, Publish(t) PROVE TypeOK'
  BY <1>0, <1>11 DEF TypeOK, Publish
<1>12. ASSUME NEW r \in Replicas, Crash(r) PROVE TypeOK'
  BY <1>0, <1>12 DEF TypeOK, Crash
<1>13. UNCHANGED vars => TypeOK'
  BY <1>0 DEF vars, TypeOK
<1> QED
  BY <1>4, <1>5, <1>6, <1>7, <1>8, <1>9, <1>10, <1>11, <1>12, <1>13 DEF Next

\* Every variable of the party service keeps its type, and a replica serves one
\* request at a time.
THEOREM RecordsTypeCorrect == Spec => []TypeOK
BY InitTypeOK, NextTypeOK, PTL DEF Spec
-----------------------------------------------------------------------------
(* What a PATCH writes *)

\* Rows change in three ways: one is created, its columns are written by a
\* PATCH, or it is deleted.
LEMMA RowKinds ==
  ASSUME TypeOK, [Next]_vars
  PROVE  \/ UNCHANGED << rows, past >>
         \/ \E r \in Replicas, e \in Entities : Create(r, e)
         \/ \E h \in open : CommitPatch(h)
         \/ \E h \in open : /\ h.pc = "loaded" /\ past' = past
                            /\ rows' = [rows EXCEPT ![h.ent].life = "deleted"]
BY DEF Next, LoadForPatch, LoadForDelete, Load, StalePatch, Refresh,
   DeleteIndividual, DeleteOrganization, Publish, Crash, vars

\* The columns of a row after the commit of a PATCH.
LEMMA PatchWrites ==
  ASSUME TypeOK, NEW h \in open, CommitPatch(h)
  PROVE  /\ h.ent \in Entities /\ Live(h.ent) /\ h \notin open'
         /\ rows'[h.ent].val = Written(h)
         /\ rows'[h.ent].life = "live"
         /\ \A e \in Entities \ {h.ent} : rows'[e] = rows[e]
         /\ past' = [past EXCEPT ![h.ent] = Append(past[h.ent], Written(h))]
         /\ Written(h) \in Contents
<1>0. /\ h \in Requests /\ h.ent \in Entities
      /\ rows \in [Entities -> Rows] /\ rows[h.ent] \in Rows
      /\ past \in [Entities -> Seq(Contents)]
  BY DEF TypeOK, Requests
<1>1. Written(h) \in Contents
  BY <1>0, ContentsOK DEF Rows
<1>2. rows' = [rows EXCEPT ![h.ent] = [rows[h.ent] EXCEPT !.val = Written(h)]]
  BY DEF CommitPatch
<1>3. /\ [rows[h.ent] EXCEPT !.val = Written(h)].val = Written(h)
      /\ [rows[h.ent] EXCEPT !.val = Written(h)].life = rows[h.ent].life
  BY <1>0 DEF Rows
<1>4. /\ rows'[h.ent].val = Written(h) /\ rows'[h.ent].life = rows[h.ent].life
      /\ \A e \in Entities \ {h.ent} : rows'[e] = rows[e]
  BY <1>0, <1>2, <1>3
<1>5. h \notin open'
  <2>1. [h EXCEPT !.pc = "committed", !.since = Version(h.ent) + 1].pc
          = "committed"
    BY <1>0 DEF Requests
  <2> QED
    BY <2>1 DEF CommitPatch
<1>6. Live(h.ent) /\ past' = [past EXCEPT ![h.ent] = Append(@, rows'[h.ent].val)]
  BY DEF CommitPatch
<1> QED
  BY <1>0, <1>1, <1>4, <1>5, <1>6 DEF Live

\* Concurrent PATCHes of different columns do not undo each other, for any
\* replicas, although each writes a row it loaded earlier: SQLAlchemy's UPDATE
\* names only the columns that the request changed.
THEOREM PatchesAreNarrow == Spec => PatchTouchesOnlyItsFields
<1>1. ASSUME TypeOK, [Next]_vars, NEW e \in Entities, NEW f \in Fields,
             Live(e), rows'[e].val[f] # rows[e].val[f]
      PROVE  \E h \in open \ open' :
               h.ent = e /\ f \in DOMAIN h.upd /\ rows'[e].val[f] = h.upd[f]
  <2>0. rows \in [Entities -> Rows]
    BY <1>1 DEF TypeOK
  <2>1. ASSUME NEW h \in open, CommitPatch(h)
        PROVE  /\ h.ent = e /\ h \in open \ open'
               /\ f \in DOMAIN h.upd /\ rows'[e].val[f] = h.upd[f]
    <3>1. /\ rows'[h.ent].val = Written(h) /\ h \notin open'
          /\ \A d \in Entities \ {h.ent} : rows'[d] = rows[d]
      BY <1>1, <2>1, PatchWrites
    <3>2. h.ent = e
      BY <1>1, <3>1
    <3> QED
      BY <1>1, <3>1, <3>2 DEF Written
  <2>2. ASSUME NEW r \in Replicas, NEW d \in Entities, Create(r, d)
        PROVE  rows'[e].val = rows[e].val
    BY <2>0, <2>2 DEF Create, Rows
  <2>3. ASSUME NEW h \in open, rows' = [rows EXCEPT ![h.ent].life = "deleted"]
        PROVE  rows'[e].val = rows[e].val
    BY <2>0, <2>3 DEF Rows
  <2> QED
    BY <1>1, <2>1, <2>2, <2>3, RowKinds
<1>2. TypeOK /\ [Next]_vars =>
        [\A e \in Entities, f \in Fields :
           Live(e) /\ rows'[e].val[f] # rows[e].val[f] =>
             \E h \in open \ open' :
               /\ h.ent = e
               /\ f \in DOMAIN h.upd
               /\ rows'[e].val[f] = h.upd[f]]_vars
  BY <1>1
<1> QED
  BY <1>2, RecordsTypeCorrect, PTL DEF Spec, PatchTouchesOnlyItsFields

-----------------------------------------------------------------------------
(* What events show *)

\* A row is its last version, from its creation on.
RowsInv ==
  \A e \in Entities :
    /\ rows[e].life = "unborn" => past[e] = << >> /\ rows[e].val = Fresh
    /\ rows[e].life # "unborn" =>
         past[e] # << >> /\ rows[e].val = past[e][Len(past[e])]

\* A request has loaded some version, or committed one.
OpenInv ==
  \A h \in open :
    /\ rows[h.ent].life # "unborn"
    /\ h.pc = "loaded" => h.since = 0
    /\ h.pc = "loaded" => \E v \in DOMAIN past[h.ent] : past[h.ent][v] = h.seen
    /\ h.pc = "committed" => h.since <= Len(past[h.ent])

HistoryInv == TypeOK /\ RowsInv /\ OpenInv /\ EventsAreCommitted

\* Versions are never changed, and no row becomes unborn.
LEMMA PastGrows ==
  ASSUME TypeOK, RowsInv, [Next]_vars, NEW e \in Entities
  PROVE  /\ rows[e].life # "unborn" => rows'[e].life # "unborn"
         /\ Len(past[e]) \in Nat /\ Len(past'[e]) \in Nat
         /\ Len(past'[e]) >= Len(past[e])
         /\ \A v \in DOMAIN past[e] :
              v \in DOMAIN past'[e] /\ past'[e][v] = past[e][v]
<1>0. /\ rows \in [Entities -> Rows] /\ past \in [Entities -> Seq(Contents)]
      /\ Len(past[e]) \in Nat
  BY DEF TypeOK
<1>1. CASE UNCHANGED << rows, past >>
  BY <1>0, <1>1
<1>2. ASSUME NEW r \in Replicas, NEW d \in Entities, Create(r, d),
             e = d
      PROVE  /\ rows'[e].life # "unborn" /\ past[e] = << >>
             /\ past'[e] = << Fresh >>
  BY <1>0, <1>2 DEF Create, RowsInv, Rows
<1>3. ASSUME NEW r \in Replicas, NEW d \in Entities, Create(r, d), e # d
      PROVE  rows'[e] = rows[e] /\ past'[e] = past[e]
  BY <1>0, <1>3 DEF Create
<1>4. ASSUME NEW h \in open, CommitPatch(h), e = h.ent
      PROVE  rows'[e].life = "live" /\ past'[e] = Append(past[e], Written(h))
             /\ Written(h) \in Contents
  BY <1>0, <1>4, PatchWrites
<1>5. ASSUME NEW h \in open, CommitPatch(h), e # h.ent
      PROVE  rows'[e] = rows[e] /\ past'[e] = past[e]
  BY <1>0, <1>5, PatchWrites
<1>6. ASSUME NEW h \in open, past' = past,
             rows' = [rows EXCEPT ![h.ent].life = "deleted"]
      PROVE  past'[e] = past[e]
             /\ (rows'[e].life = rows[e].life \/ rows'[e].life = "deleted")
  BY <1>0, <1>6 DEF Rows
<1>7. ASSUME NEW c \in Contents, past'[e] = Append(past[e], c)
      PROVE  /\ Len(past'[e]) = Len(past[e]) + 1
             /\ \A v \in DOMAIN past[e] :
                  v \in DOMAIN past'[e] /\ past'[e][v] = past[e][v]
  BY <1>0, <1>7
<1>8. past[e] = << >> /\ past'[e] = << Fresh >>
        => Len(past[e]) = 0 /\ Len(past'[e]) = 1 /\ DOMAIN past[e] = {}
  OBVIOUS
<1>9. /\ rows[e].life # "unborn" => rows'[e].life # "unborn"
      /\ \/ past'[e] = past[e]
         \/ past[e] = << >> /\ past'[e] = << Fresh >>
         \/ \E c \in Contents : past'[e] = Append(past[e], c)
  BY <1>1, <1>2, <1>3, <1>4, <1>5, <1>6, RowKinds
<1> QED
  BY <1>0, <1>7, <1>8, <1>9

LEMMA NextRows ==
  ASSUME TypeOK, RowsInv, OpenInv, [Next]_vars
  PROVE  RowsInv'
<1> USE DEF RowsInv
<1>0. /\ rows \in [Entities -> Rows] /\ past \in [Entities -> Seq(Contents)]
  BY DEF TypeOK
<1>1. ASSUME NEW r \in Replicas, NEW e \in Entities, Create(r, e) PROVE RowsInv'
  <2>1. rows'[e].life = "live" /\ rows'[e].val = rows[e].val
    BY <1>0, <1>1 DEF Create, Rows
  <2>2. past'[e] = << Fresh >> /\ rows[e].val = Fresh
    BY <1>0, <1>1 DEF Create
  <2>3. past'[e] # << >> /\ past'[e][Len(past'[e])] = Fresh
    BY <2>2
  <2>4. \A d \in Entities \ {e} : rows'[d] = rows[d] /\ past'[d] = past[d]
    BY <1>0, <1>1 DEF Create
  <2> QED
    BY <2>1, <2>2, <2>3, <2>4
<1>2. ASSUME NEW h \in open, CommitPatch(h) PROVE RowsInv'
  <2> DEFINE e == h.ent
  <2>1. /\ e \in Entities /\ rows'[e].val = Written(h) /\ rows'[e].life = "live"
        /\ \A d \in Entities \ {e} : rows'[d] = rows[d]
        /\ past' = [past EXCEPT ![e] = Append(past[e], Written(h))]
        /\ Written(h) \in Contents
    BY <1>2, PatchWrites
  <2> HIDE DEF e
  <2>2. /\ past'[e] # << >>
        /\ past'[e][Len(past'[e])] = Written(h)
    <3>1. past[e] \in Seq(Contents) /\ past'[e] = Append(past[e], Written(h))
      BY <1>0, <2>1
    <3> QED
      BY <2>1, <3>1, AppendProperties
  <2>3. \A d \in Entities \ {e} : past'[d] = past[d]
    BY <1>0, <2>1
  <2> QED
    BY <2>1, <2>2, <2>3
<1>3. ASSUME NEW h \in open, h.pc = "loaded", past' = past,
             rows' = [rows EXCEPT ![h.ent].life = "deleted"]
      PROVE  RowsInv'
  <2>1. rows[h.ent].life # "unborn"
    BY <1>3 DEF OpenInv
  <2>2. \A e \in Entities : /\ rows'[e].val = rows[e].val
                            /\ \/ rows'[e].life = rows[e].life
                               \/ e = h.ent /\ rows'[e].life = "deleted"
    BY <1>0, <1>3 DEF Rows
  <2> QED
    BY <1>3, <2>1, <2>2
<1> QED
  BY <1>1, <1>2, <1>3, RowKinds
\* A row that exists shows its last version.
LEMMA LastVersion ==
  ASSUME TypeOK, RowsInv, NEW e \in Entities, rows[e].life # "unborn"
  PROVE  /\ Len(past[e]) \in DOMAIN past[e] /\ Len(past[e]) \in Nat
         /\ past[e][Len(past[e])] = rows[e].val
<1>1. past[e] \in Seq(Contents) /\ past[e] # << >>
  BY DEF TypeOK, RowsInv
<1> QED
  BY <1>1 DEF RowsInv

\* The requests of the next state: old ones, and one that was opened or went on.
LEMMA OpenKinds ==
  ASSUME TypeOK, [Next]_vars, NEW h \in open'
  PROVE  \/ h \in open
         \/ /\ h.pc = "committed" /\ h.since = 1 /\ h.ent \in Entities
            /\ \E r \in Replicas : Create(r, h.ent)
         \/ /\ h.pc = "loaded" /\ h.since = 0 /\ h.ent \in Entities
            /\ Live(h.ent) /\ h.seen = rows[h.ent].val
            /\ UNCHANGED << rows, past >>
         \/ \E k \in open : /\ CommitPatch(k) /\ h.pc = "committed"
                            /\ h.ent = k.ent /\ h.since = Version(k.ent) + 1
<1>1. ASSUME NEW r \in Replicas, NEW e \in Entities, Create(r, e)
      PROVE  \/ h \in open
             \/ /\ h.pc = "committed" /\ h.since = 1 /\ h.ent = e
                /\ Create(r, e)
  BY <1>1 DEF Create
<1>2. ASSUME NEW r \in Replicas, NEW e \in Entities,
             LoadForPatch(r, e) \/ LoadForDelete(r, e)
      PROVE  \/ h \in open
             \/ /\ h.pc = "loaded" /\ h.since = 0 /\ h.ent = e
                /\ Live(e) /\ h.seen = rows[e].val
                /\ UNCHANGED << rows, past >>
  BY <1>2 DEF LoadForPatch, LoadForDelete, Load
<1>3. ASSUME NEW k \in open, CommitPatch(k), h \notin open
      PROVE  /\ h.pc = "committed" /\ h.ent = k.ent
             /\ h.since = Version(k.ent) + 1
  <2>1. h = [k EXCEPT !.pc = "committed", !.since = Version(k.ent) + 1]
    BY <1>3 DEF CommitPatch
  <2>2. k \in Requests
    BY DEF TypeOK
  <2>3. \A n : /\ [k EXCEPT !.pc = "committed", !.since = n].pc = "committed"
               /\ [k EXCEPT !.pc = "committed", !.since = n].ent = k.ent
               /\ [k EXCEPT !.pc = "committed", !.since = n].since = n
    BY <2>2 DEF Requests
  <2> QED
    BY <2>1, <2>3
<1>4. \/ \E r \in Replicas, e \in Entities :
           Create(r, e) \/ LoadForPatch(r, e) \/ LoadForDelete(r, e)
      \/ \E k \in open : CommitPatch(k)
      \/ h \in open
  BY DEF Next, StalePatch, Refresh, DeleteIndividual, DeleteOrganization,
         Publish, Crash, vars
<1> QED
  BY <1>1, <1>2, <1>3, <1>4

LEMMA NextOpen ==
  ASSUME TypeOK, RowsInv, OpenInv, [Next]_vars
  PROVE  OpenInv'
<1> SUFFICES ASSUME NEW h \in open'
             PROVE  /\ rows'[h.ent].life # "unborn"
                    /\ h.pc = "loaded" => h.since = 0
                    /\ h.pc = "loaded" => \E v \in DOMAIN past'[h.ent] :
                                           past'[h.ent][v] = h.seen
                    /\ h.pc = "committed" => h.since <= Len(past'[h.ent])
  BY DEF OpenInv
<1>1. CASE h \in open
  <2>1. h.ent \in Entities /\ h.since \in Nat
    BY <1>1 DEF TypeOK, Requests
  <2>2. /\ rows'[h.ent].life # "unborn"
        /\ Len(past[h.ent]) \in Nat /\ Len(past'[h.ent]) \in Nat
        /\ Len(past'[h.ent]) >= Len(past[h.ent])
        /\ \A v \in DOMAIN past[h.ent] :
             v \in DOMAIN past'[h.ent] /\ past'[h.ent][v] = past[h.ent][v]
    BY <1>1, <2>1, PastGrows DEF OpenInv
  <2>3. /\ h.pc = "loaded" => h.since = 0
        /\ h.pc = "loaded" => \E v \in DOMAIN past[h.ent] :
                                past[h.ent][v] = h.seen
        /\ h.pc = "committed" => h.since <= Len(past[h.ent])
    BY <1>1 DEF OpenInv
  <2> QED
    BY <2>1, <2>2, <2>3
<1>2. ASSUME NEW r \in Replicas, h.ent \in Entities, Create(r, h.ent),
             h.pc = "committed", h.since = 1
      PROVE  rows'[h.ent].life # "unborn" /\ h.since <= Len(past'[h.ent])
  <2>1. rows'[h.ent].life = "live" /\ past'[h.ent] = << Fresh >>
    BY <1>2 DEF Create, TypeOK, Rows
  <2> QED
    BY <1>2, <2>1
<1>3. ASSUME h.pc = "loaded", h.since = 0, h.ent \in Entities, Live(h.ent),
             h.seen = rows[h.ent].val, UNCHANGED << rows, past >>
      PROVE  /\ rows'[h.ent].life # "unborn"
             /\ \E v \in DOMAIN past'[h.ent] : past'[h.ent][v] = h.seen
  BY <1>3, LastVersion DEF Live
<1>4. ASSUME NEW k \in open, CommitPatch(k), h.pc = "committed", h.ent = k.ent,
             h.since = Version(k.ent) + 1
      PROVE  rows'[h.ent].life # "unborn" /\ h.since <= Len(past'[h.ent])
  <2>1. /\ k.ent \in Entities /\ rows'[k.ent].life = "live"
        /\ past' = [past EXCEPT ![k.ent] = Append(past[k.ent], Written(k))]
        /\ Written(k) \in Contents
    BY <1>4, PatchWrites
  <2>2. past[k.ent] \in Seq(Contents)
        /\ past'[k.ent] = Append(past[k.ent], Written(k))
    BY <2>1 DEF TypeOK
  <2>3. Len(past'[k.ent]) = Len(past[k.ent]) + 1 /\ Len(past[k.ent]) \in Nat
    BY <2>1, <2>2
  <2> QED
    BY <1>4, <2>1, <2>3 DEF Version
<1> QED
  BY <1>1, <1>2, <1>3, <1>4, OpenKinds

LEMMA NextEvents ==
  ASSUME HistoryInv, [Next]_vars
  PROVE  EventsAreCommitted'
<1>0. TypeOK /\ RowsInv /\ OpenInv /\ EventsAreCommitted
  BY DEF HistoryInv
<1>1. ASSUME NEW e \in Entities, NEW n \in Nat, NEW val,
             \E v \in DOMAIN past[e] : v >= n /\ past[e][v] = val
      PROVE  \E v \in DOMAIN past'[e] : v >= n /\ past'[e][v] = val
  BY <1>0, <1>1, PastGrows
<1>2. ASSUME NEW h \in open, h.pc = "committed", Live(h.ent)
      PROVE  \E v \in DOMAIN past[h.ent] :
               v >= h.since /\ past[h.ent][v] = rows[h.ent].val
  <2>1. h.ent \in Entities /\ h.since \in Nat
    BY <1>0 DEF TypeOK, Requests
  <2>2. h.since <= Len(past[h.ent]) /\ rows[h.ent].life # "unborn"
    BY <1>0, <1>2 DEF OpenInv, Live
  <2>3. /\ Len(past[h.ent]) \in DOMAIN past[h.ent]
        /\ Len(past[h.ent]) \in Nat
        /\ past[h.ent][Len(past[h.ent])] = rows[h.ent].val
    BY <1>0, <2>1, <2>2, LastVersion
  <2> QED
    BY <2>1, <2>2, <2>3
<1>3. ASSUME NEW h \in open, h.pc = "loaded"
      PROVE  \E v \in DOMAIN past[h.ent] :
               v >= h.since /\ past[h.ent][v] = h.seen
  <2>1. h.ent \in Entities /\ past[h.ent] \in Seq(Contents)
    BY <1>0 DEF TypeOK, Requests
  <2>2. PICK v \in DOMAIN past[h.ent] : past[h.ent][v] = h.seen /\ h.since = 0
    BY <1>0, <1>3 DEF OpenInv
  <2>3. v >= 0
    BY <2>1
  <2> QED
    BY <2>2, <2>3
<1>4. ASSUME NEW t \in outbox'
      PROVE  \/ t \in outbox
             \/ \E h \in open : /\ h.pc = "committed" /\ Live(h.ent)
                                /\ t = Task(h, rows[h.ent].val)
             \/ \E h \in open : h.pc = "loaded" /\ t = Task(h, h.seen)
  BY <1>4 DEF Next, Create, LoadForPatch, LoadForDelete, Load, CommitPatch,
     StalePatch, Refresh, DeleteIndividual, DeleteOrganization, Publish, Crash,
     vars
<1>5. ASSUME NEW h \in open, NEW val \in Contents
      PROVE  /\ Task(h, val).event.ent = h.ent
             /\ Task(h, val).event.val = val
             /\ Task(h, val).event.since = h.since
             /\ h.ent \in Entities /\ h.since \in Nat
             /\ rows[h.ent].val \in Contents /\ h.seen \in Contents
  <2>1. h \in Requests
    BY <1>0 DEF TypeOK
  <2> QED
    BY <1>0, <2>1, TaskOK DEF TypeOK, Requests, Rows
<1>6. ASSUME NEW t \in outbox
      PROVE  /\ t.event.ent \in Entities /\ t.event.since \in Nat
             /\ \E v \in DOMAIN past[t.event.ent] :
                  v >= t.event.since /\ past[t.event.ent][v] = t.event.val
  BY <1>0 DEF TypeOK, Events, EventsAreCommitted
<1>7. ASSUME NEW t \in outbox'
      PROVE  \E v \in DOMAIN past'[t.event.ent] :
               v >= t.event.since /\ past'[t.event.ent][v] = t.event.val
  <2>1. CASE t \in outbox
    BY <1>1, <1>6, <2>1
  <2>2. ASSUME NEW h \in open, h.pc = "committed", Live(h.ent),
               t = Task(h, rows[h.ent].val)
        PROVE  \E v \in DOMAIN past'[t.event.ent] :
                 v >= t.event.since /\ past'[t.event.ent][v] = t.event.val
    <3>1. h.ent \in Entities /\ rows[h.ent].val \in Contents
      BY <1>0 DEF TypeOK, Requests, Rows
    <3>2. /\ t.event.ent = h.ent /\ t.event.val = rows[h.ent].val
          /\ t.event.since = h.since /\ h.since \in Nat
      BY <1>5, <2>2, <3>1
    <3>3. \E v \in DOMAIN past'[h.ent] :
            v >= h.since /\ past'[h.ent][v] = rows[h.ent].val
      BY <1>1, <1>2, <2>2, <3>1, <3>2
    <3> QED
      BY <3>2, <3>3
  <2>3. ASSUME NEW h \in open, h.pc = "loaded", t = Task(h, h.seen)
        PROVE  \E v \in DOMAIN past'[t.event.ent] :
                 v >= t.event.since /\ past'[t.event.ent][v] = t.event.val
    <3>1. h.seen \in Contents
      BY <1>0 DEF TypeOK, Requests
    <3>2. /\ t.event.ent = h.ent /\ t.event.val = h.seen
          /\ t.event.since = h.since /\ h.since \in Nat /\ h.ent \in Entities
      BY <1>5, <2>3, <3>1
    <3>3. \E v \in DOMAIN past'[h.ent] :
            v >= h.since /\ past'[h.ent][v] = h.seen
      BY <1>1, <1>3, <2>3, <3>2
    <3> QED
      BY <3>2, <3>3
  <2> QED
    BY <1>4, <1>7, <2>1, <2>2, <2>3
<1> QED
  BY <1>7 DEF EventsAreCommitted

LEMMA HistoryInvariant == Spec => []HistoryInv
<1>1. Init => HistoryInv
  <2> SUFFICES ASSUME Init PROVE HistoryInv
    OBVIOUS
  <2>1. RowsInv
    BY DEF Init, RowsInv
  <2> QED
    BY <2>1, InitTypeOK DEF Init, HistoryInv, OpenInv, EventsAreCommitted
<1>2. HistoryInv /\ [Next]_vars => HistoryInv'
  BY NextTypeOK, NextRows, NextOpen, NextEvents DEF HistoryInv
<1> QED
  BY <1>1, <1>2, PTL DEF Spec

\* An event that is still to be published shows its row as some commit left it,
\* at the change it announces or later, for any replicas: the snapshot is taken
\* from the row after the commit, or is the row that the DELETE had loaded.
THEOREM EventsShowCommits == Spec => []EventsAreCommitted
<1>1. HistoryInv => EventsAreCommitted
  BY DEF HistoryInv
<1> QED
  BY <1>1, HistoryInvariant, PTL
-----------------------------------------------------------------------------
(* The audit log *)

\* A PATCH entry tells the commit of its place: the version it made exists, and
\* so does the one before.
PatchesOK(e) ==
  \A i \in EntriesOf(e) : audit[i].action = "PATCH" =>
    /\ Rank(e, i) \in 2 .. Version(e)
    /\ Changed(e, Rank(e, i)) \subseteq audit[i].fields

\* AuditMatchesChanges of one row.
AuditOK(e) ==
  /\ Cardinality({i \in EntriesOf(e) : ~Deletes(i)}) = Version(e)
  /\ \A i, j \in EntriesOf(e) : i < j /\ Deletes(i) => Deletes(j)
  /\ \A i \in EntriesOf(e) :
       audit[i].action = "CREATE" <=> \A j \in EntriesOf(e) : i <= j
  /\ e \in Individuals /\ rows[e].life = "deleted" =>
       \E i \in EntriesOf(e) : Deletes(i)
  /\ \A i \in EntriesOf(e) :
       Deletes(i) => e \in Individuals /\ rows[e].life = "deleted"
  /\ PatchesOK(e)

AuditInv == \A e \in Entities : AuditOK(e)

LEMMA EntriesFinite ==
  ASSUME TypeOK, NEW e
  PROVE  /\ IsFiniteSet(EntriesOf(e)) /\ Len(audit) \in Nat
         /\ DOMAIN audit = 1 .. Len(audit)
         /\ EntriesOf(e) \subseteq 1 .. Len(audit)
<1>1. /\ Len(audit) \in Nat /\ DOMAIN audit = 1 .. Len(audit)
      /\ EntriesOf(e) \subseteq 1 .. Len(audit)
  BY DEF TypeOK, EntriesOf
<1>2. IsFiniteSet(1 .. Len(audit))
  BY <1>1, FS_Interval
<1> QED
  BY <1>1, <1>2, FS_Subset

\* A new entry is the last of its row, and no entry of another.
LEMMA AuditAppended ==
  ASSUME TypeOK, NEW a \in AuditEntries, audit' = Append(audit, a)
  PROVE  /\ \A i \in DOMAIN audit : audit'[i] = audit[i]
         /\ audit'[Len(audit) + 1] = a
         /\ \A e : e # a.ent => EntriesOf(e)' = EntriesOf(e)
         /\ EntriesOf(a.ent)' = EntriesOf(a.ent) \cup {Len(audit) + 1}
         /\ \A e : \A i \in EntriesOf(e) : i \in DOMAIN audit /\ i < Len(audit) + 1
<1>1. /\ audit \in Seq(AuditEntries) /\ Len(audit) \in Nat
      /\ DOMAIN audit = 1 .. Len(audit)
  BY DEF TypeOK
<1>2. /\ DOMAIN audit' = 1 .. Len(audit) + 1
      /\ \A i \in DOMAIN audit : audit'[i] = audit[i]
      /\ audit'[Len(audit) + 1] = a
  BY <1>1, AppendProperties
<1>3. \A i : i \in DOMAIN audit' <=> i \in DOMAIN audit \/ i = Len(audit) + 1
  BY <1>1, <1>2
<1>4. \A e : \A i \in EntriesOf(e) : i \in DOMAIN audit /\ i < Len(audit) + 1
  BY <1>1 DEF EntriesOf
<1> QED
  BY <1>2, <1>3, <1>4 DEF EntriesOf

\* A new entry n, the last of its row, leaves the places of the others.
LEMMA RankKept ==
  ASSUME NEW e, NEW n, EntriesOf(e)' \subseteq EntriesOf(e) \cup {n},
         EntriesOf(e) \subseteq EntriesOf(e)',
         NEW i \in EntriesOf(e), ~(n <= i)
  PROVE  Rank(e, i)' = Rank(e, i)
<1>1. {j \in EntriesOf(e)' : j <= i} = {j \in EntriesOf(e) : j <= i}
  OBVIOUS
<1> QED
  BY <1>1 DEF Rank

\* A step that leaves a row's versions, or adds one, keeps what its PATCHes told.
LEMMA PatchesKept ==
  ASSUME TypeOK, NEW e \in Entities, PatchesOK(e), NEW i \in EntriesOf(e),
         audit'[i] = audit[i], audit[i].action = "PATCH",
         Rank(e, i)' = Rank(e, i),
         \/ past'[e] = past[e]
         \/ \E val \in Contents : past'[e] = Append(past[e], val)
  PROVE  /\ Rank(e, i)' \in 2 .. Version(e)'
         /\ Changed(e, Rank(e, i))' \subseteq audit'[i].fields
<1> PICK v : v = Rank(e, i)
  OBVIOUS
<1>1. past[e] \in Seq(Contents) /\ v \in 2 .. Len(past[e])
  BY DEF TypeOK, PatchesOK, Version
<1>2. /\ Len(past'[e]) \in Nat /\ Len(past[e]) <= Len(past'[e])
      /\ \A w \in 1 .. Len(past[e]) : past'[e][w] = past[e][w]
  <2>1. ASSUME NEW val \in Contents, past'[e] = Append(past[e], val)
        PROVE  /\ Len(past'[e]) = Len(past[e]) + 1
               /\ \A w \in 1 .. Len(past[e]) : past'[e][w] = past[e][w]
    BY <1>1, <2>1, AppendProperties
  <2>2. Len(past[e]) \in Nat
    BY <1>1
  <2>3. CASE past'[e] = past[e]
    BY <2>2, <2>3
  <2>4. CASE \E val \in Contents : past'[e] = Append(past[e], val)
    BY <2>1, <2>2, <2>4
  <2> QED
    BY <2>3, <2>4
<1>3. v \in Nat /\ v - 1 \in 1 .. Len(past[e]) /\ v \in 1 .. Len(past[e])
  BY <1>1
<1>4. {f \in Fields : past'[e][v][f] # past'[e][v - 1][f]}
        = {f \in Fields : past[e][v][f] # past[e][v - 1][f]}
  BY <1>2, <1>3
<1>5. Changed(e, v) \subseteq audit[i].fields
  BY DEF PatchesOK
<1>6. Rank(e, i)' \in 2 .. Version(e)'
  BY <1>1, <1>2 DEF Version
<1>7. Changed(e, Rank(e, i))'
        = {f \in Fields : past'[e][v][f] # past'[e][v - 1][f]}
  BY DEF Changed
<1> QED
  BY <1>4, <1>5, <1>6, <1>7 DEF Changed

\* A row without an entry in this step, and still as it was.
LEMMA AuditFrame ==
  ASSUME TypeOK, NEW e \in Entities, AuditOK(e), past'[e] = past[e],
         EntriesOf(e)' = EntriesOf(e),
         \A i \in EntriesOf(e) : audit'[i] = audit[i],
         rows'[e].life = rows[e].life \/ e \in Organizations
  PROVE  AuditOK(e)'
<1> DEFINE C == {i \in EntriesOf(e) : ~Deletes(i)}
<1>1. \A i \in EntriesOf(e) : Deletes(i)' <=> Deletes(i)
  BY DEF Deletes
<1>2. C' = C
  BY <1>1
<1>3. Version(e)' = Version(e)
  BY DEF Version
<1>4. Cardinality(C)' = Version(e)'
  BY <1>2, <1>3 DEF AuditOK
<1>5. rows'[e].life = rows[e].life \/ (e \notin Individuals
                                     /\ \A i \in EntriesOf(e) : ~Deletes(i))
  BY EntityAssumption DEF AuditOK
<1> HIDE DEF C
<1>6. \A i, j \in EntriesOf(e) : i < j /\ Deletes(i)' => Deletes(j)'
  BY <1>1 DEF AuditOK
<1>7. \A i \in EntriesOf(e) :
        audit'[i].action = "CREATE" <=> \A j \in EntriesOf(e) : i <= j
  BY DEF AuditOK
<1>8. /\ e \in Individuals /\ rows'[e].life = "deleted" =>
           \E i \in EntriesOf(e) : Deletes(i)'
      /\ \A i \in EntriesOf(e) :
           Deletes(i)' => e \in Individuals /\ rows'[e].life = "deleted"
  BY <1>1, <1>5 DEF AuditOK
<1>9. PatchesOK(e)'
  <2>1. \A i \in EntriesOf(e) : Rank(e, i)' = Rank(e, i)
    BY DEF Rank
  <2> QED
    BY <2>1, PatchesKept DEF AuditOK, PatchesOK
<1> QED
  BY <1>4, <1>6, <1>7, <1>8, <1>9 DEF AuditOK, C

\* Before its creation a row has no entry; after it, one at least.
LEMMA EntriesOfRow ==
  ASSUME TypeOK, RowsInv, NEW e \in Entities, AuditOK(e)
  PROVE  /\ rows[e].life = "unborn" => EntriesOf(e) = {}
         /\ rows[e].life # "unborn" => EntriesOf(e) # {}
<1> DEFINE C == {i \in EntriesOf(e) : ~Deletes(i)}
<1>1. IsFiniteSet(C) /\ C \subseteq EntriesOf(e)
  BY EntriesFinite, FS_Subset
<1>2. Cardinality(C) = Len(past[e])
  BY DEF AuditOK, Version
<1>3. past[e] \in Seq(Contents)
  BY DEF TypeOK
<1>4. Cardinality(C) = 0 <=> C = {}
  BY <1>1, FS_EmptySet
<1>5. rows[e].life = "unborn" => C = {}
  BY <1>2, <1>4 DEF RowsInv
<1>6. rows[e].life # "unborn" => C # {}
  <2>1. past[e] # << >> => Len(past[e]) # 0
    BY <1>3
  <2> QED
    BY <1>2, <1>4, <2>1 DEF RowsInv
<1>7. rows[e].life = "unborn" => \A i \in EntriesOf(e) : ~Deletes(i)
  BY DEF AuditOK
<1> QED
  BY <1>1, <1>5, <1>6, <1>7

LEMMA CreateAudit ==
  ASSUME TypeOK, RowsInv, AuditInv, NEW r \in Replicas, NEW e \in Entities,
         Create(r, e)
  PROVE  AuditInv'
<1>0. /\ rows \in [Entities -> Rows] /\ past \in [Entities -> Seq(Contents)]
  BY DEF TypeOK
<1>1. PICK u \in Staff : audit' = Append(audit, Entry(e, "CREATE", {}, u))
  BY DEF Create
<1> PICK n \in Nat : n = Len(audit) + 1
  BY EntriesFinite
<1> DEFINE a == Entry(e, "CREATE", {}, u)
<1>2. a \in AuditEntries /\ a.ent = e /\ a.action = "CREATE"
  BY EntryOK
<1> HIDE DEF a
<1>3. /\ \A i \in DOMAIN audit : audit'[i] = audit[i]
      /\ audit'[n] = a
      /\ \A d : d # e => EntriesOf(d)' = EntriesOf(d)
      /\ EntriesOf(e)' = EntriesOf(e) \cup {n}
      /\ \A d : \A i \in EntriesOf(d) : i \in DOMAIN audit
  BY <1>1, <1>2, AuditAppended DEF a
<1>4. ASSUME NEW d \in Entities, d # e PROVE AuditOK(d)'
  <2>1. rows'[d] = rows[d] /\ past'[d] = past[d]
    BY <1>0, <1>4 DEF Create
  <2>2. \A i \in EntriesOf(d) : audit'[i] = audit[i]
    BY <1>3
  <2>3. EntriesOf(d)' = EntriesOf(d)
    BY <1>3, <1>4
  <2>4. AuditOK(d)
    BY DEF AuditInv
  <2> QED
    BY <2>1, <2>2, <2>3, <2>4, AuditFrame
<1>5. AuditOK(e)'
  <2>1. EntriesOf(e)' = {n}
    BY <1>3, EntriesOfRow DEF AuditInv, Create
  <2>2. ~Deletes(n)' /\ audit'[n].action = "CREATE"
    BY <1>2, <1>3 DEF Deletes
  <2>3. rows'[e].life = "live" /\ past'[e] = << Fresh >>
    BY <1>0 DEF Create, Rows
  <2>4. {i \in EntriesOf(e) : ~Deletes(i)}' = {n}
    BY <2>1, <2>2 DEF Deletes
  <2>5. Cardinality({n}) = 1 /\ Len(<< Fresh >>) = 1
    BY FS_Singleton
  <2>6. Cardinality({i \in EntriesOf(e) : ~Deletes(i)})' = Version(e)'
    BY <2>3, <2>4, <2>5 DEF Version
  <2>7. n \in Nat /\ n <= n /\ ~(n < n)
    BY EntriesFinite
  <2>8. PatchesOK(e)'
    BY <2>1, <2>2 DEF PatchesOK
  <2> QED
    BY <2>1, <2>2, <2>3, <2>6, <2>7, <2>8 DEF AuditOK, Deletes
<1> QED
  BY <1>4, <1>5 DEF AuditInv

\* A PATCH changes no column that its request did not name.
LEMMA LastChange ==
  ASSUME TypeOK, RowsInv, NEW h \in open, CommitPatch(h),
         NEW v, v = Version(h.ent) + 1
  PROVE  Changed(h.ent, v)' \subseteq DOMAIN h.upd
<1> DEFINE e == h.ent
<1>1. /\ e \in Entities /\ rows[e].life = "live"
      /\ past' = [past EXCEPT ![e] = Append(past[e], Written(h))]
      /\ Written(h) \in Contents
  BY PatchWrites DEF Live
<1>2. /\ past \in [Entities -> Seq(Contents)] /\ past[e] \in Seq(Contents)
      /\ past[e] # << >> /\ rows[e].val = past[e][Len(past[e])]
  BY <1>1 DEF TypeOK, RowsInv
<1>3. /\ Len(past[e]) \in Nat /\ Len(past[e]) # 0
      /\ v - 1 = Len(past[e]) /\ v = Len(past[e]) + 1
  BY <1>2 DEF Version
<1>4. past'[e] = Append(past[e], Written(h))
  BY <1>1, <1>2
<1>5. past'[e][v] = Written(h) /\ past'[e][v - 1] = rows[e].val
  BY <1>1, <1>2, <1>3, <1>4, AppendProperties
<1>6. \A f \in Fields : f \notin DOMAIN h.upd => Written(h)[f] = rows[e].val[f]
  BY DEF Written
<1> QED
  BY <1>5, <1>6 DEF Changed

LEMMA PatchAudit ==
  ASSUME TypeOK, RowsInv, AuditInv, NEW h \in open, CommitPatch(h)
  PROVE  AuditInv'
<1> PICK n \in Nat : n = Len(audit) + 1
  BY EntriesFinite
<1> DEFINE e == h.ent
           a == Entry(e, "PATCH", DOMAIN h.upd, h.staff)
           C == {i \in EntriesOf(e) : ~Deletes(i)}
<1>0. /\ e \in Entities /\ past \in [Entities -> Seq(Contents)]
      /\ h \in Requests
  BY DEF TypeOK, Requests
<1>1. audit' = Append(audit, a)
  BY DEF CommitPatch
<1>2. /\ a \in AuditEntries /\ a.ent = e /\ a.action = "PATCH"
      /\ a.fields = DOMAIN h.upd
  <2>1. DOMAIN h.upd \in SUBSET Fields /\ h.staff \in Staff
    BY <1>0, RequestOK DEF Requests
  <2> QED
    BY <1>0, <2>1, EntryOK
<1>3. /\ \A d \in Entities \ {e} : rows'[d] = rows[d]
      /\ rows[e].life = "live" /\ rows'[e].life = "live"
      /\ past' = [past EXCEPT ![e] = Append(past[e], Written(h))]
      /\ Written(h) \in Contents
  BY PatchWrites DEF Live
<1> HIDE DEF a, e
<1>4. /\ \A i \in DOMAIN audit : audit'[i] = audit[i]
      /\ audit'[n] = a
      /\ \A d : d # e => EntriesOf(d)' = EntriesOf(d)
      /\ EntriesOf(e)' = EntriesOf(e) \cup {n}
      /\ \A d : \A i \in EntriesOf(d) : i \in DOMAIN audit /\ i < n
  BY <1>1, <1>2, AuditAppended
<1>5. ASSUME NEW d \in Entities, d # e PROVE AuditOK(d)'
  <2>1. rows'[d] = rows[d] /\ past'[d] = past[d]
    BY <1>0, <1>3, <1>5
  <2>2. \A i \in EntriesOf(d) : audit'[i] = audit[i]
    BY <1>4
  <2>3. EntriesOf(d)' = EntriesOf(d)
    BY <1>4, <1>5
  <2>4. AuditOK(d)
    BY DEF AuditInv
  <2> QED
    BY <2>1, <2>2, <2>3, <2>4, AuditFrame
<1>6. AuditOK(e)'
  <2>1. AuditOK(e) /\ EntriesOf(e) # {}
    BY <1>0, <1>3, EntriesOfRow DEF AuditInv
  <2>2. \A i \in EntriesOf(e) : audit'[i] = audit[i] /\ ~Deletes(i) /\ ~Deletes(i)'
    BY <1>3, <1>4, <2>1 DEF AuditOK, Deletes
  <2>3. ~Deletes(n)' /\ audit'[n].action = "PATCH"
    BY <1>2, <1>4 DEF Deletes
  <2>4. C' = C \cup {n} /\ C = EntriesOf(e) /\ n \notin C
    <3>1. n \notin EntriesOf(e)
      BY <1>4, EntriesFinite
    <3> QED
      BY <1>4, <2>2, <2>3, <3>1 DEF Deletes
  <2>5. Cardinality(C') = Cardinality(C) + 1
    <3>1. IsFiniteSet(C)
      BY <2>4, EntriesFinite
    <3> HIDE DEF C
    <3>2. Cardinality(C \cup {n}) = Cardinality(C) + 1
      BY <2>4, <3>1, FS_AddElement
    <3> QED
      BY <2>4, <3>2
  <2>6. Version(e)' = Version(e) + 1
    <3>1. past[e] \in Seq(Contents) /\ past'[e] = Append(past[e], Written(h))
      BY <1>0, <1>3
    <3> QED
      BY <1>3, <3>1, AppendProperties DEF Version
  <2>7. Cardinality(C)' = Version(e)'
    BY <2>1, <2>5, <2>6 DEF AuditOK
  <2> HIDE DEF C
  <2>8. \A i \in EntriesOf(e)' :
          audit'[i].action = "CREATE" <=> \A j \in EntriesOf(e)' : i <= j
    <3>1. \A i \in EntriesOf(e) : i \in Nat /\ i < n /\ i <= n /\ ~(n <= i)
      BY <1>4, EntriesFinite
    <3>2. \A i \in EntriesOf(e) :
            audit'[i].action = "CREATE" <=> \A j \in EntriesOf(e) : i <= j
      BY <2>1, <2>2 DEF AuditOK
    <3> QED
      BY <1>4, <2>1, <2>3, <3>1, <3>2
  <2>9. \A i \in EntriesOf(e)' : ~Deletes(i)'
    BY <1>4, <2>2, <2>3
  <2>10. PatchesOK(e)'
    <3>1. ASSUME NEW i \in EntriesOf(e), audit'[i].action = "PATCH"
          PROVE  /\ Rank(e, i)' \in 2 .. Version(e)'
                 /\ Changed(e, Rank(e, i))' \subseteq audit'[i].fields
      <4>1. ~(n <= i)
        BY <1>4, EntriesFinite
      <4>2. Rank(e, i)' = Rank(e, i)
        BY <1>4, <4>1, RankKept
      <4>3. past'[e] = Append(past[e], Written(h))
        BY <1>0, <1>3
      <4>4. PatchesOK(e) /\ audit'[i] = audit[i]
        BY <2>1, <2>2 DEF AuditOK
      <4> QED
        BY <1>0, <1>3, <3>1, <4>2, <4>3, <4>4, PatchesKept
    <3> PICK v : v = Version(e) + 1
      OBVIOUS
    <3>2. Rank(e, n)' = v /\ Version(e)' = v /\ v \in 2 .. v
      <4>1. EntriesOf(e)' = C'
        BY <1>4, <2>4
      <4>2. \A j \in EntriesOf(e)' : j <= n
        BY <1>4, EntriesFinite
      <4>3. Rank(e, n)' = Cardinality(C')
        <5>1. {j \in EntriesOf(e)' : j <= n} = C'
          BY <4>1, <4>2
        <5> QED
          BY <5>1 DEF Rank
      <4>4. Version(e) \in Nat /\ Version(e) # 0
        <5>1. past[e] \in Seq(Contents) /\ past[e] # << >>
          BY <1>0, <1>3 DEF RowsInv
        <5> QED
          BY <5>1 DEF Version
      <4> QED
        BY <2>6, <2>7, <4>3, <4>4
    <3>3. Changed(e, v)' \subseteq audit'[n].fields
      BY <1>2, <1>4, LastChange DEF e
    <3>4. /\ Rank(e, n)' \in 2 .. Version(e)'
          /\ Changed(e, Rank(e, n))' \subseteq audit'[n].fields
      BY <3>2, <3>3 DEF Changed
    <3> QED
      BY <1>4, <3>1, <3>4 DEF PatchesOK
  <2> QED
    BY <1>3, <2>7, <2>8, <2>9, <2>10 DEF AuditOK, C
<1> QED
  BY <1>5, <1>6 DEF AuditInv

LEMMA DeleteAudit ==
  ASSUME TypeOK, RowsInv, OpenInv, AuditInv, NEW h \in open,
         DeleteIndividual(h)
  PROVE  AuditInv'
<1> PICK n \in Nat : n = Len(audit) + 1
  BY EntriesFinite
<1> DEFINE e == h.ent
           a == Entry(e, "DELETE", {}, h.staff)
           C == {i \in EntriesOf(e) : ~Deletes(i)}
<1>0. /\ e \in Entities /\ e \in Individuals /\ h.staff \in Staff
      /\ rows \in [Entities -> Rows] /\ past' = past
      /\ audit' = Append(audit, a) /\ rows[e].life # "unborn"
      /\ rows' = [rows EXCEPT ![e].life = "deleted"]
  BY DEF TypeOK, Requests, DeleteIndividual, OpenInv
<1>1. a \in AuditEntries /\ a.ent = e /\ a.action = "DELETE"
  BY <1>0, EntryOK
<1> HIDE DEF a, e
<1>2. /\ \A d \in Entities \ {e} : rows'[d] = rows[d]
      /\ rows'[e].life = "deleted"
  BY <1>0 DEF Rows
<1>3. /\ \A i \in DOMAIN audit : audit'[i] = audit[i]
      /\ audit'[n] = a
      /\ \A d : d # e => EntriesOf(d)' = EntriesOf(d)
      /\ EntriesOf(e)' = EntriesOf(e) \cup {n}
      /\ \A d : \A i \in EntriesOf(d) : i \in DOMAIN audit /\ i < n
  BY <1>0, <1>1, AuditAppended
<1>4. ASSUME NEW d \in Entities, d # e PROVE AuditOK(d)'
  <2>1. rows'[d] = rows[d] /\ past'[d] = past[d]
    BY <1>0, <1>2, <1>4
  <2>2. \A i \in EntriesOf(d) : audit'[i] = audit[i]
    BY <1>3
  <2>3. EntriesOf(d)' = EntriesOf(d)
    BY <1>3, <1>4
  <2>4. AuditOK(d)
    BY DEF AuditInv
  <2> QED
    BY <2>1, <2>2, <2>3, <2>4, AuditFrame
<1>5. AuditOK(e)'
  <2>1. AuditOK(e) /\ EntriesOf(e) # {}
    BY <1>0, EntriesOfRow DEF AuditInv
  <2>2. \A i \in EntriesOf(e) :
          audit'[i] = audit[i] /\ (Deletes(i)' <=> Deletes(i))
    BY <1>3 DEF Deletes
  <2>3. Deletes(n)' /\ audit'[n].action = "DELETE"
    BY <1>1, <1>3 DEF Deletes
  <2>4. C' = C
    BY <1>3, <2>2, <2>3 DEF Deletes
  <2>5. Cardinality(C)' = Version(e)'
    BY <1>0, <2>1, <2>4 DEF AuditOK, Version
  <2> HIDE DEF C
  <2>6. \A i \in EntriesOf(e) : i \in Nat /\ i < n /\ i <= n /\ ~(n <= i) /\ ~(n < i)
    BY <1>3, EntriesFinite
  <2>7. \A i \in EntriesOf(e)' :
          audit'[i].action = "CREATE" <=> \A j \in EntriesOf(e)' : i <= j
    <3>1. \A i \in EntriesOf(e) :
            audit'[i].action = "CREATE" <=> \A j \in EntriesOf(e) : i <= j
      BY <2>1, <2>2 DEF AuditOK
    <3> QED
      BY <1>3, <2>1, <2>3, <2>6, <3>1
  <2>8. \A i, j \in EntriesOf(e)' : i < j /\ Deletes(i)' => Deletes(j)'
    BY <1>3, <2>1, <2>2, <2>3, <2>6 DEF AuditOK
  <2>9. \E i \in EntriesOf(e)' : Deletes(i)'
    BY <1>3, <2>3
  <2>10. PatchesOK(e)'
    <3>1. ASSUME NEW i \in EntriesOf(e), audit'[i].action = "PATCH"
          PROVE  /\ Rank(e, i)' \in 2 .. Version(e)'
                 /\ Changed(e, Rank(e, i))' \subseteq audit'[i].fields
      <4>1. Rank(e, i)' = Rank(e, i)
        BY <1>3, <2>6, RankKept
      <4>2. PatchesOK(e) /\ audit'[i] = audit[i] /\ past'[e] = past[e]
        BY <1>0, <2>1, <2>2 DEF AuditOK
      <4> QED
        BY <1>0, <3>1, <4>1, <4>2, PatchesKept
    <3>2. audit'[n].action # "PATCH"
      BY <1>1, <1>3
    <3> QED
      BY <1>3, <3>1, <3>2 DEF PatchesOK
  <2> QED
    BY <1>0, <1>2, <2>5, <2>7, <2>8, <2>9, <2>10 DEF AuditOK, C
<1> QED
  BY <1>4, <1>5 DEF AuditInv

LEMMA NextAudit ==
  ASSUME TypeOK, RowsInv, OpenInv, AuditInv, [Next]_vars
  PROVE  AuditInv'
<1>0. rows \in [Entities -> Rows]
  BY DEF TypeOK
<1>1. ASSUME UNCHANGED << audit, past >>,
             \A e \in Entities :
               rows'[e].life = rows[e].life \/ e \in Organizations
      PROVE  AuditInv'
  <2>1. \A e \in Entities : EntriesOf(e)' = EntriesOf(e)
    BY <1>1 DEF EntriesOf
  <2>2. \A e \in Entities : AuditOK(e)
    BY DEF AuditInv
  <2> QED
    BY <1>1, <2>1, <2>2, AuditFrame DEF AuditInv
<1>2. ASSUME NEW h \in open, DeleteOrganization(h) PROVE AuditInv'
  BY <1>0, <1>1, <1>2 DEF DeleteOrganization, Rows
<1>3. ASSUME NEW r \in Replicas, NEW e \in Entities,
             LoadForPatch(r, e) \/ LoadForDelete(r, e)
      PROVE  UNCHANGED << audit, past, rows >>
  BY <1>3 DEF LoadForPatch, LoadForDelete, Load
<1>4. ASSUME NEW h \in open, StalePatch(h) \/ Refresh(h)
      PROVE  UNCHANGED << audit, past, rows >>
  BY <1>4 DEF StalePatch, Refresh
<1>5. /\ \A t \in outbox : Publish(t) => UNCHANGED << audit, past, rows >>
      /\ \A r \in Replicas : Crash(r) => UNCHANGED << audit, past, rows >>
      /\ UNCHANGED vars => UNCHANGED << audit, past, rows >>
  BY DEF Publish, Crash, vars
<1>6. UNCHANGED << audit, past, rows >> => AuditInv'
  BY <1>1
<1> QED
  BY <1>2, <1>3, <1>4, <1>5, <1>6, CreateAudit, PatchAudit, DeleteAudit DEF Next

\* The creation and the PATCHes of a row have one audit entry each, in the order
\* of their commits and naming every column they changed, and an individual has
\* DELETE entries, after those, iff it is deleted: for any replicas whose PATCHes
\* and DELETEs race and that may be killed at any time, because an entry shares
\* the transaction of what it tells.  It does not say that a deletion is told
\* once, nor that an organization's is told.
THEOREM AuditTellsChanges == Spec => []AuditMatchesChanges
<1>1. Init => AuditInv
  <2> SUFFICES ASSUME Init PROVE AuditInv
    OBVIOUS
  <2>1. \A e \in Entities : EntriesOf(e) = {} /\ Version(e) = 0
    BY DEF Init, EntriesOf, Version
  <2>2. Cardinality({}) = 0
    BY FS_EmptySet
  <2>3. \A e \in Entities : rows[e].life = "unborn"
    BY DEF Init
  <2>4. \A e \in Entities : {i \in EntriesOf(e) : ~Deletes(i)} = {}
    BY <2>1
  <2> QED
    BY <2>1, <2>2, <2>3, <2>4 DEF AuditInv, AuditOK, PatchesOK
<1>2. HistoryInv /\ AuditInv /\ [Next]_vars => AuditInv'
  BY NextAudit DEF HistoryInv
<1>3. AuditInv => AuditMatchesChanges
  BY DEF AuditInv, AuditOK, PatchesOK, AuditMatchesChanges
<1> QED
  BY <1>1, <1>2, <1>3, HistoryInvariant, PTL DEF Spec
=============================================================================
