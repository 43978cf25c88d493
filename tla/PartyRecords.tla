---------------------------- MODULE PartyRecords ----------------------------
(***************************************************************************)
(* The party service's records: the individual and organization routers    *)
(* (party-service/app/routers) over SQLAlchemy sessions, in replicas that  *)
(* share one PostgreSQL database (READ COMMITTED), with the audit log and  *)
(* the hand-over of events to publish_event.                               *)
(*                                                                         *)
(* A handler is an async function without an await, so a replica runs one  *)
(* at a time; handlers of different replicas interleave between database   *)
(* statements: the SELECT that loads the row, the flush and commit (one    *)
(* step: its row locks make it atomic), and the SELECT of db.refresh.      *)
(* Events are published by background tasks after the response.            *)
(***************************************************************************)
EXTENDS Naturals, Sequences, FiniteSets, FiniteSetsExt

CONSTANTS
  Replicas,      \* party-service pods
  Individuals,   \* ids of individuals
  Organizations, \* ids of organizations
  Staff,         \* users whose requests the gateway forwards
  Fields,        \* patchable columns the model tells apart
  Values,        \* what a column can hold
  Initial,       \* the value of every column of a new row
  MaxChanges     \* bound: no creation or PATCH starts after so many commits

Entities == Individuals \cup Organizations

\* Columns the response schema requires, though the tables let them be NULL
\* and the PATCH schemas let a request say null.  "optional" is one it does
\* not require: nationality, tradingName.
Required == {"status", "kyc"}
Null == "null"
ServiceAccount == "service@bankonboard.internal"

ASSUME FieldAssumption == Fields \subseteq Required \cup {"optional"}
ASSUME ValueAssumption == Initial \in Values \ {Null}
ASSUME EntityAssumption == Individuals \cap Organizations = {}
ASSUME ChangeAssumption == MaxChanges \in Nat \ {0}

VARIABLES
  rows,     \* the two tables
  audit,    \* the audit_log table, in commit order
  open,     \* requests being served, at most one per replica
  outbox,   \* background tasks: events that are still to be published
  past      \* history: the contents each row has had, a version per commit

vars == << rows, audit, open, outbox, past >>

-----------------------------------------------------------------------------
Contents == [Fields -> Values]
Updates == UNION {[fs -> Values] : fs \in SUBSET Fields \ {{}}}
NoUpdate == [f \in {} |-> Initial]
Fresh == [f \in Fields |-> Initial]

Rows == [life : {"unborn", "live", "deleted"}, val : Contents]
AuditEntries == [ ent : Entities, action : {"CREATE", "PATCH", "DELETE"},
                  fields : SUBSET Fields, by : Staff \cup {ServiceAccount} ]
EventTypes == { "IndividualCreateEvent", "IndividualAttributeValueChangeEvent",
                "IndividualDeleteEvent", "IndividualStateChangeEvent",
                "OrganizationCreateEvent",
                "OrganizationAttributeValueChangeEvent",
                "KYCStatusChangeEvent" }

\* An event; val is its snapshot, fields what the request changed, and since,
\* history, the version its commit made.
Events == [ ent : Entities, type : EventTypes, val : Contents,
            fields : SUBSET Fields, since : Nat ]

\* A request of staff that replica by is serving: it has loaded the row seen,
\* or has committed (as version since of the row) and not yet answered.
Requests == [ by : Replicas, pc : {"loaded", "committed"},
              op : {"create", "patch", "delete"}, ent : Entities,
              upd : Updates \cup {NoUpdate}, seen : Contents, staff : Staff,
              since : Nat ]

Live(e) == rows[e].life = "live"
Idle(r) == \A h \in open : h.by # r
Version(e) == Len(past[e])
Changes == MapThenSumSet(Version, Entities)

\* db_to_schema: pydantic rejects a row whose required columns are NULL.
Convertible(val) == \A f \in Fields \cap Required : val[f] # Null

\* Mutant of CurrentUser: a token without an email.
CurrentUserNoEmail(staff) == Null

\* get_current_user for a request the gateway forwards: it sets the service
\* key on every one, and the key is looked at first.
CurrentUser(staff) == ServiceAccount

Entry(e, action, fields, staff) ==
  [ent |-> e, action |-> action, fields |-> fields, by |-> CurrentUser(staff)]

\* The event of a request, by what it did and the fields it named.
EventType(e, op, fields) ==
  CASE op = "delete" -> "IndividualDeleteEvent"
    [] op = "create" /\ e \in Individuals -> "IndividualCreateEvent"
    [] op = "create" /\ e \in Organizations -> "OrganizationCreateEvent"
    [] e \in Organizations -> "OrganizationAttributeValueChangeEvent"
    [] "status" \in fields -> "IndividualStateChangeEvent"
    [] "kyc" \in fields -> "KYCStatusChangeEvent"
    [] OTHER -> "IndividualAttributeValueChangeEvent"

\* The background task of request h, publishing a snapshot val of the row.
Task(h, val) ==
  LET fields == DOMAIN h.upd IN
  [by |-> h.by, event |-> [ent |-> h.ent, type |-> EventType(h.ent, h.op, fields),
                           val |-> val, fields |-> fields, since |-> h.since]]

-----------------------------------------------------------------------------
Init ==
  /\ rows = [e \in Entities |-> [life |-> "unborn", val |-> Fresh]]
  /\ audit = << >>
  /\ open = {}
  /\ outbox = {}
  /\ past = [e \in Entities |-> << >>]

\* create_individual, create_organization: row and audit entry in one commit.
Create(r, e) ==
  /\ Idle(r)
  /\ rows[e].life = "unborn"
  /\ Changes < MaxChanges
  /\ \E u \in Staff :
       /\ open' = open \cup {[by |-> r, pc |-> "committed", op |-> "create",
                              ent |-> e, upd |-> NoUpdate, seen |-> Fresh,
                              staff |-> u, since |-> 1]}
       /\ audit' = Append(audit, Entry(e, "CREATE", {}, u))
  /\ rows' = [rows EXCEPT ![e].life = "live"]
  /\ past' = [past EXCEPT ![e] = << Fresh >>]
  /\ UNCHANGED outbox

\* The SELECT of a request on e.  Without a row the answer is 404.
Load(r, e, op, upd) ==
  /\ Idle(r)
  /\ Live(e)
  /\ \E u \in Staff :
       open' = open \cup {[by |-> r, pc |-> "loaded", op |-> op, ent |-> e,
                           upd |-> upd, seen |-> rows[e].val, staff |-> u,
                           since |-> 0]}
  /\ UNCHANGED << rows, audit, outbox, past >>

LoadForPatch(r, e) ==
  /\ Changes < MaxChanges
  /\ \E upd \in Updates : Load(r, e, "patch", upd)

\* A DELETE of an individual also takes its snapshot: 500 if that is impossible.
LoadForDelete(r, e) ==
  /\ e \in Individuals => Convertible(rows[e].val)
  /\ Load(r, e, "delete", NoUpdate)

\* Mutant of Written: the whole loaded row is written back.
WrittenWholeRow(h) ==
  [f \in Fields |-> IF f \in DOMAIN h.upd THEN h.upd[f] ELSE h.seen[f]]

\* The UPDATE names the columns whose new value differs from the loaded one.
Written(h) ==
  [f \in Fields |-> IF f \in DOMAIN h.upd /\ h.upd[f] # h.seen[f]
                    THEN h.upd[f] ELSE rows[h.ent].val[f]]

\* db.commit() of a PATCH whose row is still there.
CommitPatch(h) ==
  LET e == h.ent IN
  /\ h.pc = "loaded" /\ h.op = "patch"
  /\ Live(e)
  /\ rows' = [rows EXCEPT ![e].val = Written(h)]
  /\ past' = [past EXCEPT ![e] = Append(@, rows'[e].val)]
  /\ audit' = Append(audit, Entry(e, "PATCH", DOMAIN h.upd, h.staff))
  /\ open' = (open \ {h}) \cup {[h EXCEPT !.pc = "committed",
                                          !.since = Version(e) + 1]}
  /\ UNCHANGED outbox

\* Mutant of StalePatch: the audit entry has a transaction of its own.
StalePatchAudited(h) ==
  /\ h.pc = "loaded" /\ h.op = "patch"
  /\ ~Live(h.ent)
  /\ open' = open \ {h}
  /\ audit' = Append(audit, Entry(h.ent, "PATCH", DOMAIN h.upd, h.staff))
  /\ UNCHANGED << rows, outbox, past >>

\* Its UPDATE matches no row (StaleDataError): the audit entry is rolled back
\* with it, and the answer is 500.
StalePatch(h) ==
  /\ h.pc = "loaded" /\ h.op = "patch"
  /\ ~Live(h.ent)
  /\ open' = open \ {h}
  /\ UNCHANGED << rows, audit, outbox, past >>

\* Mutant of Refresh: the snapshot is of the row as it was loaded.
RefreshSkipped(h) ==
  /\ h.pc = "committed"
  /\ open' = open \ {h}
  /\ outbox' = outbox \cup {Task(h, h.seen)}
  /\ UNCHANGED << rows, audit, past >>

\* db.refresh and db_to_schema.  A row deleted meanwhile, or one that cannot be
\* converted, is an error after the commit: 500, and no event.
Refresh(h) ==
  LET row == rows[h.ent] IN
  /\ h.pc = "committed"
  /\ open' = open \ {h}
  /\ outbox' = IF Live(h.ent) /\ Convertible(row.val)
               THEN outbox \cup {Task(h, row.val)} ELSE outbox
  /\ UNCHANGED << rows, audit, past >>

\* db.commit() of a DELETE of an individual.  Matching no row is only a warning:
\* the audit entry and the event are made again.
DeleteIndividual(h) ==
  /\ h.pc = "loaded" /\ h.op = "delete" /\ h.ent \in Individuals
  /\ open' = open \ {h}
  /\ rows' = [rows EXCEPT ![h.ent].life = "deleted"]
  /\ audit' = Append(audit, Entry(h.ent, "DELETE", {}, h.staff))
  /\ outbox' = outbox \cup {Task(h, h.seen)}
  /\ UNCHANGED past

\* ... of an organization, which has neither.
DeleteOrganization(h) ==
  /\ h.pc = "loaded" /\ h.op = "delete" /\ h.ent \in Organizations
  /\ open' = open \ {h}
  /\ rows' = [rows EXCEPT ![h.ent].life = "deleted"]
  /\ UNCHANGED << audit, outbox, past >>

\* publish_event hands t.event to the subscribers.
Publish(t) ==
  /\ outbox' = outbox \ {t}
  /\ UNCHANGED << rows, audit, open, past >>

\* A replica is killed: its open transaction is rolled back, and the events it
\* had not published are never published.
Crash(r) ==
  /\ open' = {h \in open : h.by # r}
  /\ outbox' = {t \in outbox : t.by # r}
  /\ UNCHANGED << rows, audit, past >>

Next ==
  \/ \E r \in Replicas, e \in Entities :
       Create(r, e) \/ LoadForPatch(r, e) \/ LoadForDelete(r, e)
  \/ \E h \in open :
       \/ CommitPatch(h) \/ StalePatch(h) \/ Refresh(h)
       \/ DeleteIndividual(h) \/ DeleteOrganization(h)
  \/ \E t \in outbox : Publish(t)
  \/ \E r \in Replicas : Crash(r)

Spec == Init /\ [][Next]_vars

-----------------------------------------------------------------------------
(* Properties *)

TypeOK ==
  /\ rows \in [Entities -> Rows]
  /\ audit \in Seq(AuditEntries)
  /\ open \subseteq Requests
  /\ \A h, k \in open : h.by = k.by => h = k
  /\ outbox \subseteq [by : Replicas, event : Events]
  /\ past \in [Entities -> Seq(Contents)]

EntriesOf(e) == {i \in DOMAIN audit : audit[i].ent = e}
Deletes(i) == audit[i].action = "DELETE"

\* The place of entry i among those of its row, and the columns in which the
\* versions v - 1 and v of a row differ.
Rank(e, i) == Cardinality({j \in EntriesOf(e) : j <= i})
Changed(e, v) == {f \in Fields : past[e][v][f] # past[e][v - 1][f]}

\* The audit log tells the creation and the PATCHes of a row, one entry each in
\* the order of their commits: a CREATE first, and then PATCHes that name every
\* column that their commit changed.  An individual has DELETE entries iff it is
\* deleted, and nothing follows them.  Not claimed: DELETEs of one individual
\* that race leave an entry each, and no deletion of an organization is told
\* (DeletionsAudited).
AuditMatchesChanges ==
  \A e \in Entities :
    /\ Cardinality({i \in EntriesOf(e) : ~Deletes(i)}) = Version(e)
    /\ \A i, j \in EntriesOf(e) : i < j /\ Deletes(i) => Deletes(j)
    /\ \A i \in EntriesOf(e) :
         /\ audit[i].action = "CREATE" <=> \A j \in EntriesOf(e) : i <= j
         /\ audit[i].action = "PATCH" =>
              Changed(e, Rank(e, i)) \subseteq audit[i].fields
    /\ (\E i \in EntriesOf(e) : Deletes(i)) <=>
         e \in Individuals /\ rows[e].life = "deleted"

\* main.py: "Full audit trail for regulatory compliance".  Every deletion has an
\* entry.
DeletionsAudited ==
  \A e \in Entities :
    rows[e].life = "deleted" => \E i \in EntriesOf(e) : Deletes(i)

\* "Updates only the fields provided in the request body": concurrent PATCHes
\* of different fields of a row do not undo each other, although each replica
\* writes back a row it loaded earlier.
PatchTouchesOnlyItsFields ==
  [][\A e \in Entities, f \in Fields :
       Live(e) /\ rows'[e].val[f] # rows[e].val[f] =>
         \E h \in open \ open' :
           /\ h.ent = e
           /\ f \in DOMAIN h.upd
           /\ rows'[e].val[f] = h.upd[f]]_vars

\* An event about a change shows the row as some commit left it, at the change
\* it announces or later: never a state that was rolled back or is older.
EventsAreCommitted ==
  \A t \in outbox :
    \E v \in DOMAIN past[t.event.ent] :
      v >= t.event.since /\ past[t.event.ent][v] = t.event.val

\* individual.py, list: "Returns a paginated list of Individual resources".  One
\* row that cannot be converted fails every page it is on.
ListAnswers == \A e \in Individuals : Live(e) => Convertible(rows[e].val)
=============================================================================
