------------------------------- MODULE EventHub -------------------------------
(***************************************************************************)
(* The party service's TMF688 event hub: subscriptions (routers/hub.py),   *)
(* the background tasks that handlers leave behind after their commit, and *)
(* the delivery of an event to one subscriber after the other              *)
(* (core/events.py), by replicas that share the database.                  *)
(*                                                                         *)
(* Handlers are coroutines without an await over blocking database calls,  *)
(* so each is one step of its replica's event loop.  publish_event awaits  *)
(* each POST, and anything may happen in between.  Its session, reopened   *)
(* after the request has closed it, keeps a pooled connection until the    *)
(* task ends.  A query that finds the pool empty blocks the event loop,    *)
(* hence every task that could release a connection, until it fails.       *)
(***************************************************************************)
EXTENDS Naturals, FiniteSets

CONSTANTS
  Replicas,    \* party-service pods
  Subscribers, \* the subscriptions that may be made
  EventTypes,
  Wants,       \* the types that the query of each subscription lets through
  PoolSize,    \* pool_size + max_overflow of the engine
  MaxEvents,   \* bound: changes announced
  MaxCrashes,  \* bound: crashes of replicas
  MaxRefusals  \* bound: requests that fail for want of a connection

ASSUME HubAssumption ==
  /\ Wants \in [Subscribers -> SUBSET EventTypes]
  /\ PoolSize \in Nat \ {0}
  /\ MaxEvents \in Nat /\ MaxCrashes \in Nat /\ MaxRefusals \in Nat

VARIABLES
  subscriptions, \* hub_subscriptions: none yet, active or not
  tasks,         \* the background tasks, waiting or with a POST in progress
  wire,          \* the POSTs on their way to a subscriber
  announced,     \* history: for each event the type and who was to get it
  received,      \* history: how often each subscriber got each event
  posted,        \* history: who each event was sent to
  ended,         \* history: how the task of each event ended
  crashes,       \* the number of crashes so far
  refused        \* the number of requests that failed for want of a connection

vars == << subscriptions, tasks, wire, announced, received, posted, ended,
           crashes, refused >>

-----------------------------------------------------------------------------
(* Values *)

States == {"none", "active", "inactive"}
Active == {s \in Subscribers : subscriptions[s] = "active"}

\* `if sub.query and event_type not in sub.query: continue`
Matching(type) == {s \in Subscribers : type \in Wants[s]}

Events == DOMAIN announced

\* A task waits, or awaits the answer of `to` with the rest of its snapshot left.
Waiting(e, r) == [event |-> e, at |-> r, stage |-> "waiting", to |-> {}, left |-> {}]
Tasks == [event : 1 .. MaxEvents, at : Replicas, stage : {"waiting", "posting"},
          to : SUBSET Subscribers, left : SUBSET Subscribers]

\* Mutant of FreeConnection: the pool is not limited.
FreeConnectionAlways(r) == TRUE

\* A connection is to be had: those of the replica's posting tasks are taken,
\* whereas a request gives its own back when it is answered.
FreeConnection(r) ==
  Cardinality({t \in tasks : t.at = r /\ t.stage = "posting"}) < PoolSize

Init ==
  /\ subscriptions = [s \in Subscribers |-> "none"]
  /\ tasks = {}
  /\ wire = {}
  /\ announced = << >>
  /\ received = [s \in Subscribers |-> [e \in 1 .. MaxEvents |-> 0]]
  /\ posted = [e \in 1 .. MaxEvents |-> {}]
  /\ ended = [e \in 1 .. MaxEvents |-> "no"]
  /\ crashes = 0
  /\ refused = 0

-----------------------------------------------------------------------------
(* Requests *)

\* POST /hub
Subscribe(r, s) ==
  /\ FreeConnection(r)
  /\ subscriptions[s] = "none"
  /\ subscriptions' = [subscriptions EXCEPT ![s] = "active"]
  /\ UNCHANGED << tasks, wire, announced, received, posted, ended, crashes,
                  refused >>

\* DELETE /hub/:id, for any subscription there is a row of
Unsubscribe(r, s) ==
  /\ FreeConnection(r)
  /\ subscriptions[s] # "none"
  /\ subscriptions' = [subscriptions EXCEPT ![s] = "inactive"]
  /\ UNCHANGED << tasks, wire, announced, received, posted, ended, crashes,
                  refused >>

\* A create, PATCH or DELETE of a record, committed and answered: the event is
\* left to a background task.
Announce(r, type) ==
  LET e == Cardinality(Events) + 1 IN
  /\ FreeConnection(r)
  /\ e <= MaxEvents
  /\ announced' = [x \in Events \cup {e} |->
       IF x = e THEN [type |-> type, owed |-> Active \cap Matching(type),
                      gone |-> {s \in Subscribers : subscriptions[s] = "inactive"}]
       ELSE announced[x]]
  /\ tasks' = tasks \cup {Waiting(e, r)}
  /\ UNCHANGED << subscriptions, wire, received, posted, ended, crashes, refused >>

\* Any request, when the pool is empty: the query waits, and with it the event
\* loop, until it raises after pool_timeout.  The request is answered with 500.
Refuse(r) ==
  /\ ~FreeConnection(r)
  /\ refused < MaxRefusals
  /\ refused' = refused + 1
  /\ UNCHANGED << subscriptions, tasks, wire, announced, received, posted,
                  ended, crashes >>

-----------------------------------------------------------------------------
(* publish_event *)

End(t, how) ==
  /\ tasks' = tasks \ {t}
  /\ ended' = [ended EXCEPT ![t.event] = how]
  /\ UNCHANGED << wire, posted >>

\* The next of the snapshot, in the order the database gave, or the end.
PostNext(t, left) ==
  \/ /\ left = {}
     /\ End(t, "done")
  \/ \E s \in left :
       /\ tasks' = (tasks \ {t}) \cup
            {[t EXCEPT !.stage = "posting", !.to = {s}, !.left = left \ {s}]}
       /\ wire' = wire \cup {<< t.event, s >>}
       /\ posted' = [posted EXCEPT ![t.event] = @ \cup {s}]
       /\ UNCHANGED ended

\* Mutant of Snapshot: the filter on active is forgotten.
SnapshotOfAll(type) ==
  {s \in Subscribers : subscriptions[s] # "none"} \cap Matching(type)

\* The subscriptions that are active now and let the type through.
Snapshot(type) == Active \cap Matching(type)

\* The task starts: SELECT, and the POST to the first subscriber.
Begin(t) ==
  /\ t.stage = "waiting"
  /\ FreeConnection(t.at)
  /\ PostNext(t, Snapshot(announced[t.event].type))
  /\ UNCHANGED << subscriptions, announced, received, crashes, refused >>

\* The task starts with the pool empty: its SELECT raises, outside of any try.
BeginStarved(t) ==
  /\ t.stage = "waiting"
  /\ ~FreeConnection(t.at)
  /\ End(t, "lost")
  /\ UNCHANGED << subscriptions, announced, received, crashes, refused >>

\* An answer, whatever its status: the next one.
Answered(t) ==
  /\ t.stage = "posting"
  /\ \A s \in t.to : << t.event, s >> \notin wire /\ received[s][t.event] > 0
  /\ PostNext(t, t.left)
  /\ UNCHANGED << subscriptions, announced, received, crashes, refused >>

\* Mutants of Failed: the exception ends the loop; the POST is tried again; no
\* timeout.
FailedAborts(t) ==
  /\ t.stage = "posting"
  /\ End(t, "done")
  /\ UNCHANGED << subscriptions, announced, received, crashes, refused >>
FailedRetries(t) ==
  /\ t.stage = "posting"
  /\ PostNext(t, t.left \cup t.to)
  /\ UNCHANGED << subscriptions, announced, received, crashes, refused >>
FailedNever(t) == t.stage = "none" /\ UNCHANGED vars

\* No connection, or no answer in 5 s: logged, and the next one.  The POST may
\* still arrive.
Failed(t) ==
  /\ t.stage = "posting"
  /\ PostNext(t, t.left)
  /\ UNCHANGED << subscriptions, announced, received, crashes, refused >>

-----------------------------------------------------------------------------
(* The network, and crashes *)

\* A POST arrives; a lost one stays in wire for ever.
Receive(e, s) ==
  /\ << e, s >> \in wire
  /\ wire' = wire \ {<< e, s >>}
  /\ received' = [received EXCEPT ![s][e] = @ + 1]
  /\ UNCHANGED << subscriptions, tasks, announced, posted, ended, crashes, refused >>

\* A replica dies and is replaced: its tasks are gone, their POSTs may arrive.
Crash(r) ==
  /\ crashes < MaxCrashes
  /\ crashes' = crashes + 1
  /\ tasks' = {t \in tasks : t.at # r}
  /\ ended' = [e \in 1 .. MaxEvents |->
       IF \E t \in tasks : t.at = r /\ t.event = e THEN "lost" ELSE ended[e]]
  /\ UNCHANGED << subscriptions, wire, announced, received, posted, refused >>

RequestNext(r) ==
  \/ \E s \in Subscribers : Subscribe(r, s) \/ Unsubscribe(r, s)
  \/ \E type \in EventTypes : Announce(r, type)
  \/ Refuse(r)

TaskStep(t) == Begin(t) \/ BeginStarved(t) \/ Answered(t) \/ Failed(t)

Next ==
  \/ \E r \in Replicas : RequestNext(r) \/ Crash(r)
  \/ \E t \in tasks : TaskStep(t)
  \/ \E m \in wire : Receive(m[1], m[2])

\* The event loop runs every task that is ready, and the client's timeout makes
\* each of them ready again.
Publication(e) == \E t \in tasks : t.event = e /\ TaskStep(t)
Fairness == \A e \in 1 .. MaxEvents : WF_vars(Publication(e))

Spec == Init /\ [][Next]_vars
FairSpec == Spec /\ Fairness

-----------------------------------------------------------------------------
(* Properties *)

\* The types of the rows, tasks and histories, with one task for an event and
\* no more connections in use than a replica has.
TypeOK ==
  /\ subscriptions \in [Subscribers -> States]
  /\ tasks \subseteq Tasks
  /\ \A t, u \in tasks : t.event = u.event => t = u
  /\ \A r \in Replicas :
       Cardinality({t \in tasks : t.at = r /\ t.stage = "posting"}) <= PoolSize
  /\ wire \subseteq (1 .. MaxEvents) \X Subscribers
  /\ Events = 1 .. Cardinality(Events)
  /\ received \in [Subscribers -> [1 .. MaxEvents -> Nat]]
  /\ posted \in [1 .. MaxEvents -> SUBSET Subscribers]
  /\ ended \in [1 .. MaxEvents -> {"no", "done", "lost"}]
  /\ crashes \in 0 .. MaxCrashes
  /\ refused \in 0 .. MaxRefusals

\* "failures are logged" (events.py) and nothing is tried again: a subscriber
\* gets an event at most once, also when its answer was late or lost and the
\* replica that sent it died.
ReceivedOnce ==
  \A s \in Subscribers, e \in 1 .. MaxEvents : received[s][e] <= 1

\* Whoever gets an event asked for its type and had not unsubscribed when the
\* change was announced, although the task looks at the subscriptions later,
\* and at its own copy of them from then on.
OnlySubscribersReceive ==
  \A s \in Subscribers, e \in Events :
    received[s][e] > 0 =>
      s \in Matching(announced[e].type) /\ s \notin announced[e].gone

\* When a task has come to its end, everybody who was subscribed to the type
\* from the announcement on was sent the event, whatever happened to the POSTs
\* of the others ("Delivered to all hub subscribers via webhook", events.py of
\* the schemas, for replicas that live and find a connection).
NobodySkipped ==
  \A e \in Events :
    ended[e] = "done" => announced[e].owed \cap Active \subseteq posted[e]

\* Subscribers that never answer delay the others for some time only: every
\* task comes to an end, in order or with its replica.
EveryEventSettled ==
  \A e \in 1 .. MaxEvents : e \in Events ~> ended[e] # "no"

\* "Fires-and-forgets - failures are logged but don't affect the caller"
\* (events.py): no request fails because of the deliveries in progress.
CallersUnaffected == refused = 0
=============================================================================
