---------------------------- MODULE EventHubProofs ----------------------------
(***************************************************************************)
(* Proofs about EventHub, for any replicas, subscribers, event types,      *)
(* queries, pool size and bounds.                                          *)
(***************************************************************************)
EXTENDS EventHub, FiniteSetTheorems, TLAPS

-----------------------------------------------------------------------------
(* The inductive invariant *)

\* Who may and must still be sent event e by a task that has `left` to go.
ToSend(e, left) ==
  /\ left \subseteq Matching(announced[e].type) \ (announced[e].gone \cup posted[e])
  /\ announced[e].owed \cap Active \subseteq posted[e] \cup left

\* Events are numbered; subscribers come, go, and do not come back; who was sent
\* an event asked for its type and was not gone.
EventsInv ==
  /\ \E n \in 0 .. MaxEvents : Events = 1 .. n
  /\ announced \in [Events -> [type : EventTypes, owed : SUBSET Subscribers,
                               gone : SUBSET Subscribers]]
  /\ \A e \in Events :
       /\ announced[e].owed \subseteq Matching(announced[e].type)
       /\ \A s \in announced[e].owed : subscriptions[s] # "none"
       /\ \A s \in announced[e].gone : subscriptions[s] = "inactive"
       /\ posted[e] \subseteq Matching(announced[e].type) \ announced[e].gone
       /\ ended[e] = "done" => announced[e].owed \cap Active \subseteq posted[e]
  /\ \A e \in (1 .. MaxEvents) \ Events : posted[e] = {} /\ ended[e] = "no"

\* A task that posts has everybody to come in what it has left, and nobody twice.
TasksInv ==
  /\ IsFiniteSet(tasks)
  /\ \A t \in tasks :
       /\ t.event \in Events /\ ended[t.event] = "no"
       /\ t.stage = "waiting" => posted[t.event] = {}
       /\ t.stage = "posting" => ToSend(t.event, t.left)

\* A POST was sent, and arrives once.
WireInv ==
  /\ \A m \in wire : m[2] \in posted[m[1]] /\ received[m[2]][m[1]] = 0
  /\ \A s \in Subscribers, e \in 1 .. MaxEvents :
       /\ received[s][e] <= 1
       /\ received[s][e] > 0 => s \in posted[e]

HubInv == TypeOK /\ EventsInv /\ TasksInv /\ WireInv

-----------------------------------------------------------------------------
(* The pool of connections *)

InUse(r) == {t \in tasks : t.at = r /\ t.stage = "posting"}

\* Fewer tasks take no more connections.
LEMMA FewerInUse ==
  ASSUME TypeOK, IsFiniteSet(tasks), tasks' \subseteq tasks
  PROVE  /\ IsFiniteSet(tasks')
         /\ \A r \in Replicas : Cardinality(InUse(r)') <= PoolSize
<1>1. IsFiniteSet(tasks')
  BY FS_Subset
<1>2. ASSUME NEW r \in Replicas PROVE Cardinality(InUse(r)') <= PoolSize
  <2>1. InUse(r)' \subseteq InUse(r) /\ InUse(r) \subseteq tasks
    BY DEF InUse
  <2>2. IsFiniteSet(InUse(r))
    BY <2>1, FS_Subset
  <2>3. IsFiniteSet(InUse(r)') /\ Cardinality(InUse(r)') <= Cardinality(InUse(r))
    BY <2>1, <2>2, FS_Subset
  <2>4. Cardinality(InUse(r)) <= PoolSize
    BY DEF TypeOK, InUse
  <2> QED
    BY <2>2, <2>3, <2>4, FS_CardinalityType, HubAssumption
<1> QED
  BY <1>1, <1>2

\* A task that posts takes a connection it has already, or one that is free.
LEMMA OneMoreInUse ==
  ASSUME TypeOK, IsFiniteSet(tasks), NEW t \in tasks, NEW u, u.at = t.at,
         tasks' = (tasks \ {t}) \cup {u},
         t.stage = "posting" \/ FreeConnection(t.at)
  PROVE  /\ IsFiniteSet(tasks')
         /\ \A r \in Replicas : Cardinality(InUse(r)') <= PoolSize
<1>1. IsFiniteSet(tasks')
  BY FS_RemoveElement, FS_AddElement
<1>2. ASSUME NEW r \in Replicas PROVE Cardinality(InUse(r)') <= PoolSize
  <2>1. InUse(r) \subseteq tasks /\ IsFiniteSet(InUse(r))
    BY FS_Subset DEF InUse
  <2>2. Cardinality(InUse(r)) <= PoolSize /\ Cardinality(InUse(r)) \in Nat
    BY <2>1, FS_CardinalityType DEF TypeOK, InUse
  <2>3. CASE r # t.at
    <3>1. InUse(r)' \subseteq InUse(r)
      BY <2>3 DEF InUse
    <3>2. IsFiniteSet(InUse(r)') /\ Cardinality(InUse(r)') <= Cardinality(InUse(r))
      BY <2>1, <3>1, FS_Subset
    <3> QED
      BY <2>2, <3>2, FS_CardinalityType, HubAssumption
  <2>4. CASE r = t.at
    <3> DEFINE rest == InUse(r) \ {t}
    <3>1. InUse(r)' \subseteq rest \cup {u}
      BY DEF InUse
    <3>2. IsFiniteSet(rest) /\ Cardinality(rest) \in Nat
      BY <2>1, FS_RemoveElement, FS_CardinalityType
    <3>3. Cardinality(rest) < PoolSize
      <4>1. CASE t \in InUse(r)
        <5>1. Cardinality(rest) = Cardinality(InUse(r)) - 1
          BY <2>1, <4>1, FS_RemoveElement
        <5> HIDE DEF rest
        <5> QED
          BY <2>2, <5>1, HubAssumption
      <4>2. CASE t \notin InUse(r)
        <5>1. FreeConnection(r)
          BY <2>4, <4>2 DEF InUse
        <5>2. Cardinality(InUse(r)) < PoolSize
          BY <5>1 DEF InUse, FreeConnection
        <5>3. rest = InUse(r)
          BY <4>2
        <5> QED
          BY <5>2, <5>3
      <4> QED
        BY <4>1, <4>2
    <3>4. /\ IsFiniteSet(rest \cup {u})
          /\ Cardinality(rest \cup {u}) \in Nat
          /\ Cardinality(rest \cup {u}) <= Cardinality(rest) + 1
      <4>1. CASE u \in rest
        <5>1. rest \cup {u} = rest
          BY <4>1
        <5> HIDE DEF rest
        <5> QED
          BY <3>2, <5>1
      <4>2. CASE u \notin rest
        <5> HIDE DEF rest
        <5> QED
          BY <3>2, <4>2, FS_AddElement
      <4> QED
        BY <4>1, <4>2
    <3>5. IsFiniteSet(InUse(r)')
             /\ Cardinality(InUse(r)') <= Cardinality(rest \cup {u})
      BY <3>1, <3>4, FS_Subset
    <3> HIDE DEF rest
    <3>6. Cardinality(InUse(r)') \in Nat
      BY <3>5, FS_CardinalityType
    <3> QED
      BY <3>2, <3>3, <3>4, <3>5, <3>6, HubAssumption
  <2> QED
    BY <2>3, <2>4
<1> QED
  BY <1>1, <1>2

-----------------------------------------------------------------------------
(* Delivery *)

\* The end of a task, in order when there is nobody left.
LEMMA EndInv ==
  ASSUME HubInv, NEW t \in tasks, NEW how \in {"done", "lost"}, End(t, how),
         how = "done" => ToSend(t.event, {}),
         UNCHANGED << subscriptions, announced, received, crashes, refused >>
  PROVE  HubInv'
<1>0. /\ TypeOK /\ EventsInv /\ TasksInv /\ WireInv
      /\ t \in Tasks /\ t.event \in 1 .. MaxEvents /\ t.event \in Events
  BY DEF HubInv, TypeOK, Tasks, TasksInv
<1>1. /\ tasks' = tasks \ {t} /\ tasks' \subseteq tasks
      /\ ended' = [ended EXCEPT ![t.event] = how]
      /\ UNCHANGED << subscriptions, wire, announced, received, posted,
                      crashes, refused >>
      /\ Events' = Events /\ Active' = Active
  BY DEF End, Events, Active
<1>2. TypeOK'
  <2>1. \A r \in Replicas : Cardinality(InUse(r)') <= PoolSize
    BY <1>0, <1>1, FewerInUse DEF TasksInv
  <2>2. ended' \in [1 .. MaxEvents -> {"no", "done", "lost"}]
    BY <1>0, <1>1 DEF TypeOK
  <2> QED
    BY <1>0, <1>1, <2>1, <2>2 DEF TypeOK, InUse
<1>3. EventsInv'
  BY <1>0, <1>1 DEF EventsInv, ToSend, TypeOK, Matching
<1>4. TasksInv'
  <2>1. \A u \in tasks' : u.event # t.event
    BY <1>0, <1>1 DEF TypeOK
  <2>2. \A u \in tasks' : u.event \in Events /\ u.event \in 1 .. MaxEvents
    BY <1>0, <1>1 DEF TasksInv, TypeOK, Tasks
  <2>3. IsFiniteSet(tasks')
    BY <1>0, <1>1, FewerInUse DEF TasksInv
  <2> QED
    BY <1>0, <1>1, <2>1, <2>2, <2>3 DEF TasksInv, ToSend, TypeOK, Matching
<1>5. WireInv'
  BY <1>0, <1>1 DEF WireInv
<1> QED
  BY <1>2, <1>3, <1>4, <1>5 DEF HubInv

\* The POST to the next subscriber of what a task has left.
LEMMA PostInv ==
  ASSUME HubInv, NEW t \in tasks, NEW left, ToSend(t.event, left),
         NEW s \in left,
         tasks' = (tasks \ {t}) \cup
           {[t EXCEPT !.stage = "posting", !.to = {s}, !.left = left \ {s}]},
         wire' = wire \cup {<< t.event, s >>},
         posted' = [posted EXCEPT ![t.event] = posted[t.event] \cup {s}],
         ended' = ended,
         t.stage = "posting" \/ FreeConnection(t.at),
         UNCHANGED << subscriptions, announced, received, crashes, refused >>
  PROVE  HubInv'
<1> DEFINE u == [t EXCEPT !.stage = "posting", !.to = {s}, !.left = left \ {s}]
<1>0. /\ TypeOK /\ EventsInv /\ TasksInv /\ WireInv
      /\ t \in Tasks /\ t.event \in 1 .. MaxEvents /\ t.event \in Events
      /\ left \subseteq Subscribers /\ s \in Subscribers
  BY DEF HubInv, TypeOK, Tasks, TasksInv, ToSend, Matching
<1>1. /\ u \in Tasks /\ u.at = t.at /\ u.event = t.event
      /\ u.stage = "posting" /\ u.left = left \ {s}
  BY <1>0 DEF Tasks
<1>2. Events' = Events /\ Active' = Active
  BY DEF Events, Active
<1>3. tasks' = (tasks \ {t}) \cup {u}
  OBVIOUS
<1> HIDE DEF u
<1>4. \A v \in tasks' : v = u \/ (v \in tasks /\ v.event # t.event)
  BY <1>0, <1>3 DEF TypeOK
<1>5. posted' \in [1 .. MaxEvents -> SUBSET Subscribers]
  BY <1>0 DEF TypeOK
<1>6. TypeOK'
  <2>1. \A r \in Replicas : Cardinality(InUse(r)') <= PoolSize
    BY <1>0, <1>1, <1>3, OneMoreInUse DEF TasksInv
  <2>2. tasks' \subseteq Tasks
    BY <1>0, <1>1, <1>3 DEF TypeOK
  <2>3. \A v, w \in tasks' : v.event = w.event => v = w
    BY <1>0, <1>1, <1>4 DEF TypeOK
  <2>4. wire' \subseteq (1 .. MaxEvents) \X Subscribers
    BY <1>0 DEF TypeOK
  <2> QED
    BY <1>0, <1>2, <1>5, <2>1, <2>2, <2>3, <2>4 DEF TypeOK, InUse
<1>7. /\ posted'[t.event] = posted[t.event] \cup {s}
      /\ \A e \in 1 .. MaxEvents : e # t.event => posted'[e] = posted[e]
  BY <1>0 DEF TypeOK
<1>8. EventsInv'
  <2>1. Events \subseteq 1 .. MaxEvents
    <3>1. PICK n \in 0 .. MaxEvents : Events = 1 .. n
      BY <1>0 DEF EventsInv
    <3> QED
      BY <3>1, HubAssumption
  <2>2. \A e \in Events :
          posted'[e] \subseteq Matching(announced[e].type) \ announced[e].gone
    BY <1>0, <1>7, <2>1 DEF EventsInv, ToSend
  <2>3. \A e \in Events : posted[e] \subseteq posted'[e]
    BY <1>7, <2>1
  <2>4. \A e \in (1 .. MaxEvents) \ Events : posted'[e] = {}
    BY <1>0, <1>7 DEF EventsInv
  <2> QED
    BY <1>0, <1>2, <2>2, <2>3, <2>4 DEF EventsInv, Matching
<1>9. TasksInv'
  <2>1. ASSUME NEW v \in tasks', v # u
        PROVE  /\ v.event \in Events /\ ended[v.event] = "no"
               /\ v.stage = "waiting" => posted'[v.event] = {}
               /\ v.stage = "posting" => ToSend(v.event, v.left)'
    <3>1. v \in tasks /\ v.event # t.event /\ v.event \in 1 .. MaxEvents
      BY <1>0, <1>4, <2>1 DEF TypeOK, Tasks
    <3>2. posted'[v.event] = posted[v.event]
      BY <1>7, <3>1
    <3> QED
      BY <1>0, <1>2, <3>1, <3>2 DEF TasksInv, ToSend, Matching
  <2>2. ToSend(t.event, left \ {s})'
    BY <1>0, <1>2, <1>7 DEF ToSend, Matching
  <2>3. IsFiniteSet(tasks')
    BY <1>0, <1>1, <1>3, OneMoreInUse DEF TasksInv
  <2>4. ended[t.event] = "no"
    BY <1>0 DEF TasksInv
  <2> QED
    BY <1>0, <1>1, <1>2, <2>1, <2>2, <2>3, <2>4 DEF TasksInv
<1>10. WireInv'
  <2>1. s \notin posted[t.event] /\ received[s][t.event] = 0
    <3>1. s \notin posted[t.event]
      BY DEF ToSend
    <3>2. received[s][t.event] \in Nat
      <4>1. received \in [Subscribers -> [1 .. MaxEvents -> Nat]]
        BY <1>0 DEF TypeOK
      <4> QED
        BY <1>0, <4>1
    <3>3. ~(received[s][t.event] > 0)
      BY <1>0, <3>1 DEF WireInv
    <3> QED
      BY <3>1, <3>2, <3>3
  <2>2. \A m \in wire : m[1] \in 1 .. MaxEvents
    BY <1>0 DEF TypeOK
  <2>3. \A e \in 1 .. MaxEvents : posted[e] \subseteq posted'[e]
    BY <1>7
  <2> QED
    BY <1>0, <1>7, <2>1, <2>2, <2>3 DEF WireInv
<1> QED
  BY <1>6, <1>8, <1>9, <1>10 DEF HubInv

\* A task that starts or goes on: the next subscriber of those it has left, or
\* its end.
LEMMA PostNextInv ==
  ASSUME HubInv, NEW t \in tasks, NEW left, ToSend(t.event, left),
         PostNext(t, left), t.stage = "posting" \/ FreeConnection(t.at),
         UNCHANGED << subscriptions, announced, received, crashes, refused >>
  PROVE  HubInv'
<1>1. CASE left = {} /\ End(t, "done")
  BY <1>1, EndInv
<1>2. ASSUME NEW s \in left,
             tasks' = (tasks \ {t}) \cup
               {[t EXCEPT !.stage = "posting", !.to = {s}, !.left = left \ {s}]},
             wire' = wire \cup {<< t.event, s >>},
             posted' = [posted EXCEPT ![t.event] = @ \cup {s}],
             ended' = ended
      PROVE  HubInv'
  BY <1>2, PostInv
<1> QED
  BY <1>1, <1>2 DEF PostNext

\* What a task sees when it starts is what it has to send: the subscriptions of
\* that moment leave out whoever was gone, and nobody who was owed the event and
\* is still subscribed.
LEMMA BeginInv ==
  ASSUME HubInv, NEW t \in tasks, Begin(t)
  PROVE  HubInv'
<1>1. /\ EventsInv /\ t.event \in Events /\ posted[t.event] = {}
  BY DEF HubInv, TasksInv, Begin
<1>2. ToSend(t.event, Snapshot(announced[t.event].type))
  <2>1. announced[t.event].owed \subseteq Matching(announced[t.event].type)
    BY <1>1 DEF EventsInv
  <2>2. Active \cap announced[t.event].gone = {}
    BY <1>1 DEF EventsInv, Active
  <2> QED
    BY <1>1, <2>1, <2>2 DEF ToSend, Snapshot, EventsInv
<1> QED
  BY <1>2, PostNextInv DEF Begin

-----------------------------------------------------------------------------
(* Requests, the network and crashes *)

\* Subscribing and unsubscribing change who is active, not who came or went.
LEMMA SubscribersInv ==
  ASSUME HubInv, NEW s \in Subscribers,
         \/ subscriptions[s] = "none"
            /\ subscriptions' = [subscriptions EXCEPT ![s] = "active"]
         \/ subscriptions[s] # "none"
            /\ subscriptions' = [subscriptions EXCEPT ![s] = "inactive"],
         UNCHANGED << tasks, wire, announced, received, posted, ended, crashes,
                      refused >>
  PROVE  HubInv'
<1>0. TypeOK /\ EventsInv /\ TasksInv /\ WireInv
  BY DEF HubInv
<1>1. Events' = Events
  BY DEF Events
<1>2. subscriptions' \in [Subscribers -> States]
  BY <1>0 DEF TypeOK, States
<1>3. \A e \in Events : /\ announced[e].owed \subseteq Subscribers
                        /\ announced[e].gone \subseteq Subscribers
  BY <1>0 DEF EventsInv
<1>4. \A e \in Events : announced[e].owed \cap Active' \subseteq Active
  BY <1>0, <1>3 DEF EventsInv, Active, TypeOK
<1>5. TypeOK'
  BY <1>0, <1>1, <1>2 DEF TypeOK
<1>6. EventsInv'
  BY <1>0, <1>1, <1>3, <1>4 DEF EventsInv, TypeOK, Matching
<1>7. TasksInv'
  BY <1>0, <1>1, <1>4 DEF TasksInv, ToSend, Matching
<1>8. WireInv'
  BY <1>0 DEF WireInv
<1> QED
  BY <1>5, <1>6, <1>7, <1>8 DEF HubInv

\* A change gets the next number, which nothing has heard of yet.
LEMMA AnnounceInv ==
  ASSUME HubInv, NEW r \in Replicas, NEW type \in EventTypes, Announce(r, type)
  PROVE  HubInv'
<1>0. TypeOK /\ EventsInv /\ TasksInv /\ WireInv
  BY DEF HubInv
<1>1. PICK n \in 0 .. MaxEvents : Events = 1 .. n
  BY <1>0 DEF EventsInv
<1>2. Cardinality(Events) = n /\ n \in Nat
  BY <1>1, FS_Interval, HubAssumption
<1> PICK e \in Nat : e = n + 1
  BY <1>2
<1> DEFINE entry == [type |-> type, owed |-> Active \cap Matching(type),
                     gone |-> {s \in Subscribers : subscriptions[s] = "inactive"}]
           task == Waiting(e, r)
<1>3. /\ e \in 1 .. MaxEvents /\ e \notin Events
      /\ Events \cup {e} = 1 .. e /\ e \in 0 .. MaxEvents
  BY <1>1, <1>2, HubAssumption DEF Announce
<1>4. /\ announced' = [x \in Events \cup {e} |->
                        IF x = e THEN entry ELSE announced[x]]
      /\ tasks' = tasks \cup {task}
      /\ UNCHANGED << subscriptions, wire, received, posted, ended, crashes,
                      refused >>
  BY <1>2 DEF Announce
<1>5. Events' = Events \cup {e} /\ Active' = Active
  BY <1>4 DEF Events, Active
<1>6. /\ task \in Tasks /\ task.event = e /\ task.at = r
      /\ task.stage = "waiting"
  BY <1>3 DEF Waiting, Tasks
<1>7. /\ entry.type = type /\ entry.owed = Active \cap Matching(type)
      /\ entry.gone = {s \in Subscribers : subscriptions[s] = "inactive"}
      /\ entry \in [type : EventTypes, owed : SUBSET Subscribers,
                    gone : SUBSET Subscribers]
  BY DEF Active
<1> HIDE DEF entry, task
<1>8. /\ announced'[e] = entry
      /\ \A x \in Events : announced'[x] = announced[x]
  BY <1>3, <1>4
<1>9. TypeOK'
  <2>1. Events' = 1 .. Cardinality(Events')
    <3>1. Cardinality(1 .. e) = e
      BY <1>3, FS_Interval
    <3> QED
      BY <1>3, <1>5, <3>1
  <2>2. ASSUME NEW p \in Replicas PROVE Cardinality(InUse(p)') <= PoolSize
    <3>1. InUse(p)' = InUse(p)
      BY <1>4, <1>6 DEF InUse
    <3> QED
      BY <1>0, <3>1 DEF TypeOK, InUse
  <2>3. tasks' \subseteq Tasks
    BY <1>0, <1>4, <1>6 DEF TypeOK
  <2>4. \A t, u \in tasks' : t.event = u.event => t = u
    <3>1. \A t \in tasks : t.event # e
      BY <1>0, <1>3 DEF TasksInv
    <3> QED
      BY <1>0, <1>4, <1>6, <3>1 DEF TypeOK
  <2> QED
    BY <1>0, <1>4, <2>1, <2>2, <2>3, <2>4 DEF TypeOK, InUse
<1>10. EventsInv'
  <2>1. announced' \in [Events' -> [type : EventTypes, owed : SUBSET Subscribers,
                                    gone : SUBSET Subscribers]]
    BY <1>0, <1>4, <1>5, <1>7 DEF EventsInv
  <2>2. posted[e] = {} /\ ended[e] = "no"
    BY <1>0, <1>3 DEF EventsInv
  <2>3. ASSUME NEW x \in Events'
        PROVE  /\ announced'[x].owed \subseteq Matching(announced'[x].type)
               /\ \A s \in announced'[x].owed : subscriptions[s] # "none"
               /\ \A s \in announced'[x].gone : subscriptions[s] = "inactive"
               /\ posted[x] \subseteq
                    Matching(announced'[x].type) \ announced'[x].gone
               /\ ended[x] = "done" =>
                    announced'[x].owed \cap Active \subseteq posted[x]
    <3>1. CASE x \in Events
      BY <1>0, <1>8, <3>1 DEF EventsInv
    <3>2. CASE x = e
      BY <1>7, <1>8, <2>2, <3>2 DEF Active
    <3> QED
      BY <1>5, <2>3, <3>1, <3>2
  <2>4. \A x \in (1 .. MaxEvents) \ Events' : posted[x] = {} /\ ended[x] = "no"
    BY <1>0, <1>5 DEF EventsInv
  <2>5. \E k \in 0 .. MaxEvents : Events' = 1 .. k
    BY <1>3, <1>5
  <2>6. subscriptions' = subscriptions /\ posted' = posted /\ ended' = ended
    BY <1>4
  <2> QED
    BY <1>5, <2>1, <2>3, <2>4, <2>5, <2>6 DEF EventsInv
<1>11. TasksInv'
  <2>1. IsFiniteSet(tasks')
    BY <1>0, <1>4, FS_AddElement DEF TasksInv
  <2>2. posted[e] = {} /\ ended[e] = "no"
    BY <1>0, <1>3 DEF EventsInv
  <2>3. ASSUME NEW t \in tasks
        PROVE  /\ t.event \in Events /\ ended[t.event] = "no"
               /\ t.stage = "waiting" => posted[t.event] = {}
               /\ t.stage = "posting" => ToSend(t.event, t.left)'
    BY <1>0, <1>4, <1>5, <1>8 DEF TasksInv, ToSend, Matching
  <2> QED
    BY <1>4, <1>5, <1>6, <2>1, <2>2, <2>3 DEF TasksInv
<1>12. WireInv'
  BY <1>0, <1>4 DEF WireInv
<1> QED
  BY <1>9, <1>10, <1>11, <1>12 DEF HubInv

\* A POST arrives once.
LEMMA ReceiveInv ==
  ASSUME HubInv, NEW m \in wire, Receive(m[1], m[2])
  PROVE  HubInv'
<1>0. TypeOK /\ EventsInv /\ TasksInv /\ WireInv
  BY DEF HubInv
<1> PICK e \in 1 .. MaxEvents, s \in Subscribers : m = << e, s >>
  BY <1>0 DEF TypeOK
<1>1. /\ << e, s >> \in wire /\ wire' = wire \ {<< e, s >>}
      /\ received' = [received EXCEPT ![s][e] = received[s][e] + 1]
      /\ UNCHANGED << subscriptions, tasks, announced, posted, ended, crashes,
                      refused >>
  BY DEF Receive
<1>2. received \in [Subscribers -> [1 .. MaxEvents -> Nat]]
  BY <1>0 DEF TypeOK
<1>3. received[s][e] = 0 /\ s \in posted[e]
  BY <1>0, <1>1 DEF WireInv
<1>4. /\ received' \in [Subscribers -> [1 .. MaxEvents -> Nat]]
      /\ received'[s][e] = 1
      /\ \A p \in Subscribers, x \in 1 .. MaxEvents :
           p # s \/ x # e => received'[p][x] = received[p][x]
  <2>1. received[s] \in [1 .. MaxEvents -> Nat]
    BY <1>2
  <2> DEFINE row == [received[s] EXCEPT ![e] = 1]
  <2>2. /\ row \in [1 .. MaxEvents -> Nat] /\ row[e] = 1
        /\ \A x \in 1 .. MaxEvents : x # e => row[x] = received[s][x]
    BY <2>1
  <2>3. received' = [received EXCEPT ![s] = row]
    <3>1. received[s][e] + 1 = 1
      BY <1>3
    <3> QED
      BY <1>1, <3>1
  <2> HIDE DEF row
  <2> QED
    BY <1>2, <2>2, <2>3
<1>5. Events' = Events /\ Active' = Active
  BY <1>1 DEF Events, Active
<1>6. TypeOK'
  BY <1>0, <1>1, <1>4, <1>5 DEF TypeOK
<1>7. EventsInv'
  BY <1>0, <1>1, <1>5 DEF EventsInv, Matching
<1>8. TasksInv'
  BY <1>0, <1>1, <1>5 DEF TasksInv, ToSend, Matching
<1>9. WireInv'
  <2>1. ASSUME NEW o \in wire'
        PROVE  o[2] \in posted'[o[1]] /\ received'[o[2]][o[1]] = 0
    <3>1. o \in wire /\ o # << e, s >> /\ o \in (1 .. MaxEvents) \X Subscribers
      BY <1>0, <1>1 DEF TypeOK
    <3>2. o[2] # s \/ o[1] # e
      BY <3>1
    <3> QED
      BY <1>0, <1>1, <1>4, <3>1, <3>2 DEF WireInv
  <2>2. \A p \in Subscribers, x \in 1 .. MaxEvents :
          /\ received'[p][x] <= 1
          /\ received'[p][x] > 0 => p \in posted'[x]
    BY <1>0, <1>1, <1>3, <1>4 DEF WireInv
  <2> QED
    BY <2>1, <2>2 DEF WireInv
<1> QED
  BY <1>6, <1>7, <1>8, <1>9 DEF HubInv

\* With its replica, a task is lost; what it sent may still arrive.
LEMMA CrashInv ==
  ASSUME HubInv, NEW r \in Replicas, Crash(r)
  PROVE  HubInv'
<1>0. TypeOK /\ EventsInv /\ TasksInv /\ WireInv
  BY DEF HubInv
<1> DEFINE lost(e) == \E t \in tasks : t.at = r /\ t.event = e
<1>1. /\ tasks' = {t \in tasks : t.at # r} /\ tasks' \subseteq tasks
      /\ ended' = [e \in 1 .. MaxEvents |->
                    IF lost(e) THEN "lost" ELSE ended[e]]
      /\ UNCHANGED << subscriptions, wire, announced, received, posted, refused >>
      /\ Events' = Events /\ Active' = Active
      /\ crashes' \in 0 .. MaxCrashes
  BY <1>0, HubAssumption DEF Crash, Events, Active, TypeOK
<1>2. \A t \in tasks : t.event \in Events /\ t.event \in 1 .. MaxEvents
  BY <1>0 DEF TasksInv, TypeOK, Tasks
<1>3. \A t \in tasks' : ~lost(t.event)
  BY <1>0, <1>1 DEF TypeOK
<1>4. \A e \in (1 .. MaxEvents) \ Events : ~lost(e)
  BY <1>2
<1>5. Events \subseteq 1 .. MaxEvents
  <2>1. PICK n \in 0 .. MaxEvents : Events = 1 .. n
    BY <1>0 DEF EventsInv
  <2> QED
    BY <2>1, HubAssumption
<1> HIDE DEF lost
<1>6. \A e \in 1 .. MaxEvents : ended'[e] = IF lost(e) THEN "lost" ELSE ended[e]
  BY <1>1
<1>7. TypeOK'
  <2>1. \A p \in Replicas : Cardinality(InUse(p)') <= PoolSize
    BY <1>0, <1>1, FewerInUse DEF TasksInv
  <2>2. ended' \in [1 .. MaxEvents -> {"no", "done", "lost"}]
    BY <1>0, <1>1 DEF TypeOK
  <2> QED
    BY <1>0, <1>1, <2>1, <2>2 DEF TypeOK, InUse
<1>8. EventsInv'
  BY <1>0, <1>1, <1>4, <1>5, <1>6 DEF EventsInv, Matching
<1>9. TasksInv'
  <2>1. IsFiniteSet(tasks')
    BY <1>0, <1>1, FewerInUse DEF TasksInv
  <2> QED
    BY <1>0, <1>1, <1>2, <1>3, <1>6, <2>1 DEF TasksInv, ToSend, Matching
<1>10. WireInv'
  BY <1>0, <1>1 DEF WireInv
<1> QED
  BY <1>7, <1>8, <1>9, <1>10 DEF HubInv

-----------------------------------------------------------------------------
(* The invariant and what it implies *)

LEMMA InitInv == Init => HubInv
<1> SUFFICES ASSUME Init PROVE HubInv
  OBVIOUS
<1>1. Events = {} /\ Events = 1 .. 0 /\ Cardinality(Events) = 0
  BY FS_EmptySet DEF Init, Events
<1>2. TypeOK
  <2>1. \A r \in Replicas : InUse(r) = {}
    BY DEF Init, InUse
  <2>2. \A r \in Replicas : Cardinality(InUse(r)) <= PoolSize
    BY <2>1, FS_EmptySet, HubAssumption
  <2> QED
    BY <1>1, <2>2, HubAssumption DEF Init, TypeOK, States, InUse
<1>3. EventsInv
  <2>1. announced \in [Events -> [type : EventTypes, owed : SUBSET Subscribers,
                                  gone : SUBSET Subscribers]]
    BY <1>1 DEF Init, Events
  <2>2. \E n \in 0 .. MaxEvents : Events = 1 .. n
    BY <1>1, HubAssumption
  <2> QED
    BY <1>1, <2>1, <2>2 DEF Init, EventsInv
<1>4. TasksInv
  BY FS_EmptySet DEF Init, TasksInv
<1>5. WireInv
  BY DEF Init, WireInv
<1> QED
  BY <1>2, <1>3, <1>4, <1>5 DEF HubInv

\* Every step of the hub keeps the invariant.
LEMMA StepInv == HubInv /\ [Next]_vars => HubInv'
<1> SUFFICES ASSUME HubInv, [Next]_vars PROVE HubInv'
  OBVIOUS
<1>0. TypeOK /\ EventsInv /\ TasksInv /\ WireInv
  BY DEF HubInv
<1>1. ASSUME NEW r \in Replicas, RequestNext(r) PROVE HubInv'
  <2>1. ASSUME NEW s \in Subscribers, Subscribe(r, s) \/ Unsubscribe(r, s)
        PROVE  HubInv'
    BY <2>1, SubscribersInv DEF Subscribe, Unsubscribe
  <2>2. ASSUME Refuse(r) PROVE HubInv'
    <3>1. Events' = Events /\ Active' = Active /\ refused' \in 0 .. MaxRefusals
      BY <1>0, <2>2, HubAssumption DEF Refuse, Events, Active, TypeOK
    <3> QED
      BY <1>0, <2>2, <3>1
      DEF Refuse, HubInv, TypeOK, EventsInv, TasksInv, WireInv, ToSend, Matching
  <2> QED
    BY <1>1, <2>1, <2>2, AnnounceInv DEF RequestNext
<1>2. ASSUME NEW t \in tasks, TaskStep(t) PROVE HubInv'
  <2>1. ASSUME BeginStarved(t) PROVE HubInv'
    BY <2>1, EndInv DEF BeginStarved
  <2>2. ASSUME Answered(t) \/ Failed(t) PROVE HubInv'
    <3>1. t.stage = "posting" /\ ToSend(t.event, t.left)
      BY <1>0, <2>2 DEF TasksInv, Answered, Failed
    <3> QED
      BY <2>2, <3>1, PostNextInv DEF Answered, Failed
  <2> QED
    BY <1>2, <2>1, <2>2, BeginInv DEF TaskStep
<1>3. ASSUME UNCHANGED vars PROVE HubInv'
  BY <1>0, <1>3
  DEF vars, HubInv, TypeOK, EventsInv, TasksInv, WireInv, ToSend, Matching,
      Events, Active
<1> QED
  BY <1>1, <1>2, <1>3, CrashInv, ReceiveInv DEF Next

\* HubInv holds always: of the requests, the hubs' queues and the subscriptions.
THEOREM HubInvariant == Spec => []HubInv
<1> QED
  BY InitInv, StepInv, PTL DEF Spec

\* The rows, tasks and histories are well typed, an event has one task, and no
\* replica holds more connections than its pool has.
THEOREM HubTypeCorrect == Spec => []TypeOK
<1>1. HubInv => TypeOK
  BY DEF HubInv
<1> QED
  BY <1>1, HubInvariant, PTL

\* No subscriber gets an event twice, whatever was late, lost or crashed
\* (publish_event tries nothing again).
THEOREM EventsReceivedOnce == Spec => []ReceivedOnce
<1>1. HubInv => ReceivedOnce
  BY DEF HubInv, WireInv, ReceivedOnce
<1> QED
  BY <1>1, HubInvariant, PTL

\* Whoever gets an event asked for its type and had not unsubscribed when the
\* change was announced (the filters of publish_event).
THEOREM SubscribersOnly == Spec => []OnlySubscribersReceive
<1>1. HubInv => OnlySubscribersReceive
  <2> SUFFICES ASSUME HubInv, NEW s \in Subscribers, NEW e \in Events,
                      received[s][e] > 0
               PROVE  s \in Matching(announced[e].type) \ announced[e].gone
    BY DEF OnlySubscribersReceive
  <2>1. e \in 1 .. MaxEvents
    <3>1. PICK n \in 0 .. MaxEvents : Events = 1 .. n
      BY DEF HubInv, EventsInv
    <3> QED
      BY <3>1, HubAssumption
  <2>2. s \in posted[e]
    BY <2>1 DEF HubInv, WireInv
  <2> QED
    BY <2>2 DEF HubInv, EventsInv
<1> QED
  BY <1>1, HubInvariant, PTL

\* A task that has come to its end has sent the event to everybody who was
\* subscribed from the announcement on (the loop of publish_event, which goes
\* on after a failure).
THEOREM EverybodyServed == Spec => []NobodySkipped
<1>1. HubInv => NobodySkipped
  BY DEF HubInv, EventsInv, NobodySkipped
<1> QED
  BY <1>1, HubInvariant, PTL
=============================================================================
