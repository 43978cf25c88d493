------------------------- MODULE RiskPipelineProofs -------------------------
(***************************************************************************)
(* Proofs about RiskPipeline, for any customers, gateways, workers, bounds *)
(* and faults.                                                             *)
(***************************************************************************)
EXTENDS RiskPipeline, SequenceTheorems, TLAPS

-----------------------------------------------------------------------------
(* Type correctness *)

\* The states a worker can be set to are worker states.
LEMMA WorkerStatesOK ==
  /\ Stopped \in WorkerStates
  /\ Idle \in WorkerStates
  /\ TypeOK => \A w \in Workers : /\ Looped(w) \in WorkerStates
                                  /\ Raised(w) \in WorkerStates
<1>1. Stopped \in WorkerStates
  BY StatusAssumption DEF Stopped, WorkerStates, Statuses, NoJob, Busy
<1>2. Idle \in WorkerStates
  BY <1>1 DEF Idle, WorkerStates
<1>3. ASSUME TypeOK, NEW w \in Workers
      PROVE  Looped(w) \in WorkerStates /\ Raised(w) \in WorkerStates
  BY <1>1, <1>2, <1>3 DEF TypeOK, Looped, Raised, WorkerStates
<1> QED
  BY <1>1, <1>2, <1>3

LEMMA InitTypeOK == Init => TypeOK
<1> SUFFICES ASSUME Init PROVE TypeOK
  OBVIOUS
<1>1. Unborn \in Rows /\ NoResult \in Results
  BY StatusAssumption DEF Unborn, Rows, NoResult, Results, Statuses, NoJob
<1>2. connected \in [Gateways -> BOOLEAN]
  BY DEF Init
<1>3. /\ sending \in [Gateways -> Seq(Commands)]
      /\ queue \in Seq(Nat)
      /\ published \in Seq(Publications)
  BY DEF Init
<1>4. worker \in [Workers -> WorkerStates]
  BY WorkerStatesOK DEF Init
<1> QED
  BY <1>1, <1>2, <1>3, <1>4 DEF Init, TypeOK

\* What a gateway does keeps the types.
LEMMA GatewayTypeOK ==
  ASSUME TypeOK, NEW g \in Gateways, GatewayNext(g)
  PROVE  TypeOK'
<1> USE DEF TypeOK, gatewayVars, historyVars
<1>1. ASSUME Execute(g) PROVE /\ published' \in Seq(Publications)
                              /\ queue' \in Seq(Nat)
                              /\ sending' \in [Gateways -> Seq(Commands)]
                              /\ Head(sending[g]) \in Commands
  <2>1. Head(sending[g]) \in Commands /\ Tail(sending[g]) \in Seq(Commands)
    BY <1>1 DEF Execute
  <2>2. [cust |-> Head(sending[g]).cust, req |-> Head(sending[g]).req,
         asOf |-> record[Head(sending[g]).cust].profile] \in Publications
    BY <2>1 DEF Commands, Publications, Rows
  <2>3. published' \in Seq(Publications)
    BY <1>1, <2>2 DEF Execute
  <2> QED
    BY <1>1, <2>1, <2>3 DEF Execute
<1>2. ASSUME NEW c \in Customers, Create(g, c) PROVE TypeOK'
  <2>1. record[c] \in Rows
    OBVIOUS
  <2>2. [record[c] EXCEPT !.life = "live", !.profile = 1] \in Rows
    BY <2>1 DEF Rows
  <2>3. record' = [record EXCEPT ![c] =
                    [record[c] EXCEPT !.life = "live", !.profile = 1]]
    BY <1>2, <2>1 DEF Create, Rows
  <2>4. record' \in [Customers -> Rows]
    BY <2>2, <2>3
  <2>5. onboarding' \subseteq [gw : Gateways, cust : Customers]
    BY <1>2 DEF Create
  <2> QED
    BY <1>2, <2>4, <2>5 DEF Create
<1>3. ASSUME NEW c \in Customers, Trigger(g, c) PROVE TypeOK'
  <2>1. triggers' \in Nat
    BY <1>3 DEF Trigger
  <2>2. [cust |-> c, req |-> triggers'] \in Commands
    BY <2>1 DEF Commands
  <2>3. sending' \in [Gateways -> Seq(Commands)]
    BY <1>3, <2>2 DEF Trigger, Publish
  <2> QED
    BY <1>3, <2>1, <2>3 DEF Trigger
<1>4. CASE LPush(g)
  BY <1>1, <1>4 DEF LPush, Execute, Commands
<1>5. CASE LPushReplyLost(g)
  BY <1>1, <1>5 DEF LPushReplyLost, Execute, Fault
<1>6. CASE LPushRejected(g)
  BY <1>6 DEF LPushRejected, Fault
<1>7. CASE RedisReady(g)
  BY <1>7 DEF RedisReady
<1>8. CASE RedisEnd(g)
  BY <1>8 DEF RedisEnd, Fault
<1>9. CASE GatewayCrash(g)
  BY <1>9 DEF GatewayCrash, Fault
<1> QED
  BY <1>2, <1>3, <1>4, <1>5, <1>6, <1>7, <1>8, <1>9 DEF GatewayNext

\* A worker state with another program counter, or another shutdown flag.
LEMMA WorkerUpdateOK ==
  ASSUME NEW st \in WorkerStates
  PROVE  /\ [st EXCEPT !.shutdown = TRUE] \in WorkerStates
         /\ \A j \in Nat :
              [st EXCEPT !.pc = "fetch", !.job = j] \in WorkerStates
         /\ \A b \in Nat :
              [st EXCEPT !.pc = "assess", !.basis = b] \in WorkerStates
         /\ \A v \in Statuses :
              [st EXCEPT !.pc = "await", !.kyc = v] \in WorkerStates
         /\ \A ok \in BOOLEAN :
              [st EXCEPT !.pc = "cache", !.patched = ok] \in WorkerStates
BY DEF WorkerStates, Busy

\* So does a worker step, and what its environment does to it: each sets one
\* worker's state and changes little else.
LEMMA WorkerTypeOK ==
  ASSUME TypeOK, JobsPublished, NEW w \in Workers,
         WorkerStep(w) \/ WorkerFault(w)
  PROVE  TypeOK'
<1> DEFINE st == worker[w]
           c == CustomerOf(st.job)
<1>0. /\ st \in WorkerStates
      /\ Looped(w) \in WorkerStates
      /\ Raised(w) \in WorkerStates
      /\ Stopped \in WorkerStates
      /\ Idle \in WorkerStates
  BY WorkerStatesOK DEF TypeOK
<1>1. ASSUME NEW new \in WorkerStates, Become(w, new), record' = record,
             UNCHANGED historyVars, queue' \in Seq(Nat),
             wire' \subseteq Requests, cache' \in [Customers -> Results],
             faults' \in Nat
      PROVE  TypeOK'
  <2>1. worker' \in [Workers -> WorkerStates]
    BY <1>1 DEF Become, TypeOK
  <2> QED
    BY <1>1, <2>1 DEF Become, TypeOK, gatewayVars, historyVars
<1>2. /\ wire \subseteq Requests
      /\ queue \in Seq(Nat)
      /\ cache \in [Customers -> Results]
      /\ faults \in Nat
  BY DEF TypeOK
<1>3. Holds(w) => /\ st.job \in Nat \ {0}
                  /\ c \in Customers
  <2>1. Holds(w) => st.job \in DOMAIN published
    BY DEF JobsPublished
  <2>2. \A j \in DOMAIN published : /\ j \in Nat \ {0}
                                    /\ published[j] \in Publications
    BY DEF TypeOK
  <2> QED
    BY <2>1, <2>2 DEF CustomerOf, Publications
<1>4. CASE StartWorker(w)
  BY <1>0, <1>1, <1>2, <1>4 DEF StartWorker
<1>5. CASE Take(w)
  <2>1. Head(queue) \in Nat /\ Tail(queue) \in Seq(Nat)
    BY <1>2, <1>5 DEF Take
  <2> QED
    BY <1>0, <1>1, <1>2, <1>5, <2>1, WorkerUpdateOK DEF Take
<1>6. CASE Loop(w)
  BY <1>0, <1>1, <1>2, <1>6 DEF Loop
<1>7. CASE Fetch(w)
  <2>1. record[c].profile \in Nat
    BY <1>3, <1>7 DEF Fetch, Holds, Busy, TypeOK, Rows
  <2>2. CASE Live(c)
    BY <1>0, <1>1, <1>2, <1>7, <2>1, <2>2, WorkerUpdateOK DEF Fetch
  <2>3. CASE ~Live(c)
    BY <1>0, <1>1, <1>2, <1>7, <2>3 DEF Fetch
  <2> QED
    BY <2>2, <2>3
<1>8. CASE Assess(w)
  <2>1. PICK v \in ModelStatuses \cup FallbackStatuses :
             /\ st.pc = "assess"
             /\ Become(w, [st EXCEPT !.pc = "await", !.kyc = v])
             /\ wire' = wire \cup {[from |-> w, job |-> st.job, kyc |-> v,
                                    basis |-> st.basis]}
             /\ UNCHANGED << record, queue, cache, historyVars, faults >>
    BY <1>8 DEF Assess
  <2>2. v \in Statuses
    BY <2>1, StatusAssumption DEF Statuses, ModelStatuses, FallbackStatuses
  <2>3. [from |-> w, job |-> st.job, kyc |-> v, basis |-> st.basis] \in Requests
    BY <1>0, <2>2 DEF Requests, WorkerStates
  <2> QED
    BY <1>0, <1>1, <1>2, <2>1, <2>2, <2>3, WorkerUpdateOK
<1>9. CASE CacheResult(w)
  <2>1. [job |-> st.job, kyc |-> st.kyc, patched |-> st.patched] \in Results
    BY <1>0 DEF WorkerStates, Results
  <2>2. cache' \in [Customers -> Results]
    BY <1>2, <1>9, <2>1 DEF CacheResult
  <2> QED
    BY <1>0, <1>1, <1>2, <1>9, <2>2 DEF CacheResult
<1>10. CASE Signal(w)
  <2>1. [st EXCEPT !.shutdown = TRUE] \in WorkerStates
    BY <1>0, WorkerUpdateOK
  <2> QED
    BY <1>1, <1>2, <1>10, <2>1 DEF Signal, Fault
<1>11. CASE PopFailed(w)
  <2>1. queue # << >> => Tail(queue) \in Seq(Nat)
    BY <1>2
  <2>2. queue' \in Seq(Nat)
    BY <1>2, <1>11, <2>1 DEF PopFailed
  <2> QED
    BY <1>0, <1>1, <1>2, <1>11, <2>2 DEF PopFailed, Fault
<1>12. CASE FetchFailed(w)
  BY <1>0, <1>1, <1>2, <1>12 DEF FetchFailed, Fault
<1>13. CASE PatchLost(w)
  <2>1. [st EXCEPT !.pc = "cache", !.patched = FALSE] \in WorkerStates
    BY <1>0, WorkerUpdateOK
  <2> QED
    BY <1>1, <1>2, <1>13, <2>1 DEF PatchLost, Fault, Answered
<1>14. CASE PatchTimeout(w)
  <2>1. [st EXCEPT !.pc = "cache", !.patched = FALSE] \in WorkerStates
    BY <1>0, WorkerUpdateOK
  <2> QED
    BY <1>1, <1>2, <1>14, <2>1 DEF PatchTimeout, Fault, Answered
<1>15. CASE CacheFailed(w)
  BY <1>0, <1>1, <1>2, <1>15 DEF CacheFailed, Fault
<1>16. CASE WorkerCrash(w)
  BY <1>0, <1>1, <1>2, <1>16 DEF WorkerCrash, Fault
<1> QED
  BY <1>4, <1>5, <1>6, <1>7, <1>8, <1>9, <1>10, <1>11, <1>12, <1>13, <1>14,
     <1>15, <1>16 DEF WorkerStep, WorkerFault

\* So do the party service, the staff and Redis.
LEMMA ServePatchTypeOK ==
  ASSUME TypeOK, JobsPublished, NEW m \in wire, ServePatch(m)
  PROVE  TypeOK'
<1> DEFINE c == CustomerOf(m.job)
<1>1. m \in Requests /\ m.from \in Workers /\ m.job \in DOMAIN published
  BY DEF TypeOK, Requests, JobsPublished
<1>2. c \in Customers
  <2>1. published[m.job] \in Publications
    BY <1>1 DEF TypeOK
  <2> QED
    BY <2>1 DEF CustomerOf, Publications
<1>3. record' \in [Customers -> Rows]
  <2>1. CASE Accepts(m)
    <3>1. m.job \in Nat /\ m.basis \in Nat /\ m.kyc \in KycStatuses
      BY <1>1, <2>1 DEF Requests, Accepts
    <3>2. [record[c] EXCEPT !.kyc = m.kyc, !.by = m.job, !.basis = m.basis]
            \in Rows
      BY <1>2, <3>1 DEF TypeOK, Rows
    <3> QED
      BY <1>2, <2>1, <3>2 DEF ServePatch, TypeOK
  <2>2. CASE ~Accepts(m)
    BY <2>2 DEF ServePatch, TypeOK
  <2> QED
    BY <2>1, <2>2
<1>4. committed' \subseteq Nat
  BY <1>1 DEF ServePatch, TypeOK, Requests
<1>5. worker' \in [Workers -> WorkerStates]
  <2>1. \A ok \in BOOLEAN : [worker[m.from] EXCEPT !.pc = "cache", !.patched = ok]
                              \in WorkerStates
    BY <1>1, WorkerUpdateOK DEF TypeOK
  <2>2. Accepts(m) \in BOOLEAN
    BY DEF Accepts
  <2>3. Answered(m.from, Accepts(m)) \in WorkerStates
    BY <2>1, <2>2 DEF Answered
  <2> QED
    BY <1>1, <2>3 DEF ServePatch, TypeOK
<1>6. wire' \subseteq Requests
  BY DEF ServePatch, TypeOK
<1> QED
  BY <1>3, <1>4, <1>5, <1>6 DEF ServePatch, TypeOK, gatewayVars

LEMMA OthersTypeOK ==
  ASSUME TypeOK
  PROVE  /\ \A r \in onboarding : PublishOnboarding(r) => TypeOK'
         /\ \A c \in Customers : StaffNext(c) \/ Expire(c) => TypeOK'
         /\ Evict => TypeOK'
<1> USE DEF gatewayVars, historyVars
<1>1. ASSUME NEW r \in onboarding, PublishOnboarding(r)
      PROVE  TypeOK'
  <2>1. r.gw \in Gateways /\ [cust |-> r.cust, req |-> 0] \in Commands
    BY DEF TypeOK, Commands
  <2>2. sending' \in [Gateways -> Seq(Commands)]
    BY <1>1, <2>1 DEF PublishOnboarding, Publish, TypeOK
  <2> QED
    BY <1>1, <2>2 DEF PublishOnboarding, TypeOK
<1>2. ASSUME NEW c \in Customers, NEW row \in Rows,
             record' = [record EXCEPT ![c] = row],
             UNCHANGED << gatewayVars, queue, worker, wire, cache, historyVars,
                          faults >>
      PROVE  TypeOK'
  BY <1>2 DEF TypeOK
<1>3. ASSUME NEW c \in Customers, StaffEdit(c)
      PROVE  TypeOK'
  <2>1. record[c] \in Rows /\ record[c].profile \in Nat
    BY DEF TypeOK, Rows
  <2>2. [record[c] EXCEPT !.profile = record[c].profile + 1] \in Rows
    BY <2>1 DEF Rows
  <2> QED
    BY <1>2, <1>3, <2>2 DEF StaffEdit, TypeOK
<1>4. ASSUME NEW c \in Customers, StaffDecide(c)
      PROVE  TypeOK'
  <2>1. \A k \in StaffStatuses : [record[c] EXCEPT !.kyc = k] \in Rows
    BY StatusAssumption DEF TypeOK, Rows
  <2> QED
    BY <1>2, <1>4, <2>1 DEF StaffDecide, TypeOK
<1>5. ASSUME NEW c \in Customers, StaffDelete(c)
      PROVE  TypeOK'
  <2>1. [record[c] EXCEPT !.life = "deleted"] \in Rows
    BY DEF TypeOK, Rows
  <2> QED
    BY <1>2, <1>5, <2>1 DEF StaffDelete, TypeOK
<1>6. ASSUME NEW c \in Customers, Expire(c)
      PROVE  TypeOK'
  <2>1. NoResult \in Results
    BY StatusAssumption DEF NoResult, Results, Statuses, NoJob
  <2> QED
    BY <1>6, <2>1 DEF Expire, Fault, TypeOK
<1>7. ASSUME Evict PROVE TypeOK'
  BY <1>7 DEF Evict, Fault, TypeOK
<1> QED
  BY <1>1, <1>3, <1>4, <1>5, <1>6, <1>7 DEF StaffNext

LEMMA NextTypeOK ==
  ASSUME TypeOK, JobsPublished, [Next]_vars
  PROVE  TypeOK'
<1>1. CASE UNCHANGED vars
  BY <1>1 DEF vars, gatewayVars, historyVars, TypeOK
<1>2. CASE \E g \in Gateways : GatewayNext(g)
  BY <1>2, GatewayTypeOK
<1>3. CASE \E w \in Workers : WorkerStep(w) \/ WorkerFault(w)
  BY <1>3, WorkerTypeOK
<1>4. CASE \E m \in wire : ServePatch(m)
  BY <1>4, ServePatchTypeOK
<1> QED
  BY <1>1, <1>2, <1>3, <1>4, OthersTypeOK DEF Next

-----------------------------------------------------------------------------
(* Job numbers *)

\* What Execute adds, by index.
LEMMA ExecuteEffect ==
  ASSUME TypeOK, NEW g \in Gateways, Execute(g)
  PROVE  /\ DOMAIN published' = 1 .. Len(published) + 1
         /\ \A j \in DOMAIN published : published'[j] = published[j]
         /\ DOMAIN queue' = 1 .. Len(queue) + 1
         /\ \A i \in DOMAIN queue : queue'[i] = queue[i]
         /\ queue'[Len(queue) + 1] = Len(published) + 1
         /\ UNCHANGED << record, worker, wire, cache, committed >>
<1> DEFINE p == [cust |-> Head(sending[g]).cust, req |-> Head(sending[g]).req,
                 asOf |-> record[Head(sending[g]).cust].profile]
<1>1. Head(sending[g]) \in Commands
  BY DEF Execute, TypeOK
<1>2. p \in Publications
  BY <1>1 DEF Commands, Publications, TypeOK, Rows
<1>3. published' = Append(published, p) /\ published \in Seq(Publications)
  BY DEF Execute, TypeOK
<1>4. /\ Len(published') = Len(published) + 1
      /\ DOMAIN published' = 1 .. Len(published) + 1
      /\ \A j \in DOMAIN published : published'[j] = published[j]
  BY <1>2, <1>3, AppendProperties
<1>5. queue' = Append(queue, Len(published')) /\ queue \in Seq(Nat)
  BY DEF Execute, TypeOK
<1>6. /\ DOMAIN queue' = 1 .. Len(queue) + 1
      /\ \A i \in DOMAIN queue : queue'[i] = queue[i]
      /\ queue'[Len(queue) + 1] = Len(published')
  <2>1. Len(published') \in Nat
    BY <1>3, <1>4
  <2> QED
    BY <1>5, <2>1, AppendProperties
<1> QED
  BY <1>4, <1>6 DEF Execute, historyVars

\* What a step of worker w does to the jobs.
LEMMA WorkerEffect ==
  ASSUME TypeOK, NEW w \in Workers, WorkerStep(w) \/ WorkerFault(w)
  PROVE  /\ UNCHANGED << published, record, committed >>
         /\ \A v \in Workers \ {w} : worker'[v] = worker[v]
         /\ queue' = queue \/ (queue # << >> /\ queue' = Tail(queue))
         /\ \A m \in wire' : m \in wire \/ (Holds(w) /\ m.job = worker[w].job)
         /\ \/ worker'[w].pc \notin Busy
            \/ Holds(w) /\ worker'[w].job = worker[w].job /\ queue' = queue
            \/ /\ queue # << >>
               /\ queue' = Tail(queue)
               /\ worker'[w].job = Head(queue)
<1> USE DEF Become, historyVars, Busy, Holds
<1>0. /\ worker \in [Workers -> WorkerStates]
      /\ worker[w] \in WorkerStates
      /\ Looped(w).pc \notin Busy
      /\ Raised(w).pc \notin Busy
      /\ Idle.pc \notin Busy
      /\ Stopped.pc \notin Busy
  BY DEF TypeOK, Looped, Raised, Idle, Stopped
<1>1. CASE StartWorker(w) \/ Loop(w) \/ FetchFailed(w) \/ WorkerCrash(w)
  BY <1>0, <1>1 DEF StartWorker, Loop, FetchFailed, WorkerCrash
<1>2. CASE Take(w)
  BY <1>0, <1>2 DEF Take, WorkerStates
<1>3. CASE Fetch(w)
  BY <1>0, <1>3 DEF Fetch, WorkerStates
<1>4. CASE Assess(w)
  BY <1>0, <1>4 DEF Assess, WorkerStates
<1>5. CASE CacheResult(w) \/ CacheFailed(w)
  BY <1>0, <1>5 DEF CacheResult, CacheFailed
<1>6. CASE Signal(w)
  BY <1>0, <1>6 DEF Signal, WorkerStates
<1>7. CASE PopFailed(w)
  BY <1>0, <1>7 DEF PopFailed
<1>8. CASE PatchLost(w) \/ PatchTimeout(w)
  BY <1>0, <1>8 DEF PatchLost, PatchTimeout, Answered, WorkerStates
<1> QED
  BY <1>1, <1>2, <1>3, <1>4, <1>5, <1>6, <1>7, <1>8 DEF WorkerStep, WorkerFault

\* The answer to a PATCH moves nobody to another job.
LEMMA ServePatchEffect ==
  ASSUME TypeOK, NEW m \in wire, ServePatch(m)
  PROVE  /\ UNCHANGED << queue, published, cache >>
         /\ wire' \subseteq wire
         /\ \A w \in Workers : /\ Holds(w)' => Holds(w)
                               /\ worker'[w].job = worker[w].job
                               /\ worker'[w].basis = worker[w].basis
<1>1. worker \in [Workers -> WorkerStates]
  BY DEF TypeOK
<1> QED
  BY <1>1 DEF ServePatch, Awaits, Answered, Holds, Busy, WorkerStates

\* Every other step leaves the jobs where they are, or evicts the list.
LEMMA StepKinds ==
  ASSUME [Next]_vars
  PROVE  \/ \E g \in Gateways : Execute(g)
         \/ \E w \in Workers : WorkerStep(w) \/ WorkerFault(w)
         \/ \E m \in wire : ServePatch(m)
         \/ /\ UNCHANGED << worker, wire, historyVars >>
            /\ queue' \in {queue, << >>}
<1>1. ASSUME NEW g \in Gateways, GatewayNext(g)
      PROVE  Execute(g) \/ UNCHANGED << queue, worker, wire, historyVars >>
  BY <1>1 DEF GatewayNext, Create, Trigger, LPush, LPushReplyLost,
              LPushRejected, RedisReady, RedisEnd, GatewayCrash
<1>2. ASSUME NEW c \in Customers, StaffNext(c) \/ Expire(c)
      PROVE  UNCHANGED << queue, worker, wire, historyVars >>
  BY <1>2 DEF StaffNext, StaffEdit, StaffDecide, StaffDelete, Expire
<1>3. ASSUME NEW r \in onboarding, PublishOnboarding(r)
      PROVE  UNCHANGED << queue, worker, wire, historyVars >>
  BY <1>3 DEF PublishOnboarding
<1>4. ASSUME Evict
      PROVE  UNCHANGED << worker, wire, historyVars >> /\ queue' = << >>
  BY <1>4 DEF Evict
<1>5. ASSUME UNCHANGED vars
      PROVE  UNCHANGED << queue, worker, wire, historyVars >>
  BY <1>5 DEF vars
<1> QED
  BY <1>1, <1>2, <1>3, <1>4, <1>5 DEF Next

\* Numbers in use stay numbers of publications, and the order of the jobs is
\* kept: a new one is the largest, and the one popped is the smallest.
LEMMA NextJobs ==
  ASSUME TypeOK, JobsPublished, JobOrder, [Next]_vars
  PROVE  JobsPublished' /\ JobOrder'
<1> USE DEF JobsPublished, JobOrder
<1>0. queue \in Seq(Nat) /\ published \in Seq(Publications)
  BY DEF TypeOK
<1>1. ASSUME NEW g \in Gateways, Execute(g)
      PROVE  JobsPublished' /\ JobOrder'
  <2>1. /\ DOMAIN published' = 1 .. Len(published) + 1
        /\ DOMAIN published = 1 .. Len(published)
        /\ DOMAIN queue' = 1 .. Len(queue) + 1
        /\ DOMAIN queue = 1 .. Len(queue)
        /\ Len(queue) \in Nat
        /\ Len(published) \in Nat
        /\ \A i \in DOMAIN queue : queue'[i] = queue[i]
        /\ queue'[Len(queue) + 1] = Len(published) + 1
        /\ UNCHANGED << worker, wire >>
    BY <1>0, <1>1, ExecuteEffect
  <2>2. JobsPublished'
    <3>1. ASSUME NEW i \in DOMAIN queue' PROVE queue'[i] \in DOMAIN published'
      <4>1. CASE i \in DOMAIN queue
        BY <2>1, <4>1
      <4>2. CASE i = Len(queue) + 1
        BY <2>1, <4>2
      <4> QED
        BY <2>1, <4>1, <4>2
    <3>2. DOMAIN published \subseteq DOMAIN published'
      BY <2>1
    <3> QED
      BY <2>1, <3>1, <3>2 DEF Holds
  <2>3. ASSUME NEW i \in DOMAIN queue', i \notin DOMAIN queue
        PROVE  i = Len(queue) + 1 /\ queue'[i] = Len(published) + 1
    BY <2>1, <2>3
  <2>4. ASSUME NEW j \in DOMAIN published
        PROVE  j < Len(published) + 1
    BY <2>1
  <2>5. ASSUME NEW i \in DOMAIN queue', NEW j \in DOMAIN queue', i < j
        PROVE  queue'[i] < queue'[j]
    <3>1. i \in DOMAIN queue
      BY <2>1, <2>5
    <3>2. queue'[i] = queue[i] /\ queue[i] \in DOMAIN published
      BY <2>1, <3>1
    <3>3. CASE j \in DOMAIN queue
      <4>1. queue'[j] = queue[j]
        BY <2>1, <3>3
      <4> QED
        BY <2>5, <3>1, <3>2, <3>3, <4>1
    <3>4. CASE j \notin DOMAIN queue
      BY <2>3, <2>4, <3>2, <3>4
    <3> QED
      BY <3>3, <3>4
  <2>6. ASSUME NEW n \in DOMAIN published,
               \A k \in DOMAIN queue : n < queue[k],
               NEW i \in DOMAIN queue'
        PROVE  n < queue'[i]
    <3>1. CASE i \in DOMAIN queue
      <4>1. queue'[i] = queue[i]
        BY <2>1, <3>1
      <4> QED
        BY <2>6, <3>1, <4>1
    <3>2. CASE i \notin DOMAIN queue
      BY <2>3, <2>4, <3>2
    <3> QED
      BY <3>1, <3>2
  <2>7. ASSUME NEW v \in Workers, Holds(v)', NEW i \in DOMAIN queue'
        PROVE  worker'[v].job < queue'[i]
    <3>1. Holds(v) /\ worker'[v] = worker[v]
      BY <2>1, <2>7 DEF Holds
    <3> QED
      BY <2>6, <3>1
  <2>8. ASSUME NEW m \in wire', NEW i \in DOMAIN queue'
        PROVE  m.job < queue'[i]
    BY <2>1, <2>6
  <2>9. ASSUME NEW u \in Workers, NEW v \in Workers,
               Holds(u)', Holds(v)', worker'[u].job = worker'[v].job
        PROVE  u = v
    BY <2>1, <2>9 DEF Holds
  <2> QED
    BY <2>2, <2>5, <2>7, <2>8, <2>9
<1>2. queue # << >> => /\ Head(queue) = queue[1]
                       /\ 1 \in DOMAIN queue
                       /\ DOMAIN Tail(queue) = 1 .. Len(queue) - 1
                       /\ DOMAIN queue = 1 .. Len(queue)
                       /\ \A i \in 1 .. Len(queue) - 1 :
                            Tail(queue)[i] = queue[i + 1]
                       /\ Len(queue) \in Nat
  BY <1>0
<1>3. ASSUME NEW w \in Workers, WorkerStep(w) \/ WorkerFault(w)
      PROVE  JobsPublished' /\ JobOrder'
  <2>1. /\ published' = published
        /\ \A v \in Workers \ {w} : worker'[v] = worker[v]
        /\ queue' = queue \/ (queue # << >> /\ queue' = Tail(queue))
        /\ \A m \in wire' : m \in wire \/ (Holds(w) /\ m.job = worker[w].job)
        /\ \/ worker'[w].pc \notin Busy
           \/ Holds(w) /\ worker'[w].job = worker[w].job /\ queue' = queue
           \/ /\ queue # << >>
              /\ queue' = Tail(queue)
              /\ worker'[w].job = Head(queue)
    BY <1>3, WorkerEffect
  <2>2. JobsPublished'
    BY <1>2, <2>1 DEF Holds
  <2>3. \A i, j \in DOMAIN queue' : i < j => queue'[i] < queue'[j]
    <3>1. CASE queue' = queue
      BY <3>1
    <3>2. CASE queue # << >> /\ queue' = Tail(queue)
      <4>1. ASSUME NEW i \in DOMAIN queue'
            PROVE  i + 1 \in DOMAIN queue /\ queue'[i] = queue[i + 1] /\ i \in Nat
        BY <1>2, <3>2
      <4> QED
        BY <4>1
    <3> QED
      BY <2>1, <3>1, <3>2
  <2>4. ASSUME NEW i \in DOMAIN queue'
        PROVE  \E k \in DOMAIN queue :
                 /\ queue'[i] = queue[k]
                 /\ queue' # queue => 1 < k
    BY <1>2, <2>1
  <2>5. ASSUME NEW v \in Workers, Holds(v)', NEW i \in DOMAIN queue'
        PROVE  worker'[v].job < queue'[i]
    <3>1. PICK k \in DOMAIN queue : /\ queue'[i] = queue[k]
                                    /\ queue' # queue => 1 < k
      BY <2>4
    <3>2. CASE Holds(v) /\ worker'[v].job = worker[v].job
      BY <3>1, <3>2
    <3>3. CASE v = w /\ queue # << >> /\ queue' = Tail(queue)
               /\ worker'[w].job = Head(queue)
      <4>1. 1 < k
        BY <1>0, <3>1, <3>3
      <4> QED
        BY <1>2, <3>1, <3>3, <4>1
    <3> QED
      BY <2>1, <2>5, <3>2, <3>3 DEF Holds
  <2>6. ASSUME NEW m \in wire', NEW i \in DOMAIN queue'
        PROVE  m.job < queue'[i]
    BY <2>1, <2>4
  <2>7. ASSUME NEW u \in Workers, NEW v \in Workers, Holds(u)', Holds(v)',
               worker'[u].job = worker'[v].job
        PROVE  u = v
    <3>1. ASSUME NEW x \in Workers, Holds(x), queue # << >>
          PROVE  worker[x].job < Head(queue)
      BY <1>2, <3>1
    <3>2. ASSUME NEW x \in Workers, Holds(x) PROVE worker[x].job \in Nat
      BY <1>0, <3>2
    <3> QED
      BY <2>1, <2>7, <3>1, <3>2 DEF Holds
  <2>8. JobOrder'
    BY <2>3, <2>5, <2>6, <2>7
  <2> QED
    BY <2>2, <2>8
<1>4. ASSUME NEW m \in wire, ServePatch(m)
      PROVE  JobsPublished' /\ JobOrder'
  BY <1>4, ServePatchEffect
<1>5. ASSUME UNCHANGED << worker, wire, historyVars >>, queue' \in {queue, << >>}
      PROVE  JobsPublished' /\ JobOrder'
  BY <1>5 DEF Holds, historyVars
<1> QED
  BY <1>1, <1>3, <1>4, <1>5, StepKinds

-----------------------------------------------------------------------------
(* The theorems *)

JobsInv == TypeOK /\ JobsPublished /\ JobOrder

LEMMA InitJobs == Init => JobsInv
<1> SUFFICES ASSUME Init PROVE JobsInv
  OBVIOUS
<1>1. queue = << >> /\ wire = {} /\ \A w \in Workers : ~Holds(w)
  BY DEF Init, Holds, Stopped, Busy
<1> QED
  BY <1>1, InitTypeOK DEF JobsInv, JobsPublished, JobOrder

LEMMA JobsInvariant == Spec => []JobsInv
<1>1. JobsInv /\ [Next]_vars => JobsInv'
  BY NextTypeOK, NextJobs DEF JobsInv
<1> QED
  BY <1>1, InitJobs, PTL DEF Spec

\* Every variable keeps its type.  (Not inductive alone: the customer of a job
\* in hand is one only because its number is that of a publication.)
THEOREM TypeCorrect == Spec => []TypeOK
<1>1. JobsInv => TypeOK
  BY DEF JobsInv
<1> QED
  BY <1>1, JobsInvariant, PTL

\* process_job runs at most once per job: no job is in the list and in hand, or
\* in two hands, for any number of workers, whatever fails.
THEOREM AtMostOnce == Spec => []JobInOnePlace
<1>1. JobsInv => JobInOnePlace
  <2> SUFFICES ASSUME JobsInv PROVE JobInOnePlace
    OBVIOUS
  <2>1. queue \in Seq(Nat)
    BY DEF JobsInv, TypeOK
  <2>2. \A i, j \in DOMAIN queue : queue[i] \in Nat /\ (i < j \/ j < i \/ i = j)
    BY <2>1
  <2>3. \A i, j \in DOMAIN queue : queue[i] = queue[j] => i = j
    BY <2>2 DEF JobsInv, JobOrder
  <2>4. \A i \in DOMAIN queue : ~(queue[i] < queue[i])
    BY <2>2
  <2> QED
    BY <2>3, <2>4 DEF JobsInv, JobOrder, JobInOnePlace
<1> QED
  BY <1>1, JobsInvariant, PTL

-----------------------------------------------------------------------------
(* Results that say patchedSuccessfully *)

LEMMA NextHonest ==
  ASSUME TypeOK, PatchesHonest, [Next]_vars
  PROVE  PatchesHonest'
<1> USE DEF PatchesHonest, PatchedMeansCommitted
<1>0. worker \in [Workers -> WorkerStates] /\ cache \in [Customers -> Results]
  BY DEF TypeOK
\* A step of w may reset the flag or keep it with the job, and may cache it.
<1>1. ASSUME NEW w \in Workers, committed' = committed,
             \A v \in Workers \ {w} : worker'[v] = worker[v],
             worker'[w].patched => worker[w].patched
               /\ worker'[w].pc = "cache" /\ worker'[w].job = worker[w].job,
             \A c \in Customers : cache'[c].patched => cache[c].patched
               /\ cache'[c].job = cache[c].job
      PROVE  PatchesHonest'
  BY <1>1
<1>2. ASSUME NEW w \in Workers, WorkerStep(w) \/ WorkerFault(w)
      PROVE  PatchesHonest'
  <2> USE DEF Become, historyVars
  <2>0. /\ worker[w] \in WorkerStates
        /\ ~Looped(w).patched /\ ~Raised(w).patched
        /\ ~Idle.patched /\ ~Stopped.patched
    BY <1>0 DEF Looped, Raised, Idle, Stopped
  <2>1. CASE \/ StartWorker(w) \/ Loop(w) \/ FetchFailed(w) \/ WorkerCrash(w)
             \/ PopFailed(w) \/ CacheFailed(w)
    BY <1>0, <1>1, <2>0, <2>1
    DEF StartWorker, Loop, FetchFailed, WorkerCrash, PopFailed, CacheFailed
  <2>2. CASE Take(w)
    BY <1>0, <1>1, <2>0, <2>2 DEF Take, WorkerStates
  <2>3. CASE Fetch(w)
    BY <1>0, <1>1, <2>0, <2>3 DEF Fetch, WorkerStates
  <2>4. CASE Assess(w)
    BY <1>0, <1>1, <2>0, <2>4 DEF Assess, WorkerStates
  <2>5. CASE Signal(w)
    BY <1>0, <1>1, <2>0, <2>5 DEF Signal, WorkerStates
  <2>6. CASE PatchLost(w) \/ PatchTimeout(w)
    BY <1>0, <1>1, <2>0, <2>6 DEF PatchLost, PatchTimeout, Answered, WorkerStates
  <2>7. CASE CacheResult(w)
    <3>1. ~worker'[w].patched /\ committed' = committed
      BY <1>0, <2>0, <2>7 DEF CacheResult
    <3>2. \A v \in Workers \ {w} : worker'[v] = worker[v]
      BY <1>0, <2>7 DEF CacheResult
    <3>3. \A c \in Customers :
            \/ cache'[c] = cache[c]
            \/ cache'[c].job = worker[w].job
                 /\ cache'[c].patched = worker[w].patched
      BY <1>0, <2>7 DEF CacheResult
    <3> QED
      BY <3>1, <3>2, <3>3
  <2> QED
    BY <1>2, <2>1, <2>2, <2>3, <2>4, <2>5, <2>6, <2>7 DEF WorkerStep, WorkerFault
<1>3. ASSUME NEW m \in wire, ServePatch(m)
      PROVE  PatchesHonest'
  <2>1. Accepts(m) \in BOOLEAN /\ committed \subseteq committed'
    BY <1>3 DEF Accepts, ServePatch
  <2>2. Accepts(m) => m.job \in committed'
    BY <1>3 DEF ServePatch
  <2>3. ASSUME NEW v \in Workers, worker'[v].patched
        PROVE  worker'[v].pc = "cache" /\ worker'[v].job \in committed'
    <3>1. CASE worker'[v] = worker[v]
      BY <2>1, <2>3, <3>1
    <3>2. CASE Awaits(m) /\ worker'[v] = Answered(v, Accepts(m)) /\ v = m.from
      <4>1. worker'[v].patched = Accepts(m)
        BY <1>0, <2>1, <3>2 DEF Answered, WorkerStates
      <4>2. worker'[v].pc = "cache" /\ worker'[v].job = m.job
        BY <1>0, <3>2 DEF Answered, Awaits, WorkerStates
      <4> QED
        BY <2>2, <2>3, <4>1, <4>2
    <3> QED
      BY <1>0, <1>3, <3>1, <3>2 DEF ServePatch
  <2>4. cache' = cache
    BY <1>3 DEF ServePatch
  <2> QED
    BY <2>1, <2>3, <2>4
<1>4. ASSUME NEW c \in Customers, StaffNext(c) \/ Expire(c)
      PROVE  PatchesHonest'
  <2>1. StaffNext(c) => UNCHANGED << worker, committed, cache >>
    BY DEF StaffNext, StaffEdit, StaffDecide, StaffDelete, historyVars
  <2>2. ASSUME Expire(c) PROVE PatchesHonest'
    BY <1>0, <2>2 DEF Expire, NoResult, historyVars
  <2> QED
    BY <1>4, <2>1, <2>2
<1>5. ASSUME NEW g \in Gateways, GatewayNext(g)
      PROVE  UNCHANGED << worker, committed, cache >>
  BY <1>5 DEF GatewayNext, Create, Trigger, LPush, LPushReplyLost, Execute,
              LPushRejected, RedisReady, RedisEnd, GatewayCrash, historyVars
<1>6. ASSUME NEW r \in onboarding, PublishOnboarding(r)
      PROVE  UNCHANGED << worker, committed, cache >>
  BY <1>6 DEF PublishOnboarding, historyVars
<1>7. Evict \/ UNCHANGED vars => UNCHANGED << worker, committed, cache >>
  BY DEF Evict, vars, historyVars
<1>8. UNCHANGED << worker, committed, cache >> => PatchesHonest'
  OBVIOUS
<1> QED
  BY <1>2, <1>3, <1>4, <1>5, <1>6, <1>7, <1>8 DEF Next

\* The success flag of a cached result never lies: for any workers, and with
\* PATCH requests that are lost, time out, or are served after that.
THEOREM PatchedResultsCommitted == Spec => []PatchedMeansCommitted
<1>1. Init => PatchesHonest
  BY DEF Init, PatchesHonest, PatchedMeansCommitted, Stopped, NoResult
<1>2. TypeOK /\ PatchesHonest /\ [Next]_vars => PatchesHonest'
  BY NextHonest
<1>3. PatchesHonest => PatchedMeansCommitted
  BY DEF PatchesHonest
<1> QED
  BY <1>1, <1>2, <1>3, TypeCorrect, PTL DEF Spec

=============================================================================
