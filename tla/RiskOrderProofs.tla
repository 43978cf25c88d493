--------------------------- MODULE RiskOrderProofs ---------------------------
(***************************************************************************)
(* More proofs about RiskPipeline: what an assessment is based on, the     *)
(* list as an implementation of JobQueue, and what holds when the faults   *)
(* that lose a job, or leave a PATCH behind, do not happen.                *)
(***************************************************************************)
EXTENDS RiskPipelineProofs

-----------------------------------------------------------------------------
(* What the steps do, beyond what RiskPipelineProofs says of them *)

\* The publication that Execute appends.
LEMMA ExecuteAppends ==
  ASSUME TypeOK, NEW g \in Gateways, Execute(g)
  PROVE  /\ Head(sending[g]) \in Commands
         /\ published'[Len(published) + 1] =
              [cust |-> Head(sending[g]).cust, req |-> Head(sending[g]).req,
               asOf |-> record[Head(sending[g]).cust].profile]
<1> DEFINE p == [cust |-> Head(sending[g]).cust, req |-> Head(sending[g]).req,
                 asOf |-> record[Head(sending[g]).cust].profile]
<1>1. Head(sending[g]) \in Commands
  BY DEF Execute, TypeOK
<1>2. p \in Publications
  BY <1>1 DEF Commands, Publications, TypeOK, Rows
<1>3. published' = Append(published, p) /\ published \in Seq(Publications)
  BY DEF Execute, TypeOK
<1> QED
  BY <1>1, <1>2, <1>3, AppendProperties

\* The customer of a job is one.
LEMMA JobCustomers ==
  ASSUME TypeOK, NEW j \in DOMAIN published
  PROVE  /\ CustomerOf(j) \in Customers /\ published[j].asOf \in Nat
         /\ j \in 1 .. Len(published) /\ Len(published) \in Nat
<1>1. published[j] \in Publications
  BY DEF TypeOK
<1> QED
  BY <1>1 DEF CustomerOf, Publications, TypeOK

\* Where worker w is after a step of its own: it goes on with its job, having
\* read the customer, sent its PATCH or learnt that it was not answered; or it
\* takes the oldest job; or it is done.
LEMMA WorkerKinds ==
  ASSUME TypeOK, NEW w \in Workers, WorkerStep(w) \/ WorkerFault(w)
  PROVE  LET st == worker[w]
             st2 == worker'[w]
         IN  /\ queue' # queue => st.pc = "idle"
             /\ \/ st2.pc \notin Busy /\ ~st2.patched /\ wire' = wire
                \/ /\ st2.pc = st.pc /\ st2.job = st.job /\ st2.basis = st.basis
                   /\ st2.patched = st.patched
                   /\ wire' = wire
                \/ /\ st.pc = "idle" /\ st2.pc = "fetch" /\ queue # << >>
                   /\ queue' = Tail(queue) /\ st2.job = Head(queue)
                   /\ st2.patched = st.patched /\ wire' = wire
                \/ /\ st.pc = "fetch" /\ st2.pc = "assess" /\ st2.job = st.job
                   /\ st2.patched = st.patched
                   /\ st2.basis = record[CustomerOf(st.job)].profile
                   /\ wire' = wire
                \/ /\ st.pc = "assess" /\ st2.pc = "await" /\ st2.job = st.job
                   /\ st2.basis = st.basis /\ st2.patched = st.patched
                   /\ \E v : wire' = wire \cup
                        {[from |-> w, job |-> st.job, kyc |-> v,
                          basis |-> st.basis]}
                \/ /\ st.pc = "await" /\ st2.pc = "cache" /\ st2.job = st.job
                   /\ st2.basis = st.basis /\ ~st2.patched
                   /\ \/ "patch_timeout" \in Faults /\ wire' = wire
                      \/ wire' = {m \in wire : m.from # w \/ m.job # st.job}
<1> USE DEF Become, Busy
<1>0. /\ worker \in [Workers -> WorkerStates] /\ worker[w] \in WorkerStates
      /\ \A st \in {Looped(w), Raised(w), Idle, Stopped} :
           st.pc \notin Busy /\ ~st.patched
  BY DEF TypeOK, Looped, Raised, Idle, Stopped
<1>1. CASE StartWorker(w) \/ Loop(w) \/ FetchFailed(w) \/ WorkerCrash(w)
  BY <1>0, <1>1 DEF StartWorker, Loop, FetchFailed, WorkerCrash
<1>2. CASE Take(w)
  BY <1>0, <1>2 DEF Take, WorkerStates
<1>3. CASE Fetch(w)
  BY <1>0, <1>3 DEF Fetch, WorkerStates
<1>4. CASE Assess(w)
  <2>1. PICK v : /\ worker[w].pc = "assess"
                 /\ worker' = [worker EXCEPT ![w] =
                                [worker[w] EXCEPT !.pc = "await", !.kyc = v]]
                 /\ wire' = wire \cup {[from |-> w, job |-> worker[w].job,
                                         kyc |-> v, basis |-> worker[w].basis]}
                 /\ queue' = queue
    BY <1>4 DEF Assess
  <2>2. /\ worker'[w].pc = "await" /\ worker'[w].job = worker[w].job
        /\ worker'[w].basis = worker[w].basis
        /\ worker'[w].patched = worker[w].patched
    BY <1>0, <2>1 DEF WorkerStates
  <2> QED
    BY <2>1, <2>2
<1>5. CASE CacheResult(w) \/ CacheFailed(w)
  BY <1>0, <1>5 DEF CacheResult, CacheFailed
<1>6. CASE Signal(w)
  BY <1>0, <1>6 DEF Signal, WorkerStates
<1>7. CASE PopFailed(w)
  BY <1>0, <1>7 DEF PopFailed
<1>8. CASE PatchLost(w)
  BY <1>0, <1>8 DEF PatchLost, Answered, WorkerStates
<1>9. CASE PatchTimeout(w)
  BY <1>0, <1>9 DEF PatchTimeout, Answered, WorkerStates, Fault
<1> QED
  BY <1>1, <1>2, <1>3, <1>4, <1>5, <1>6, <1>7, <1>8, <1>9
  DEF WorkerStep, WorkerFault

\* The answer to a PATCH finds its sender still awaiting it, or nobody.
LEMMA ServePatchAnswers ==
  ASSUME TypeOK, NEW m \in wire, ServePatch(m)
  PROVE  /\ m.from \in Workers
         /\ \A w \in Workers :
              \/ worker'[w] = worker[w]
              \/ /\ w = m.from /\ worker[w].job = m.job
                 /\ worker[w].pc = "await" /\ worker'[w].pc = "cache"
                 /\ worker'[w].job = m.job
                 /\ worker'[w].patched = Accepts(m)
         /\ Awaits(m) => worker'[m.from].pc = "cache"
<1>1. worker \in [Workers -> WorkerStates] /\ m.from \in Workers
  BY DEF TypeOK, Requests
<1>2. \A ok \in BOOLEAN :
        /\ Answered(m.from, ok).pc = "cache"
        /\ Answered(m.from, ok).job = worker[m.from].job
        /\ Answered(m.from, ok).patched = ok
  BY <1>1 DEF Answered, WorkerStates
<1>3. Accepts(m) \in BOOLEAN
  BY DEF Accepts
<1> QED
  BY <1>1, <1>2, <1>3 DEF ServePatch, Awaits

\* Rows: a version never goes back, and only an accepted PATCH changes whose
\* assessment a record holds.
UnbornBlank == \A c \in Customers : record[c].life = "unborn" => record[c] = Unborn

LEMMA RecordKinds ==
  ASSUME TypeOK, JobsPublished, UnbornBlank, [Next]_vars
  PROVE  /\ UnbornBlank'
         /\ \A c \in Customers : record'[c].profile >= record[c].profile
         /\ \A c \in Customers :
              \/ record'[c].by = record[c].by /\ record'[c].basis = record[c].basis
              \/ \E m \in wire :
                   /\ ServePatch(m) /\ Accepts(m) /\ CustomerOf(m.job) = c
                   /\ record'[c].by = m.job /\ record'[c].basis = m.basis
<1> DEFINE Grows(c) ==
      /\ record'[c].life = "unborn" => record'[c] = record[c]
      /\ record'[c].profile >= record[c].profile
      /\ record'[c].by = record[c].by /\ record'[c].basis = record[c].basis
<1>0. record \in [Customers -> Rows]
  BY DEF TypeOK
<1>1. \A c \in Customers : record[c].profile \in Nat
  BY <1>0 DEF Rows
<1>2. record' = record => \A c \in Customers : Grows(c)
  BY <1>1
<1>3. ASSUME NEW g \in Gateways, NEW d \in Customers, Create(g, d)
      PROVE  \A c \in Customers : Grows(c)
  <2>1. record[d].profile = 0
    BY <1>3 DEF Create, UnbornBlank, Unborn
  <2> QED
    BY <1>0, <1>1, <1>3, <2>1 DEF Create, Rows
<1>4. ASSUME NEW d \in Customers, StaffNext(d)
      PROVE  \A c \in Customers : Grows(c)
  BY <1>0, <1>1, <1>4
  DEF StaffNext, StaffEdit, StaffDecide, StaffDelete, Live, Rows
<1>5. ASSUME NEW m \in wire, ServePatch(m), NEW c \in Customers
      PROVE  \/ Grows(c)
             \/ /\ Accepts(m) /\ CustomerOf(m.job) = c
                /\ record'[c].by = m.job /\ record'[c].basis = m.basis
                /\ record'[c].profile = record[c].profile
                /\ record'[c].life = record[c].life /\ Live(c)
  <2> DEFINE d == CustomerOf(m.job)
             row == [record[d] EXCEPT !.kyc = m.kyc, !.by = m.job,
                                      !.basis = m.basis]
  <2>1. d \in Customers
    BY JobCustomers DEF JobsPublished
  <2>2. /\ row.by = m.job /\ row.basis = m.basis
        /\ row.profile = record[d].profile /\ row.life = record[d].life
    BY <1>0, <2>1 DEF Rows
  <2>3. CASE Accepts(m)
    <3>1. record' = [record EXCEPT ![d] = row] /\ record[d].life = "live"
      BY <1>5, <2>3 DEF ServePatch, Accepts, Live
    <3> HIDE DEF row, d
    <3>2. CASE c = d
      <4>1. record'[c] = row
        BY <1>0, <2>1, <3>1, <3>2
      <4> QED
        BY <2>2, <2>3, <3>1, <3>2, <4>1 DEF Live, d
    <3>3. CASE c # d
      <4>1. record'[c] = record[c]
        BY <1>0, <3>1, <3>3
      <4> QED
        BY <1>1, <4>1
    <3> QED
      BY <3>2, <3>3
  <2>4. CASE ~Accepts(m)
    BY <1>1, <1>2, <1>5, <2>4 DEF ServePatch
  <2> QED
    BY <2>3, <2>4
<1>6. ASSUME NEW g \in Gateways, GatewayNext(g)
      PROVE  record' = record \/ \E d \in Customers : Create(g, d)
  BY <1>6 DEF GatewayNext, Create, Trigger, LPush, LPushReplyLost, Execute,
              LPushRejected, RedisReady, RedisEnd, GatewayCrash
<1>7. ASSUME NEW r \in onboarding, PublishOnboarding(r) PROVE record' = record
  BY <1>7 DEF PublishOnboarding
<1>8. ASSUME NEW w \in Workers, WorkerStep(w) \/ WorkerFault(w)
      PROVE  record' = record
  BY <1>8, WorkerEffect
<1>9. ASSUME NEW c \in Customers, Expire(c) PROVE record' = record
  BY <1>9 DEF Expire
<1>10. Evict \/ UNCHANGED vars => record' = record
  BY DEF Evict, vars
<1>11. \/ \A c \in Customers : Grows(c)
       \/ \E m \in wire : ServePatch(m)
  BY <1>2, <1>3, <1>4, <1>6, <1>7, <1>8, <1>9, <1>10 DEF Next
<1> HIDE DEF Grows
<1>12. ASSUME NEW c \in Customers
       PROVE  \/ Grows(c)
              \/ \E m \in wire :
                   /\ ServePatch(m) /\ Accepts(m) /\ CustomerOf(m.job) = c
                   /\ record'[c].by = m.job /\ record'[c].basis = m.basis
                   /\ record'[c].profile = record[c].profile
                   /\ record'[c].life = record[c].life /\ Live(c)
  BY <1>5, <1>11
<1> QED
  BY <1>1, <1>12 DEF Grows, UnbornBlank, Live

\* Publications are never changed: a step appends one, or none.
LEMMA PublishedGrows ==
  ASSUME TypeOK, [Next]_vars
  PROVE  /\ \A j \in DOMAIN published :
              j \in DOMAIN published' /\ published'[j] = published[j]
         /\ \/ published' = published
            \/ \E g \in Gateways : Execute(g)
<1>1. ASSUME NEW g \in Gateways, Execute(g), NEW j \in DOMAIN published
      PROVE  j \in DOMAIN published' /\ published'[j] = published[j]
  <2>1. /\ DOMAIN published' = 1 .. Len(published) + 1
        /\ published'[j] = published[j]
    BY <1>1, ExecuteEffect
  <2>2. j \in 1 .. Len(published) /\ Len(published) \in Nat
    BY JobCustomers
  <2> QED
    BY <2>1, <2>2
<1>2. ASSUME NEW w \in Workers, WorkerStep(w) \/ WorkerFault(w)
      PROVE  published' = published
  BY <1>2, WorkerEffect
<1>3. ASSUME NEW m \in wire, ServePatch(m) PROVE published' = published
  BY <1>3, ServePatchEffect
<1> QED
  BY <1>1, <1>2, <1>3, StepKinds DEF historyVars

-----------------------------------------------------------------------------
(* What an assessment is based on *)

FreshInv == JobsInv /\ UnbornBlank /\ AssessmentsFresh

LEMMA NextFresh ==
  ASSUME FreshInv, [Next]_vars
  PROVE  AssessmentsFresh'
<1> USE DEF AssessmentsFresh
<1>0. TypeOK /\ JobsPublished /\ UnbornBlank
  BY DEF FreshInv, JobsInv
<1>1. AssessmentsFresh
  BY DEF FreshInv
<1>2. \A j \in DOMAIN published :
        /\ j \in DOMAIN published' /\ published'[j] = published[j]
        /\ CustomerOf(j)' = CustomerOf(j)
        /\ CustomerOf(j) \in Customers
        /\ published[j].asOf \in Nat
  BY <1>0, PublishedGrows, JobCustomers DEF CustomerOf
<1>3. \A c \in Customers :
        /\ record'[c].profile >= record[c].profile
        /\ record[c].profile \in Nat /\ record'[c].profile \in Nat
  BY <1>0, RecordKinds, NextTypeOK DEF TypeOK, Rows
<1>4. ASSUME NEW j \in DOMAIN published'
      PROVE  published'[j].asOf <= record'[CustomerOf(j)'].profile
  <2>1. CASE j \in DOMAIN published
    BY <1>1, <1>2, <1>3, <2>1
  <2>2. CASE j \notin DOMAIN published
    <3>1. PICK g \in Gateways : Execute(g)
      BY <1>0, <2>2, PublishedGrows
    <3>2. j = Len(published) + 1 /\ record' = record
      <4>1. /\ DOMAIN published' = 1 .. Len(published) + 1
            /\ record' = record
        BY <1>0, <3>1, ExecuteEffect
      <4>2. DOMAIN published = 1 .. Len(published) /\ Len(published) \in Nat
        BY <1>0 DEF TypeOK
      <4> QED
        BY <2>2, <4>1, <4>2
    <3>3. /\ Head(sending[g]) \in Commands
          /\ published'[j] =
               [cust |-> Head(sending[g]).cust, req |-> Head(sending[g]).req,
                asOf |-> record[Head(sending[g]).cust].profile]
      BY <1>0, <3>1, <3>2, ExecuteAppends
    <3>4. published'[j].cust \in Customers
      BY <3>3 DEF Commands
    <3> QED
      BY <1>3, <3>2, <3>3, <3>4 DEF CustomerOf
  <2> QED
    BY <2>1, <2>2
<1>5. ASSUME NEW w \in Workers, WorkerStep(w) \/ WorkerFault(w)
      PROVE  /\ \A v \in Workers : worker'[v].pc \in {"assess", "await"} =>
                  worker'[v].basis >= published'[worker'[v].job].asOf
             /\ \A m \in wire' : m.basis >= published'[m.job].asOf
  <2>1. /\ \A v \in Workers \ {w} : worker'[v] = worker[v]
        /\ published' = published
    BY <1>0, <1>5, WorkerEffect
  <2>2. /\ worker'[w].pc \in {"assess", "await"} =>
             worker'[w].basis >= published[worker'[w].job].asOf
        /\ \A m \in wire' : m.basis >= published[m.job].asOf
    <3>1. CASE worker'[w].pc \in {"assess", "await"}
               /\ worker'[w].pc = worker[w].pc
      BY <1>0, <1>1, <1>5, <3>1, WorkerKinds DEF Busy
    <3>2. CASE worker[w].pc = "fetch" /\ worker'[w].pc = "assess"
      <4>1. /\ worker'[w].job = worker[w].job /\ wire' = wire
            /\ worker'[w].basis = record[CustomerOf(worker[w].job)].profile
        BY <1>0, <1>5, <3>2, WorkerKinds DEF Busy
      <4>2. worker[w].job \in DOMAIN published
        BY <1>0, <3>2 DEF JobsPublished, Holds, Busy
      <4> QED
        BY <1>1, <1>2, <1>3, <4>1, <4>2
    <3>3. CASE worker[w].pc = "assess" /\ worker'[w].pc = "await"
      <4>1. PICK v :
              /\ worker'[w].job = worker[w].job
              /\ worker'[w].basis = worker[w].basis
              /\ wire' = wire \cup {[from |-> w, job |-> worker[w].job,
                                     kyc |-> v, basis |-> worker[w].basis]}
        BY <1>0, <1>5, <3>3, WorkerKinds DEF Busy
      <4> QED
        BY <1>1, <3>3, <4>1
    <3>4. CASE worker'[w].pc \notin {"assess", "await"}
      <4>1. wire' \subseteq wire
        BY <1>0, <1>5, <3>4, WorkerKinds DEF Busy
      <4> QED
        BY <1>1, <3>4, <4>1
    <3> QED
      BY <1>0, <1>5, <3>1, <3>2, <3>3, <3>4, WorkerKinds DEF Busy
  <2> QED
    BY <1>1, <2>1, <2>2
<1>6. ASSUME NEW m \in wire, ServePatch(m)
      PROVE  /\ \A v \in Workers : worker'[v].pc \in {"assess", "await"} =>
                  worker'[v].basis >= published'[worker'[v].job].asOf
             /\ \A n \in wire' : n.basis >= published'[n.job].asOf
  <2>1. published' = published /\ wire' \subseteq wire
    BY <1>0, <1>6, ServePatchEffect
  <2>2. \A v \in Workers :
          worker'[v] = worker[v] \/ worker'[v].pc = "cache"
    BY <1>0, <1>6, ServePatchAnswers
  <2> QED
    BY <1>1, <2>1, <2>2
<1>7. ASSUME UNCHANGED << worker, wire >>
      PROVE  /\ \A v \in Workers : worker'[v].pc \in {"assess", "await"} =>
                  worker'[v].basis >= published'[worker'[v].job].asOf
             /\ \A n \in wire' : n.basis >= published'[n.job].asOf
  <2>1. /\ \A v \in Workers : worker[v].pc \in {"assess", "await"} =>
             worker[v].job \in DOMAIN published
        /\ \A n \in wire : n.job \in DOMAIN published
    BY <1>0 DEF JobsPublished, Holds, Busy
  <2> QED
    BY <1>1, <1>2, <1>7, <2>1
<1>8. /\ \A v \in Workers : worker'[v].pc \in {"assess", "await"} =>
           worker'[v].basis >= published'[worker'[v].job].asOf
      /\ \A n \in wire' : n.basis >= published'[n.job].asOf
  <2>1. (\E g \in Gateways : Execute(g)) => UNCHANGED << worker, wire >>
    BY <1>0, ExecuteEffect
  <2> QED
    BY <1>5, <1>6, <1>7, <2>1, StepKinds
<1>9. ASSUME NEW c \in Customers, record'[c].by # NoJob
      PROVE  /\ record'[c].by \in DOMAIN published'
             /\ record'[c].basis >= published'[record'[c].by].asOf
  <2>1. CASE /\ record'[c].by = record[c].by
             /\ record'[c].basis = record[c].basis
    BY <1>1, <1>2, <1>9, <2>1
  <2>2. ASSUME NEW m \in wire,
               record'[c].by = m.job, record'[c].basis = m.basis
        PROVE  /\ record'[c].by \in DOMAIN published'
               /\ record'[c].basis >= published'[record'[c].by].asOf
    <3>1. m.job \in DOMAIN published
      BY <1>0 DEF JobsPublished
    <3> QED
      BY <1>1, <1>2, <2>2, <3>1
  <2> QED
    BY <1>0, <2>1, <2>2, RecordKinds
<1> QED
  BY <1>4, <1>8, <1>9

LEMMA FreshInvariant == Spec => []FreshInv
<1>1. Init => UnbornBlank /\ AssessmentsFresh
  <2> SUFFICES ASSUME Init PROVE UnbornBlank /\ AssessmentsFresh
    OBVIOUS
  <2>1. \A c \in Customers : record[c] = Unborn /\ record[c].by = NoJob
    BY DEF Init, Unborn
  <2>2. \A w \in Workers : worker[w].pc = "stopped"
    BY DEF Init, Stopped
  <2> QED
    BY <2>1, <2>2 DEF Init, UnbornBlank, AssessmentsFresh
<1>2. FreshInv /\ [Next]_vars => FreshInv'
  <2> SUFFICES ASSUME FreshInv, [Next]_vars PROVE FreshInv'
    OBVIOUS
  <2>1. JobsInv'
    BY NextTypeOK, NextJobs DEF FreshInv, JobsInv
  <2>2. UnbornBlank'
    BY RecordKinds DEF FreshInv, JobsInv
  <2> QED
    BY <2>1, <2>2, NextFresh DEF FreshInv
<1>3. Init => FreshInv
  BY <1>1, InitJobs DEF FreshInv
<1> QED
  BY <1>2, <1>3, PTL DEF Spec

\* A reassessment sees every edit made before it was asked for, for any number
\* of workers and whatever fails: process_job reads the customer only after
\* BRPOP gave it the job, and the PATCH carries what was assessed then.
THEOREM EarlierEditsSeen == Spec => []AssessmentSeesEarlierEdits
<1>1. FreshInv => AssessmentSeesEarlierEdits
  BY DEF FreshInv, AssessmentsFresh, AssessmentSeesEarlierEdits
<1> QED
  BY <1>1, FreshInvariant, PTL
-----------------------------------------------------------------------------
(* The list with its producers and consumers implements JobQueue *)

Waiting == {queue[i] : i \in DOMAIN queue}
Running == {worker[w].job : w \in {v \in Workers : Holds(v)}}

\* The head of the list is the oldest waiting job, and popping it leaves the
\* others.
LEMMA HeadIsOldest ==
  ASSUME TypeOK, JobOrder, queue # << >>
  PROVE  /\ Head(queue) \in Waiting
         /\ \A j \in Waiting : Head(queue) <= j
         /\ {Tail(queue)[i] : i \in DOMAIN Tail(queue)}
              = Waiting \ {Head(queue)}
         /\ Tail(queue) # queue
<1>1. /\ queue \in Seq(Nat) /\ Len(queue) \in Nat \ {0}
      /\ DOMAIN queue = 1 .. Len(queue)
      /\ Head(queue) = queue[1]
      /\ DOMAIN Tail(queue) = 1 .. Len(queue) - 1
      /\ \A i \in 1 .. Len(queue) - 1 : Tail(queue)[i] = queue[i + 1]
  BY DEF TypeOK
<1>2. \A i \in DOMAIN queue : queue[i] \in Nat /\ (i # 1 => queue[1] < queue[i])
  BY <1>1 DEF JobOrder
<1>3. \A i \in DOMAIN Tail(queue) :
        /\ Tail(queue)[i] = queue[i + 1]
        /\ i + 1 \in DOMAIN queue /\ i + 1 # 1
  BY <1>1
<1>4. \A i \in DOMAIN queue :
        i # 1 => /\ i - 1 \in DOMAIN Tail(queue)
                 /\ Tail(queue)[i - 1] = queue[i]
  BY <1>1
<1>5. Head(queue) \in Waiting /\ \A j \in Waiting : Head(queue) <= j
  BY <1>1, <1>2 DEF Waiting
<1>6. ASSUME NEW j
      PROVE  j \in {Tail(queue)[i] : i \in DOMAIN Tail(queue)}
               <=> j \in Waiting \ {Head(queue)}
  <2>1. ASSUME NEW i \in DOMAIN Tail(queue), j = Tail(queue)[i]
        PROVE  j \in Waiting \ {Head(queue)}
    <3>1. j = queue[i + 1] /\ i + 1 \in DOMAIN queue /\ i + 1 # 1
      BY <1>3, <2>1
    <3>2. queue[1] < queue[i + 1] /\ queue[1] \in Nat /\ queue[i + 1] \in Nat
      BY <1>1, <1>2, <3>1
    <3> QED
      BY <1>1, <3>1, <3>2 DEF Waiting
  <2>2. ASSUME NEW i \in DOMAIN queue, j = queue[i], j # Head(queue)
        PROVE  j \in {Tail(queue)[k] : k \in DOMAIN Tail(queue)}
    <3>1. i # 1
      BY <1>1, <2>2
    <3> QED
      BY <1>4, <2>2, <3>1
  <2> QED
    BY <2>1, <2>2 DEF Waiting
<1>7. {Tail(queue)[i] : i \in DOMAIN Tail(queue)} = Waiting \ {Head(queue)}
  BY <1>6
<1>8. Tail(queue) # queue
  <2>1. Waiting # Waiting \ {Head(queue)}
    BY <1>5
  <2> QED
    BY ONLY <1>7, <2>1 DEF Waiting
<1> QED
  BY <1>5, <1>7, <1>8

\* What a step does to who runs a job.
LEMMA WorkerRunning ==
  ASSUME JobsInv, NEW w \in Workers, WorkerStep(w) \/ WorkerFault(w)
  PROVE  \/ Running' = Running /\ queue' = queue
         \/ \E j \in Running : Running' = Running \ {j} /\ queue' = queue
         \/ /\ queue # << >> /\ queue' = Tail(queue)
            /\ \/ Running' = Running
               \/ Running' = Running \cup {Head(queue)}
<1>0. TypeOK /\ JobOrder
  BY DEF JobsInv
<1>1. /\ \A v \in Workers \ {w} : worker'[v] = worker[v]
      /\ queue' = queue \/ (queue # << >> /\ queue' = Tail(queue))
      /\ \/ ~Holds(w)'
         \/ Holds(w) /\ worker'[w].job = worker[w].job /\ queue' = queue
         \/ /\ queue # << >> /\ queue' = Tail(queue)
            /\ worker'[w].job = Head(queue)
  BY <1>0, WorkerEffect DEF Holds
<1>2. queue' # queue => ~Holds(w)
  BY <1>0, WorkerKinds DEF Holds, Busy
<1>3. queue # << >> => Tail(queue) # queue
  BY <1>0, HeadIsOldest
<1>4. \A v \in Workers \ {w} : Holds(v)' <=> Holds(v)
  BY <1>1 DEF Holds
<1>5. CASE Holds(w)' /\ queue' = queue
  <2>1. Holds(w) /\ worker'[w].job = worker[w].job
    BY <1>1, <1>3, <1>5
  <2>2. \A v \in Workers : /\ Holds(v)' <=> Holds(v)
                           /\ Holds(v) => worker'[v].job = worker[v].job
    BY <1>1, <1>4, <1>5, <2>1
  <2>3. Running' = Running
    BY <2>2 DEF Running
  <2> QED
    BY <1>5, <2>3
<1>6. CASE ~Holds(w)' /\ ~Holds(w)
  <2>1. \A v \in Workers : /\ Holds(v)' <=> Holds(v)
                           /\ Holds(v) => worker'[v].job = worker[v].job
    BY <1>1, <1>4, <1>6
  <2>2. Running' = Running
    BY <2>1 DEF Running
  <2> QED
    BY <1>1, <2>2
<1>7. CASE ~Holds(w)' /\ Holds(w)
  <2>1. \A v \in Workers : Holds(v)' <=> Holds(v) /\ v # w
    BY <1>4, <1>7
  <2>2. \A v \in Workers : Holds(v) /\ worker[v].job = worker[w].job => v = w
    BY <1>0, <1>7 DEF JobOrder
  <2>3. ASSUME NEW j
        PROVE  j \in Running' <=> j \in Running \ {worker[w].job}
    BY <1>1, <2>1, <2>2 DEF Running
  <2>4. worker[w].job \in Running /\ queue' = queue
    BY <1>1, <1>2, <1>7 DEF Running
  <2> QED
    BY <2>3, <2>4
<1>8. CASE Holds(w)' /\ queue' # queue
  <2>1. /\ queue # << >> /\ queue' = Tail(queue)
        /\ worker'[w].job = Head(queue) /\ ~Holds(w)
    BY <1>1, <1>2, <1>8
  <2>2. ASSUME NEW j
        PROVE  j \in Running' <=> j \in Running \cup {Head(queue)}
    BY <1>1, <1>4, <1>8, <2>1 DEF Running
  <2> QED
    BY <2>1, <2>2
<1> QED
  BY <1>5, <1>6, <1>7, <1>8

LEMMA NextQueue ==
  ASSUME JobsInv, [Next]_vars
  PROVE  [Queue!JQNext]_(Queue!jqVars)
<1> USE DEF Queue!JQNext, Queue!jqVars
<1>0. TypeOK /\ JobOrder /\ Len(published) \in Nat
  BY DEF JobsInv, TypeOK
<1>1. ASSUME NEW g \in Gateways, Execute(g) PROVE Queue!Arrive
  <2>1. /\ DOMAIN queue' = 1 .. Len(queue) + 1
        /\ \A i \in DOMAIN queue : queue'[i] = queue[i]
        /\ queue'[Len(queue) + 1] = Len(published) + 1
        /\ DOMAIN published' = 1 .. Len(published) + 1
        /\ worker' = worker
    BY <1>0, <1>1, ExecuteEffect
  <2>2. DOMAIN queue = 1 .. Len(queue) /\ Len(queue) \in Nat
    BY <1>0 DEF TypeOK
  <2>3. \A i : i \in DOMAIN queue' <=> i \in DOMAIN queue \/ i = Len(queue) + 1
    BY <2>1, <2>2
  <2>4. Waiting' = Waiting \cup {Len(published) + 1}
    BY <2>1, <2>3 DEF Waiting
  <2>5. Len(published') = Len(published) + 1
    <3>1. published' \in Seq(Publications)
      BY <1>1, NextTypeOK DEF JobsInv, TypeOK
    <3>2. DOMAIN published' = 1 .. Len(published') /\ Len(published') \in Nat
      BY <3>1
    <3> QED
      BY <1>0, <2>1, <3>2
  <2>6. Running' = Running
    BY <2>1 DEF Running, Holds
  <2> QED
    BY <2>4, <2>5, <2>6 DEF Queue!Arrive, Waiting, Running
<1>2. ASSUME NEW w \in Workers, WorkerStep(w) \/ WorkerFault(w)
      PROVE  [Queue!JQNext]_(Queue!jqVars)
  <2>0. published' = published
    BY <1>0, <1>2, WorkerEffect
  <2>1. CASE Running' = Running /\ queue' = queue
    BY <2>0, <2>1 DEF Running
  <2>2. CASE \E j \in Running : Running' = Running \ {j} /\ queue' = queue
    <3>1. PICK j \in Running : Running' = Running \ {j} /\ queue' = queue
      BY <2>2
    <3>2. Queue!End(j)
      BY <2>0, <3>1 DEF Queue!End, Running
    <3>3. \E i \in {worker[v].job : v \in {u \in Workers : Holds(u)}} :
            Queue!End(i)
      BY <3>1, <3>2 DEF Running
    <3> QED
      BY ONLY <3>3 DEF Queue!JQNext
  <2>3. CASE /\ queue # << >> /\ queue' = Tail(queue)
             /\ \/ Running' = Running
                \/ Running' = Running \cup {Head(queue)}
    <3>1. Waiting' = Waiting \ {Head(queue)}
      BY <1>0, <2>3, HeadIsOldest DEF Waiting
    <3>2. PICK j \in Waiting : j = Head(queue) /\ \A i \in Waiting : j <= i
      BY <1>0, <2>3, HeadIsOldest
    <3>3. Queue!Start(j) \/ Queue!LoseOldest(j)
      BY <2>0, <2>3, <3>1, <3>2
      DEF Queue!Start, Queue!LoseOldest, Queue!Oldest, Waiting, Running
    <3>4. \E i \in {queue[k] : k \in DOMAIN queue} :
            Queue!Start(i) \/ Queue!LoseOldest(i)
      BY <3>2, <3>3 DEF Waiting
    <3> QED
      BY ONLY <3>4 DEF Queue!JQNext
  <2> QED
    BY <1>2, <2>1, <2>2, <2>3, WorkerRunning
<1>3. ASSUME NEW m \in wire, ServePatch(m)
      PROVE  UNCHANGED Queue!jqVars
  <2>1. UNCHANGED << queue, published >>
    BY <1>0, <1>3, ServePatchEffect
  <2>2. \A w \in Workers : /\ Holds(w)' <=> Holds(w)
                           /\ Holds(w) => worker'[w].job = worker[w].job
    BY <1>0, <1>3, ServePatchAnswers DEF Holds, Busy
  <2>3. Running' = Running
    BY <2>2 DEF Running
  <2> QED
    BY <2>1, <2>3 DEF Running
<1>4. ASSUME UNCHANGED << worker, wire, historyVars >>, queue' \in {queue, << >>}
      PROVE  [Queue!JQNext]_(Queue!jqVars)
  <2>1. Running' = Running /\ published' = published
    BY <1>4 DEF Running, Holds, historyVars
  <2>2. CASE queue' = queue
    BY <2>1, <2>2 DEF Running
  <2>3. CASE queue' = << >>
    <3>1. Waiting' = {}
      BY <2>3 DEF Waiting
    <3>2. Queue!LoseAll
      BY <2>1, <3>1 DEF Queue!LoseAll, Waiting, Running
    <3> QED
      BY <3>2
  <2> QED
    BY <1>4, <2>2, <2>3
<1> QED
  BY <1>1, <1>2, <1>3, <1>4, StepKinds

\* The list "risk-assessment" with its producers and consumers implements
\* JobQueue, for any gateways, workers and faults: jobs are started in order of
\* arrival, each at most once, and every way to lose one is a loss the queue
\* has.
THEOREM ImplementsJobQueue == Spec => QueueSpec
<1>1. Init => Queue!JQInit
  <2> SUFFICES ASSUME Init PROVE Queue!JQInit
    OBVIOUS
  <2>1. queue = << >> /\ published = << >> /\ \A w \in Workers : ~Holds(w)
    BY DEF Init, Holds, Stopped, Busy
  <2> QED
    BY <2>1 DEF Queue!JQInit
<1>2. JobsInv /\ [Next]_vars => [Queue!JQNext]_(Queue!jqVars)
  BY NextQueue
<1> QED
  BY <1>1, <1>2, JobsInvariant, PTL DEF Spec, QueueSpec, Queue!JQSpec
-----------------------------------------------------------------------------
(* What holds while every gateway is connected to Redis *)

\* The faults that disconnect one.
Disconnecting == {"not_ready", "disconnected", "gateway_crash"}

AllConnected == \A g \in Gateways : connected[g] = TRUE

LEMMA NextConnected ==
  ASSUME Faults \cap Disconnecting = {}, TypeOK, AllConnected, [Next]_vars
  PROVE  AllConnected'
<1> USE DEF AllConnected
<1>1. ASSUME NEW g \in Gateways, GatewayNext(g) PROVE AllConnected'
  <2>1. ~RedisEnd(g) /\ ~GatewayCrash(g)
    BY DEF RedisEnd, GatewayCrash, Fault, Disconnecting
  <2>2. ~RedisReady(g)
    BY DEF RedisReady
  <2>3. connected' = connected
    BY <1>1, <2>1, <2>2 DEF GatewayNext, Create, Trigger, LPush,
       LPushReplyLost, Execute, LPushRejected
  <2> QED
    BY <2>3
<1>2. ASSUME NEW r \in onboarding, PublishOnboarding(r)
      PROVE  connected' = connected
  BY <1>2 DEF PublishOnboarding
<1>3. ASSUME NEW w \in Workers, WorkerStep(w) \/ WorkerFault(w)
      PROVE  connected' = connected
  BY <1>3 DEF WorkerStep, WorkerFault, StartWorker, Take, Loop, Fetch, Assess,
     CacheResult, Signal, PopFailed, FetchFailed, PatchLost, PatchTimeout,
     CacheFailed, WorkerCrash, Become, gatewayVars
<1>4. ASSUME NEW m \in wire, ServePatch(m) PROVE connected' = connected
  BY <1>4 DEF ServePatch, gatewayVars
<1>5. ASSUME NEW c \in Customers, StaffNext(c) \/ Expire(c)
      PROVE  connected' = connected
  BY <1>5 DEF StaffNext, StaffEdit, StaffDecide, StaffDelete, Expire, gatewayVars
<1>6. Evict \/ UNCHANGED vars => connected' = connected
  BY DEF Evict, vars, gatewayVars
<1> QED
  BY <1>1, <1>2, <1>3, <1>4, <1>5, <1>6 DEF Next

LEMMA ConnectedInvariant ==
  ASSUME Faults \cap Disconnecting = {}
  PROVE  Spec => []AllConnected
<1>1. Init => AllConnected
  BY DEF Init, AllConnected, Disconnecting
<1>2. TypeOK /\ AllConnected /\ [Next]_vars => AllConnected'
  BY NextConnected
<1> QED
  BY <1>1, <1>2, TypeCorrect, PTL DEF Spec

LEMMA NextQueued ==
  ASSUME TypeOK, AllConnected, QueuedIsPublished, [Next]_vars
  PROVE  QueuedIsPublished'
<1>1. ASSUME NEW n \in told PROVE \E j \in DOMAIN published' : published'[j].req = n
  BY PublishedGrows DEF QueuedIsPublished
<1>2. ASSUME NEW g \in Gateways, LPush(g), NEW n \in told' \ told
      PROVE  \E j \in DOMAIN published' : published'[j].req = n
  <2>1. Execute(g) /\ n = Head(sending[g]).req
    BY <1>2 DEF LPush
  <2>2. published'[Len(published) + 1].req = n
    <3>1. published'[Len(published) + 1] =
            [cust |-> Head(sending[g]).cust, req |-> Head(sending[g]).req,
             asOf |-> record[Head(sending[g]).cust].profile]
      BY <2>1, ExecuteAppends
    <3> QED
      BY ONLY <2>1, <3>1
  <2>3. Len(published) + 1 \in DOMAIN published'
    <3>1. DOMAIN published' = 1 .. Len(published) + 1 /\ Len(published) \in Nat
      BY <2>1, ExecuteEffect DEF TypeOK
    <3> QED
      BY <3>1
  <2> QED
    BY <2>2, <2>3
<1>3. ASSUME NEW g \in Gateways, GatewayNext(g)
      PROVE  told' = told \/ LPush(g)
  BY <1>3 DEF GatewayNext, Create, Trigger, LPushReplyLost, LPushRejected,
     RedisReady, RedisEnd, GatewayCrash, AllConnected
<1>4. ASSUME NEW r \in onboarding, PublishOnboarding(r) PROVE told' = told
  BY <1>4 DEF PublishOnboarding
<1>5. ASSUME NEW w \in Workers, WorkerStep(w) \/ WorkerFault(w)
      PROVE  told' = told
  BY <1>5 DEF WorkerStep, WorkerFault, StartWorker, Take, Loop, Fetch, Assess,
     CacheResult, Signal, PopFailed, FetchFailed, PatchLost, PatchTimeout,
     CacheFailed, WorkerCrash, Become, gatewayVars
<1>6. ASSUME NEW m \in wire, ServePatch(m) PROVE told' = told
  BY <1>6 DEF ServePatch, gatewayVars
<1>7. ASSUME NEW c \in Customers, StaffNext(c) \/ Expire(c) PROVE told' = told
  BY <1>7 DEF StaffNext, StaffEdit, StaffDecide, StaffDelete, Expire, gatewayVars
<1>8. Evict \/ UNCHANGED vars => told' = told
  BY DEF Evict, vars, gatewayVars
<1>9. told' = told \/ \E g \in Gateways : LPush(g)
  BY <1>3, <1>4, <1>5, <1>6, <1>7, <1>8 DEF Next
<1> QED
  BY <1>1, <1>2, <1>9 DEF QueuedIsPublished

\* While no gateway loses Redis, a request answered 'queued' has a job: the
\* LPUSH of publishRiskAssessment is awaited before the answer.  (Without a
\* connection it returns at once, and the request is answered in the same way.)
THEOREM QueuedRequestsPublished ==
  ASSUME Faults \cap Disconnecting = {}
  PROVE  Spec => []QueuedIsPublished
<1>1. Init => QueuedIsPublished
  BY DEF Init, QueuedIsPublished
<1>2. TypeOK /\ AllConnected /\ QueuedIsPublished /\ [Next]_vars
        => QueuedIsPublished'
  BY NextQueued
<1> QED
  BY <1>1, <1>2, TypeCorrect, ConnectedInvariant, PTL DEF Spec
-----------------------------------------------------------------------------
(* No onboarded customer is forgotten *)

\* Faults that lose no job: a rollout, a PATCH without an answer, and a reply of
\* LPUSH that is lost.
KeepingJobs == {"rollout", "patch_lost", "patch_timeout", "reply_lost"}

\* Something is still going to assess c.
InHand(c) ==
  \/ \E r \in onboarding : r.cust = c
  \/ Pushing(c)
  \/ \E i \in DOMAIN queue : CustomerOf(queue[i]) = c
  \/ \E w \in Workers : Holds(w) /\ CustomerOf(worker[w].job) = c

\* An operation that leaves all that alone, and makes nobody live.
LEMMA AccountedKept ==
  ASSUME Accounted,
         UNCHANGED << onboarding, sending, queue, worker, published, cache >>,
         \A c \in Customers : record'[c].life = "live" => Live(c)
  PROVE  Accounted'
BY DEF Accounted, Live, Pushing, Holds, CustomerOf

LEMMA GatewayAccounted ==
  ASSUME Faults \subseteq KeepingJobs, JobsInv, AllConnected, Accounted,
         NEW g \in Gateways, GatewayNext(g)
  PROVE  Accounted'
<1>0. /\ TypeOK /\ JobsPublished
      /\ sending \in [Gateways -> Seq(Commands)]
      /\ record \in [Customers -> Rows]
  BY DEF JobsInv, TypeOK
<1>1. ASSUME NEW c \in Customers, Create(g, c) PROVE Accounted'
  <2>1. /\ \A d \in Customers \ {c} : record'[d] = record[d]
        /\ [gw |-> g, cust |-> c] \in onboarding'
        /\ onboarding \subseteq onboarding'
        /\ UNCHANGED << sending, queue, worker, published, cache >>
    BY <1>0, <1>1 DEF Create, historyVars
  <2>2. \E r \in onboarding' : r.cust = c
    BY <2>1
  <2> QED
    BY <2>1, <2>2 DEF Accounted, Live, Pushing, Holds, CustomerOf
<1>2. ASSUME NEW c \in Customers, Trigger(g, c) PROVE Accounted'
  <2>1. UNCHANGED << record, onboarding, queue, worker, published, cache >>
    BY <1>2 DEF Trigger, historyVars
  <2>2. sending' = [sending EXCEPT ![g] =
                     Append(sending[g], [cust |-> c, req |-> triggers'])]
    BY <1>2 DEF Trigger, Publish, AllConnected
  <2>3. [cust |-> c, req |-> triggers'] \in Commands
    BY <1>0, <1>2 DEF Trigger, Commands, TypeOK
  <2>4. ASSUME NEW h \in Gateways, NEW i \in DOMAIN sending[h]
        PROVE  i \in DOMAIN sending'[h] /\ sending'[h][i] = sending[h][i]
    <3>1. CASE h = g
      BY <1>0, <2>2, <2>3, <3>1
    <3>2. CASE h # g
      BY <1>0, <2>2, <3>2
    <3> QED
      BY <3>1, <3>2
  <2>5. ASSUME NEW d \in Customers, Pushing(d) PROVE Pushing(d)'
    BY <2>4, <2>5 DEF Pushing
  <2> QED
    BY <2>1, <2>5 DEF Accounted, Live, Holds, CustomerOf
<1>3. ASSUME Execute(g) PROVE Accounted'
  <2> DEFINE q == sending[g]
  <2>1. /\ DOMAIN published' = 1 .. Len(published) + 1
        /\ \A j \in DOMAIN published : published'[j] = published[j]
        /\ DOMAIN queue' = 1 .. Len(queue) + 1
        /\ \A i \in DOMAIN queue : queue'[i] = queue[i]
        /\ queue'[Len(queue) + 1] = Len(published) + 1
        /\ UNCHANGED << record, worker, cache >>
    BY <1>0, <1>3, ExecuteEffect
  <2>2. published'[Len(published) + 1].cust = Head(q).cust
    <3>1. published'[Len(published) + 1] =
            [cust |-> Head(sending[g]).cust, req |-> Head(sending[g]).req,
             asOf |-> record[Head(sending[g]).cust].profile]
      BY <1>0, <1>3, ExecuteAppends
    <3> QED
      BY ONLY <3>1
  <2>3. /\ DOMAIN queue = 1 .. Len(queue) /\ Len(queue) \in Nat
        /\ q \in Seq(Commands) /\ q # << >>
        /\ onboarding' = onboarding
        /\ sending' = [sending EXCEPT ![g] = Tail(q)]
    BY <1>0, <1>3 DEF TypeOK, Execute
  <2>4. \A i \in DOMAIN queue : i \in DOMAIN queue'
    BY <2>1, <2>3
  <2>5. Len(queue) + 1 \in DOMAIN queue'
    BY <2>1, <2>3
  <2>6. ASSUME NEW c \in Customers, Pushing(c)
        PROVE  Pushing(c)' \/ Head(q).cust = c
    <3>1. PICK h \in Gateways : \E i \in DOMAIN sending[h] :
                                  sending[h][i].cust = c
      BY <2>6 DEF Pushing
    <3>2. PICK i \in DOMAIN sending[h] : sending[h][i].cust = c
      BY <3>1
    <3>3. CASE h # g
      <4>1. sending'[h] = sending[h]
        BY <1>0, <2>3, <3>3
      <4> QED
        BY <3>2, <4>1 DEF Pushing
    <3>4. CASE h = g /\ i = 1
      BY <2>3, <3>2, <3>4
    <3>5. CASE h = g /\ i # 1
      <4>1. i \in 1 .. Len(q) /\ Len(q) \in Nat
        BY <2>3, <3>5
      <4>2. i - 1 \in DOMAIN Tail(q) /\ Tail(q)[i - 1] = q[i]
        BY <2>3, <3>5, <4>1
      <4>3. sending'[g] = Tail(q)
        BY <1>0, <2>3
      <4> QED
        BY <3>2, <3>5, <4>2, <4>3 DEF Pushing
    <3> QED
      BY <3>3, <3>4, <3>5
  <2>7. ASSUME NEW c \in Customers, InHand(c) PROVE InHand(c)'
    <3>1. CASE \E r \in onboarding : r.cust = c
      BY <2>3, <3>1 DEF InHand
    <3>2. CASE Pushing(c)
      <4>1. CASE Head(q).cust = c
        BY <2>1, <2>2, <2>5, <4>1 DEF InHand, CustomerOf
      <4> QED
        BY <2>6, <3>2, <4>1 DEF InHand
    <3>3. CASE \E i \in DOMAIN queue : CustomerOf(queue[i]) = c
      BY <1>0, <2>1, <2>4, <3>3 DEF InHand, JobsPublished, CustomerOf
    <3>4. CASE \E w \in Workers : Holds(w) /\ CustomerOf(worker[w].job) = c
      BY <1>0, <2>1, <3>4 DEF InHand, JobsPublished, CustomerOf, Holds
    <3> QED
      BY <2>7, <3>1, <3>2, <3>3, <3>4 DEF InHand
  <2> QED
    BY <2>1, <2>7 DEF Accounted, InHand, Live
<1>4. RedisReady(g) => Accounted'
  BY DEF RedisReady, AllConnected
<1>5. ~LPushRejected(g) /\ ~RedisEnd(g) /\ ~GatewayCrash(g)
  BY DEF LPushRejected, RedisEnd, GatewayCrash, Fault, KeepingJobs
<1> QED
  BY <1>1, <1>2, <1>3, <1>4, <1>5 DEF GatewayNext, LPush, LPushReplyLost

LEMMA WorkerAccounted ==
  ASSUME Faults \subseteq KeepingJobs, JobsInv, Accounted,
         NEW w \in Workers, WorkerStep(w) \/ WorkerFault(w)
  PROVE  Accounted'
<1>0. /\ TypeOK /\ JobsPublished /\ JobOrder
      /\ worker \in [Workers -> WorkerStates]
      /\ cache \in [Customers -> Results]
  BY DEF JobsInv, TypeOK
<1>1. /\ UNCHANGED << record, published, onboarding, sending >>
      /\ \A v \in Workers \ {w} : worker'[v] = worker[v]
  <2>1. UNCHANGED << onboarding, sending >>
    BY DEF WorkerStep, WorkerFault, StartWorker, Take, Loop, Fetch, Assess,
       CacheResult, Signal, PopFailed, FetchFailed, PatchLost, PatchTimeout,
       CacheFailed, WorkerCrash, Become, gatewayVars
  <2> QED
    BY <1>0, <2>1, WorkerEffect
<1>2. /\ ~PopFailed(w) /\ ~FetchFailed(w) /\ ~CacheFailed(w)
      /\ ~WorkerCrash(w)
  BY DEF PopFailed, FetchFailed, CacheFailed, WorkerCrash, Fault, KeepingJobs
\* What w has in hand, or takes, stays in hand, or its customer is served.
<1>3. /\ Holds(w) =>
           \/ Holds(w)' /\ worker'[w].job = worker[w].job
           \/ ~Live(CustomerOf(worker[w].job))
           \/ cache'[CustomerOf(worker[w].job)] # NoResult
      /\ \/ queue' = queue
         \/ /\ queue # << >> /\ queue' = Tail(queue)
            /\ Holds(w)' /\ worker'[w].job = Head(queue)
      /\ \A c \in Customers : cache'[c] = NoResult => cache[c] = NoResult
  <2> USE DEF Become, Holds, Busy
  <2>1. CASE StartWorker(w) \/ Loop(w)
    BY <1>0, <2>1 DEF StartWorker, Loop
  <2>2. CASE Take(w)
    BY <1>0, <2>2 DEF Take, WorkerStates
  <2>3. CASE Fetch(w)
    BY <1>0, <2>3 DEF Fetch, WorkerStates
  <2>4. CASE Assess(w)
    <3>1. worker[w].pc = "assess" /\ UNCHANGED << queue, cache >>
      BY <2>4 DEF Assess
    <3>2. worker'[w].pc = "await" /\ worker'[w].job = worker[w].job
      BY <1>0, <2>4 DEF Assess, WorkerStates
    <3> QED
      BY <3>1, <3>2
  <2>5. CASE CacheResult(w)
    <3> DEFINE c == CustomerOf(worker[w].job)
               res == [job |-> worker[w].job, kyc |-> worker[w].kyc,
                       patched |-> worker[w].patched]
    <3>1. /\ cache' = [cache EXCEPT ![c] = res] /\ queue' = queue
          /\ Holds(w)
      BY <2>5 DEF CacheResult
    <3>2. worker[w].job \in DOMAIN published
      BY <1>0, <3>1 DEF JobsPublished
    <3>3. c \in Customers /\ worker[w].job # NoJob
      BY <1>0, <3>2, JobCustomers DEF NoJob
    <3>4. res # NoResult
      BY <3>3 DEF NoResult
    <3> HIDE DEF c, res
    <3> QED
      BY <1>0, <3>1, <3>3, <3>4 DEF c
  <2>6. CASE Signal(w) \/ PatchLost(w) \/ PatchTimeout(w)
    BY <1>0, <2>6 DEF Signal, PatchLost, PatchTimeout, Answered, WorkerStates
  <2> QED
    BY <1>2, <2>1, <2>2, <2>3, <2>4, <2>5, <2>6 DEF WorkerStep, WorkerFault
<1>4. ASSUME NEW i \in DOMAIN queue
      PROVE  \/ \E k \in DOMAIN queue' : queue'[k] = queue[i]
             \/ Holds(w)' /\ worker'[w].job = queue[i]
  <2>1. CASE queue' = queue
    BY <2>1
  <2>2. CASE queue # << >> /\ queue' = Tail(queue) /\ Holds(w)'
             /\ worker'[w].job = Head(queue)
    <3>1. queue[i] = Head(queue) \/ queue[i] \in Waiting \ {Head(queue)}
      BY DEF Waiting
    <3>2. {queue'[k] : k \in DOMAIN queue'} = Waiting \ {Head(queue)}
      BY <1>0, <2>2, HeadIsOldest
    <3> QED
      BY <2>2, <3>1, <3>2
  <2> QED
    BY <1>3, <2>1, <2>2
<1>5. ASSUME NEW c \in Customers, InHand(c), Live(c), cache'[c] = NoResult
      PROVE  InHand(c)'
  <2>1. CASE (\E r \in onboarding : r.cust = c) \/ Pushing(c)
    BY <1>1, <2>1 DEF InHand, Pushing
  <2>2. CASE \E i \in DOMAIN queue : CustomerOf(queue[i]) = c
    BY <1>1, <1>4, <2>2 DEF InHand, CustomerOf
  <2>3. ASSUME NEW v \in Workers, Holds(v), CustomerOf(worker[v].job) = c
        PROVE  InHand(c)'
    <3>1. Holds(v)' /\ worker'[v].job = worker[v].job
      BY <1>1, <1>3, <1>5, <2>3 DEF Holds
    <3> QED
      BY <1>1, <2>3, <3>1 DEF InHand, CustomerOf
  <2> QED
    BY <1>5, <2>1, <2>2, <2>3 DEF InHand
<1> QED
  BY <1>1, <1>3, <1>5 DEF Accounted, InHand, Live

LEMMA NextAccounted ==
  ASSUME Faults \subseteq KeepingJobs, JobsInv, AllConnected, Accounted,
         [Next]_vars
  PROVE  Accounted'
<1>0. /\ TypeOK /\ sending \in [Gateways -> Seq(Commands)]
      /\ record \in [Customers -> Rows]
  BY DEF JobsInv, TypeOK
<1>1. ASSUME NEW r \in onboarding, PublishOnboarding(r) PROVE Accounted'
  <2> DEFINE h == r.gw
  <2>1. h \in Gateways /\ [cust |-> r.cust, req |-> 0] \in Commands
    BY <1>0 DEF TypeOK, Commands
  <2>2. /\ onboarding' = onboarding \ {r}
        /\ UNCHANGED << record, queue, worker, published, cache >>
        /\ sending' = [sending EXCEPT ![h] =
                         Append(sending[h], [cust |-> r.cust, req |-> 0])]
    BY <1>1, <2>1 DEF PublishOnboarding, Publish, AllConnected, historyVars
  <2> HIDE DEF h
  <2>3. ASSUME NEW f \in Gateways, NEW i \in DOMAIN sending[f]
        PROVE  i \in DOMAIN sending'[f] /\ sending'[f][i] = sending[f][i]
    <3>1. CASE f = h
      BY <1>0, <2>1, <2>2, <3>1
    <3>2. CASE f # h
      BY <1>0, <2>2, <3>2
    <3> QED
      BY <3>1, <3>2
  <2>4. /\ Len(sending[h]) + 1 \in DOMAIN sending'[h]
        /\ sending'[h][Len(sending[h]) + 1].cust = r.cust
    BY <1>0, <2>1, <2>2
  <2>5. ASSUME NEW c \in Customers, Pushing(c) \/ r.cust = c
        PROVE  Pushing(c)'
    BY <2>1, <2>3, <2>4, <2>5 DEF Pushing
  <2> QED
    BY <2>2, <2>5 DEF Accounted, Live, Holds, CustomerOf
<1>2. ASSUME NEW m \in wire, ServePatch(m) PROVE Accounted'
  <2>1. /\ UNCHANGED << queue, published, cache >>
        /\ UNCHANGED << onboarding, sending >>
    BY <1>0, <1>2, ServePatchEffect DEF ServePatch, gatewayVars
  <2>2. \A v \in Workers : Holds(v) => /\ Holds(v)'
                                        /\ worker'[v].job = worker[v].job
    BY <1>0, <1>2, ServePatchAnswers DEF Holds, Busy
  <2>3. \A c \in Customers : record'[c].life = record[c].life
    <3> DEFINE d == CustomerOf(m.job)
               row == [record[d] EXCEPT !.kyc = m.kyc, !.by = m.job,
                                        !.basis = m.basis]
    <3>1. d \in Customers
      BY <1>0, JobCustomers DEF JobsInv, JobsPublished
    <3>2. row.life = record[d].life
      BY <1>0, <3>1 DEF Rows
    <3>3. record' = record \/ record' = [record EXCEPT ![d] = row]
      BY <1>2 DEF ServePatch
    <3> HIDE DEF d, row
    <3> QED
      BY <1>0, <3>1, <3>2, <3>3
  <2> QED
    BY <2>1, <2>2, <2>3 DEF Accounted, Live, Pushing, CustomerOf
<1>3. ASSUME NEW c \in Customers, StaffNext(c) PROVE Accounted'
  <2>1. UNCHANGED << onboarding, sending, queue, worker, published, cache >>
    BY <1>3 DEF StaffNext, StaffEdit, StaffDecide, StaffDelete, gatewayVars,
                historyVars
  <2>2. \A d \in Customers : record'[d].life = "live" => Live(d)
    BY <1>0, <1>3
    DEF StaffNext, StaffEdit, StaffDecide, StaffDelete, Live, Rows
  <2> QED
    BY <2>1, <2>2, AccountedKept
<1>4. ~Evict /\ \A c \in Customers : ~Expire(c)
  BY DEF Evict, Expire, Fault, KeepingJobs
<1>5. ASSUME UNCHANGED vars PROVE Accounted'
  BY <1>5, AccountedKept DEF vars, gatewayVars, historyVars, Live
<1> QED
  BY <1>1, <1>2, <1>3, <1>4, <1>5, GatewayAccounted, WorkerAccounted DEF Next

\* No onboarded customer is forgotten, for any number of replicas and workers,
\* while the only faults are rollouts, PATCHes without an answer and lost
\* replies to LPUSH: the worker finishes the job in hand before it stops, and
\* caches a result whatever the PATCH answered.
THEOREM NobodyForgotten ==
  ASSUME Faults \subseteq KeepingJobs
  PROVE  Spec => []Accounted
<1>1. Faults \cap Disconnecting = {}
  BY DEF KeepingJobs, Disconnecting
<1>2. Init => Accounted
  BY DEF Init, Accounted, Live, Unborn
<1>3. JobsInv /\ AllConnected /\ Accounted /\ [Next]_vars => Accounted'
  BY NextAccounted
<1>4. Spec => []AllConnected
  BY <1>1, ConnectedInvariant
<1> QED
  BY <1>2, <1>3, <1>4, JobsInvariant, PTL DEF Spec
-----------------------------------------------------------------------------
(* The order in which assessments reach the record *)

\* With one worker that neither times out on a PATCH nor crashes: the PATCH on
\* the wire is that of the job in hand, and no record is ahead of that job, nor
\* a cached result ahead of its record.
PatchInv ==
  /\ \A m, n \in wire : m = n
  /\ \A m \in wire : /\ worker[m.from].pc = "await"
                     /\ worker[m.from].job = m.job

RecordInv ==
  \A c \in Customers :
    /\ record[c].by <= Len(published)
    /\ \A i \in DOMAIN queue : record[c].by < queue[i]
    /\ \A w \in Workers : Holds(w) => record[c].by <= worker[w].job

ResultInv ==
  /\ \A w \in Workers :
       worker[w].patched =>
         worker[w].job <= record[CustomerOf(worker[w].job)].by
  /\ \A c \in Customers : cache[c].patched => cache[c].job <= record[c].by

PatchedInv == \A w \in Workers : worker[w].patched => worker[w].pc = "cache"

OrderInv == JobsInv /\ UnbornBlank /\ PatchInv /\ RecordInv /\ ResultInv
              /\ PatchedInv

OneWorker == \A v, w \in Workers : v = w
LatePatches == {"patch_timeout", "worker_crash"}

LEMMA NextPatch ==
  ASSUME OneWorker, Faults \cap LatePatches = {}, OrderInv, [Next]_vars
  PROVE  PatchInv' /\ PatchedInv'
<1>0. /\ TypeOK /\ PatchInv /\ PatchedInv
      /\ worker \in [Workers -> WorkerStates] /\ wire \subseteq Requests
  BY DEF OrderInv, JobsInv, TypeOK
<1>1. ASSUME NEW w \in Workers, WorkerStep(w) \/ WorkerFault(w)
      PROVE  PatchInv' /\ PatchedInv'
  <2>0. /\ \A v \in Workers : v = w
        /\ \A m \in wire : m.from = w
    BY <1>0 DEF OneWorker, Requests
  <2>1. ~WorkerCrash(w) /\ ~PatchTimeout(w)
    BY DEF WorkerCrash, PatchTimeout, Fault, LatePatches
  <2>2. worker[w].pc = "await" /\ worker'[w].pc # "await"
          => wire' = {m \in wire : m.from # w \/ m.job # worker[w].job}
    BY <1>0, <1>1, <2>1 DEF WorkerStep, WorkerFault, StartWorker, Take, Loop,
       Fetch, Assess, CacheResult, Signal, PopFailed, FetchFailed, PatchLost,
       CacheFailed, Become, WorkerStates
  <2>3. worker[w].pc # "await" => wire = {}
    BY <1>0, <2>0 DEF PatchInv
  <2>4. worker'[w].patched => worker'[w].pc = "cache"
    BY <1>0, <1>1, WorkerKinds DEF PatchedInv, Busy
  <2>5. CASE worker[w].pc = "assess" /\ worker'[w].pc = "await"
    <3>1. PICK v : /\ wire' = wire \cup {[from |-> w, job |-> worker[w].job,
                                           kyc |-> v, basis |-> worker[w].basis]}
                   /\ worker'[w].job = worker[w].job
      BY <1>0, <1>1, <2>5, WorkerKinds DEF Busy
    <3> QED
      BY <2>0, <2>3, <2>4, <2>5, <3>1 DEF PatchInv, PatchedInv
  <2>6. CASE worker[w].pc = "await" /\ worker'[w].pc # "await"
    <3>1. wire' = {}
      BY <1>0, <2>0, <2>2, <2>6 DEF PatchInv
    <3> QED
      BY <2>0, <2>4, <3>1 DEF PatchInv, PatchedInv
  <2>7. CASE worker[w].pc = "await" /\ worker'[w].pc = "await"
    <3>1. wire' = wire /\ worker'[w].job = worker[w].job
      BY <1>0, <1>1, <2>7, WorkerKinds DEF Busy
    <3> QED
      BY <1>0, <2>0, <2>4, <2>7, <3>1 DEF PatchInv, PatchedInv
  <2>8. CASE worker[w].pc # "await" /\ worker[w].pc # "assess"
    <3>1. wire' = {}
      BY <1>0, <1>1, <2>3, <2>8, WorkerKinds DEF Busy
    <3> QED
      BY <2>0, <2>4, <3>1 DEF PatchInv, PatchedInv
  <2>9. CASE worker[w].pc = "assess" /\ worker'[w].pc # "await"
    <3>1. wire' = {}
      BY <1>0, <1>1, <2>3, <2>9, WorkerKinds DEF Busy
    <3> QED
      BY <2>0, <2>4, <3>1 DEF PatchInv, PatchedInv
  <2> QED
    BY <2>5, <2>6, <2>7, <2>8, <2>9
<1>2. ASSUME NEW m \in wire, ServePatch(m) PROVE PatchInv' /\ PatchedInv'
  <2>1. wire' = {}
    BY <1>0, <1>2 DEF PatchInv, ServePatch
  <2>2. PatchedInv'
    BY <1>0, <1>2, ServePatchAnswers DEF PatchedInv
  <2> QED
    BY <2>1, <2>2 DEF PatchInv
<1>3. UNCHANGED << worker, wire >> => PatchInv' /\ PatchedInv'
  BY <1>0 DEF PatchInv, PatchedInv
<1>4. (\E g \in Gateways : Execute(g)) => UNCHANGED << worker, wire >>
  BY DEF Execute
<1> QED
  BY <1>1, <1>2, <1>3, <1>4, StepKinds

\* Only the PATCH of the job in hand changes by, and no record is ahead of it.
LEMMA RecordsAdvance ==
  ASSUME OrderInv, [Next]_vars, NEW c \in Customers
  PROVE  /\ record[c].by \in Nat /\ record'[c].by \in Nat
         /\ record'[c].by >= record[c].by
         /\ \/ record'[c].by = record[c].by
            \/ \E m \in wire : ServePatch(m) /\ record'[c].by = m.job
<1>1. /\ record[c].by \in Nat /\ record'[c].by \in Nat
  BY NextTypeOK DEF OrderInv, JobsInv, TypeOK, Rows
<1>2. \/ record'[c].by = record[c].by
      \/ \E m \in wire : ServePatch(m) /\ record'[c].by = m.job
  BY RecordKinds DEF OrderInv, JobsInv
<1>3. \A m \in wire : record[c].by <= m.job /\ m.job \in Nat
  <2> SUFFICES ASSUME NEW m \in wire
               PROVE  record[c].by <= m.job /\ m.job \in Nat
    OBVIOUS
  <2>1. m.from \in Workers /\ m.job \in Nat
    BY DEF OrderInv, JobsInv, TypeOK, Requests
  <2>2. Holds(m.from) /\ worker[m.from].job = m.job
    BY DEF OrderInv, PatchInv, Holds, Busy
  <2> QED
    BY <2>1, <2>2 DEF OrderInv, RecordInv
<1> QED
  BY <1>1, <1>2, <1>3

LEMMA NextRecord ==
  ASSUME OneWorker, OrderInv, [Next]_vars
  PROVE  RecordInv'
<1>0. /\ TypeOK /\ JobsPublished /\ JobOrder /\ PatchInv /\ RecordInv
      /\ queue \in Seq(Nat) /\ Len(published) \in Nat
      /\ worker \in [Workers -> WorkerStates]
      /\ \A c \in Customers : record[c].by \in Nat
  BY DEF OrderInv, JobsInv, TypeOK, Rows
<1>1. ASSUME NEW g \in Gateways, Execute(g) PROVE RecordInv'
  <2>1. /\ DOMAIN queue' = 1 .. Len(queue) + 1
        /\ \A i \in DOMAIN queue : queue'[i] = queue[i]
        /\ queue'[Len(queue) + 1] = Len(published) + 1
        /\ DOMAIN published' = 1 .. Len(published) + 1
        /\ UNCHANGED << record, worker >>
    BY <1>0, <1>1, ExecuteEffect
  <2>2. DOMAIN queue = 1 .. Len(queue) /\ Len(queue) \in Nat
    BY <1>0
  <2>3. Len(published') = Len(published) + 1
    <3>1. published' \in Seq(Publications)
      BY <1>0, <1>1, NextTypeOK DEF TypeOK
    <3>2. DOMAIN published' = 1 .. Len(published') /\ Len(published') \in Nat
      BY <3>1
    <3> QED
      BY <1>0, <2>1, <3>2
  <2>4. ASSUME NEW c \in Customers, NEW i \in DOMAIN queue'
        PROVE  record'[c].by < queue'[i]
    <3>1. CASE i \in DOMAIN queue
      BY <1>0, <2>1, <3>1 DEF RecordInv
    <3>2. CASE i = Len(queue) + 1
      <4>1. record[c].by <= Len(published) /\ record[c].by \in Nat
        BY <1>0 DEF RecordInv
      <4> QED
        BY <1>0, <2>1, <3>2, <4>1
    <3> QED
      BY <2>1, <2>2, <3>1, <3>2
  <2>5. \A c \in Customers : record'[c].by <= Len(published')
    BY <1>0, <2>1, <2>3 DEF RecordInv
  <2> QED
    BY <1>0, <2>1, <2>4, <2>5 DEF RecordInv, Holds
<1>2. ASSUME NEW w \in Workers, WorkerStep(w) \/ WorkerFault(w)
      PROVE  RecordInv'
  <2>1. /\ UNCHANGED << published, record >>
        /\ \A v \in Workers \ {w} : worker'[v] = worker[v]
        /\ queue' = queue \/ (queue # << >> /\ queue' = Tail(queue))
        /\ \/ ~Holds(w)'
           \/ Holds(w) /\ worker'[w].job = worker[w].job
           \/ queue # << >> /\ worker'[w].job = Head(queue)
    BY <1>0, <1>2, WorkerEffect DEF Holds
  <2>2. \A i \in DOMAIN queue' : queue'[i] \in Waiting
    <3>1. CASE queue' = queue
      BY <3>1 DEF Waiting
    <3>2. CASE queue # << >> /\ queue' = Tail(queue)
      <4>1. {queue'[i] : i \in DOMAIN queue'} = Waiting \ {Head(queue)}
        BY <1>0, <3>2, HeadIsOldest
      <4> QED
        BY <4>1
    <3> QED
      BY <2>1, <3>1, <3>2
  <2>3. ASSUME NEW c \in Customers, NEW j \in Waiting
        PROVE  record[c].by < j /\ record[c].by <= j
    <3>1. j \in Nat /\ record[c].by \in Nat /\ record[c].by < j
      BY <1>0 DEF Waiting, RecordInv
    <3> QED
      BY <3>1
  <2>4. queue # << >> => Head(queue) \in Waiting
    BY <1>0, HeadIsOldest
  <2> QED
    BY <1>0, <2>1, <2>2, <2>3, <2>4 DEF RecordInv, Holds
<1>3. ASSUME NEW m \in wire, ServePatch(m) PROVE RecordInv'
  <2>1. /\ UNCHANGED << queue, published >>
        /\ \A v \in Workers : /\ Holds(v)' => Holds(v)
                              /\ worker'[v].job = worker[v].job
    BY <1>0, <1>3, ServePatchEffect
  <2>2. m.from \in Workers /\ m.job \in Nat /\ worker[m.from].job = m.job
    BY <1>0 DEF TypeOK, Requests, PatchInv
  <2>0. \A n \in wire : n = m
    BY <1>0 DEF PatchInv
  <2>3. ASSUME NEW c \in Customers
        PROVE  record'[c].by = record[c].by \/ record'[c].by = m.job
    BY <2>0, RecordsAdvance
  <2>4. /\ m.job <= Len(published)
        /\ \A i \in DOMAIN queue : m.job < queue[i]
        /\ \A v \in Workers : m.job <= worker[v].job
    <3>1. m.job \in DOMAIN published
      BY <1>0 DEF JobsPublished
    <3>2. m.job <= Len(published)
      BY <1>0, <3>1, JobCustomers
    <3>3. \A v \in Workers : v = m.from
      BY <2>2 DEF OneWorker
    <3> QED
      BY <1>0, <2>2, <3>2, <3>3 DEF JobOrder
  <2> QED
    BY <1>0, <2>1, <2>3, <2>4 DEF RecordInv
<1>4. ASSUME UNCHANGED << worker, wire, historyVars >>,
             queue' \in {queue, << >>}, ~ \E m \in wire : ServePatch(m)
      PROVE  RecordInv'
  <2>1. \A c \in Customers : record'[c].by = record[c].by
    BY <1>4, RecordsAdvance
  <2> QED
    BY <1>0, <1>4, <2>1 DEF RecordInv, Holds, historyVars
<1> QED
  BY <1>1, <1>2, <1>3, <1>4, StepKinds
LEMMA NextResult ==
  ASSUME OrderInv, [Next]_vars
  PROVE  ResultInv'
<1>0. /\ TypeOK /\ JobsPublished /\ ResultInv /\ PatchedInv
      /\ worker \in [Workers -> WorkerStates]
      /\ cache \in [Customers -> Results] /\ record \in [Customers -> Rows]
  BY DEF OrderInv, JobsInv, TypeOK
<1>1. \A j \in DOMAIN published :
        published'[j].cust = CustomerOf(j) /\ CustomerOf(j) \in Customers
  BY <1>0, PublishedGrows, JobCustomers DEF CustomerOf
<1>2. \A c \in Customers :
        /\ record[c].by \in Nat /\ record'[c].by \in Nat
        /\ record'[c].by >= record[c].by
  BY RecordsAdvance
\* What the worker's flag said stays true, as records only advance.
<1>3. ASSUME NEW w \in Workers, worker[w].patched
      PROVE  /\ worker[w].job \in DOMAIN published /\ worker[w].job \in Nat
             /\ worker[w].job <= record[CustomerOf(worker[w].job)].by
             /\ worker[w].job <= record'[published'[worker[w].job].cust].by
  <2>1. Holds(w)
    BY <1>0, <1>3 DEF PatchedInv, Holds, Busy
  <2>2. worker[w].job \in DOMAIN published /\ worker[w].job \in Nat
    BY <1>0, <2>1 DEF JobsPublished, WorkerStates
  <2>3. worker[w].job <= record[CustomerOf(worker[w].job)].by
    BY <1>0, <1>3 DEF ResultInv, CustomerOf
  <2> QED
    BY <1>1, <1>2, <2>2, <2>3
<1>4. ASSUME NEW c \in Customers, cache[c].patched
      PROVE  cache[c].job <= record'[c].by
  <2>1. cache[c].job \in Nat /\ cache[c].job <= record[c].by
    BY <1>0, <1>4 DEF ResultInv, Results
  <2> QED
    BY <1>2, <2>1
<1>5. ASSUME NEW w \in Workers, WorkerStep(w) \/ WorkerFault(w)
      PROVE  ResultInv'
  <2>1. \A v \in Workers :
          worker'[v].patched => /\ worker[v].patched
                                /\ worker'[v].job = worker[v].job
    <3>1. \A v \in Workers \ {w} : worker'[v] = worker[v]
      BY <1>0, <1>5, WorkerEffect
    <3>2. worker'[w].patched => /\ worker[w].patched
                                /\ worker'[w].job = worker[w].job
      BY <1>0, <1>5, WorkerKinds DEF PatchedInv
    <3> QED
      BY <3>1, <3>2
  <2>2. CASE CacheResult(w)
    <3> DEFINE d == CustomerOf(worker[w].job)
               res == [job |-> worker[w].job, kyc |-> worker[w].kyc,
                       patched |-> worker[w].patched]
    <3>1. cache' = [cache EXCEPT ![d] = res] /\ record' = record
      BY <2>2 DEF CacheResult
    <3>2. res.patched => res.job <= record[d].by
      BY <1>3
    <3>3. \A c \in Customers :
            cache'[c].patched => cache'[c].job <= record'[c].by
      <4> HIDE DEF d, res
      <4> QED
        BY <1>0, <1>4, <3>1, <3>2
    <3> QED
      BY <1>3, <2>1, <3>3 DEF ResultInv, CustomerOf
  <2>3. CASE ~CacheResult(w)
    <3>1. cache' = cache
      BY <1>5, <2>3 DEF WorkerStep, WorkerFault, StartWorker, Take, Loop,
         Fetch, Assess, Signal, PopFailed, FetchFailed, PatchLost,
         PatchTimeout, CacheFailed, WorkerCrash
    <3> QED
      BY <1>3, <1>4, <2>1, <3>1 DEF ResultInv, CustomerOf
  <2> QED
    BY <2>2, <2>3
<1>6. ASSUME NEW m \in wire, ServePatch(m) PROVE ResultInv'
  <2>1. cache' = cache
    BY <1>6 DEF ServePatch
  <2>2. CASE Accepts(m)
    <3> DEFINE d == CustomerOf(m.job)
               row == [record[d] EXCEPT !.kyc = m.kyc, !.by = m.job,
                                        !.basis = m.basis]
    <3>1. m.job \in DOMAIN published /\ d \in Customers /\ m.job \in Nat
      BY <1>0, <1>1 DEF JobsPublished, TypeOK, Requests
    <3>2. record' = [record EXCEPT ![d] = row]
      BY <1>6, <2>2 DEF ServePatch
    <3>3. row.by = m.job
      BY <1>0, <3>1 DEF Rows
    <3>4. record'[d].by = m.job
      <4> HIDE DEF row, d
      <4> QED
        BY <1>0, <3>1, <3>2, <3>3
    <3>5. m.job <= record'[published'[m.job].cust].by
      BY <1>1, <3>1, <3>4
    <3>6. \A w \in Workers : worker'[w] = worker[w] \/ worker'[w].job = m.job
      BY <1>0, <1>6, ServePatchAnswers
    <3>7. \A w \in Workers :
            worker'[w].patched =>
              worker'[w].job <= record'[published'[worker'[w].job].cust].by
      BY <1>3, <3>5, <3>6
    <3> QED
      BY <1>4, <2>1, <3>7 DEF ResultInv, CustomerOf
  <2>3. CASE ~Accepts(m)
    <3>1. \A w \in Workers : worker'[w] = worker[w] \/ ~worker'[w].patched
      BY <1>0, <1>6, <2>3, ServePatchAnswers
    <3> QED
      BY <1>3, <1>4, <2>1, <3>1 DEF ResultInv, CustomerOf
  <2> QED
    BY <2>2, <2>3
<1>7. ASSUME UNCHANGED worker,
             \A c \in Customers : cache'[c] = cache[c] \/ cache'[c] = NoResult
      PROVE  ResultInv'
  BY <1>3, <1>4, <1>7 DEF ResultInv, CustomerOf, NoResult
<1>8. ASSUME NEW g \in Gateways, GatewayNext(g)
      PROVE  UNCHANGED << worker, cache >>
  BY <1>8 DEF GatewayNext, Create, Trigger, LPush, LPushReplyLost, Execute,
              LPushRejected, RedisReady, RedisEnd, GatewayCrash
<1>9. ASSUME NEW r \in onboarding, PublishOnboarding(r)
      PROVE  UNCHANGED << worker, cache >>
  BY <1>9 DEF PublishOnboarding
<1>10. ASSUME NEW d \in Customers, StaffNext(d) \/ Expire(d)
       PROVE  /\ UNCHANGED worker
              /\ \A c \in Customers : cache'[c] = cache[c] \/ cache'[c] = NoResult
  BY <1>0, <1>10
  DEF StaffNext, StaffEdit, StaffDecide, StaffDelete, Expire
<1>11. Evict \/ UNCHANGED vars => UNCHANGED << worker, cache >>
  BY DEF Evict, vars
<1> QED
  BY <1>5, <1>6, <1>7, <1>8, <1>9, <1>10, <1>11 DEF Next

LEMMA OrderInvariant ==
  ASSUME OneWorker, Faults \cap LatePatches = {}
  PROVE  Spec => []OrderInv
<1>1. Init => OrderInv
  <2> SUFFICES ASSUME Init PROVE OrderInv
    OBVIOUS
  <2>1. \A c \in Customers : record[c] = Unborn /\ record[c].by = 0
    BY DEF Init, Unborn, NoJob
  <2>2. \A w \in Workers : ~Holds(w) /\ ~worker[w].patched
    BY DEF Init, Stopped, Holds, Busy
  <2>3. \A c \in Customers : ~cache[c].patched
    BY DEF Init, NoResult
  <2>4. queue = << >> /\ published = << >> /\ wire = {}
    BY DEF Init
  <2> QED
    BY <2>1, <2>2, <2>3, <2>4, InitJobs
    DEF OrderInv, UnbornBlank, PatchInv, RecordInv, ResultInv, PatchedInv
<1>2. OrderInv /\ [Next]_vars => OrderInv'
  <2> SUFFICES ASSUME OrderInv, [Next]_vars PROVE OrderInv'
    OBVIOUS
  <2>1. JobsInv'
    BY NextTypeOK, NextJobs DEF OrderInv, JobsInv
  <2>2. UnbornBlank'
    BY RecordKinds DEF OrderInv, JobsInv
  <2> QED
    BY <2>1, <2>2, NextPatch, NextRecord, NextResult DEF OrderInv
<1> QED
  BY <1>1, <1>2, PTL DEF Spec

\* With one worker, no PATCH that times out and no crash during one, a customer's
\* assessments reach the record in the order in which they were asked for.  (Both
\* hypotheses are needed: a PATCH served late overwrites a newer one.)
THEOREM AssessmentsArriveInOrder ==
  ASSUME OneWorker, Faults \cap LatePatches = {}
  PROVE  Spec => AssessmentsInOrder
<1>1. OrderInv /\ [Next]_vars
        => [\A c \in Customers : record'[c].by >= record[c].by]_vars
  BY RecordsAdvance
<1> QED
  BY <1>1, OrderInvariant, PTL DEF Spec, AssessmentsInOrder

\* ... and a cached result that says patchedSuccessfully is never newer than the
\* record, although PATCH and SETEX are two steps with staff in between.
THEOREM CachesNeverAhead ==
  ASSUME OneWorker, Faults \cap LatePatches = {}
  PROVE  Spec => []CacheNotAhead
<1>1. OrderInv => CacheNotAhead
  BY DEF OrderInv, ResultInv, CacheNotAhead
<1> QED
  BY <1>1, OrderInvariant, PTL
=============================================================================
