---------------------------- MODULE RiskPipeline ----------------------------
(***************************************************************************)
(* The KYC risk assessment of a customer, end to end: the gateway replica  *)
(* that proxied the onboarding (gateway/src/proxy/party.ts) or took a      *)
(* manual request (proxy/ai.ts) publishes a job (queue/redis.ts), Redis    *)
(* keeps the list "risk-assessment" and the keys "risk-result:<id>", a     *)
(* worker (ai-service/app/worker.py) pops the job, reads the customer,     *)
(* assesses it, PATCHes the record back and caches the result, while bank  *)
(* staff edit, decide or delete the same record through the party service. *)
(*                                                                         *)
(* Every await of the worker is a point where the others may move, so each *)
(* one separates two actions.  A PATCH of the party service is one atomic  *)
(* step here; what two replicas of it do to each other is PartyRecords.    *)
(* A profile is a version number: staff edits increment it, and nothing    *)
(* else of its content matters here.                                       *)
(***************************************************************************)
EXTENDS Naturals, Sequences, FiniteSets

CONSTANTS
  Customers,     \* ids of individuals (uuid4: an id is never used twice)
  Gateways,      \* gateway replicas
  Workers,       \* ai-service pods: one, and a second one while it is rolled
  KycStatuses,   \* the values of the KYCStatus enum the model tells apart
  LlmStatuses,   \* the kyc_status strings the language model may answer
  StaffStatuses, \* the kycStatus values staff set by hand
  Faults,        \* the kinds of fault the environment may produce
  MaxTriggers,   \* bound: manual assessment requests in a behaviour
  MaxProfile,    \* bound: versions of a profile
  MaxFaults      \* bound: faults in a behaviour

\* What can go wrong around the pipeline.
FaultKinds ==
  { "not_ready",     \* a gateway serves requests before Redis is 'ready'
    "disconnected",  \* the Redis client of a gateway emits 'end'
    "push_rejected", \* LPUSH rejects although Redis did not execute it
    "reply_lost",    \* LPUSH executes and its reply is lost: it rejects too
    "gateway_crash",
    "rollout",       \* a worker pod gets SIGTERM
    "worker_crash",  \* includes SIGKILL at the end of the grace period
    "pop_failed",    \* BRPOP raises, having removed the job or not
    "fetch_failed",  \* the GET fails, times out or answers an error
    "patch_lost",    \* the PATCH never reaches the party service
    "patch_timeout", \* no answer in 10 s; the PATCH may be served later
    "cache_failed",  \* SETEX raises
    "evicted",       \* allkeys-lru evicts the list
    "expired" }      \* a result's 24 h pass, or it is evicted

ASSUME StatusAssumption ==
  /\ {"pending", "in_review", "approved"} \subseteq KycStatuses
  /\ StaffStatuses \subseteq KycStatuses
ASSUME FaultAssumption == Faults \subseteq FaultKinds
ASSUME BoundAssumption ==
  /\ MaxTriggers \in Nat
  /\ MaxProfile \in Nat \ {0}
  /\ MaxFaults \in Nat

VARIABLES
  record,     \* party database: the row of each customer
  onboarding, \* 201 answers still on their way through a gateway
  connected,  \* RedisQueue.connected of each gateway
  sending,    \* LPUSH commands of each gateway that Redis has not executed
  queue,      \* the list "risk-assessment", the next job to pop first
  worker,     \* where each worker is in run_worker and process_job
  wire,       \* PATCH requests the party service has not served
  cache,      \* the key "risk-result:<id>" of each customer
  published,  \* history: the jobs pushed so far; a job is its index
  committed,  \* history: the jobs whose PATCH was committed
  triggers,   \* the number of manual requests so far; a request is its index
  told,       \* history: the manual requests that were answered 'queued'
  faults      \* the number of faults so far (bounded by MaxFaults)

gatewayVars == << onboarding, connected, sending, triggers, told >>
historyVars == << published, committed >>
vars == << record, gatewayVars, queue, worker, wire, cache, historyVars,
           faults >>

-----------------------------------------------------------------------------
(* Values *)

NoJob == 0
Statuses == KycStatuses \cup LlmStatuses

\* A row; by and basis are history: the job that wrote the risk fields and the
\* version of the profile that job had read.
Rows == [ life : {"unborn", "live", "deleted"}, kyc : KycStatuses,
          profile : Nat, by : Nat, basis : Nat ]
Unborn == [ life |-> "unborn", kyc |-> "pending", profile |-> 0,
            by |-> NoJob, basis |-> 0 ]

\* A publication; req is the manual request it answers, 0 for an onboarding,
\* and asOf is history: the version of the profile when the job was pushed.
Commands == [ cust : Customers, req : Nat ]
Publications == [ cust : Customers, req : Nat, asOf : Nat ]

\* The awaits of process_job: the GET, the model, the PATCH, SETEX.
Busy == { "fetch", "assess", "await", "cache" }
WorkerStates ==
  [ pc : {"stopped", "idle", "sleep"} \cup Busy, shutdown : BOOLEAN,
    job : Nat, basis : Nat, kyc : Statuses, patched : BOOLEAN ]
Stopped == [ pc |-> "stopped", shutdown |-> FALSE, job |-> NoJob, basis |-> 0,
             kyc |-> "pending", patched |-> FALSE ]
Idle == [ Stopped EXCEPT !.pc = "idle" ]

Requests == [ from : Workers, job : Nat, kyc : Statuses, basis : Nat ]
Results == [ job : Nat, kyc : Statuses, patched : BOOLEAN ]
NoResult == [ job |-> NoJob, kyc |-> "pending", patched |-> FALSE ]

Live(c) == record[c].life = "live"
Holds(w) == worker[w].pc \in Busy
CustomerOf(j) == published[j].cust

\* The environment produces a fault of kind k.
Fault(k) ==
  /\ k \in Faults
  /\ faults < MaxFaults
  /\ faults' = faults + 1

-----------------------------------------------------------------------------
Init ==
  /\ record = [c \in Customers |-> Unborn]
  /\ onboarding = {}
  /\ connected \in [Gateways -> IF "not_ready" \in Faults THEN BOOLEAN
                                                          ELSE {TRUE}]
  /\ sending = [g \in Gateways |-> << >>]
  /\ queue = << >>
  /\ worker = [w \in Workers |-> Stopped]
  /\ wire = {}
  /\ cache = [c \in Customers |-> NoResult]
  /\ published = << >>
  /\ committed = {}
  /\ triggers = 0
  /\ told = {}
  /\ faults = 0

-----------------------------------------------------------------------------
(* The gateway *)

\* redisQueue.publishRiskAssessment: skipped with a warning, and without an
\* error, while the client is not connected.
Publish(g, c, req) ==
  sending' = IF connected[g]
             THEN [sending EXCEPT ![g] = Append(@, [cust |-> c, req |-> req])]
             ELSE sending

\* POST .../individual through gateway g: the row is committed and the 201
\* starts back.
Create(g, c) ==
  /\ record[c].life = "unborn"
  /\ record' = [record EXCEPT ![c].life = "live", ![c].profile = 1]
  /\ onboarding' = onboarding \cup {[gw |-> g, cust |-> c]}
  /\ UNCHANGED << connected, sending, triggers, told, queue, worker, wire,
                  cache, historyVars, faults >>

\* The 'end' of the proxied 201: the gateway publishes and nobody awaits it.
PublishOnboarding(r) ==
  /\ r \in onboarding
  /\ onboarding' = onboarding \ {r}
  /\ Publish(r.gw, r.cust, 0)
  /\ UNCHANGED << record, connected, triggers, told, queue, worker, wire,
                  cache, historyVars, faults >>

\* Mutant of Trigger: the LPUSH is not awaited before the answer.
TriggerNotAwaited(g, c) ==
  /\ triggers < MaxTriggers
  /\ triggers' = triggers + 1
  /\ Publish(g, c, triggers')
  /\ told' = told \cup {triggers'}
  /\ UNCHANGED << record, onboarding, connected, queue, worker, wire, cache,
                  historyVars, faults >>

\* POST /ai/risk/:customerId, up to the LPUSH.  The id is not looked up, and a
\* skipped publication is answered 'queued' too.
Trigger(g, c) ==
  /\ triggers < MaxTriggers
  /\ triggers' = triggers + 1
  /\ Publish(g, c, triggers')
  /\ told' = IF connected[g] THEN told ELSE told \cup {triggers'}
  /\ UNCHANGED << record, onboarding, connected, queue, worker, wire, cache,
                  historyVars, faults >>

\* Mutant of Execute: the gateway pushes at the end BRPOP pops from.
ExecuteAtPopEnd(g) ==
  LET cmd == Head(sending[g]) IN
  /\ sending[g] # << >>
  /\ sending' = [sending EXCEPT ![g] = Tail(@)]
  /\ published' = Append(published, [cust |-> cmd.cust, req |-> cmd.req,
                                     asOf |-> record[cmd.cust].profile])
  /\ queue' = << Len(published') >> \o queue
  /\ UNCHANGED << record, onboarding, connected, triggers, worker, wire, cache,
                  committed >>

\* Redis executes the oldest command of g.
Execute(g) ==
  LET cmd == Head(sending[g]) IN
  /\ sending[g] # << >>
  /\ sending' = [sending EXCEPT ![g] = Tail(@)]
  /\ published' = Append(published, [cust |-> cmd.cust, req |-> cmd.req,
                                     asOf |-> record[cmd.cust].profile])
  /\ queue' = Append(queue, Len(published'))
  /\ UNCHANGED << record, onboarding, connected, triggers, worker, wire, cache,
                  committed >>

\* ... and its reply resolves the await, so a manual request is answered.
LPush(g) ==
  /\ Execute(g)
  /\ told' = told \cup ({Head(sending[g]).req} \ {0})
  /\ UNCHANGED faults

\* ... and its reply is lost: the await rejects (503, or a logged error).
LPushReplyLost(g) ==
  /\ Fault("reply_lost")
  /\ Execute(g)
  /\ UNCHANGED told

\* The command never reached Redis and rejects.
LPushRejected(g) ==
  /\ Fault("push_rejected")
  /\ sending[g] # << >>
  /\ sending' = [sending EXCEPT ![g] = Tail(@)]
  /\ UNCHANGED << record, onboarding, connected, triggers, told, queue, worker,
                  wire, cache, historyVars >>

\* The Redis client's 'ready' and 'end'; 'end' rejects what was not executed.
RedisReady(g) ==
  /\ ~connected[g]
  /\ connected' = [connected EXCEPT ![g] = TRUE]
  /\ UNCHANGED << record, onboarding, sending, triggers, told, queue, worker,
                  wire, cache, historyVars, faults >>

RedisEnd(g) ==
  /\ Fault("disconnected")
  /\ connected[g]
  /\ connected' = [connected EXCEPT ![g] = FALSE]
  /\ sending' = [sending EXCEPT ![g] = << >>]
  /\ UNCHANGED << record, onboarding, triggers, told, queue, worker, wire,
                  cache, historyVars >>

\* A gateway replica is killed and restarted: nothing it had in hand survives.
GatewayCrash(g) ==
  /\ Fault("gateway_crash")
  /\ onboarding' = {r \in onboarding : r.gw # g}
  /\ connected' = [connected EXCEPT ![g] = FALSE]
  /\ sending' = [sending EXCEPT ![g] = << >>]
  /\ UNCHANGED << record, triggers, told, queue, worker, wire, cache,
                  historyVars >>

-----------------------------------------------------------------------------
(* The worker *)

\* The state of w becomes st; the gateways do nothing.
Become(w, st) ==
  /\ worker' = [worker EXCEPT ![w] = st]
  /\ UNCHANGED gatewayVars

\* Back in the loop: `while not shutdown.is_set()`.
Looped(w) == IF worker[w].shutdown THEN Stopped ELSE Idle

\* An exception reached the loop: it sleeps 1 s, or 30 s after 10 in a row.
Raised(w) == [Stopped EXCEPT !.pc = "sleep", !.shutdown = worker[w].shutdown]

StartWorker(w) ==
  /\ worker[w].pc = "stopped"
  /\ Become(w, Idle)
  /\ UNCHANGED << record, queue, wire, cache, historyVars, faults >>

\* Mutant of Signal: the handler ends the task instead of setting an event.
SignalCancels(w) ==
  /\ Fault("rollout")
  /\ worker[w].pc # "stopped"
  /\ Become(w, Stopped)
  /\ UNCHANGED << record, queue, wire, cache, historyVars >>

\* handle_signal: the loop looks at the event between two jobs.
Signal(w) ==
  /\ Fault("rollout")
  /\ worker[w].pc # "stopped"
  /\ Become(w, [worker[w] EXCEPT !.shutdown = TRUE])
  /\ UNCHANGED << record, queue, wire, cache, historyVars >>

\* Mutant of Take: the job is read (LRANGE) and not removed.
TakePeeks(w) ==
  /\ worker[w].pc = "idle"
  /\ queue # << >>
  /\ Become(w, [worker[w] EXCEPT !.pc = "fetch", !.job = Head(queue)])
  /\ UNCHANGED << record, queue, wire, cache, historyVars, faults >>

\* BRPOP removes the job; from here on only this worker's memory has it.
Take(w) ==
  /\ worker[w].pc = "idle"
  /\ queue # << >>
  /\ queue' = Tail(queue)
  /\ Become(w, [worker[w] EXCEPT !.pc = "fetch", !.job = Head(queue)])
  /\ UNCHANGED << record, wire, cache, historyVars, faults >>

PopFailed(w) ==
  /\ Fault("pop_failed")
  /\ worker[w].pc = "idle"
  /\ queue # << >>
  /\ queue' \in {queue, Tail(queue)}
  /\ Become(w, Raised(w))
  /\ UNCHANGED << record, wire, cache, historyVars >>

\* BRPOP times out, or the sleep is over, and the loop starts again or ends.
Loop(w) ==
  /\ worker[w].pc \in {"idle", "sleep"}
  /\ Become(w, Looped(w))
  /\ UNCHANGED << record, queue, wire, cache, historyVars, faults >>

\* Mutant of Fetch: the profile read for an earlier assessment is used again.
FetchMemoised(w) ==
  LET c == CustomerOf(worker[w].job) IN
  /\ worker[w].pc = "fetch"
  /\ Become(w, IF Live(c)
               THEN [worker[w] EXCEPT !.pc = "assess",
                       !.basis = IF record[c].by = NoJob
                                 THEN record[c].profile ELSE record[c].basis]
               ELSE Looped(w))
  /\ UNCHANGED << record, queue, wire, cache, historyVars, faults >>

\* fetch_customer; without a customer process_job returns and the job is gone.
Fetch(w) ==
  LET c == CustomerOf(worker[w].job) IN
  /\ worker[w].pc = "fetch"
  /\ Become(w, IF Live(c)
               THEN [worker[w] EXCEPT !.pc = "assess",
                                      !.basis = record[c].profile]
               ELSE Looped(w))
  /\ UNCHANGED << record, queue, wire, cache, historyVars, faults >>

FetchFailed(w) ==
  /\ Fault("fetch_failed")
  /\ worker[w].pc = "fetch"
  /\ Become(w, Looped(w))
  /\ UNCHANGED << record, queue, wire, cache, historyVars >>

\* The statuses that assess_risk_fallback arrives at: its first threshold
\* approves, and all above ask for a review.
FallbackStatuses == {"approved", "in_review"}

\* The statuses that assess_risk may return: what the language model answers is
\* any string, and whatever it cannot parse raises.
ModelStatuses == LlmStatuses

\* Mutant of Assess: without the fallback, assess_risk may raise to the loop.
AssessWithoutFallback(w) ==
  /\ worker[w].pc = "assess"
  /\ \/ /\ Become(w, Raised(w))
        /\ UNCHANGED wire
     \/ \E v \in ModelStatuses :
          /\ Become(w, [worker[w] EXCEPT !.pc = "await", !.kyc = v])
          /\ wire' = wire \cup {[from |-> w, job |-> worker[w].job, kyc |-> v,
                                 basis |-> worker[w].basis]}
  /\ UNCHANGED << record, queue, cache, historyVars, faults >>

\* assess_risk, or assess_risk_fallback when it raises; then the PATCH is sent.
Assess(w) ==
  \E v \in ModelStatuses \cup FallbackStatuses :
    /\ worker[w].pc = "assess"
    /\ Become(w, [worker[w] EXCEPT !.pc = "await", !.kyc = v])
    /\ wire' = wire \cup {[from |-> w, job |-> worker[w].job, kyc |-> v,
                           basis |-> worker[w].basis]}
    /\ UNCHANGED << record, queue, cache, historyVars, faults >>

\* Mutant of Answered: the status code is not looked at.
AnsweredAlwaysOk(w, ok) ==
  [worker[w] EXCEPT !.pc = "cache", !.patched = TRUE]

\* patch_customer returns ok to process_job.
Answered(w, ok) == [worker[w] EXCEPT !.pc = "cache", !.patched = ok]

\* Mutant of Accepts: kycStatus is an unchecked string.
AcceptsAnyStatus(m) == Live(CustomerOf(m.job))

\* patch_individual serves request m: 200 and the risk fields written, 404 when
\* there is no row, 422 when the status is not in the enum.
Accepts(m) == Live(CustomerOf(m.job)) /\ m.kyc \in KycStatuses

\* Mutant of Awaits: only a 200 ends the wait.
AwaitsSuccess(m) ==
  worker[m.from].pc = "await" /\ worker[m.from].job = m.job /\ Accepts(m)

\* Does the worker that sent request m still await its answer?
Awaits(m) == worker[m.from].pc = "await" /\ worker[m.from].job = m.job

ServePatch(m) ==
  /\ m \in wire
  /\ wire' = wire \ {m}
  /\ IF Accepts(m)
     THEN /\ record' = [record EXCEPT ![CustomerOf(m.job)] =
                         [@ EXCEPT !.kyc = m.kyc, !.by = m.job,
                                   !.basis = m.basis]]
          /\ committed' = committed \cup {m.job}
     ELSE UNCHANGED << record, committed >>
  /\ worker' = IF Awaits(m)
               THEN [worker EXCEPT ![m.from] = Answered(m.from, Accepts(m))]
               ELSE worker
  /\ UNCHANGED << gatewayVars, queue, cache, published, faults >>

\* The request of w never arrives.
PatchLost(w) ==
  /\ Fault("patch_lost")
  /\ worker[w].pc = "await"
  /\ wire' = {m \in wire : m.from # w \/ m.job # worker[w].job}
  /\ Become(w, Answered(w, FALSE))
  /\ UNCHANGED << record, queue, cache, historyVars >>

\* The 10 s are over; the party service may still serve the request.
PatchTimeout(w) ==
  /\ Fault("patch_timeout")
  /\ worker[w].pc = "await"
  /\ Become(w, Answered(w, FALSE))
  /\ UNCHANGED << record, queue, wire, cache, historyVars >>

CacheResult(w) ==
  /\ worker[w].pc = "cache"
  /\ cache' = [cache EXCEPT ![CustomerOf(worker[w].job)] =
                [job |-> worker[w].job, kyc |-> worker[w].kyc,
                 patched |-> worker[w].patched]]
  /\ Become(w, Looped(w))
  /\ UNCHANGED << record, queue, wire, historyVars, faults >>

CacheFailed(w) ==
  /\ Fault("cache_failed")
  /\ worker[w].pc = "cache"
  /\ Become(w, Raised(w))
  /\ UNCHANGED << record, queue, wire, cache, historyVars >>

WorkerCrash(w) ==
  /\ Fault("worker_crash")
  /\ worker[w].pc # "stopped"
  /\ Become(w, Stopped)
  /\ UNCHANGED << record, queue, wire, cache, historyVars >>

-----------------------------------------------------------------------------
(* Bank staff, through PATCH and DELETE of the gateway *)

StaffEdit(c) ==
  /\ Live(c)
  /\ record[c].profile < MaxProfile
  /\ record' = [record EXCEPT ![c].profile = @ + 1]
  /\ UNCHANGED << gatewayVars, queue, worker, wire, cache, historyVars, faults >>

StaffDecide(c) ==
  /\ Live(c)
  /\ \E k \in StaffStatuses : record' = [record EXCEPT ![c].kyc = k]
  /\ UNCHANGED << gatewayVars, queue, worker, wire, cache, historyVars, faults >>

StaffDelete(c) ==
  /\ Live(c)
  /\ record' = [record EXCEPT ![c].life = "deleted"]
  /\ UNCHANGED << gatewayVars, queue, worker, wire, cache, historyVars, faults >>

-----------------------------------------------------------------------------
(* Redis: maxmemory-policy allkeys-lru and the 24 h of a result *)

Evict ==
  /\ Fault("evicted")
  /\ queue # << >>
  /\ queue' = << >>
  /\ UNCHANGED << record, gatewayVars, worker, wire, cache, historyVars >>

Expire(c) ==
  /\ Fault("expired")
  /\ cache[c] # NoResult
  /\ cache' = [cache EXCEPT ![c] = NoResult]
  /\ UNCHANGED << record, gatewayVars, queue, worker, wire, historyVars >>

-----------------------------------------------------------------------------
GatewayNext(g) ==
  \/ \E c \in Customers : Create(g, c) \/ Trigger(g, c)
  \/ LPush(g)
  \/ LPushReplyLost(g)
  \/ LPushRejected(g)
  \/ RedisReady(g)
  \/ RedisEnd(g)
  \/ GatewayCrash(g)

WorkerStep(w) ==
  \/ StartWorker(w)
  \/ Take(w)
  \/ Loop(w)
  \/ Fetch(w)
  \/ Assess(w)
  \/ CacheResult(w)

WorkerFault(w) ==
  \/ Signal(w)
  \/ PopFailed(w)
  \/ FetchFailed(w)
  \/ PatchLost(w)
  \/ PatchTimeout(w)
  \/ CacheFailed(w)
  \/ WorkerCrash(w)

StaffNext(c) == StaffEdit(c) \/ StaffDecide(c) \/ StaffDelete(c)

Next ==
  \/ \E g \in Gateways : GatewayNext(g)
  \/ \E r \in onboarding : PublishOnboarding(r)
  \/ \E w \in Workers : WorkerStep(w) \/ WorkerFault(w)
  \/ \E m \in wire : ServePatch(m)
  \/ \E c \in Customers : StaffNext(c) \/ Expire(c)
  \/ Evict

\* What keeps running: the gateways' event loops, Redis, the worker loop, which
\* Kubernetes restarts, and the party service.  Nobody owes a staff action.
Fairness ==
  /\ WF_vars(\E r \in onboarding : PublishOnboarding(r))
  /\ WF_vars(\E m \in wire : ServePatch(m))
  /\ \A g \in Gateways : WF_vars(LPush(g)) /\ WF_vars(RedisReady(g))
  /\ \A w \in Workers : WF_vars(WorkerStep(w))

Spec == Init /\ [][Next]_vars
FairSpec == Spec /\ Fairness

-----------------------------------------------------------------------------
(* Properties *)

TypeOK ==
  /\ record \in [Customers -> Rows]
  /\ onboarding \subseteq [gw : Gateways, cust : Customers]
  /\ connected \in [Gateways -> BOOLEAN]
  /\ sending \in [Gateways -> Seq(Commands)]
  /\ queue \in Seq(Nat)
  /\ worker \in [Workers -> WorkerStates]
  /\ wire \subseteq Requests
  /\ cache \in [Customers -> Results]
  /\ published \in Seq(Publications)
  /\ committed \subseteq Nat
  /\ triggers \in Nat
  /\ told \subseteq Nat
  /\ faults \in Nat

\* Every job number in the system is that of a publication.
JobsPublished ==
  /\ \A i \in DOMAIN queue : queue[i] \in DOMAIN published
  /\ \A w \in Workers : Holds(w) => worker[w].job \in DOMAIN published
  /\ \A m \in wire : m.job \in DOMAIN published

\* A job is worked on at most once: BRPOP gives it to one worker, which is the
\* only one to PATCH for it, and it is never in the list again.
JobInOnePlace ==
  /\ \A i, j \in DOMAIN queue : queue[i] = queue[j] => i = j
  /\ \A w \in Workers, i \in DOMAIN queue : Holds(w) => worker[w].job # queue[i]
  /\ \A v, w \in Workers :
       Holds(v) /\ Holds(w) /\ worker[v].job = worker[w].job => v = w
  /\ \A m \in wire, i \in DOMAIN queue : m.job # queue[i]

\* process_job's success flag can be trusted in one direction: a result that
\* says patchedSuccessfully was written to the record, whatever answers were
\* lost or late.  (The converse fails: a PATCH that timed out may be served.)
PatchedMeansCommitted ==
  \A c \in Customers : cache[c].patched => cache[c].job \in committed

\* Why it is so: the flag is only raised by the answer to the PATCH of the job
\* in hand, and every way out of the job lowers it.
PatchesHonest ==
  /\ \A w \in Workers :
       worker[w].patched => /\ worker[w].pc = "cache"
                            /\ worker[w].job \in committed
  /\ PatchedMeansCommitted

\* A reassessment sees at least the edits made before it was asked for, however
\* long the job waited: process_job reads the customer after BRPOP.
AssessmentSeesEarlierEdits ==
  \A c \in Customers :
    record[c].by # NoJob => record[c].basis >= published[record[c].by].asOf

\* Why it is so: versions only grow, and one is read after the job was popped.
AssessmentsFresh ==
  /\ \A j \in DOMAIN published :
       published[j].asOf <= record[CustomerOf(j)].profile
  /\ \A w \in Workers : worker[w].pc \in {"assess", "await"} =>
       worker[w].basis >= published[worker[w].job].asOf
  /\ \A m \in wire : m.basis >= published[m.job].asOf
  /\ \A c \in Customers : record[c].by # NoJob =>
       /\ record[c].by \in DOMAIN published
       /\ record[c].basis >= published[record[c].by].asOf

\* ai.ts answers 'queued' after the publication: a request so answered has a
\* job.  False when the client is not connected.
QueuedIsPublished ==
  \A n \in told : \E j \in DOMAIN published : published[j].req = n

Pushing(c) ==
  \E g \in Gateways : \E i \in DOMAIN sending[g] : sending[g][i].cust = c

\* No onboarded customer is forgotten: as long as one has no result, something is
\* still going to assess it.  A rollout (the docstring of run_worker: "Gracefully
\* handles shutdown signals"), a PATCH without an answer and an LPUSH whose reply
\* is lost must not break it.  A gateway that dies between its 201 and the LPUSH
\* does.
Accounted ==
  \A c \in Customers :
    Live(c) /\ cache[c] = NoResult =>
      \/ \E r \in onboarding : r.cust = c
      \/ Pushing(c)
      \/ \E i \in DOMAIN queue : CustomerOf(queue[i]) = c
      \/ \E w \in Workers : Holds(w) /\ CustomerOf(worker[w].job) = c

\* Why it is so: the list is in order of arrival, and whatever left it arrived
\* before everything still in it.
JobOrder ==
  /\ \A i, j \in DOMAIN queue : i < j => queue[i] < queue[j]
  /\ \A w \in Workers, i \in DOMAIN queue : Holds(w) => worker[w].job < queue[i]
  /\ \A m \in wire, i \in DOMAIN queue : m.job < queue[i]
  /\ \A v, w \in Workers :
       Holds(v) /\ Holds(w) /\ worker[v].job = worker[w].job => v = w

\* The list with its producers and consumers implements JobQueue: jobs start in
\* order of arrival, each at most once, whatever crashes, times out or is lost.
Queue == INSTANCE JobQueue WITH
  arrived <- Len(published),
  waiting <- {queue[i] : i \in DOMAIN queue},
  running <- {worker[w].job : w \in {v \in Workers : Holds(v)}}
QueueSpec == Queue!JQSpec

\* With one worker and no PATCH served after its sender gave up (no timeout and
\* no crash during it), assessments reach the record in
\* the order in which they were asked for (LPUSH and BRPOP are a FIFO) ...
AssessmentsInOrder ==
  [][\A c \in Customers : record'[c].by >= record[c].by]_vars

\* ... and the result GET /ai/risk/:id/result shows as patched is never newer
\* than what the record says, although PATCH and SETEX are two steps.
CacheNotAhead ==
  \A c \in Customers :
    Live(c) /\ cache[c].patched => cache[c].job <= record[c].by

\* Every onboarded customer eventually has a result to show, or is deleted.
EveryOnboardingAssessed ==
  \A c \in Customers : Live(c) ~> (cache[c] # NoResult \/ ~Live(c))

\* A worker never stays on a job for ever, whatever it meets.
EveryJobEnds ==
  \A w \in Workers : Holds(w) ~> ~Holds(w)
=============================================================================
