# TLA+ models of BankOnboard

BankOnboard onboards customers of a bank: an Angular frontend, a Node gateway
that is also the OAuth2 server, a FastAPI party service over PostgreSQL
(TMF632 records, TMF688 events) and an AI worker fed through Redis.  These
modules model what its parts do to each other, TLC checks them on small
instances, and TLAPS proves their safety properties for every instance.  Paths below
are relative to the repository.

## The system

| Component | State | Operations | Where it is hard |
|---|---|---|---|
| Gateway: OAuth2 server (`gateway/src/auth/oauth.ts`, `routes/auth.ts`) | per replica, in memory: `authCodes`, `refreshTokens` | login, code grant, refresh grant, delete timers | two replicas without affinity, restarts, codes and tokens presented twice |
| Gateway: proxies and queue (`proxy/party.ts`, `proxy/ai.ts`, `queue/redis.ts`) | `connected`, commands in flight | forward a request; publish a job on a proxied 201 or on request | publication after the answer, Redis not ready, lost replies |
| AI worker (`ai-service/app/worker.py`, `risk.py`) | the job in hand, `shutdown`, the error count | BRPOP, GET, assess, PATCH, SETEX | at-most-once jobs, timeouts whose PATCH is served later, two pods during a rollout |
| Party service (`party-service/app/routers`, `core`) | PostgreSQL: individuals, organizations, audit log, subscriptions; background tasks | create, patch, delete, list, subscribe, publish | replicas that interleave between statements, events after the commit |
| Redis | the list `risk-assessment`, keys `risk-result:<id>` | LPUSH, BRPOP, SETEX, GET | eviction (`allkeys-lru`), expiry |
| Gateway: access tokens (`middleware/auth.ts`) | none: user, scopes and expiry are signed into the token | `authenticate`, `requireScope`, userinfo | scopes agreed on in five places; tokens that expire under way |
| Frontend: session (`services/auth.service.ts`, guard, interceptor) | verifier and state in sessionStorage; tokens and user in localStorage, shared by tabs | sign in, callback, logout, userinfo in the background | callback handled twice, expiry without refresh, answers that are late or another tab's |
| Frontend: pages (`features`, `services/customer.service.ts`) | what each page shows, its streams, polls and timers | list, detail, onboarding, triggering and polling an assessment | answers that are dropped or late, polls that outlive their page or stop early |

They interact through HTTP (frontend to gateway to party service, worker to
party service), the Redis list (gateway to worker), the record itself (worker
and staff both PATCH it) and webhooks (party service to subscribers).
Kubernetes runs two gateways, two or more party-service replicas and one
worker, which a rolling update overlaps with its successor
(`k8s/03-ai-service.yaml:17-20`).

What makes each component correct:

* pipeline: no onboarded customer is forgotten, a job is done at most once, a
  result is based on a current enough profile and is what the record says;
* records: the audit log tells every change, concurrent changes do not undo
  each other, events show committed states;
* OAuth2: a code or token is exchanged once, a login never has two live
  chains, scopes are neither widened nor lost, and the owner is served;
* hub: a subscriber gets each event at most once, is not skipped because of
  another, and whoever delivers costs nobody else anything;
* frontend: a code is presented with the verifier it was issued for, a sign-in
  that succeeded is not undone by its duplicate, and one that can succeed does;
  what a page offers its user is served, and it comes to show who its token is;
  pages do not go back in time, stop loading, and show the scores that arrive.

The hazards are listed, each at its line, in `PROJECT.json`.

## Modules

| Module | Models |
|---|---|
| `RiskPipeline` | gateways, Redis, workers, party record and staff, for the risk assessment of customers |
| `JobQueue` | what the Redis list promises: jobs in order of arrival, each started at most once |
| `RiskPipelineProofs`, `RiskOrderProofs` | theorems about `RiskPipeline`: types, at most once, the honest flag; order, freshness, losses, `JobQueue` |
| `PartyRecords` | the party service's rows, audit log and event hand-over, by replicas that interleave |
| `OAuthServer` | authorization codes and refresh tokens of gateway replicas |
| `LoginGrant` | what the token endpoint promises for a login: one grant, handed on one way |
| `EventHub` | subscriptions, background tasks, webhooks and the connections they hold |
| `AuthSession` | a browser tab that signs in, composed with `OAuthServer` (which it extends) |
| `TabSession` | the tabs of a browser, their shared localStorage, the scopes of tokens and routes |
| `PartyRecordsProofs`, `OAuthServerProofs`, `EventHubProofs`, `AuthSessionProofs`, `TabSessionProofs`, `CustomerPagesProofs` | theorems about the module of that name |
| `CustomerPages` | dashboard, list, detail page and onboarding form over records that are assessed meanwhile |
| `MCRiskPipeline`, `MCPartyRecords`, `MCOAuthServer`, `MCEventHub`, `MCAuthSession`, `MCTabSession` | small instances for TLC; `CustomerPages` needs none |

### RiskPipeline

One action per step between two awaits.  `Create` is the commit of
`create_individual`; `PublishOnboarding` the `end` of the proxied 201, whose
publication nobody awaits; `Trigger` is `POST /ai/risk/:id` up to the LPUSH.
`Publish` is `publishRiskAssessment`: a silent return while not `connected`,
otherwise a command in `sending`, which Redis executes in order (`LPush`),
executes with its reply lost (`LPushReplyLost`) or never gets
(`LPushRejected`).  A worker goes `idle` -- `Take` --> `fetch` -- `Fetch` -->
`assess` -- `Assess` --> `await` -- an answer, a loss or a timeout --> `cache`
-- `CacheResult` --> `idle`, the awaits of `process_job`.  A PATCH is a message
in `wire`, because a sender that gave up (`PatchTimeout`, `WorkerCrash`) does
not take it back: `ServePatch` may come any time later.  `Accepts` is what the
party service does with it: 404 without a row, 422 for a status outside the
enum, which the language model may well answer.  A profile is a version number
that staff edits increment.  `by`, `basis`, `asOf`, `published`, `committed`
and `told` are history variables: nothing reads them but the properties.

`Faults` are counted and bounded by `MaxFaults`; a run chooses the kinds it
allows.

### PartyRecords

A handler is an `async def` without an `await`, so one replica serves one
request at a time (`Idle`), and replicas interleave between database
statements: `Load` is the SELECT, `CommitPatch`/`StalePatch`/`DeleteIndividual`/
`DeleteOrganization` the flush and commit (row locks make them one step under READ COMMITTED),
`Refresh` the SELECT of `db.refresh` with the conversion.  `Written` is what
SQLAlchemy's UPDATE changes: the columns whose value differs from the loaded
one, relative to the row as it is now.  A PATCH whose row is gone raises
StaleDataError and rolls its audit entry back; a DELETE whose row is gone only
warns, so its entry and its event are made again.

### OAuthServer

Handlers do not await between reading and writing a Map, so each is one step.
`Redeem` and `Mismatch` differ in what the request carries: the code is
consumed before client, redirect_uri and code_verifier are compared.
Browsers are free to present any code or token again, late or to another
replica; an access token is signed and needs no state.  Time is the set
`expired`, which grows at any moment.

### EventHub

A request is one step of its replica (`Subscribe`, `Unsubscribe`, `Announce`),
and leaves a task behind.  A task is `waiting`, takes its snapshot of the
subscriptions (`Begin`) and then awaits one POST after the other; a POST is
`Answered` or `Failed` (no connection, or 5 s without an answer, after which it
may still arrive: it stays in `wire`).  The session a request closed is
reopened by the query of its task and returns its connection when the task has
ended, so posting tasks hold connections (`FreeConnection`); without one, a
request is refused (`Refuse`) and a task that starts is lost (`BeginStarved`),
after pool_timeout, during which nothing of that replica moves.  That time is
why both are one step.  Which record changed does not matter here: `Announce` is
any of the creates, PATCHes and DELETEs of `PartyRecords`, at the end of which
its `outbox` is filled.

### AuthSession

`login()` is `Ask`, up to the await of the digest, and `Digested`, which keeps
verifier and state and starts a navigation; the page runs until `Unload`.
`Submit` is the login page; it takes the step `Login` of `OAuthServer` and
loads the callback page (`Load`).  There, `Start` is `handleCallback()` up to
its POST, `Serve` one of the steps `Redeem`, `Mismatch` and `RefuseCode`, and
`Resume` the rest.  AppComponent always handles the callback; CallbackComponent
only if the outlet that holds it is shown, to a user whose stored token was
valid when the page was loaded.  `Visit` is the user who opens, reloads or goes
back to a page; `Click` the button of the login view, which the callback page
shows as well.

### TabSession

What `AuthSession` ends in: `Exchange` is the answer of the token endpoint,
`storeTokens` and the GET of userinfo, which `ServeUserInfo` answers from the
token and `ReceiveUserInfo` stores and shows whatever happened since.
`token` and `info` are localStorage, which every tab reads and writes; `tab`
holds what each page keeps in memory, read once by the constructor (`Load`).
`Click` is a request that a page offers to the user it shows (`Offered`, the
`hasScope` of the templates), `Request` any other; both send the token stored
at that moment, as the interceptor does, and `Serve` answers with `Status`, of
the moment of serving: `authenticate`, then the scope of the route
(`Required`).  A token ages from "fresh" to its last minute, in which `hasValidToken` no
longer takes it but the gateway does, and expires.

### CustomerPages

A row is the number of assessments written to it and whether its `riskScore` is
null, 0 or more, which is all that templates and polls distinguish.  Every
request is asked, answered with the row of that moment, and received later:
`ServeGet`/`ReceiveGet` for the page's own GET, `ServePost`/`ReceivePost` for the
form, `ServePoll`/`ReceivePoll` for polls.  `ListTick` and `PollTick` are the
intervals; both go through `switchMap`, so a tick drops what has not arrived.
`KeepsOn` is the `takeWhile`, evaluated before the answer is shown, on what the
page shows.  `Show` is a component created by the router; the list's stream
ends with it, but polls (`clicks`) go on with the `views` they were started in.
`Timeout` is the timer of the onboarding form, which navigates from wherever the
user is: from a detail page, the router keeps the component and changes the URL
only.  `Assess` is the worker's PATCH; how it gets there is `RiskPipeline`.

## Runs

| Run | Question | Bounds | Result |
|---|---|---|---|
| `RiskFaults` | two workers, two faults of any kind: at most once, in order, honest flag, fresh profile, implements `JobQueue` | 1 customer, 1 gateway, 2 workers, 1 manual request, staff that reject, 2 profile versions, 2 faults | holds |
| `RiskLive` | nobody forgotten, 'queued' means queued, assessments in order, cache not ahead of the record; every onboarding assessed; no worker stuck | 2 customers, 2 gateways, 1 worker, 1 manual request, 1 of rollout, lost PATCH, lost LPUSH reply | holds |
| `PartyRaces` | audit log, events and fields under races of two replicas | 1 individual, 1 organization, 2 columns, 3 commits | holds |
| `PartyAudit` | every deletion has an audit entry | 1 replica, 1 individual, 1 organization | violated |
| `PartyList` | every live row can be listed | 1 individual | violated |
| `OAuthReplicas` | exchanged once, one grant per login, scopes kept | 2 replicas, 2 logins, 3 pairs, 1 restart | holds |
| `HubDelivery` | once, to subscribers only, to all of them, every task ends | 2 replicas, 2 subscriptions, 2 event types, 2 events, pools of 1, 1 crash, 1 refused request | holds |
| `HubPool` | deliveries do not affect requests | 1 replica, pool of 2, 3 events | violated |
| `SignIn` | codes with their verifiers, no undoing, a good code ends in tokens | 1 replica, 2 calls of login(), 2 codes, 2 visits by the user, 1 fault, 1 restart | holds |
| `TabSession` | what a page offers is served: scopes of sign-in, token, route and button agree; a tab shows the user whose token it sends | 2 tabs, 2 users, 2 sign-ins, 1 visit, 1 request at a time, 1 failed userinfo | holds |
| `Pages` | no page goes back in time; polls for a first score keep on; polls and loading end; the list shows every score | 1 customer, polls of 1 answer, 1 link followed, 1 detail page, 2 clicks, 2 assessments, 1 failed request | holds |
| `PollStops` | every poll keeps on until a new score | polls of 12 answers, 1 click, no fault | violated |

Why the bounds are enough: the jobs of different customers meet only in the
list, and two or three jobs of any customers already reorder, duplicate and
overtake each other; every interesting interleaving needs one fault, and two
faults let one hide another (a timeout, then a rollout).  Two
profile versions tell a stale read from a fresh one.  Two replicas are all a
race of two handlers needs, and three commits are a creation with two racing
PATCHes, or a row of either kind with a PATCH.  Three pairs
are a redemption, a rotation and a second login's redemption, or a rotation twice.
A pool of one is empty as soon as one delivery is in progress, which is what 30
of them do to the real one; two events have their tasks on one replica or on two.
Two calls of login() are the guard's and the button's, or an old sign-in and a new
one; two visits let the user reload and then go back.
Two tabs with two sign-ins are two users in one browser, one user who signs in
twice, or a sign-in that meets the answers of the one before; tabs are
symmetric, since no property or action tells one from another, and the run has
no liveness property.  The users are the analyst and the manager, who differ in
what they may do.  In `Pages`, a poll of one answer ends in every way that one
of twelve does: with a score, out of answers, by what the page shows, or by an
error; the two clicks start two polls of one page or a poll and its repetition,
and the second assessment is what makes an older answer tell.
Customers meet nowhere in those pages but in a list, which asks for all of
them in one request; a timer that fires on another customer's page needs two of
them, and no property is about it.

`RiskLive` leaves out crashes, evictions and failed BRPOPs, with which the job
is lost, the fault kinds that leave a PATCH behind its sender, and a second
worker: with either of the last two, an older assessment can overwrite a newer
one, which nothing in the code prevents or promises to.

`AuditMatchesChanges` says less than "every change is told once".  DELETEs of one
individual that race on two replicas leave an entry and an event each, since a
DELETE that matches no row is only a warning; and an organization's deletion
leaves none (`PartyAudit`).

### What the violated runs show

* `PartyAudit`: `organization.py:171` deletes and commits without an audit entry,
  against "Full audit trail for regulatory compliance" (`main.py:54`).
* `PartyList`: a PATCH may say null for `status` or `kycStatus`
  (`schemas/party.py:208,214`).  It commits, answers 500 because the row cannot
  be converted, and from then on every list with that row fails.
* `HubPool`: tasks hold connections while they await webhooks, so slow or hanging
  subscribers empty the pool (`database.py:23-24`), and the next request fails,
  against "failures are logged but don't affect the caller" (`events.py:18`).
* `PollStops`: `takeWhile` (`customer-detail.component.ts:243`) looks at the score the
  page already shows.  For a customer who has one, the first answer ends the
  poll and is not shown, and the badge "AI assessment queued…", which replaced
  the button, stays until the page is left, against "Poll until risk score
  arrives (max 60s)" (`:239`).  `FirstPollKeepsOn` of `Pages` shows that it is
  true of a first assessment.

Two more need only a fault that the runs leave out.  With "not_ready" or
"disconnected" among the `Faults`, TLC finds `QueuedIsPublished` violated:
`publishRiskAssessment` returns normally while the client is not connected
(`queue/redis.ts:28-31`), and `ai.ts:18-20` answers "Risk assessment queued".  The
onboarding hook skips in the same way, against "Automatically queues an AI KYC
risk assessment" (`individual.py:164`).  With "gateway_crash", it finds `Accounted`
violated: the proxy passes the 201 on and publishes afterwards
(`proxy/party.ts:73`), and a gateway that dies in between leaves a customer whom
nothing is going to assess.

Smaller disagreements are modelled and need no run: a code or refresh token is
unknown to the gateway replica that did not issue it
(`k8s/04-gateway-frontend.yaml:12`), as the comment at `oauth.ts:107` expects;
a PATCH of both status
and kycStatus is announced as a state change only (`individual.py:292` against
`hub.py:34`), and the audit entries of requests that came through the gateway
name the service account (`core/auth.py:43` against `proxy/party.ts:45`);
no PATCH looks at the current KYC status, so the PATCH of an assessment under way
takes a customer whom staff rejected back to in_review, against the workflow
"initialized → pending → in_review → approved/rejected" of `README.md:131`
(`individual.py:273`); an answer to `handleCallback`
that arrives after a second `login()` removes the verifier of the second
(`auth.service.ts:119-120`), whose callback then stays on "Completing sign in…"
(`callback.component.ts:11`); a `riskScore` of 0 counts as none for the poll, so
that a second poll goes on and may show an older answer (`NeverOlder` excuses
it); the timer of the onboarding form, on another customer's page, leaves a URL
that names one customer over a page that shows another
(`onboarding.component.ts:226`); a poll takes its thirteenth answer, after 65 s, to
end; another tab's sign-in makes a page act as somebody it does not show; and
no page reacts to a 401, `refreshTokens` never being called.

### Fairness

`FairSpec` of `RiskPipeline` is used for the liveness properties only.  Weak
fairness on `PublishOnboarding`, `LPush` and `RedisReady` is Node's event loop
and the reconnecting Redis client; on `ServePatch`, a party service that
answers or times out; on `WorkerStep` of each worker, asyncio and
the restart of the pod by Kubernetes (`StartWorker`).  Each await of the worker
ends: GET and PATCH have a timeout of 10 s, the OpenAI client one of its own,
BRPOP one of 2 s.  No fairness is assumed of staff, faults or requests.

`FairSpec` of `EventHub` makes every task go on: its replica's event loop runs
it when a POST was answered or its 5 s are over.  `FairSessionSpec` of
`AuthSession` makes pages load and handlers go on, and the token endpoint
answer what does not fail; users need not do anything.

`FairSpec` of `CustomerPages` makes intervals tick, the party service answer and
the browser receive.  Receiving needs strong fairness: a tick drops an answer
that takes longer than the interval, so an answer is receivable again and again
rather than for good, and the assumption is that not every one is that late.
Users, faults and assessments are not fair.

`TabSession` has no liveness property: `ShownIsOwner` says that a page which
does not show its owner has asked for it, and the answer may fail.

The liveness properties are checked with the faults that leave the job alive.
With a crash of the gateway or the worker, a failed BRPOP or GET, or an eviction
the job is lost for good, and the customer is never assessed until somebody
asks again: the code has no retry.

### Stopping

Deadlock checking is off for `AuthSession`, `CustomerPages` and `TabSession`, whose
user may leave for good.  Elsewhere something can always happen: a worker
loops, records, tokens and requests are presented again.

## Proofs

Every safety invariant, action property and refinement that a passing run
checks is also a theorem, for every number of customers, replicas, workers,
tabs, requests and faults.  The proofs use the named ASSUMEs of the modules,
which TLC evaluates in the runs, and nothing else; four theorems about the
pipeline have hypotheses of their own, named below.  Each proof follows one
pattern: an inductive invariant, one lemma per action or kind of step that it
survives it, and the property as a consequence.

`RiskPipelineProofs`:

* `TypeCorrect` (`TypeOK`) contains that only statuses of the enum reach a
  record, since `Accepts` tests them.
* `AtMostOnce` (`JobInOnePlace`).  The property says nothing about jobs not yet
  pushed, so a new number could collide with one in hand.  `JobsInv` adds
  `JobsPublished` (all numbers in the system are publications, so the next one
  is new) and `JobOrder` (what left the list arrived before what is in it).
  `StepKinds` reduces every action to one of a few effects on list, workers and
  messages.
* `PatchedResultsCommitted` (`PatchedMeansCommitted`), from `PatchesHonest`: the
  flag is raised only by the answer to the PATCH of the job in hand, and every
  way out of the job lowers it.

`RiskOrderProofs`:

* `EarlierEditsSeen` (`AssessmentSeesEarlierEdits`), from `FreshInv`: what a
  worker holds, what is in `wire` and what a record has rest on profiles no
  older than their jobs; customers not yet onboarded have none of it.
* `ImplementsJobQueue`: `Spec => QueueSpec`.  Every step is a step of
  `JobQueue` or leaves its variables alone.
* `QueuedRequestsPublished` (`QueuedIsPublished`), if no fault disconnects a
  gateway: it is false otherwise.
* `NobodyForgotten` (`Accounted`), if the faults are among `KeepingJobs`: rollouts,
  PATCHes that are lost or time out, lost replies of LPUSH.  Each of the other
  faults may lose a job, its publication, or the result that would be the only
  trace of it.
* `AssessmentsArriveInOrder` (`AssessmentsInOrder`) and `CachesNeverAhead`
  (`CacheNotAhead`), if there is one worker and no PATCH outlives its sender.
  `OrderInv` then says that at most one PATCH is in `wire`, that of the job in
  hand, and that a record is by an older job than any in the list, and by none
  newer than the one in hand.  A second worker, or a PATCH served late, breaks the property.

The run `RiskLive` satisfies the hypotheses of these four, and TLC checks the
same properties there.  They are the conditions under which the code keeps the
promise; one worker is what `k8s/03-ai-service.yaml` deploys, outside a rollout.

`PartyRecordsProofs`:

* `RecordsTypeCorrect`.
* `PatchesAreNarrow` (`PatchTouchesOnlyItsFields`), from the type invariant and
  from `Written`: only columns that the request changed differ.
* `EventsShowCommits` (`EventsAreCommitted`).  An event is made from what a
  request loaded or refreshed, so `HistoryInv` says the same of the requests
  in progress, and that a row shows its last commit.
* `AuditTellsChanges` (`AuditMatchesChanges`).  `AuditInv` splits the property by
  entity; `Create` and `CommitPatch` add one entry and one version, so the place
  of an entry among those of its row is the version it tells, and later steps
  leave both (`RankKept`, `PatchesKept`).  `PatchesOK` adds that this version and
  the one before exist; `LastChange` that a PATCH changes only what its request
  names.  A DELETE adds an entry after which there can be no PATCH, because the
  row is gone.

`OAuthServerProofs`:

* `OAuthTypeCorrect`, `KeysSpentOnce` (`SpentOnce`), `ChainsKeepScopes`
  (`ScopesKept`).  `SpentOnce` speaks of what was exchanged, and follows only
  with what is still exchangeable: `OAuthInv` adds that a code that is kept and
  unused was never attempted and is kept by one replica (`CodesInv`), that a
  refresh token that is kept was never exchanged, and that a login has at most
  one (`TokensInv`), and that codes, tokens and pairs all carry the scopes of
  their login (`ScopesInv`).
* `ServerKeepsGrants`: `Spec => GrantSpec`.  The refinement mapping takes a
  login's grant from whichever replica has its code or token; `OAuthInv` is what
  makes that one replica at most.

`EventHubProofs`:

* `HubTypeCorrect`, `EventsReceivedOnce` (`ReceivedOnce`), `SubscribersOnly`
  (`OnlySubscribersReceive`), `EverybodyServed` (`NobodySkipped`).  `HubInv` relates
  the four places a POST can be: still to be sent by a task (`TasksInv`: not yet
  posted), in `wire` (`WireInv`: posted, not received), received (once, if
  posted), or skipped (`EventsInv`).  It has to say that whoever is owed an event
  asked for its type: `NobodySkipped` alone does not keep a task from
  leaving out a subscriber whose filter does not match.

`AuthSessionProofs`, on top of `OAuthServerProofs`:

* `SessionTypeCorrect`, `VerifiersFit` (`VerifierFits`), `SignInsKept`
  (`KeptUntilLogout`).  Every step is a step of the server or leaves it alone
  (`ServerSteps`), so `OAuthInv` carries over to the composition.  `PageInv` says
  that verifier and state in sessionStorage are of the same call of login(),
  and that a callback page has a code issued for its state; `RequestsInv` and
  `RepliesInv` follow the code through the POST and back.  Two answers with
  tokens for one page carry the same pair, because `OAuthInv` lets a code be
  exchanged once (`OnePair`).

`TabSessionProofs`:

* `TabTypeCorrect`, `OffersAreServed` (`OfferedIsServed`), `OwnerIsShown` (`ShownIsOwner`).  `TabInv` adds whose
  answer a page has shown or waits for (`ShownInv`), that an answer names the
  owner of its bearer (`AnswersInv`), and that a click was offered to the user it
  remembers (`ClicksInv`).  `ScopeAssumption` says that every user may read
  (`DEMO_USERS`, `oauth.ts:75-101`; `SCOPES`, `auth.service.ts:28`): without it, the
  lists that pages show to everybody would be refused.

`CustomerPagesProofs`:

* `PagesTypeCorrect`, `FirstPollsKeepOn` (`FirstPollKeepsOn`), `PagesNeverOlder`
  (`ShownNeverOlder`).  Not even the types are inductive alone: an answer for a
  detail page needs that page (`DetailInv`).  `ScoresInv` ties a score to the
  number of assessments behind it, which is why a poll that stops at a score
  stops at a newer row; `KnownInv` says that a customer is onboarded once and
  that nothing is shown of one who was not; `TableInv` that a list is not
  ahead of the answer on its way, nor that of the row.

Two changes of the models came out of the proofs: the assumption of `TabSession`
just named, which the properties relied on without saying so, and the statement
of `AuditMatchesChanges`, which counts the entries of a row and compares their
positions instead of selecting a subsequence, which TLAPS cannot reason
about.

Model-checked only, because TLAPS here proves neither liveness under fairness
nor ENABLED: `EveryOnboardingAssessed`, `EveryJobEnds`, `EveryEventSettled`,
`ExchangeSucceeds`, `LoadingEnds`, `EveryPollEnds` and `ListShowsScores`.  The
four violated properties are TLC's counterexamples.

## Not modelled

* Wording and layout of answers, logs, pagination, HTML: no property is about
  them.  The fields of a customer, and which of them a page shows or filters by.
* The limit of 100 records that dashboard and list ask for: a run would need more
  customers than that, and one test with 101 rows shows what happens.
* `risk.py`: a pure function of a profile.  Which statuses it can arrive at is in
  `RiskPipeline`; its score is floating-point arithmetic over a few flags, which
  TLC has no numbers for and a unit test enumerates.
* Rate limits (counters inside a library, one per replica), health endpoints,
  `optionalAuth` and `serviceAuth` (used by no route), `refreshTokens()` (never
  called).
* How long the worker sleeps after an error (1 s, or 30 s after ten in a row),
  and malformed jobs (only the gateway pushes).
* Build, deployment and migrations: no program; their replica counts and
  policies are in the CONSTANTS.

## Plan

1. Done: `RiskPipeline` with `JobQueue` and its first proofs, `PartyRecords`,
   `OAuthServer` with `LoginGrant`, `EventHub`, `AuthSession`, `TabSession`,
   `CustomerPages`.
2. Done: theorems for every safety property of the runs, and for both
   refinements.
3. Next: the order of assessments under weaker hypotheses than one worker and no
   late PATCH, and the loss of a job traced to its fault, so that `Accounted` can
   be proved of all fault kinds at once.
