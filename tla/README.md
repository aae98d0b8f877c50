# TLA+ models of AgentCoders

AgentCoders runs coding agents in containers. An agent takes a work item from a
board, has Claude Code implement it, opens a pull request, and the customer
pays for the *Delivered Work Item* (DWI) once six quality gates have passed.
These modules model the parts of that system in which something can go wrong
between two awaits, check them with TLC and prove the main results with TLAPS.

Paths below are relative to the repository; `packages/x` stands for
`packages/x/src` where a file is named.

## 1. The system

A TypeScript monorepo of Node.js processes. Processes share a PostgreSQL
database, a Redis server used for pub/sub (at most once, no replay) and the SCM
(Azure DevOps or GitHub). Inside a process there is one thread: code
interleaves at `await`, at timers and at message callbacks, and almost every
message callback is `void handle(...)`, so the handling of one message does not
wait for that of the one before.

| Component | State it keeps | Operations | Hard behaviours | What makes it correct |
|---|---|---|---|---|
| DWI tracker (`billing-service/dwi-tracker.ts`) | rows of `dwi_records` (six gates, status, isBillable); Stripe usage records | an event per gate; creation of a row; completion and report | activations interleave; read, update, re-fetch and complete are separate queries; errors are logged and dropped | money moves only on six gates; a row with six gates is settled |
| Quality gate monitor (`billing-service/quality-gates.ts`) | merges of the last 30 minutes, in memory | merge, CI result, clean-up, revert | own connection; three awaits per revert; restart forgets merges | a revert is announced first and takes the price away |
| Budget enforcer (`billing-service/budget-enforcer.ts`) | none (sums of rows) | check, alerts | check-then-insert | bounded overrun |
| Usage recorder, invoices, Stripe (`billing-service`) | sessions in memory, usage rows, invoices | progress message, one-minute tick, flush, generate | flush failure, stop during flush, period boundaries | no AWU lost or counted twice |
| Agent pod (`agent-runtime`: poll loop, executor, watchdog, lifecycle, PR manager, git client) | poll in progress, child process, timers; the board | poll, triage, claim, work, shutdown | several pods race on one board; two timers; crash at any await | an item is answered; billing hears of what was delivered |
| PR status poller (`agent-runtime/pr-status-poller.ts`, `redis-bus.ts`) | tracked PRs with published flags, in memory | track, tick, publish | overlapping ticks, flags set before publishing, lost on restart | each lifecycle event reaches billing |
| Cost tracker (`agent-runtime/cost-tracker.ts`) | session, usage and activity rows | record, check budget | three writes without a transaction | spend is never under-counted |
| Squad manager, Jarvis (`jarvis-runtime/squad-manager.ts`, `jarvis.ts`) | what each agent is believed to do, in memory | heartbeat, assign, detect stuck, reassign, shutdown | assignment awaits before marking; late heartbeats; rejected publishes; restart | belief is backed by an announcement; a silent agent is relieved |
| Escalation handler, conflict resolver (`jarvis-runtime`) | who edits which file, in memory | escalation, registration, resolution, release | decisions before a publish, state changed during it | an agent backs off only for another one, at least as urgent |
| Jarvis planning, decomposition, spawning, summaries | prompts, manifests | — | — | — |
| Model registry, router, health monitor, fallback chain (`model-router`) | routes, failure counts, circuit state, latencies | register, route, retry, record, re-enable | selection before awaits; the breaker's state is changed by asking for it | every request ends; a disabled provider was made so by failures |
| Rate limiter (`model-router/rate-limiter.ts`) | token buckets | acquire, refill | sleepers that wake together | the debt of a bucket is bounded |
| Audit trail, telemetry, decisions (`governance`) | buffer | record, flush, stop | failed and concurrent flushes, stop | no event lost while the process lives |
| Failure patterns, authority decay, insurance (`governance`) | rows; grants in memory | report, resolve; grant, check, revoke; file, resolve, check SLA | read-decide-write in separate queries; a timer that revokes late | counts are backed by reports; a timer decides nothing; a claim spends its policy |
| Tenant onboarding, provisioning (`tenant-manager`) | tenant row and status, Kubernetes objects | sign up, provision, ask for status | check before insert; provisioning runs unawaited; steps fail; restart | slugs are unique; active means provisioned |
| Tenant API, quotas, auth, SSE (`tenant-manager`) | tenant row | HTTP handlers | read, extend, write back | (checked with onboarding) |
| Enhancement pipeline (`enhancement-layer`) | cost, retries and findings in the context | build, execute | failing stages are skipped, verdicts stop nothing, the context outlives an execution | what is returned was scanned; a spent budget stays spent |
| Agent memory (`agent-memory`) | memories by category | add, archive, promote, expire, record an outcome | two additions to one full category | only the archive forgets |
| Skill registry (`skill-registry`) | skills, links, scores | register, activate, score | read-modify-write of a running mean | a score is a mean of samples |
| Telegram gateway | mirrored statuses | bridge, `/approve`, `/quiet` | — | — |
| SCM adapters, shared schema, management models, dashboard | — | — | — | — |

How they interact: a pod publishes `dwi:work-item-created` and `pr:linked`
itself and leaves `ci:completed`, `pr:approved`, `pr:merged` and
`work-item-closed` to its PR status poller. The tracker turns these into gates;
the monitor listens to merges and CI results on a connection of its own and
answers a failed CI with a revert request. Heartbeats and escalations go to
Jarvis. The board is shared by all pods and written without any condition.

`PROJECT.json` lists the components with their status and, under `hazards`,
every place where this concurrency bites, with the properties that watch it or
the reason none does. Where a property excludes one outcome and the code allows
another, the entry states the first and its note the second.

## 2. The modules

| Module | What it is |
|---|---|
| `DwiRecords` | the `dwi_records` table, and what a row is |
| `DwiTracker` | `dwi-tracker.ts` with the budget check of `budget-enforcer.ts` |
| `QualityGateMonitor` | `quality-gates.ts` |
| `BillingService` | tracker and monitor over one table, with query failures and restarts; all billing properties |
| `DwiContract` | what billing promises about a DWI, without saying how |
| `MCBilling` | instances for TLC |
| `BillingServiceProofs` | types, safety, contract, and the fault-free invariants |
| `BudgetProofs` | the bound on overrunning a budget |
| `PrStatusPoller` | `pr-status-poller.ts`, the SCM it asks, and its messages as `redis-bus.ts` forms them |
| `DeliveryPipeline` | pod, poller and tracker over the wire; all delivery properties |
| `MCDelivery` | instances for TLC |
| `DwiTrackerProofs` | lemmas about the tracker, shared by the two systems it is part of |
| `DeliveryProofs` | types, safety, and the fault-free invariant |
| `AgentPod` | the pods of one vertical on one board; all pod properties |
| `MCAgentPod` | instances for TLC |
| `AgentPodProofs` | types, safety, and the fault-free invariant |
| `SquadManager`, `EscalationHandler`, `Jarvis` | the files of these names in `jarvis-runtime`, each extending the one before; squad properties in `Jarvis` |
| `ConflictResolver` | `conflict-resolver.ts` |
| `RateLimiter` | `rate-limiter.ts`, one bucket |
| `ModelRegistry` | `model-registry.ts`, and how `providers/*.ts` read the end of an answer |
| `ModelRouter` | `router.ts`, `strategy.ts`, `health-monitor.ts`, `fallback-chain.ts` over that registry |
| `EnhancementStages` | the twenty stages, as operators on texts |
| `EnhancementPipeline` | `pipeline.ts`, `pipeline-builder.ts`, and the three stages that keep something in the context |
| `MCControl` | instances of the nine above for TLC |
| `ControlProofs` | types and safety of each of them, and of the run's specification |
| `AuditTrail` | `audit-trail.ts`, `telemetry-collector.ts`, `decision-provenance.ts` |
| `FailurePatternEngine`, `AuthorityDecay`, `AiInsurance` | the files of these names in `governance` |
| `UsageRecorder` | `usage-recorder.ts` |
| `ComplexityEstimator`, `InvoiceGenerator` | `complexity-estimator.ts`; `invoice-generator.ts` with the `createInvoice` of `stripe-integration.ts` |
| `TenantManager` | `onboarding.ts`, `tenant-provisioner.ts`, `isolation-tiers.ts`, and the requests of `tenant-api.ts` that change a tenant |
| `AgentMemory` | `memory-store.ts`, `vault-manager.ts`, `memory-decay.ts`, `learning-recorder.ts` |
| `SkillRegistry` | `registry.ts`, `skill-loader.ts`, `skill-scorer.ts` |
| `MCBackOffice` | instances of these ten for TLC |
| `BackOfficeProofs` | types and safety of each of them, and of the run's specification |
| `CollectionProofs` | lemmas about sums over finite sets, ranks and sequences, for both |

Definitions that model code keep the name of the function they model where it
has one; `map` in `PROJECT.json` gives the lines. Operators commented "A
defect" are plausible mistakes in the definition below them: substituted for
it, they show that a property would notice.

### Billing

A *handler* is a slot for an activation of `handleDwiEvent`. Its `pc` names the
await it is suspended at: the steps of `updateDwiCriteria` are `ReadDwi`
(read, early return on a settled row), `UpdateCriteria` (first UPDATE),
`Refetch`, `CompleteDwi` (second UPDATE, unconditional) and `ReportUsage`
(Stripe, errors swallowed). Creation is `BudgetAllows` or `BudgetRefuses`,
then `InsertDwi`. Any event about any item may arrive at any time, any number
of times; the tracker has no defence against that, so its properties must not
need one. A *gate handler* is an activation of `handleCiResult`, with its three
steps. Time is abstract: a remembered merge is in its window until
`WindowElapses`. `MergeCarriesDwi` says whether a merge message has the `dwiId`
that `MergeEvent` declares. What the pods actually publish has none; the billing
properties are to hold with it and without.

`Fault` is a rejected query, at any await, or `Restart`, which keeps the table
and forgets everything in memory.

Prices are one unit each, one agent has all rows, and one accounting day
passes: the budget is then a number of DWIs. Recorded usage counts against it
too, which only makes it refuse earlier (`BudgetRefuses`).

### Delivery

`BillingService` lets any event arrive at any time. `DeliveryPipeline` asks
what arrives in fact: it composes the tracker with the poller and with the two
messages a pod publishes itself.

A *tick* is a slot for an activation of `tick()`; the interval starts one
whether or not the last has ended. It is suspended at a question to the SCM or
at a publish. Between two entries the code has no await, so `NextEntry` goes
past every entry with nothing to ask and stops at one that has. `Due` is the
guards of `checkPr`, evaluated against the flags as they are when the tick
comes to them, which other ticks may have set; `AnswerYes` sets a flag without
looking at it again, and before the publish. The order of the entries is left
open.

The SCM is an environment: checks end and are repeated, approvals and merges
happen, work items close. `happened` keeps what has ever been true, so that a
gate can be compared with it; an approval that is withdrawn or an item that is
reopened shows as a "no" to the poller. `Answered` are the questions the
adapter has a method for: two are optional in `ScmProvider`, and the Azure
DevOps adapter has neither. What no question is about is left out.

The wire is the set of messages not yet delivered. That allows orders that one
Redis connection would not produce. Two equal messages that wait together are
one; the same event still arrives twice when the first was delivered before the
second was sent. `Deliver` is `handleDwiEvent` up to its first await,
including the events it reads and drops. `missed` and `faulty` are history:
the events `updateDwiCriteria` found no row for, and whether anything failed.

The quality gate monitor is not part of it. Without a `dwiId` and without a
`result` (below) nothing that pods publish makes it touch a row.

### The agent pods

An agent's `pc` is the await its poll is suspended at. `PollPcs` are the
awaits of `poll` and `claimWorkItem`, `WorkPcs` those in the `try` of
`processWorkItem`, `AftermathPcs` those in its `catch` and `finally`; the
distinction matters because a rejected await ends the poll silently in the
first, escalates in the second and is dropped in the third (`AwaitFails`).
Awaits between which nothing shared changes are one pc.

`session` is the child process (`ClaudeCodeExecutor`), of which a pod has one.
It can be killed by two timers of the same delay: the watchdog, armed first
(`WatchdogFires`), and the executor's own (`SessionTimerFires`), which alone
sets `aborted` and with it the exit reason. `armed` is kept as a set so that a
watchdog that failed to stop its old timer could be expressed.

`lifecycle` is a pod's process: `Shutdown` (SIGTERM) only stops new polls,
`Exit` may come in the middle of anything, as the wait in `gracefulShutdown`
is for the child process alone and at most 60 s; `Crash` needs no signal;
`Start` reads nothing back.

The board is that of Azure DevOps, whose states the poll loop names; the
GitHub adapter maps all of them but `closed` to `open`. Work items are
numbered in the order of the query, and a pod takes the first. That the SCM
refuses a second pull request for a branch is taken from its documentation;
the branch name is a function of the item, so two pods on one item meet there.

### Jarvis and its squad

`squad` is the Map of `SquadManager`: a status, an item, and whether the last
heartbeat is recent (`fresh`; `Silence` is the passing of two poll intervals). A
`Call` is a slot for a message callback that waits for a publish: an assignment
(`AssignWorkItem` chooses and awaits, `FinishAssignment` marks whatever the
heartbeats have made of the agent meanwhile), a reassignment, a word to a human.
`EscalationHandler` decides without a pause and then waits for one publish, so
each handler is an operator that fills the call. `Answer` ends the wait;
`PublishFails` is a rejected publish, which ends the callback before it marks
anybody. `CheckStuck` is the interval of the squad manager. `announced` is
history: what was published to which agent.

`ConflictResolver` is called by nothing in the repository. The caller assumed
is the one its comments describe: register files, resolve what conflicts come
back, release. Between two conflicts `NotifyBackOff` waits, and registrations
and releases go on.

### Models

`RateLimiter` has one bucket and the interval of one token as its unit of time.
A caller that finds no token computes its sleep from the debt and takes a token
when it wakes without looking again; `Lowest` is how far that can overdraw the
bucket.

`ModelRouter` has one activation of `route` per request. Routes, health and
latencies are read in `StartRouting`, up to the wait for a token; the chain is
then walked with what was read. `Refused` is a failed attempt, `Answered` a
successful one; a chain has `MaxRetries + 1` attempts per provider. `IsHealthy`
re-enables a provider whose pause is over as a side effect, so `Candidates` and
`AskAfter` say what was asked. Counts stop at the bounds they are compared
with. The routes to choose from are a set; where the code goes by their order
(the round robin, and the first of several equally good), `Place` and `Nth` take
it from the order of registration.

`EnhancementPipeline` takes a text through the stages `StageOrder` gives it.
A text is the set of the things in it that some stage tells apart ("pii",
"secret", "broken json", ...): of the patterns with which stages recognise them
nothing is left, of what they do to each other everything: what the PII
detector skips in a comment the compressor removes after `//` and keeps after
`#`, and what it finds it replaces where the same characters first stand in the
line, which for "echoed pii" is elsewhere. `pending` is the
set of stages still to come, and `IsNext` the one of them that comes first. A
stage may throw and is skipped. The cost limiter, the retry escalator and the human escalation
gate are modelled with the metadata they keep, because a context is handed on
(`NewContext` starts another).

### Governance

`AuditTrail` runs one of the two buffered writers at a time; a *flight* is a
batch whose insert is under way, and the timer does not wait for it. A failed
batch is put back in front. `Stop` sends the buffer off and disconnects;
`Respawn` is the process after a crash or a stop. In `FailurePatternEngine` a
report is suspended at its write (`WriteFailure`) or its alert. `AuthorityDecay`
has a clock: `RevokeExpired` is the timer and `CheckAuthority` what others see.
`AiInsurance` files a claim in three statements and checks compliance over a
list read before.

### Accounts

`UsageRecorder` has a clock and one session per worker; messages, the tick and
the three steps of `stop` interleave. The clock is finer than the timer: it
advances while `untilTick` counts down to the next firing (`TickLength`), and
messages come at any time in between. The timer is taken to be punctual; one
that the event loop holds up counts later still. A session is booked when it
leaves the Map, each insert succeeding or failing on its own, and the row is the
history. `InvoiceGenerator` sends the items to Stripe
one at a time with reverts in between (`RevertDwi` is the quality gate monitor)
and stores the row last; the amount of a DWI is that of its tier, which
`ComplexityEstimator` derives from the signals of the item.

### Tenants

A `Signup` is a request and the tenant it makes. `CheckSlug` and `InsertTenant`
are two queries; `provisioner` is where the unawaited `provisionTenant` is.
Its steps note a failure and go on, except after `kubectl apply`. `tracked` is
the status in memory, which goes with a restart and then hides nothing.
An `Editor` is a request that adds a vertical. Two shortcomings show in reading
and not in a property: a PATCH of `maxAgents` never reaches the ResourceQuota,
and two additions of verticals at once lose one. An insert or an update may throw
whatever the reason and then changes nothing.

The manifest of the quota puts the suffix of its CPU amount outside the
quotation marks (`"..."m`). With it as written `kubectl apply` would refuse the
file, and only the failing branch of `Apply` be taken; the model has both.

### Memories and skills

An `Adder` is a caller of `addToVault` or of `recordOutcome`, which adds up to
two lessons, none of an outcome that has nothing to note. It reads its category, evicts if that is full, and creates;
`victim` and `relevance` are what it read. `SkillRegistry` keeps sums instead
of means, so that a running mean is exact; one `Sample` is one call of
`recordScore`.

## 3. What the runs check

| Run | Question | Properties |
|---|---|---|
| `billing_safety` | With failures and restarts at every await, does money move only on evidence? | `TypeOK`, `BillableOnlyWhenAllGates`, `StripeOnlyForDelivered`, `RevertIsRequested`, `ActivationsAreSound`, `KeepsContract` |
| `billing_reliable` | Without faults, is a row with six gates always settled, and do status and isBillable agree? | `CompletionIsOwned`, `StatusAgreesWithBilling`, `DeliveredIsSettled` |
| `billing_creation` | How far can concurrent creations overrun the budget? | `OvershootIsBounded` |
| `billing_charged_twice` | Is there one usage record per DWI? **No** | `ChargedOnce` |
| `billing_revert_undone` | Does a reverted DWI stay unbillable? **No** | `RevertedStaysUnbillable` |
| `delivery` | With overlapping ticks, lost messages, failures and restarts, is every gate on record true, and without faults every flag of the poller backed by its event? | `TypeOK`, `EvidenceIsTrue`, `FlagIsBacked` |
| `delivery_ci` | Is a passed CI run recorded? **No** | `CiPassedIsRecorded` |
| `pod_safety` | With failures, shutdowns, crashes and restarts at every await, does billing hear of what the board says was delivered, and does a watchdog hit only its own session? | `TypeOK`, `EventsFollowThePr`, `ResolvedIsAnnounced`, `CodingHasItsOwnWatchdog` |
| `pod_reliable` | Two pods race for one item: is it always in somebody's hands, and answered in the end? | `ActiveIsInHand`, `EveryItemIsAnswered` |
| `pod_timeout` | Is a session that ran out of time escalated rather than proposed? **No** | `NoPrFromAKilledSession` |
| `control` | The control plane, part by part: beliefs about agents, conflicts, tokens, routes, requests and pipelines under restarts, rejected publishes, failing providers and throwing stages | `TypeOK`, `WorkIsAnnounced`, `BackOffsAreJustified`, `DebtIsBounded`, `RegisteredRoutesAreFound`, `DisabledWithReason`, `ScannedIsReturned`, `SilentAgentsAreRelieved`, `RequestsEnd`, `BudgetStaysExceeded` |
| `backoffice` | The stores behind the agents, part by part: do overlapping calls, failures and restarts between the statements lose, repeat or make up anything that the code keeps? | `TypeOK`, `EventsAreKept`, `CountsAreBacked`, `ClaimsSpendThePolicy`, `SessionsAreBookedOnce`, `InvoicesMatchStripe`, `SlugsAreUnique`, `ActiveIsProvisioned`, `ScoresAreBacked`, `RevocationIsInvisible`, `ForgottenOnlyFromTheArchive` |

The parts of `control` and of `backoffice` share no state: a message of one
cannot reach another, and their product would only repeat the same steps in
every order. So a behaviour belongs to one part (`part`), the others keep their
initial state, and every property is about one part. The run visits each part
in full.

Some of what these runs show is how much is *not* promised. Concurrent reports
of a failure may lose counts and split a signature over two rows, and only the
upper bound (`CountsAreBacked`) holds; two filers may both file on one policy;
events that a failed flush has put back are lost when the process stops;
sessions booked by `stop` may be booked again by a message that comes meanwhile,
which is why `SessionsAreBookedOnce` leaves them out; a mean of scores may miss
samples; a tenant deleted while it is provisioned becomes active when that ends.

Four statements of the repository's own documents and comments do not hold:

* *One charge per DWI.* Two activations that record the last two gates
  together both re-fetch six gates, both complete the row and both report it.
  The re-fetch that makes sure at least one of them completes it
  (`CompletionIsOwned`) is also what lets both.
* *"Reverted DWIs are NOT billable."* The second UPDATE goes by primary key
  alone and overwrites a revert that came after the re-fetch.
* *"CI passes: `ci:completed` sets `ciPassed`."* The pods publish a field
  `passed`, the tracker looks at `result`. Every CI result is dropped without a
  log entry, so no DWI of a pod has its six gates: `NothingIsBilled` proves
  that none is ever completed or billed. The two billing findings above are
  about the input the service itself expects; they show once the two sides
  agree on the field.
* *"Escalates to Jarvis on timeout."* The watchdog kills first and does not
  set `aborted`. A child that dies before the second timer fires ends with the
  exit reason `error`, which nobody looks at, and its work becomes a pull
  request.

### Bounds

* Billing: two activations, one row, one work item, one PR and one gate
  handler. Every race found needs two activations on one row, or one and the
  monitor; rows do not interact except through the budget. Several rows per
  item are covered by the proofs. `MaxReports = 2` caps the usage records of a
  row, which tells one from several.
* Creation: three activations, a budget of one, four rows: one more than the
  bound allows, so a wrong bound would show.
* Delivery: one pull request and two ticks: overlapping ticks meet at the same
  entry, and ticks at different entries share nothing. The adapter has no
  reviews, so approvals, and the removal of an entry whose four flags are set,
  are left to the proofs. One activation: the interleaving of several is what
  the billing runs are about, and the proofs take any number. One tick for the
  CI run, which needs no overlap.
* Pods: two pods with two items for safety (a timer left over from the first
  item needs a second one), two pods with one item for the race, and one pod
  for the timeout, which needs no other.
* Control: two agents, one item and two calls (an assignment that overlaps a
  reassignment or a heartbeat of the agent it chose); two editors of one file;
  three callers at a bucket of two tokens, so that two sleep at once; two routes
  to two providers, two requests and two failures to disable; three pipelines
  that between them have all twenty stages, three texts, and two executions in a
  context, the third text for what a comment and a repetition do to personal data.
* Back office: three events and two flights; two reports on one signature, with
  four as the cap on reports so that the threshold of three is passed; two
  grants to one agent over three units of time; two policies and two filers; one
  worker, since sessions share nothing, over nine units of time of which three
  make an AWU and two pass between ticks, so that a session is stale at the
  fourth tick and units end between ticks; two DWIs of different tiers and one invoice at a time; two signups
  for one slug and two edits; two adders to categories of one entry; three
  samples of one skill. `MaxBooked`, `MaxConflicts`, `MaxExecutions`,
  `MaxMemories`, `MaxLinks` and `MaxPromotions` bound histories.
* Symmetry is used for activations, rows, ticks and pods, in runs without liveness.

### Fairness

* Billing: each activation in flight is weakly fair: the event loop resumes
  it when its query answers, and in `ReliableSpec` queries do answer. Nothing
  is assumed about events arriving, windows elapsing or CI.
* Delivery: the interval fires, awaits are answered and, for each activation,
  queries too. A message waits in the model for a slot, which in the code is
  always there, so delivery is strongly fair; it may not be lost in
  `ReliableSpec`. Nothing is assumed about the SCM or the pod.
* Pods: the poll interval elapses, awaits are answered, timers fire, and a
  child that was *sent SIGTERM* exits. Nothing makes a child end that was not
  killed; the timers see to it that it is. The SIGKILL meant for a child that
  ignores SIGTERM is sent only `if (!proc.killed)`, which the SIGTERM has
  already made false, so this assumption is on the child and not on the code.

* Jarvis: publishes are answered or rejected and a shutdown ends. The interval
  of the stuck check is strongly fair: in the code it always runs, only in the
  model does it wait for a free call. Restarts and rejected publishes stay
  possible: `SilentAgentsAreRelieved` is claimed with them, as a restart
  forgets the agent and the reassignment that fails comes after the marking.
* Router: sleeps end, and calls of providers are answered or refused; nothing
  is assumed about which, so `RequestsEnd` holds for providers that refuse all.

Elsewhere liveness is claimed without faults only. With them the code does strand work:
an error in the tracker between its two UPDATEs leaves six gates unbilled, and
an error in `claimWorkItem` after its update leaves an item Active, tagged and
unannounced. These are listed as hazards.

Deadlock is checked in every run but `control` and `backoffice`, whose bounded
histories end.

## 4. What is proved

For any sets of rows, items, pods, PRs, activations, agents, callers, routes,
requests, tenants and so on, any budget, rate, clock and any answers of triage.
The assumptions are the named ones in the modules, and TLC evaluates them in each
run: distinguished values outside their sets, finitely many activations (and
callers, reports, samples, DWIs, where something is counted or summed), natural
numbers as bounds, tables of the constants that have the types the code gives
them.

Every invariant and action property that a passing run checks is a theorem. What
is not is in "Left to TLC" below.

| Theorem | Says |
|---|---|
| `TypeCorrect`, `PodTypeCorrect`, `DeliveryTypeCorrect` | `Spec => []TypeOK` |
| `BillableHasEvidence`, `ChargesHaveEvidence`, `RevertsAreRequested` | the billing safety properties, with faults |
| `CompletionsAreOwned`, `StatusesAgree` | the fault-free billing invariants |
| `ContractKept` | `BillingService` implements `DwiContract`, with faults |
| `OvershootBounded` | concurrent creations overrun a budget by less than their number |
| `EvidenceHolds` | no gate is set for what did not happen, with faults |
| `FlagsAreBacked` | without faults, no flag of the poller without its event |
| `NothingIsBilled` | with the messages as they are, no DWI is completed or billed |
| `PrEventsInOrder`, `ResolutionsAreAnnounced`, `WatchdogsStayHome` | the pod safety properties, with faults |
| `NobodyForgets` | the fault-free pod invariant |
| `ActivationsStaySound` | what an activation of the tracker relies on is still so |
| `BackOfficeTypeCorrect`, `ControlTypeCorrect` | `Spec => []TypeOK` of the two runs |
| `FiledClaimsSpendThePolicy`, `RevocationChangesNoAnswer`, `CountsNeverExceedReports`, `RecordedEventsAreKept` | `ClaimsSpendThePolicy`, `RevocationIsInvisible`, `CountsAreBacked`, `EventsAreKept` |
| `TimeIsBookedOnce`, `StoredInvoicesMatch` | `SessionsAreBookedOnce`, `InvoicesMatchStripe` |
| `TenantsHaveTheirOwnSlug`, `ActiveTenantsAreProvisioned` | `SlugsAreUnique`, `ActiveIsProvisioned` |
| `OnlyTheArchiveForgets`, `ScoresAreNeverMadeUp` | `ForgottenOnlyFromTheArchive`, `ScoresAreBacked` |
| `WorkIsAlwaysAnnounced`, `BackOffsHaveAReason` | `WorkIsAnnounced`, `BackOffsAreJustified` |
| `DebtNeverRunsAway`, `RoutesAreFound`, `NobodyIsDisabledForLess` | `DebtIsBounded`, `RegisteredRoutesAreFound`, `DisabledWithReason` |
| `RequestsGetOn`, `ActivationsGetOn`, `PollsGetOn` | every step of a request, of an activation of the billing service, of a pod's poll lowers a measure: of at most 7; of 5 and 3; of 53 |
| `ReturnedIsScanned`, `BudgetIsNeverForgotten` | `ScannedIsReturned`, `BudgetStaysExceeded` |
| `PartsKeepTheirSpecs` (of both) | a behaviour of the run is one of each part, so what holds of the parts holds of it |

**Billing.** `BillableOnlyWhenAllGates` is not inductive: `CompleteDwi` sets
the flag on the strength of an earlier await. `SafetyInv` adds
`ActivationsAreSound`, what each activation still knows at each pc: at
`complete` and `stripe` the row has six gates, whatever ran in between. That
survives every other step because gates are only ever added, so the proof has
one lemma per kind of write (insert, the two UPDATEs, the report, the revert).
`MonitorIsSound` is its counterpart for the monitor and `AbsentIsBlank` gives
an insert a blank row to write to. `ReliableInv` adds for the fault-free
specification that a terminal status is honest. The refinement maps gates to
evidence, billable rows to the billable set and usage records to charges; the
remaining steps of the service stutter.

**Budget.** An activation past the check and before its insert is a row to
come. `BudgetInv` bounds rows and rows to come together: the check admits only
while the rows are fewer than the budget, when there are at most as many rows
to come as activations, and an insert turns one into the other.

**Delivery.** `HonestInv` follows the evidence on its way: `PollerIsHonest`
says it of the flags and the ticks, `WireIsHonest` of the messages,
`ActivationsAreHonest` of the tracker's activations, `EvidenceIsTrue` of the
rows. Evidence is never taken back, so each step only has to hand it on. The
last gate also needs a merge: a tick asks about the work item only under the
flag of the merge, and flags are honest. `WireIsHonest` says nothing of
`ci:completed`, and need not: no activation ever carries one, as no message has
the field the tracker tests. Hence no row gets `ciPassed`, no activation passes
the second look, and `RowsAreUnbilled` is inductive, which is `NothingIsBilled`.
`FlagsAreBacked` is a hand-over on top of that: an event leaves a tick for the
wire, the wire for an activation, and an activation for a row or for `missed`,
and only a fault takes one away.

**Pods.** `PodInv` says what each stage of the work has left behind: after
`createPr` the pull request is this pod's, after each publish exactly its events
have been published and none twice, and between the watchdog's start
and stop it is armed for the item at hand. `StepOfOne` shows that a step moves
no other poll, and `BoardOnlyGrows` that pull requests and announcements are
never taken back, so that what one pod relies on survives the others. Without
faults `ActiveIsInHand` is inductive given the types: the steps that take an
item out of a pod's hands resolve or escalate it. `PollsGetOn` ranks the awaits by the
longest way to the end of the poll and counts, below that, the timers that may
still fire: neither the catch block nor a timer leads back to an await passed.

**Sums and counts.** Sums (`SumFunctionOnSet`) are recursive functions on the
subsets of a finite set, and nothing that is proved by induction over data can
cite an induction theorem here. `CollectionProofs` goes the other way round: of
the subsets of which a claim about sums does not hold, a smallest one
(`MinimalSubset`) gives the contradiction. From that follow the sum with one
more element, of equal and of smaller summands, and over a union; `LeastNatural`
and `Ranks` do the same for numbers and for the n-th element of a set.

**Governance.** `CountsAreBacked` compares the counts in the rows with the
failures reported, and a count is written that was read an await before. So the
invariant gives every row a *cap*, a share of the reports (`Caps`): it bounds
the count in the row and every count a report is about to write to it, and the
caps together with the reports about to insert stay within what was reported. A
report raises its row's cap when it reads, so later writes change nothing.
`EventsAreKept` and `ClaimsSpendThePolicy` are inductive with the types, and
`RevocationIsInvisible` compares the answers before and after step by step.

**Accounts.** `SessionsAreBookedOnce` needs what a session that still runs has
in common with a row: it begins after the worker's rows have ended
(`SessionsFollow`), and its units are those of the time that had passed when the
timer last fired, so that what is not counted of it is less than a unit and the
time since (`SessionsAreCounted`). A done message just after a unit has ended
and before the next tick books one unit for the two it began: a row may be short
of its time, by less than a tick.
`InvoicesMatchStripe` needs that two generators never work on one Stripe
invoice, that no row has the invoice of one at work (`GeneratorsAreApart`), and
that a DWI once completed keeps its tier, so the amounts read first are still
those of the row (`CompletedHaveATier`). That there is a saving is
that every tier costs less than the humans it stands for.

**Tenants.** What a provisioner has behind it at each step is what `Activate`
goes by: the objects of its tier applied, and the schema migrated unless a step
was noted as failed. A slug is unique because the insert is refused by the
table's constraint, whatever `CheckSlug` saw.

**Memories and skills.** `archived` marks an entry that has been in the archive
and is never unset: victims are marked when they are chosen (`VictimsAreMarked`)
and remain so through promotions meanwhile. `ScoresAreBacked` says there are
disjoint sets of samples behind the rows; its invariant gives each row a *pool*
(`Pools`) out of which the row, and every score about to be written to the row,
can be formed. A sample joins the pool of the row it is written over and no pool
ever loses one, so an update that is lost changes no pool.

**Squad, conflicts, tokens.** `WorkIsAnnounced` is inductive with the types of
the calls (`Placing`): an agent is marked only when its publish is answered.
`BackOffsAreJustified` follows conflicts on their way: those that wait and the
one being resolved are between two agents. `DebtIsBounded` is not inductive: a
sleeper that wakes takes a token unseen. `DebtIsWaitedFor` adds that for every
time span the debt is covered by the refill of that time and by the callers that
will *not* have woken by then; every new sleep is computed from the debt, which
keeps it so.

**Models.** `RouterInv` says that the four strategies and the chain are defined
whatever was registered, and that a request under way has providers left
(`UnderWay`); the chain is short because it names each of the four providers at
most once. With that each call, answer or refusal lowers
`StepsLeft` (`RequestsGetOn`), so `RequestsEnd` needs of the outside only that calls
return. `RoutesAreFound` holds because an id is never taken from a tenant's list
but by the removal of its own route; that takes the removal of one occurrence from a list
without repetitions.

**Pipeline.** Once the security scanner has run, what is still to come is
`AfterScan`, stages that add nothing to a text; `ScannedAlready` says so of the
text and of the stages, and the detector of personal data, which comes later,
cannot have run before (`PipelineInv`). This needs each stage's effect on a text
written out, and the types of the metadata for the score to remain within its
bounds.

Left to TLC: the four liveness properties (`DeliveredIsSettled`,
`EveryItemIsAnswered`, `SilentAgentsAreRelieved`, `RequestsEnd`) and the
violations. Liveness under fairness takes `ENABLED`, which is out of the
prover's reach. The other half, that steps lead downwards and end, is proved for
three of the four: `RequestsGetOn` for `RequestsEnd`, `ActivationsGetOn` for
`DeliveredIsSettled` (with `CompletionsAreOwned`, which has an activation to wait
for), `PollsGetOn` for `EveryItemIsAnswered`. `SilentAgentsAreRelieved` needs none: it
is the next check that relieves the agent. The tier `EstimateComplexity` gives is
left to TLC too, beyond its being one.

## 5. What is not modelled

* The contents of prompts, messages, commits and logs; status and heartbeats
  of agents, as long as nothing modelled reads them.
* In billing: subscribing to tenants (only those active at start-up), the text
  of invoices, webhooks, and the Stripe calls that only fetch.
* In the pods: git commands, token counts, the daily and monthly sums behind
  the pod's own budget check (`OverBudget` may happen at any poll), and the cost
  tracker, with which a pod records its sessions one at a time.
* Jarvis' planner, decomposer, spawner, daily summary and context manager:
  prompts to a language model, text and Kubernetes manifests.
* The provider clients' HTTP calls, the price table, and the HTTP server of
  the model router.
* In the enhancement layer: the patterns by which stages recognise things, and
  the numbers of the confidence score beyond their order.
* In governance: `predictFailure` and the queries, which only read, and the
  governance bus, which nothing constructs.
* In the tenant manager: connecting ADO and Telegram and taking a tenant down,
  which nothing calls; authentication, reads, the event stream, quota checks.
* Memory search and hydration, which only read; packaging of skills and the MCP
  connectors, which are text and configuration.
* The SCM adapters' HTTP calls, the Telegram gateway (whose `/quiet` is
  recorded and consulted by nobody), the management models (static data) and
  the dashboard.

Seen while reading, and no property of a run: the daily total that the cost
tracker checks (`cost-tracker.ts:90`), the "daily cost counter" of the schema's
documentation, is reset by nothing; the default threshold of the human
escalation gate is above what its own weights usually reach; the prompt compiler
drops text outside its sections when there are two or more
(`prompt-compiler.ts:160`); redaction replaces the first occurrence of what was
found in its line, which may be part of something else and leave the data
(`pii-detector.ts:270`); an escalation that Jarvis defers is retried by
nobody (`escalation-handler.ts:82`); a skill that is deactivated stays in the
workspace it was written to.

## 6. Plan

Done: billing, the agent pods, the delivery pipeline between them, the control
plane and the back office; every invariant and action property of the runs is
proved, and the downward half of the liveness properties. What remains, in this
order:

1. **The fields agreed upon**: the quality gate monitor and the pods' messages
   with `result` and `dwiId`, as a constant of `DeliveryPipeline`, to ask what is
   billed then; `EvidenceHolds` and `FlagsAreBacked` should survive it.
2. **A contract of the pods**, as `DwiContract` is for billing: the life of one
   work item on the board, with its pull request and its events, and `AgentPod`
   shown to implement it; `StagesAreReached` is the invariant it needs.
