# ANIMA Home Automation in TLA+

This directory holds a TLA+ model of the Core of ANIMA (`src/src/anima_ha`), the
TLC configurations that check it on small homes, and machine-checked proofs of
what matters most for a home of any size. Everything is translated from the
code. Where the code and its documents disagree in a way that a run can show, one
does; the other disagreements that were met are listed as remarks (see *Findings*).

```
tlc -workers 2 -config ActionLamps.cfg MCActionExecution   # one run
tlapm ActionExecutionProofs.tla                            # one set of proofs
```

`PROJECT.json` lists the runs, the mutants that show that each property can
fail, the source lines of every definition, and the hazards the properties are
aimed at.

## 1. The system

The Core is one Python process over one PostgreSQL database. Request handlers,
the owner's chat, the task worker and the background runners are threads of
that process; they share nothing but the database, so most of what can go wrong
goes wrong *between two SQL statements*: a row is read by one thread, changed by
another, and written on the strength of the old reading; the process dies
between two writes; a lease ends under the thread that holds it. Devices, people
and the external language model act on their own.

| part | files | state it keeps | operations | hard behaviour | what makes it correct |
|---|---|---|---|---|---|
| Action execution | `action.py` | action rows, pending approvals, advisory locks | execute, approve_pending, recover_incomplete | replays, two deciders, lost answers, late effects, crashes inside a dispatch | one dispatch per idempotency key; exclusive scopes; an outcome that admits the dispatch; success only by observation |
| Agent episodes | `agent.py` | episodes, transcripts, continuations | run, resume_confirmation | leases, a fence that is released and taken again, budgets over several interruptions | an approved action runs once and the model sees its result; the rows tell the episode |
| Durable tasks | `tasks.py`, `owner_task_results.py` | tasks, runs | create, pause, resume, cancel, claim, reclaim, begin, mark | leases, several workers, owner changes during a delivery | a settled occurrence stays settled; attempts are bounded; a completed run was emitted; what is closed gets past no guard any more |
| Intelligence queue | `intelligence.py` | requests with generation and lease | enqueue, claim, renew, transition, record_result | a provider that answers late or twice | only the current generation writes; a started invocation is not repeated |
| Approval results | `approval_results.py` | associations and outcomes in a request's metadata | associate, resolve, reconcile, deliver | a decision and a result in either order | the request gets the outcome of its action, told once |
| Attention, context | `attention.py`, `context.py`, the watcher of `ui_runtime.py` | cursor, decisions, cooldowns, packets | pump, hand off, assemble | racing watchers, reads one after another, a refused event | nothing is passed unaccounted; live decisions are those of a replay; a packet names what it leaves out |
| Journal and truth | `journal.py`, `truth.py`, `events.py` | event log, projection, checkpoint | append, project, rebuild | commits out of order, poison events | what the checkpoint has passed is projected |
| Alert delivery | `alert_delivery.py`, `senseguard_alerts.py`, `notification_routes.py`, `household_initiative.py` | the ledger of an obligation, the owner's rules | next, intend, receipt, evaluate | lost receipts, several speakers, rules edited between two reads | said once; what is due ends; spoken only when asked for |
| Plugin runtime | `plugins.py`, `capability_management.py` | registry, health, the owner's choice | register, enable, disable, invoke | a failed save, overlapping requests, a restart | an integration is as the owner last had it |
| Identity, policy | `policy.py`, `users.py`, `ui_api.py`, Rego | people, roles, logins, sessions, challenges, decisions | callback, authenticate, decide, revoke | a session written back after its sign-out, two stores for one face | what is done was allowed before and is journaled; signed out stays out |
| Home Assistant | `home_assistant.py`, `automations.py` | inventory, mappings, connection | connect, stream, reconcile, commission, set power, ZHA flow | one event loop thread, drops, a skipped reconciliation | changes are followed; what is commissioned is known to the home |
| Graph, spaces | `graph.py`, `household_spaces.py` | places, devices, people | create, move, retire, commission | overlapping transactions without locks | what stands stays attached; the spaces are one tree |
| Memory, knowledge, settings | `memory.py`, `knowledge.py`, `preferences.py`, `scenes.py` | governed records, notes with digests, versioned settings | create, correct, expire, save | stale readers, requests sent again | no request overwrites what its sender did not see |
| Scenes | `scene_application.py` | applications and their children | apply, confirm | partly applied scenes, edits before a confirmation | steps in order, once; an unresolved application is not repeated |
| Presence, patterns | `wifi_presence.py`, `household_presence.py`, `ring_events.py`, `household_patterns.py` | status file, volatile baselines, bindings | sweep, observe, assign | restarts, drops, late events | an edge is told when it was earned |
| Learning | `household_learning.py`, `learning_review_runner.py`, `household_shadow.py` | versions of candidates, notes, forecasts, schedules | propose, review, freeze, evaluate, reconcile | readers in several threads, late records, retried dispatches | what is recorded as learned, synchronized or closed was so |
| Family's plans | `calendar.py`, `family_routines.py` | rows with versions, audits, routine memories | create, update, cancel, replace | a death between commit and audit | a row is the replay of its requests |
| Sentry boundary | `sentry_service.py`, `sentry_boundary.py`, `owner_boundary.py` | socket, client registration, bindings | bind, authenticate, open, invoke, finish | two processes at one path, rotation, resent calls | the owner is reached; the revoked stay so; a call is handed on once |
| Sentry worker | `integrations/sentry` | a turn | claim, plan, call, submit | unknown answers, malformed plans, a lease that ends | the result says no more than Core saw |
| Vendor ingress | `vendor_event_ingress.py`, `scripts/waydroid_vendor_relay.py` | outbox, receipts, known deliveries | post, retry, ingest, hand off | lost and late posts, deaths on both sides | the outbox tells the truth; a past event is not promoted |
| Outside providers | `external.py` | pacing, one HTTP client each | search, send | two threads without a lock | searches are paced; what is shown was offered |
| UI and API | `ui_api.py`, `live_results.py`, `ui/src` | subscriptions, snapshots, live results | events, snapshot, chat | events lost between a snapshot and a stream | the last word is shown; the page is not forgotten |
| Backup, resilience | `backup.py`, `resilience.py` | dumps | dump, restore | I/O | not modelled |

How they interact: the journal is the bus. Handlers, adapters and due tasks
append events; the watcher hands events to the attention rules, which turn them into
episodes or queued requests with a packet of context; SENTRY's worker or an
episode asks for actions; the action boundary parks what needs a person and
dispatches the rest through the plugin gateway to Home Assistant; approvals come
back through the UI or the conversation and resume the parked episode.

## 2. Modules

### ActionExecution: the action boundary

`ActionExecution.tla` is `ActionExecutionCoordinator` with its four
collaborators: the action store, the pending approval store, the resource locker
and the plugin gateway.

* An element of `Actions` is an `ActionRequest` with its `action_id`. Every
  caller in the repository draws a fresh `uuid4`, so a *replay* is another
  element with the same `KeyOf`; `submitted` enforces that an action_id is
  submitted once. Only `approve_pending` runs an action_id a second time.
* `status` and `approval` are the two tables (`ABSENT`/`NONE`: no row);
  `expired` is the set of approvals whose two minutes are over, so the clock
  needs no value.
* A thread is `pc`, the request `act`, whether it carries the consumed
  confirmation (`conf`), the number of scopes locked (`idx`), and the status its
  `_terminal` call is about to write (`next`). One action is one statement
  against the database or one call out of the process: `Claim`, `LockScope` (one
  `pg_try_advisory_lock`), `Refresh`, `Evaluate`, `IssueApproval`, `Begin`,
  `Invoke`, `Verify`, `Terminal`, `Unlock`; and for `approve_pending` `Decide`,
  `RunApproved`, `RefuseApproved`, `Complete`. The early returns are disjuncts.
* The environment operates devices by hand, lets an effect arrive late
  (`ArriveLate`), ends challenges, raises an exception from any store call
  (`Raise`), kills and restarts the Core, and cuts the database session that
  holds the advisory locks (`DropSession`; the locks live in a connection the
  thread does not otherwise use, so it would not notice).
* What is abstracted: arguments, evidence, digests' contents, the reasons of a
  refusal. A refresher reads some subset of the wanted devices and leaves the
  others `UNKNOWN`, and may itself fail; the policy may refuse any request; the
  gateway may refuse before the connector, or fail in a way that counts as
  possibly dispatched. The verification sees each device or not. Production
  installs no external verifier (`verifier=None`), so that branch is left out.
* `recover_incomplete` exists in both stores and is called by nothing under
  `src/anima_ha`; `RecoverOnStartup` selects the code (`FALSE`) or its
  documentation (`TRUE`, only in the safety runs, where it is one more writer of rows).

| run | instance | asks |
|---|---|---|
| `action_lamps` | 2 threads; two lamps under one key, its replay, a conflicting request; late effects | is a key dispatched once, are scopes exclusive, does the row admit the dispatch, was success observed |
| `action_notices` | 3 threads; three confirmed notifications with one key, one with other arguments; crash and exception, reconciliation on start | the same for approvals, finality of outcomes, the refinement of `KeyPromise` |
| `action_liveness` | a confirmed and an ordinary notification on one scope; two crashes or lost lock sessions; the real start-up; fair | are scopes freed, and does what a thread has in hand get an outcome unless the Core dies or a store refuses, the locks lost or not |
| `action_abandoned` | the same with one crash | what the Core had in hand when it died: finding 1 |

Two threads are enough for two executions of one key to meet at every pair of
steps; the third of `action_notices` lets a parker, a decider and a replay
overlap. Two scopes give a partial acquisition that must be rolled back, and two
devices a partial effect. `MaxFaults` is 1 or 2: each history may hold that
many crashes, exceptions or lost sessions, at any point. Nothing else is bounded,
as each request is submitted once.

The instances of notifications switch deadlock checking off because everything
may have been decided; devices operated by hand keep `action_lamps` moving.

*Fairness* (`FairSpec`): weak fairness of each thread's `Step`, since a thread
inside a handler runs on until it returns (every call it makes has a timeout, or
raises, which is modelled as an outcome of the step), and of `Restart`, since the
service manager restarts the Core. Nobody is obliged to decide an approval, and
no device has to do anything.

What the runs show. A key is dispatched at most once although `execute` checks
for a duplicate *before* it takes the locks, because of three things together:
the UNIQUE key, the `KeyError` of an UPDATE for an action_id without a row, and
the single-use challenge. This holds when the locks are lost. `DispatchIsRecorded`,
`SuccessWasObserved` and `OutcomeIsFinal` need the locks, since `update` is
unconditional.

### ApprovalContinuation: the resumed episode

`ApprovalContinuation.tla` is one approval seen from the conversation that asked
for it: `record_interruption` and `_finish` of the parking episode, then any
number of threads inside `resume_confirmation`. It models preflight,
`claim_continuation` with its lease, `approve_pending(allow_recovery=True)`,
`record_continuation_result`, the second claim, `transition_continuation`, the
model loop and its closing. Time is explicit here because everything depends on
the order of two ends: the challenge's (`Life`) and the lease's (`Lease`, both
120 s in the code). `execute` is reduced to the steps the fence has to protect,
and the action's status to four values (`Rows`).

It is a part of the run `obligations`, with two resumers, two crashes after which they
come back, and five time units, enough for the challenge and two leases in a row to
end: at most one dispatch and rejections respected (`ApprovedOnce`), no model loop
without a durable result and one model loop while the first lease could last
(`ResumedOnce`).

What it shows: the single dispatch of a recovered approval does *not* follow
from the action boundary. A resumer that passed the duplicate check and then
slept past its lease could run next to a recovering one. It is safe only because
the lease is at least as long as the life of the challenge
(`ContinuationAssumption`; section 3 shows that it is enough, the mutants
`ClaimableUnexpired` and `HalfLease` what happens to the dispatch and to the loop when
a claim does not wait for the end of a lease, or a lease is short). The same equality
has a price, see *Findings*. `OneModelLoopInTime` carries its time bound because
without it the property is false: preflight's reading may be older than a lease.

### KeyPromise: what a caller may rely on

`KeyPromise.tla` is the abstract specification of an idempotency key, without
threads, locks or approvals: a key belongs to one request, that request is sent at
most once and after its start was recorded, an answer stays, and an answer to what
was sent admits it. The end of `ActionExecution.tla` maps its own state to it
(`Promise`, `INSTANCE KeyPromise WITH ...`) and states `PromiseIsKept`, which
`action_notices` checks as a PROPERTY and `ActionExecutionProofs` proves step by step.
### DurableTasks: the task engine and the owner's sink

`DurableTasks.tla` is `PostgresTaskStore`, `DurableTaskDispatcher` and
`OwnerTaskResults`, with the edge of the journal, of the intelligence queue and
of the journal's watcher that they touch.

* A run is `<<task, k>>`: its row in `anima_durable_task_runs`, UNIQUE per task
  and `scheduled_for`, where `k` is the k-th occurrence time computed for the
  task. A row keeps its status, holder, attempt, whether its lease lasts
  (`live`), and whether its metadata carries the mark of a reclaim (`meta`).
  Time is two sets of facts, what is due and which leases last, changed by
  `BecomeDue` and `LeaseEnds` at any moment.
* `next` is `next_run_at`, which a resume may write on the strength of an old
  reading: `resuming` counts the calls between `get` and `_set_status`. `Upcoming`
  is `next_after` for INTERVAL (always a new time) and for CRON (perhaps the same
  time again); `Following` is 0 when `_next_task_run` returns `None`.
* A worker is a pass of `run_once` in one thread: `List` (the owner's worker
  lists its saved tasks before it reclaims), `Reclaim`, `ClaimDue`, then for each
  run of the batch `Begin`, `Read`, the sink's steps `Validate`, `Salvage`,
  `Reject`, `Append`, `Handoff`, `Enqueue`, and `Mark`; `Fail` is the exception that
  `run_once` counts, at any of them. `IdOf` maps workers to `worker_id`s: the
  owner's is a constant per household, so a pass before a restart and one after
  it share it.
* The watcher (`Watch`, `WatchEnqueue`) hands journaled events off on its own;
  it is one at a time, since it holds its checkpoint row. The provider is modelled
  up to the start of its cognition, in two transactions: the guard, which validates the
  event against the task (`AdmitCognition`), and the transition to `PROVIDER_RUNNING`,
  which looks at the claim alone (`BeginCognition`). Between them the task may be
  closed, or the claim lost (`LoseStart`).
* `Cancel` is one transaction of three statements, and its last one cancels the
  waiting runs of a task even if the first refused to cancel the task.

| run | instance | asks |
|---|---|---|
| `tasks` | one ONCE task; the owner's worker, its predecessor, a plain worker; one crash | was a completed run emitted and handed off, does a request of a closed task stay outside the guard, is every open run settled |
| `tasks_recurring` | two occurrence times, a batch of two, two concurrent resumes | are attempts bounded, does a settled occurrence stay settled |

One occurrence is enough for what three workers do to each other, as runs only
meet in a worker's batch; two occurrences, with a batch that holds both, let a
lease end while the other run is dispatched and let a stale resume write an
occurrence that has been settled. `MaxAttempts` is 2: a first attempt and a
repeated one. `MaxResumes` is 2 where resumes are the question: one alone always
finds the task as it read it. `MaxRuns` bounds the occurrence times of a task;
a schedule may end (its `expires_at`) at any claim, and a resume beyond it gets
one more occurrence, as in the code.

*Fairness*: workers poll for ever (`TaskWorker.run_forever`, and the Core's
runner), so each `Work(w)` is weakly fair, and a lease that nobody renews ends.
`Fail` is not restrained: attempts are what bounds it.

What the runs show. A ONCE task is COMPLETED when its run is *claimed*; that it
is executed although its worker dies rests on `claim_due` and `_saved` accepting
COMPLETED tasks (the mutant `PendingOfActive`). The stale resume is harmless
because of UNIQUE `(task_id, scheduled_for)` and DO NOTHING (`MissingUpsert`).
Cancelling keeps out what has not passed the guard, because the guard validates the
event against the task once more. It does not stop a request that has passed it: the
cancellation closes `PENDING` requests only (`tasks.py:1061`) and the start has no task
check (`intelligence.py:588`), so cognition may begin under a task that was cancelled a
moment before. `ClosedStaysQuiet` therefore speaks of the guard. `OpenRunsSettle` ends where the task is paused or
closed: the owner's worker neither reclaims nor claims a run of such a task.

### IntelligenceQueue: the queue of the provider and the Core service before it

`IntelligenceQueue.tla` is `PostgresIntelligenceStore` with the handlers of the
Core service through which a provider works on a request (`sentry_service.py`,
`sentry_boundary.py`, `sentry_autowake.py`), and the way the outcome of an
approval comes back to the request that asked for it (`approval_results.py`).

* `row` is the table. Its lifecycle groups the four ends that differ only in
  wording as `FINISHED` and the two waiting ones as `WAITING`; `gen` is
  `fencing_generation`, `lease` says that `lease_expires_at` is in the future,
  `started` is `provider_invocation_started`.
* A claim is taken in three ways: `ClaimNext` (the sweep of expired providers and
  the claim of one row are one transaction), `ClaimExact` (resident wake-ups) and
  `OpenDirect`, which a repeated call may enter again under the same generation.
  The claim commits; `Deliver` is a second transaction; only then does the client
  hold a binding. Clients may use any binding they ever got.
* A bound call reads the row and verifies the binding (`Call`), reads it again
  (`AssertActive`), opens its transaction (`Begin`) and writes (`Deliver`, `Renew`,
  `Start`, `Record`). `Begin` is a step because PostgreSQL's `now()` is the time the
  transaction was opened: a write that waited for a row lock passes
  `lease_expires_at > now()` though the lease has ended meanwhile. What follows
  `AssertActive` goes by the lifecycle of the *first* reading, as in the code. The
  owner's-task guard is a refusal that may happen at any time.
* `Tool` may park an action; `Associate` writes its id to the request while the
  claim lasts. `Decide`, `Execute`, `Refuse`, `Finish` are `approve_pending` as this
  component sees it; `Reconcile` follows a recorded result and `Resolve` is where
  both callers end.
* `ran`, `acted` and `result` remember which generations were told to run, called
  a tool, and had their result recorded. `lost` remembers that a call died on its
  way to attach an outcome.

| run | instance | asks |
|---|---|---|
| `queue` | one request of each origin in turn, two threads, one client, two generations, deaths without bound | is started work handed out again, does a late write of an old claim land, does a settled request stay settled, does the outcome come back, is what died settled or taken over |
| `queue_early` | the same with one generation | finding 2 |

Two threads suffice because rows meet in no statement but the sweep and a claim,
and a request has two parties at most: the claim that lost it and the one that
took it, or the recorder of the result and the owner. Two generations are a claim
and its takeover. One client with two generations is the harder case: the
`worker_id` does not tell its claims apart.

*Fairness*: the HTTP server gives every call its own thread (`ThreadingMixIn`), so
a poll that is possible again and again is served: `SF_vars(Poll)`. A call that was
made runs on (`WF_vars(Step(t))`) or dies. That somebody polls is what the two
liveness properties assume; nothing else in the Core settles an expired provider.

What the runs show. The generation in the WHERE clause alone carries the fence
(`SameOwner`). A re-entrant direct call gives two holders one generation, and both
may be told `PROVIDER_RUNNING`; `OneGenerationActs` speaks of claims, not of calls,
for that reason. Three things stay open by construction of the code:

* an `AUTONOMOUS_ATTENTION` request whose worker dies between the exact claim and
  the start is never taken over: general claims exclude the origin and an exact
  claim wants it `PENDING` (`sentry_autowake.py:314`). PHASE-14-R2 names a reclaim
  before the start; `AbandonedIsReclaimed` holds for the other origins only;
* a handler that dies between `record_result` and `reconcile_request` loses the
  outcome of an approval decided before (`lost`), as nothing repeats it;
* an approval that FAILED because its tool changed, decided before the result was
  recorded, is found by neither caller, so `OutcomeIsAttached` speaks of the
  approvals that are APPROVED or REJECTED.

### The families: many components, one run

The other components are checked in three families, `MCObligations`, `MCHousehold`
and `MCExchanges`. A family instantiates each component on a small instance of its
own; `part` says which one runs, and a behaviour never
changes it. So a family explores the *union* of its components' state spaces, not
their product: components that interact are modelled inside one module (the watcher
with the attention consumer and the queue in `JournalHandoff`; the relay with the
ingress in `VendorRelay`; the stream with the page in `OwnerConsole`), with the
neighbour reduced to what the code at hand can see of it. A property of a family is
a conjunction of the properties of its modules, under the condition that the module
runs. Components that are instantiated twice are two instances of different kinds
(a review's forecast and the owner's; SENTRY's socket and its calls; a chat and a
page). The variables of two modules are disjoint; some instances of one module share
theirs, of which `part` again says whose they are.

`MCObligations` takes its instances as constants and `Obligations.cfg` gives them
values; so does `HouseholdParts`, which holds the components of `MCHousehold` that are
proved about (`Household.cfg` gives the values; `MCHousehold` adds the instances that
are only checked). `ContextWindow` is fixed in it but for its threads and faults. What
`MCObligations` and `HouseholdParts` promise is proved for all values of their constants
(section 3). `MCExchanges` fixes its instances.

Deadlock checking is off: clocks, faults and calls are bounded, so every instance
stops.

**`obligations`** (liveness included)

| module | code | what it keeps and does | what is checked |
|---|---|---|---|
| `Journal` | `journal.py` append | positions drawn before the commit, duplicates, rollbacks; used by the two modules below | - |
| `JournalHandoff` | `ui_runtime.py` watcher, `intelligence.py` bridge | two racing deliverers of guaranteed events, an isolated attention consumer, the context, the enqueue; deaths at any statement | `PassedIsAccounted`: what the cursor passed has its request, its disposition or a failed context, also when events commit out of order ahead of the reading; it is accounted for in the end |
| `AlertDelivery` | `alert_delivery.py` | one obligation with canonical words and a follow-up, two speakers, leases, retries, lost receipts | said once per phase; a due obligation ends |
| `ResultDelivery` | `approval_results.py` delivery | the outcome of an approval, instances of a voice client, leases, a status that moves on | replied once |
| `ApprovalContinuation` | `agent.py`, `action.py` | one parked action, its approval and its continuation: resumers, the challenge, leases, crashes (above) | dispatched once, a rejection respected; the loop resumed over a result, once in the first lease |
| `GovernedMemory` | `memory.py`, `preferences.py` | correction, retraction, expiry, conflicts, rebuild of the index | one successor |
| `KnowledgeVault` | `knowledge.py` | idempotent writes by digest, retractions, expiry, deaths; edits by hand between any two steps of a call | a request replaces at most the note its sender saw, and no call one edited before it was read |
| `HouseholdSettings` | `scenes.py`, `automations.py`, `senseguard_alerts.py`, `notification_routes.py` | two clients on one versioned setting, of the two kinds of saving | no lost update |

**`household`**

| module | code | what it keeps and does | what is checked |
|---|---|---|---|
| `TruthProjection` | `journal.py`, `truth.py` | two projectors over a journal that commits out of order, a poison row, rebuilds that truncate without the lock | what the checkpoint passed is projected, but for rows that commit behind a reading |
| `Attention` | `attention.py` | several consumers over the tables of one profile; guaranteed, low, aggregated and ruled events; cooldown, rate window, flush | live decisions are those of a replay; triggers agree with decisions; rates are kept; what was passed is decided |
| `HomeCommissioning` | `home_assistant.py`, `graph.py` | commission, move, retire, switch, the ZHA flow | truths follow the binding; placed where asked; failed means not done; the step shown is Home Assistant's |
| `HouseholdGraph` | `graph.py` | overlapping transactions on spaces and devices at READ COMMITTED | nothing that stands is uprooted, whatever overlaps; the home is one tree until a writer overtakes another |
| `WifiPresence` | `wifi_presence.py` | sweeps against a status file, a phone exchanged, deaths | a departure is earned by enough sweeps in a row |
| `TrackerPresence` | `household_presence*.py`, `ring_events.py` | volatile baselines per connection, late and stale observations, overlapping assignments, rings | edges alternate; fresh rings are heard; presence can be read |
| `PluginLifecycle` | `plugins.py` | register, enable, disable, saves that fail, restarts | the owner's choice survives |
| `LearningNotes` | `household_learning.py` | versions of a candidate, notes, receipts; tool, owner and reconciler | what is recorded as synchronized is so |
| `LearningForecast` | `household_learning.py`, `household_shadow.py` | windows frozen under a consent, evaluated in two threads, late records | negatives are earned; no window becomes more certain |
| `LearningSchedule` | `household_learning.py`, `learning_review_runner.py` | configurations and the durable tasks that follow them, dispatch by runner or watcher | exactly the wanted review is scheduled; a dispatch has its event, request and packet |
| `LearningEvidence` | `household_patterns.py`, `household_learning.py` | runs and episodes drawn from the newest page; assessments and reviews; incidents; modes declared from two clients (four instances) | support is real, learned is earned, told and successful is kept |
| `HouseholdPlans` | `calendar.py`, `family_routines.py` | versioned rows with audits in a second transaction; routine memories | a row is the replay of its requests; audits are true |
| `ContextWindow` | `context.py` | sections read one after another while the house changes, two assemblers, pruning by bytes | nothing vanishes; least goes first; nothing withdrawn is shown; a packet is kept |

**`exchanges`**

| module | code | what it keeps and does | what is checked |
|---|---|---|---|
| `AgentEpisode` | `agent.py` | model turns, tool rows, budgets, interruptions and their resumption | calls are distinct; the rows tell the episode |
| `SentryWorker` | `integrations/sentry` | rounds, batches of calls, normalisation, unknown answers, the note, the submission | calls follow success; the result is honest; the note agrees |
| `SentryCore` | `sentry_service.py`, `owner_boundary.py`, `sentry_boundary.py` | processes and the socket's path, the client's registration, calls under a fencing generation; two handlers and a rotation of the token (three instances) | the owner is reached; the revoked stay so; called once; authority held |
| `VendorRelay` | `scripts/waydroid_vendor_relay.py`, `vendor_event_ingress.py` | outbox, posts that are lost or go on after they were given up, two handlers of the ingress, deaths on both sides | the outbox tells the truth; nothing is promoted |
| `SceneApplication` | `scene_application.py` | two threads with an application and its children each, edits, confirmations, deaths | answers are true; steps in order; unresolved is not repeated; confirmed as saved |
| `ExternalProviders` | `external.py` | a limiter and clients without locks, restarts, refusals | searches are paced; shown was offered |
| `OwnerAuthority` | `ui_api.py`, `policy.py`, `users.py`, `graph.py` | logins, sessions, decisions and what they change in graph and face profiles | decisions are kept; logins are spent; signed out stays out; profiles agree |
| `OwnerConsole` | `ui_api.py`, `live_results.py`, `ui/src` | a chat that polls for its answer; pages whose sections are read by up to four concurrent requests, a bus with a small buffer and few places, subscriptions left behind | the last word is shown; a page is not forgotten and does not go back |
| `NotificationRules` | `household_initiative.py`, `household_event_context.py` | the owner's rules, policy, sleep and readiness read one by one, some after the model's answer; route, poll, intent; stale events | spoken was wanted; wanted is owed; its route is polled; heard where somebody may hear it |
| `HomeAssistantLink` | `home_assistant.py`, `automations.py` | connection with its event loop thread, start, monitor, reconciling worker, refresh; drops | the inventory follows the home's last change |

How variables and actions correspond to the code is said at the head of each module;
its histories (variables marked `history:`) are read by properties and by no guard.

*Bounds*. Two threads, clients or owners race in most instances, because what goes wrong
here goes wrong between one reader and one writer of a row. Where there is one, its
neighbour is of another kind: one relay beside two handlers of the ingress, one review
runner beside the journal's watcher, one page with up to four concurrent reads, one
event loop beside the threads that wait for it, one episode beside those who decide its
approvals; two processes at SENTRY's socket have one thread each, and its calls are
checked twice, one handler with every tool (`Service`) and two handlers with a single
tool across a rotation of the token (`Handlers`). What two review runners do to each
other is proved for any number of them (section 3) and was too large to enumerate.
 `MaxFaults`, `MaxDeaths` and
`MaxDrops` of one or two put a death, a lost answer or a failed statement at any
point; `MaxVersions`, `MaxCalls`, `MaxChanges` and `MaxEdits` of two or three let a
stale writer meet a row that went one or two versions on. Clocks run as long as it takes a
bound (a lease, a cooldown, a grace, a rate window) to end twice, or once with a
neighbour's still running. Three deliveries or three events are used where a set has
to overflow (`Limit`, `Capacity`, `PageSize`). A setting goes to its second version: two
clients race for its creation and for its first change, and what holds for any
`MaxVersion` is proved.

*Histories as conditions*. Several properties say "unless two transactions
overlapped", "unless a hand-off failed". Each such condition is a place where the code
as written does go wrong (TLC shows it when the condition is dropped), and the history
names it as narrowly as it can. So these properties do *not* say that the hazard cannot
bite; they say that nothing else goes wrong:

| condition | what is not promised there |
|---|---|
| `missed` (`JournalHandoff`), `skipped` (`TruthProjection`) | an event that commits where the watcher, or a projector, has read already: it is read by nobody again (the truths: until a rebuild). Events that commit in another order ahead of the reading are covered |
| `broken` (`TruthProjection`) | rows behind a failure before the first checkpoint; a rebuild beside a running projection |
| `"overtaken"` in `excused` (`HouseholdGraph`) | the tree, the names and the single place of a device, once a writer has committed on what another had overtaken; that nothing is uprooted is promised all the same |
| `blind` (`HomeCommissioning`) | the truth of a device that was commissioned while another thread reconciled |
| `crossed` (`LearningSchedule`) | the schedule after two reconciliations of different versions at once |
| `overtaken` (`Attention`) | rates, and agreement of trigger and decision, for an event decided on a reading that another commit made stale |
| `overtaken` (`LearningForecast`) | a negative that closed while a late receipt was being recorded |
| `raced`, `rude` (`ExternalProviders`) | pacing of searches that were in the limiter, or its client, together |
| `overlap` (`SceneApplication`) | that an application started beside an unresolved one of the same scene sends nothing |
| `crossed` (`SentryCore`) | that a token is the registered one, when another handler replaced the shared codec between this handler's reading and its check |
| `late` (`KnowledgeVault`) | an edit by hand made behind a call that has read the file: it is replaced unseen |
| two `edits` (`NotificationRules`) | an evaluation that two edits crossed |
| `torn`, `crossed` (`OwnerAuthority`) | that graph and face store agree after a request that broke off between the two, or overlapped another |
| `broken`, `failed` (`TrackerPresence`) | edges and rings of a connection in which a hand-off failed |

*Fairness* is assumed in `obligations` alone: the watcher's loop and the speakers'
polls run for ever in the processes that have them (`WF`), the clock passes leases,
retries and the ten minutes after which an obligation is given up, and a transaction
ends. Nobody is obliged to answer in time.

## 3. Proofs

`ActionExecutionProofs.tla` proves, for any number of threads, requests, scopes and devices and any bound on the faults, from
`ActionsAssumption` alone:

| theorem | statement |
|---|---|
| `TypeInvariant` | `Spec => []TypeOK` |
| `OnceInvariant` | `Spec => []OnceInv` |
| `DispatchOnce` | `Spec => []AtMostOneDispatch` |
| `DispatchConfirmed` | `Spec => []ConfirmedDispatch` |

and, under the further assumption `SessionsLast` (`"session" \notin FaultKinds`:
no lock session is cut under a live thread),

| theorem | statement |
|---|---|
| `LockedInvariant` | `Spec => []LockedInv` |
| `LockedExclusion` | `Spec => []ScopeExclusion` |
| `DispatchRecorded` | `Spec => []DispatchIsRecorded` |
| `SuccessObserved` | `Spec => []SuccessWasObserved` |
| `OutcomesAreFinal` | `Spec => OutcomeIsFinal` |

The argument is in two layers, so that it is visible which claim rests on what.

*Without the locks.* `AtMostOneDispatch` is not inductive: that a key is
dispatched once depends on who may still reach `Invoke`. `OnceInv` adds

* `ThreadInv`: a thread past the policy with a confirmation-class request
  carries the confirmation; an idle thread has no request;
* `RowInv`: a key has at most one row, and what was parked or entered has one;
* `CallerInv`: an action_id has at most one calling thread, ever, and
* `DeciderInv`: an approval has at most one deciding thread, ever, because the
  challenge is consumed by one conditional UPDATE; with
* `DispatchInv`: once `calls[a] > 0` the thread that did it is past the
  dispatch. For an ordinary action that is its only caller, for a confirmed one
  its only decider.

*With the locks.* `LockedInv` adds `LockInv` (a thread holds exactly the scopes
it counts, and all of them past the lock), `OpenInv` (whoever can still write an
outcome finds the row open, and a caller whose action is parked is about to
write just that), `OutcomeInv` and `ObservedInv` (what is about to be written
admits the dispatch, respectively was observed). `OutcomesAreFinal` follows
step by step from `OpenInv`.

`SessionsLast` is a hypothesis of each of these theorems, not an `ASSUME`; the
run `action_liveness` shows with TLC which liveness is left when it does not hold.
`OnceInv` and `LockedInv` were checked with TLC before they were proved; no run repeats
them.

The end of `ActionExecutionProofs.tla` proves `PromiseKept`, `SessionsLast => (Spec =>
PromiseIsKept)`: the initial states of `ActionExecution` map to the initial state of
`KeyPromise`, and every step to one of its steps or to a stutter, whatever thread
takes it. It rests on `OnceInv` and `LockedInv`: that a key is sent once, and that who
writes an answer found the row open.

`DurableTasksProofs.tla` proves, for any tasks, workers and assignment of
worker_ids, from `TasksAssumption` alone:

| theorem | statement |
|---|---|
| `TypeInvariant` | `Spec => []TypeOK` |
| `AttemptsBounded` | `Spec => []AttemptsAreBounded` |
| `CompletedEmitted` | `Spec => []CompletedWasEmitted` |
| `SettledIsFinal` | `Spec => SettledStaysSettled` |
| `ClosedIsQuiet` | `Spec => ClosedStaysQuiet` |

`AttemptsAreBounded` needs `CountInv`: a row counts its claims, and one that waits
has an attempt left, so that the claim which takes it over is paid for already.
`CompletedWasEmitted` needs `EmittedInv`: past the append a worker's run is
journaled, and a worker of the owner's sink marks only what was enqueued. The
other two hold step by step (`ClosedIsQuiet` of the guard, not of the start behind it); both rest on two lemmas about all steps,
`OtherStepsKeepRuns` (only a claim or a reclaim opens a run or touches its
attempts) and `ClaimingKeepsSettled`. None of them needs a worker_id to be unique.

`IntelligenceQueueProofs.tla` proves, for any requests, threads and clients and
any number of claims, from `QueueAssumption` alone:

| theorem | statement |
|---|---|
| `TypeInvariant` | `Spec => []TypeOK` |
| `OneActs` | `Spec => []OneGenerationActs` |
| `ResultOfTheActor` | `Spec => []ResultIsOfTheActor` |
| `SettledFinal` | `Spec => SettledStays` |
| `OutcomeAttached` | `Spec => []OutcomeIsAttached` |

`OneGenerationActs` is not inductive: a late write is harmless only because of
what its thread has found out before. `IInv` is `TypeOK` with

* `RowInv`: a row is started under one generation, which is its last; only that
  one calls tools, and a recorded result is of the last one too;
* `BindingInv`: a binding is handed out once its claim was delivered, so a call
  with a binding never meets its own claim undelivered;
* `CallInv`: a call whose first reading found the provider started still finds
  it started, if the claim is still its own: this is why the handlers may go by
  the stale lifecycle that `_request` read (the hazard at
  `sentry_service.py:1007`);
* `ToolInv` and `ReportInv`: who calls a tool was told to run; who reports an
  outcome carries the status of an action.

Its steps are proved over `Later`, what a step may do to a row: a claim lasts or
is superseded, and under one claim the lifecycle does not go back. What bindings
and threads know survives every step of that kind (`BindingKept`, `ThreadKept`),
so each action has only its own row and its own thread to answer for.
`SettledFinal` follows step by step: only `Resolve` writes a row that is settled
or waits, and `ReportInv` says what it carries.

`OutcomeIsAttached` says that a waiting request whose action is over and decided has
its outcome once nobody is on the way to it. It needs `AttachInv`: as long as an
outcome is owed (`Owed`: the request waits, it is associated, the action is settled
and decided, no call that would have brought it has died) some call `Brings` it - it
will reconcile, or it resolves from a reading of the action that was already settled,
or it refuses the approval. The steps of the other calls leave it alone
(`OthersBring`); the step that makes an outcome owed is one that brings it: a
decision goes on to `reconcile`, a result that makes the request wait does too.

`ObligationsProofs.tla` proves what the run `obligations` checks, its liveness apart, for
any events, dispatchers, speakers, replies, voice clients, resumers, sessions, threads,
requests, clients and records, from `ObligationsAssumption` alone:

| theorem | statement |
|---|---|
| `PassedEventsAreAccounted` | `Spec => []PassedIsAccounted` |
| `EachIsSaidOnce` | `Spec => []SaidOnce` |
| `ApprovedActionOnce` | `Spec => []ApprovedOnce` |
| `LoopResumedOnce` | `Spec => []ResumedOnce` |
| `NoUpdateIsLost` | `Spec => []NoLostUpdate` |
| `ObligationsAreTyped` | `Spec => []TypeOK` |

*The hand-off* (`HandoffInv`). The watcher reads its cursors, a batch beyond them,
waits for a dispatch and writes at the end, in one transaction that may die, while
other transactions commit below, within and beyond what it has read. The invariant is
about the open transaction: what lies between its managed cursor and where it stands
is requested, expired or known to have failed (`Between`), and what is committed beyond
it is in its batch or after it (`WatchIsSound`). Both are about all that did not commit
where the watcher had read already (`missed`), in whatever order it committed. With
`PositionsAreOne` (a row has a position of its own) it follows that the event the
watcher goes on to is the next one; with `DispatchIsReal` (a consumer has a committed
event, and past it a trigger) that an answer of the dispatcher is about that event.
`PassedOnKeeps` is the step of the cursor, `ScanKeeps` that of the bootstrap.

*Speech and replies* (`SpeechInv`, `ReplyInv`). That a phrase is begun once is an
argument about generations: a claim takes one of its own (`...ClaimsAreOne`), who has
begun holds the written intent until the phrase is settled and nobody else has begun it
(`...IntentIsHeld`), and what was started before is settled or held
(`...StartIsHeld`). An entry that is settled or held never returns to what a poll
would offer; that is what `StatesGiveWay` and `RowsGiveWay` say about every step
that does not claim.
The types need one invariant more each (`SpeechIsNamed`, `ReplyIsNamed`): an entry
that is held names who holds it.

*The approved action* (`ApprovalInv`). What matters of the assumption is `Lease >= Life`. A
thread checks the action's row before it takes the locks, so the single dispatch is
not inductive. The chain is: a held continuation expires no earlier than `Lease`
(`LeaseInv`), so while the challenge lives (`clock < Life <= Lease`) nobody takes it
from a thread in a fenced phase, and such a thread owns it (`FenceInv`); there is one
owner, so when one thread is evaluated as `Fresh` and goes on to dispatch, no other is
between its check and its own evaluation; a thread that is there later finds the
challenge expired (`DispatchInv`). After the dispatch the record is closed and no check
passes. `DecisionInv` ties what a thread does to the decision that consumed the
challenge; `ResultInv` and `LoopInv` follow the continuation past the result. All of
them are proved over four shapes that a thread's step can give the continuation
(`LeavesIt`, `Takes`, `GivesUp`, `MovesOn`). `LoopInv` is confined to the first lease,
as the property is: past it the code does start a second loop.

*Records* (`MemoryInv`, `VaultInv`, `SettingInv`). A lost update is a write by one who read
before another's write; each invariant says what a reader may still rely on.
A setting: what a client saw, what the plugin then read for it and the row have versions
in that order, and what was read *is* the row while the versions are equal
(`EditIsBehind`), so the one statement that compares the version decides for all that
was read before. A note: the file lock admits one call (`OneCaller`); what that call has read is what the
tools wrote last, and where the file differs by then the edit is marked as made behind it,
so that only such an edit can be replaced unseen (`CallIsSound`); a request that has
replaced the note has left a later digest behind and is answered from the receipt in it
(`RequestIsSound`, `NoteIsWritten`). A memory: an open transaction
accounts for every row it will commit - it made the row, superseded an active one by it,
or ended an active one (`RowsAreSound`) - transactions share no row (`Apart`), and only a
rebuild holds the index alone, so what it has read is the truth until it commits
(`TableIsSound`). `CommitKeepsSuccessors` is the step where the rows become the memory; all
the others move one transaction (`TransactionMoves`).

`HouseholdProofs.tla` proves three of the five properties of the run `household`, for any
events, projectors, consumers, kinds and limits of attention, runners, spaces, devices,
clients, trackers, owners and forecasts and any bounds, from `HouseholdAssumption` alone.
The steps are in `HouseholdPartsProofs.tla`, part by part:

| theorem | statement |
|---|---|
| `NothingMissed` | `Spec => []NothingIsMissed` |
| `HomeStaysWhole` | `Spec => []HomeIsWhole` |
| `WhatIsToldIsEarned` | `Spec => ToldIsEarned` |

*The truths* (`TruthInv`). Positions are drawn before the commit, so a row may appear
below where a projector stands; those rows are `skipped`, until a rebuild begins with the
first one. `BatchIsSound` says what a running projector may rely on: what it has copied
lies between the checkpoint it started from and where it stands, what else was committed
and not skipped lies beyond, in whatever order it committed, and the truth it is about to
write is the resolution of what it has copied, on top of what stood.

*Attention* (`AttentionInv`, for any instance `k` of it). A consumer works on a copy of
the tables and commits it with its cursor. `CallIsSound`: what lies between its old
cursor and the event it is at is decided in the copy; `DecidesOn`: the copy decides
whatever the tables decide. A guaranteed event has a trigger of its own in both
(`EventIsDecided`), and no reading takes it for another kind (`ReadingIsFair`).

*The review's schedule* (`ScheduleInv`). That the tasks are the wanted ones depends on
what a reconciling runner has read: `TasksAreWanted` says that it misses only the task of
the version it read, unless two that read different versions overlapped, and that once a
version was reconciled nobody with an earlier reading is at the tasks. `DispatchIsBacked`
follows a dispatch from event to request to packet to the run that is marked.

*The map* (`MapInv`). A writer plans on what it read and commits later. `Sound` is what
a plan still relies on while no other transaction has committed (`PlansAreSound`); `Tree`
and `Placed` hold as long as no overtaken plan has committed. `Attached` holds whatever
overlaps: a transaction that takes away the row above a standing space, or the one that
places a standing device, puts another there or retires what it belonged to. The step that matters is the
move: `MoveKeepsReach` and the lemmas on `Under`, about sets closed under containment, say
that every place stays under the household.

*Commissioning* (`CommissioningInv`, `BindingInv`). `OneFlow`: while no requests of the ZHA
flow overlapped and no answer was lost there is one request of it, for the step that was
shown or the one that was reached. `CallIsBound` and `ReadyIsBound`: a commissioning goes
on from the mapping of its object, its snapshot has what is still on its way, and once a
device is called ready everything journaled for it so far is known under its truth key.

*Trackers* (`TrackerInv`, `RingsInv`). `OneAssigns`: unless two assignments overlapped, the
one linked person is whoever the binding names, and what the owner at work has looked at
still holds. A ring is pending only in a connection in which writing one has failed.

*The network's observer* (`WifiInv`). `MissesAreCounted`: the sweeps counted in the status
file are among those that in fact missed the phone in a row; `BaselineIsTold`: the last
event is the baseline, as long as no write was lost.

*Forecasts and packets* (`ForecastInv`, `ContextInv`). `ReadersAreBound`: an evaluator holds
the version it says it read, and that one was not final; so the one conditional UPDATE
decides. `AsOrdered` keeps a review's forecast from the owner's.

`BindingInv`, `ScheduleInv`, `TruthInv` and `AttentionInv` were checked with TLC, each on
its part's instance, before they were proved.

Not provable here, and left to TLC: the liveness properties (the provers do not treat
`ENABLED`), and `RecordsAreTrue` of `MCHousehold`, whose parts compare a state with a fold
over all that happened (`LiveMatchesReplay`, `CalendarIsReplay`, `SupportIsReal`): that is
induction over data. Model-checked only, because no proof was written: `TypeOK` of
`MCHousehold`, and the properties of `MCExchanges`.

## 4. Findings

Each of these has a run that shows it:

1. `action_abandoned`. `recover_incomplete` (`action.py:765`) is called by no
   start-up, so after a crash a row stays `PLANNED` or `EXECUTING` for ever;
   PHASE-9 documents a start-up reconciliation. Scopes and single dispatch are
   unaffected; a later replay of the key is told `EXECUTING` for ever.
2. `queue_early`. The owner decides while the provider's result is recorded.
   `approve_pending` claims the approval first and writes the action's row only
   after locks, refresh and policy; `reconcile_request` (`approval_results.py:437`)
   asks only whether the approval is APPROVED. So it may read the action as
   `REQUIRE_CONFIRMATION` and attach that as the outcome, labelled
   `CORE_VERIFIED_ACTION_RECORD`. The UI's own `resolve`, when the action is over,
   finds an outcome and keeps it: the request waits for ever for a confirmation
   that was given and carried out. The action itself is unaffected. The tests
   decide only after the result was submitted.
3. `automation_live`. An automation triggered by a live event runs on the
   connection's own loop thread (`automations.py:527`), and the refresh of its
   devices waits for a coroutine of that same thread until it times out: the action
   is recorded as `UNKNOWN_RESULT` although Home Assistant was there all along.

Met on the way, and kept as remarks without a run:

* A replay under a new action_id that meets a `PLANNED` or `REQUIRE_CONFIRMATION`
  record passes the duplicate check (`action.py:1496`) and later raises instead of
  returning the record, as PHASE-9 has it. No second dispatch follows.
* `approve_pending` says that an APPROVED row can be recovered after a crash between
  its consumption and its dispatch (`action.py:1846`); the lease of the continuation
  (`agent.py:1578`) lasts as long as the challenge, so by the time it can be claimed
  again preflight refuses the approval.
* `reclaim_expired` (`tasks.py:1285`) marks the metadata of the run, and `event_for`
  copies it into the payload: a replay after a crash between append and mark builds
  another event under the same event_id, and `validate_event` then refuses the
  journaled one. PHASE-10 calls the event deterministic.
* Two moves of spaces that overlap can put a space inside itself
  (`graph.py:1347`), which the docstring of `move_place` excludes
  (`NoSpaceIsInsideItself` in `HouseholdGraph`, false and in no run; `HomeIsWhole` is
  the checked form).
* A dismissal recorded as synchronized may leave the note of an earlier version
  where it can be found (`household_learning.py:2130`), against GOAL-027A
  (`DismissalDisablesTheNote` in `LearningNotes`, false and in no run).
* An event whose context cannot be assembled leaves its trigger `FAILED_CONTEXT`, and
  the watcher goes on: it has neither a request nor an expiry record, where the comment
  of `recover_pending` calls later outages accountable (`OutagesAreAccountable` in
  `JournalHandoff`, false and in no run; `PassedIsAccounted` counts the trigger).
* A file of the vault that is edited by hand between the reading of its digest and the
  `os.replace` of a call is overwritten without a word (`knowledge.py:404`); the digest
  catches only the edits made before it is read.
* A token that was valid a moment ago may be accepted once more after a rotation, because
  the handlers share the codec they compare with (`sentry_service.py:752`).

## 5. Not modelled, and why

Backup and resilience are I/O around PostgreSQL. Inside the modelled parts: the
wording of reasons, of proposals and of prompts; what is sent to the language model
and the transport of its answer; the parsing of providers' pages, of accessibility
trees and of Home Assistant's attributes; read-only routes of the API; scoring and
ranking in retrieval; the fields of audit rows beyond their existence. None of it
holds a state that the properties relate. The in-memory stores, which tests use, are
left out: production runs on PostgreSQL.

## 6. Plan

1. Proofs for the families' modules whose invariants are nearly inductive:
   `OwnerAuthority` (`SignedOutStaysOut`, `LoginsAreSpent`), `PluginLifecycle`
   (`ChoiceSurvives`), `LearningNotes` (`SynchronizedIsTrue`).
2. An abstract specification of an obligation (owed, spoken at most once, ended) that
   `AlertDelivery` and `ResultDelivery` both refine, as `ActionExecution` refines
   `KeyPromise`.
3. The editing of automations, the Android channel, the model-call receipts of the
   intelligence queue.
