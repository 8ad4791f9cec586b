# Alerting service: TLA+ models, checks and proofs

TLA+ modules beside the code of the alerting service: what they model, what TLC
checks on small instances, what the TLA+ proof system proves for all of them,
and what is left out. Paths are relative to the repository; source paths
without a prefix are under `src/alerting_service/`.

## 1. The system

The service receives events (Pub/Sub in live mode, files of past events in batch
mode), decides what each is worth, and tells people and other services: Slack
mirrors, Telegram, PagerDuty, mail, a physical pager, the orchestrator's
repository, the kill-switch bus. Most of its logic is about *not* telling: the
same finding reported every few minutes must be told once a window, and must
still be told. Its state is spread over the memory of a Cloud Run revision (lost
at a redeploy) and a few objects in a bucket (shared by two revisions that
overlap during one).

### Inventory

| Component | State | Operations | Interacts with | Hard behaviour | Correct when |
|---|---|---|---|---|---|
| Alert deduplication (`core/dedup.py`, `core/recurring_dedup_persistence.py`, `persistence/storage_store.py`) | seen entries and their windows (memory); cooldown stamps (cache and bucket object) | is-duplicate, should-suppress, record | called by the router; bucket | overlapping revisions read and write one object; failing reads and writes; crash between claim and delivery | silence never outlasts a window; a cooldown survives a redeploy |
| Event router (`notifiers/router.py`, `coalesce.py`, backlog and cooldown tables) | coalesce window, audit counters, batch flag | route_event, route_event_with_explicit_channels, route_incident | dedup, channels, dispatch gate, kill-switch bus | an event and its nested page pass dedup twice; two windows chained; drills and replays share live state | one page per window; replays silent, and drills the router can tell for such; signals held back briefly |
| Batch replay (`main.py`) | mode switch | replay, report | router | leaving the mode resets what is reported | as above |
| Escalation ladder (`escalation_ladder.py`) | per identity: state, count, first occurrence, opened at, rung (bucket) | record_occurrence | dispatch gate | read-advance-write over two bucket calls, overlap, failure, crash | never loud early but when it fails open, never loud twice in a window |
| Orchestrator dispatch (`notifiers/orchestrator_dispatch*.py`) | checkpoint (bucket), cached token probe | gate, checkpoint, dispatch | router, ladder, GitHub | composition of three windows; checkpoint before a POST that may be refused | a persistent finding is dispatched in the end; no activity twice unless the checkpoint was put back |
| Relaunch budget (`orchestrator_dispatch_budget.py`) | one object per VM, day and group; local mirror | count, claim | dispatch | count and claim are two calls, the POST a third that may be refused; fallback nobody else sees; midnight | bounded overshoot; no refusal for less than a budget of claims |
| Circuit breakers (`circuit_breaker.py`, `error_event_handler.py`, `rules/consolidator_rules.py`, `rules/feed_refetch_rules.py`) | per key: circuit, error times, open since | record_error, attempt_half_open, record_success | router | sliding window, probes, cooldown of the milder alert | a crash loop is told as one, and is delivered |
| Incident gateway (`gateway/gateway_state.py`, `audit_ack_queue.py`, `ack_escalation.py`, `api/routes/safety_ops.py`) | incident snapshots, audit-ack queue, escalation history | register, acks, verdicts, escalation pass | HTTP, notifier, state machine | any order of acks, verdicts, re-registrations and passes; notifier that raises | nothing unacked is forgotten; each rung once; ack silences |
| Live service (`subscribers/alert_subscriber.py`, `engine/orchestrator.py`, `cli/handlers/alert_handler.py`) | running and shutdown flags, the task, the batch in hand | pull, acknowledge, route, page about its own failures, shut down | Pub/Sub, typed handlers, router, credentials | a pull acknowledges before anything is routed; cancellation while a thread pulls; one message, or one subscription, that raises | each message at most once; a stop costs one batch; a death is reported |
| Configuration reloaders (`config_reloaders.py`) | last credentials, poll flag | fetch, keep or replace | every channel client, the subscriber's own page | a refresh that finds nothing, or only some of the secrets; a first fetch that finds nothing | a read that fails outright loses nothing |
| Typed event handlers (`notifiers/domain_event_handlers.py`, `rules/*.py`) | none of their own | dispatch on the type, build alerts | router | alerts that differ only in a detail that is not hashed; a handler that raises half-way | what a held-back alert was to set off has been set off |
| Reconciliation freeze (`recon_*.py`), model kill switch | freezes and fired switches, on the bus | arm, lift | bus, router | alerts first, freezes after, one by one | what a breach puts in doubt stays halted until it is lifted |
| Incident state machine, recovery gate (`gateway/state_machine.py`, `recovery_verifier.py`, `notifiers/event_adapter.py`) | none of their own | transition, verify | router's route_incident | a recovery is announced before it is verified | the outcome told is the verifiers' |
| Dependency health, kill switch (`dependency_health_*.py`, `kill_switch_*.py`) | failure counts, outage clocks, the bus's active keys | probe, grade, arm, clear | router, bus, operators | re-armed at every CRITICAL tick; a routing that raises ends the pass; a restart forgets everything | a blip pages nobody; an alarm's end is noticed; a lasting outage is halted again after a clear |
| Watchers (`subscribers/governance_forum_watcher.py`, `stablecoin_issuer_pause_subscriber.py`) | seen ids | poll, emit | an emitter | id marked before it is emitted; an emitter that raises ends the loop | each proposal told, each halt told |
| Provider health and fallback cascade (`gateway/provider_health_probe.py`, `notifiers/incident_fallback.py`, pager, Twilio) | consecutive failures, fallback flag | probe, cascade | escalation pass, router | the flag flips while a cascade reads it | each layer tried when the one before fails |
| Alert store, health aggregator (`core/alert_store.py`, ...) | bounded history and queues | add, subscribe | API | trimming and full queues | newest kept |
| Other rules, manual actions, channel clients, API, CLI, metrics, mock data | none that decides | format, compare, send | router | - | - |

`PROJECT.json` lists every component with its status and every hazard with its
line and the properties that bear on it.

## 2. The modules

| Module | Models | State and actions |
|---|---|---|
| `AlertDedup` | both layers of deduplication | One process is one revision. `Arrive` is `_is_duplicate_alert` up to the claim (`SuppressedByCooldown`, `SuppressedInProcess`, `Claim`); `Reread`, `StoreUnavailable`, `Write` are the bucket calls of `record()`; then `Deliver`. `Start` and `Stop` may come between any two. |
| `AlertRouter` | routing of one event to its end | `RouteEvent` is `route_event` with its early returns in order (duplicate, coalesced, synthetic, batch, not mirrored, data-pipeline, generic); `RouteExplicit` the entry of the typed handlers. `Handle` takes an event from the subscriber to one of the two: `Handed` is the event itself, or the alert its handler makes of it under another name, with or without the event's flags. `FinishReplay`, `Restart`. |
| `LadderRules` | the record of the ladder and what one occurrence does to it | `Advanced` and `Answer` are `_advance_state`; no state. The clock has `Second` ticks in a second and a stored moment is the start of its second, as `_fmt` makes it. Shared by the next two. |
| `EscalationLadder` | `record_occurrence` as a read and a write | `Read`, `Write`, `Crash`, `Tick`; `Unresolvable` is the bucket that cannot be resolved, answered None, which callers take for loud. |
| `DispatchGate` | a finding's way from the detector to GitHub | `Sweep` (dedup), `Count` (ladder), `Checkpoint`, `Sends` or `Refused` (probe and POST), `Crash`; `Appear`, `Resolve` and `Tick` are the environment. A sweep is at most `Cadence` after the last and a finding in hand for at most `CallTime`, the sum of the calls' timeouts. A finding brings any attempt, or none, in any order. Composes `LadderRules` with the router's deduplication. |
| `RelaunchBudget` | count and claim | `CountClaims`, `Refuse`, `Claim`, `ClaimInMirror`, then `PostTaken` or `PostRefused`; `Restart`, `Midnight`. |
| `FailureAlerts` | a breaker as its three users drive it, down to deduplication | `Fail` is the whole handler of a failure, `FailUncounted` the one whose first routing raises before the breaker hears of it, `Probe` and `Succeed` the other two methods of the breaker, `Restart`. The list of error times is a set of errors, each a time with a serial number, since only their times and how many they are decide anything. |
| `GatewayState` | the gateway's memory, its queue and the escalation pass | One action per POST handler, `EscalationTick`, `Restart`. |
| `AlertDelivery` | what the live service promises of a message | abstract specification: `Send`, `Handle` (at most once), `Stop` (the only step that may lose). |
| `PagingCredentials` | the credentials reloader | `StartReloader` (the synchronous first fetch), `Wake`, `Refresh`, `StopReloader`. A read brings any subset of the secrets: what is not there or cannot be read is left out of the dictionary. |
| `LiveService` | the process in live mode, over several runs | Main coroutine: `Start`, `RequestShutdown`, `Notice`, `Return`, `Kill`. Subscriber task: `BeginStream`, `Poll`, `Resume`, `Route`. Its thread: `PullBatch`, `PullFails`. Extends `PagingCredentials` and implements `AlertDelivery` under the mapping `Fate`, `Serving`. |
| `DependencyHealth` | the probing loop, its rules, handler and the registry of halts | `ProbeOne` is `_probe_one` to its end, `Healthy` or `Unreachable`, with the alert and the arming of the bus in it, and with the routing that raises; `Tick`, `Turn` (the dependency), `Clear` (an operator), `KillSwitchAlert` (the router), `Restart`. |
| `TypedHandlers` | what each typed handler makes of its event | operators only: alerts with their severities and identities, `Freezes`, the model kill switch. |
| `IncidentGate` | `route_incident` and the recovery gate before `AUTO_ACTION_SUCCEEDED`; the legacy adapter | operators only. |
| `TypedEvents` | a message from the subscriber's `_route_one` to the people and the bus | `Receive` is unwrapping, dispatch and handler: what the message brings is then in `hand`. The reconciliation handler, `route_incident` and `route_legacy_alert`, which no event leads to and nothing calls, are received as calls (`Called`); an event of such a name goes to the router and freezes nothing. An alert has the details that are hashed and, apart from them, those that are not (`detail`). `RouteAlert` takes the next alert through deduplication to the people and the bus, `ArmFreezes` publishes the freezes after the last alert, `RoutingRaises` breaks off. `Lift`, `Restart`, `Tick` may come between any two. Composes `TypedHandlers` and `IncidentGate` with the router's deduplication. |
| `Watchers` | the governance-forum and the stablecoin-issuer loops | per loop: ask each source, tell what was found, sleep, stop; `Post`, `Halt` and `TimePasses` are the environment. |
| `*Proofs` | theorems about the module they extend | |
| `MC*` | constants for the runs | |

Conventions. An operator whose name contains an underscore is a *slip*: a wrong
version of the definition it is named after (a dropped guard, an off-by-one).
Substituted for it, it breaks the property `PROJECT.json` pairs it with under
`mutants`; this is how each property is known to be able to fail. Variables
marked *history* in their comment are not in the code; properties refer to them
and nothing else does, except the counters that bound a run.

What is abstracted everywhere: an alert's details are the identity the
deduplication key hashes; formatting, logging and metrics are left out; what a
channel or a bucket answers is chosen freely.

Atomicity. Nothing in the router, the typed handlers or the gateway's handlers
awaits, so one call is one step; the subscriber routes a batch to its end without
the event loop turning, and only the probe awaits in the probing loop. Calls to the bucket or to GitHub are steps of their own, and a
second revision, or a crash, may come between any two.

## 3. The runs

`pass`: TLC visits every reachable state and finds no error.

| Run | Bounds | Shows |
|---|---|---|
| `dedup` | 2 revisions, one recurring identity and one not, windows of a few ticks, clock to 4 | Nothing is suppressed outside the window of an earlier claim (`SuppressedOnlyInWindow`), whatever fails; until a bucket call fails or revisions overlap a delivered recurring alert stays cooled down across redeploys (`CooldownSurvivesRedeploy`). |
| `router` | three sets of events: the shapes of one CRITICAL recurring cell, two coalesced signals with a drill, one event of every other family live and replayed, with a drill whose handler passes its flag on and one whose handler drops it | `OnePagePerWindow`, `StalenessHeldBackBriefly`, `DrillsAreSilent`. |
| `ladder` | 2 revisions, one identity, threshold 3 as in the code, a window of two seconds of two ticks each | `QuietBelowThreshold`: loud below the threshold only where the ladder fails open; `OneAlarmPerWindow`, short of the truncated fraction of a second, until something fails. |
| `gate` | a VM-shaped finding of a name with a cooldown, one of a name without, and one about a tuple of a name without; window 4 of two-tick seconds, threshold 3, calls of one tick, one crash; attempts none, first and second, and a static backlog; the clock is unbounded | `PersistentFindingDispatched` (liveness, names without a cooldown), `RecurringStaysQuiet` (names with one), `LoudOncePerWindow`, `NoRedispatchWithoutActivity`. |
| `budget` | 2 revisions, 3 VMs, budget 1, two days | `OvershootBounded`, `RefusedOnlyWhenSpent`. |
| `failures` | each kind of breaker, windows in the code's proportions, clock to 6 | `CrashLoopEscalates`, `OpensOnStrikesOnly`, `EscalationIsDelivered`. |
| `gateway` | one incident, three severities with the order of the real policies, clock to 7 | `NoneForgotten`, `StepsFireOnce`, `SilentAfterAck`. |
| `live` | 3 messages, two subscriptions one of which was never created, batches of 2, two runs of the process, two secrets of which each read brings any | `ImplementsDelivery` (refinement), `LossIsOneBatchARun`, `DeathIsReported`, `FailuresAreTold`, `EventuallyHandled` (liveness). |
| `dependency` | two dependencies, one without fallback that halts everything and one with every band of severity that halts a scope of its own; threshold 2, ages to 4; restarts at any point | `NoBlipPages`, `AlarmsAreOpen`, `LastingOutageHalts` (liveness). |
| `events` | thirteen sets of messages, one for each family and shape, readings on both sides of every threshold; windows 1 and 2, clock to 2 | `HaltsFollowBreaches`. |
| `watchers` | two risky proposals on one forum whose page holds one, one issuer, two starts, clock to 2 with a lookback of 2 | `EventuallyTold` (liveness). |

Why the bounds are enough. Windows matter only by their order and by whether a
moment is inside, at or beyond their end, so two to five ticks stand for minutes
and hours, and every clock runs past the longest window it has to expire. The
modules that need no history of absolute times (`LadderRules`, `DispatchGate`)
keep ages instead of moments, so their time is unbounded. Two ticks are the fewest
that make the fraction of a second visible: with one, moments would be exact. In
`gate` the detector is quick enough for the third sweep to fall into the window
(`QuickDetector`), and slow calls use up all of `CallTime`; a tuple-shaped finding
of a name with a cooldown takes no step that the other three kinds do not. Two revisions are
what a redeploy has. Keys never interact in deduplication except through the one
shared object, hence two keys there; breakers, ladder identities and budget
groups share nothing, hence one. Incidents meet only in the escalation pass,
which may stop after any subset of them, and the theorems below hold for any set
of incidents. In `live` three messages against batches of two make a full batch
and a rest, and two runs let the thread of the one outlive its task and the
messages of the one be pulled by the other. In `dependency` the ages run past the
last band of both policies and are kept, not moments, so time is unbounded. In
`events` messages are redelivered without bound at any tick; a window of one tick
opens and closes before the clock ends, and the longer one outlives it by a restart.
In `watchers` a second proposal crowds the first off the page and the clock passes
the lookback. `MaxErrors` bounds the errors held in one window; it is no less than any
threshold.

`failures` runs the breaker with the two methods that close it again
(`Probing = TRUE`), the behaviour of the class as its unit tests drive it; it is
the larger set of behaviours, so what holds there holds of the service, which
never calls them.

Fairness, where a liveness property needs it:

- `gate`: weak fairness of `Tick` and `Sweep` (the detector runs on a scheduler)
  and of `Count`, `Checkpoint` and `Sends \/ Refused` (a process goes on with the
  call it has in hand); strong fairness of `Sends` (GitHub does not refuse every
  POST for ever). Crashes are bounded by `MaxCrashes`. The property excepts what no
  fairness could give: a name with a cooldown, a tuple that nobody attempts again,
  and a process that found no token (its probe is cached for life).
- `live`: weak fairness of the subscriber task, of the coroutine that notices and
  returns, and of a thread's call coming to its end; strong fairness, for each
  message, of the pulls that bring it (Pub/Sub hands out a waiting message sooner
  or later, though pulls may fail in between). Nothing is assumed of restarts or of
  the secrets.
- `dependency`: weak fairness of the interval and of each probe (the loop catches
  everything and never ends); strong fairness, for each dependency, of the
  probe whose routing and bus both work, so neither raises for ever whenever that
  dependency is probed. Restarts end in the property's premise.
- `watchers`: weak fairness of each loop's steps; strong fairness of each source
  answering.

Deadlock is checked in every run but three: in `router` and `watchers` the clock
of the instance ends and nothing may remain to be done, and in `live` the process
may have been stopped for good.

### Disagreement

One run checks a statement of a comment which the code does not keep.

| Run | Statement | What happens |
|---|---|---|
| `events_recurs` | `ResolvedAndRecurringIsTold`: "re-nags while down, re-alerts on resolve+recur" (`notifiers/recurring_alert_cooldowns.py:27`) | nothing in the identity of CONSOLIDATOR_DOWN tells one outage from the next, and CONSOLIDATOR_RECOVERED does not lift the cooldown: when the bucket is down again within the hour, the recovery remains the last word people had |

### Noted while modelling, not covered by a run

Deduplication, router, dispatch:

- record() says it merges "against the latest GCS content"
  (`core/recurring_dedup_persistence.py:91-93`), but the cache, loaded once,
  overrides newer stamps just read (line 102).
- "CRITICAL ones ALSO page via the incident path" (`notifiers/router.py:664`): an
  event already stamped CRITICAL has the deduplication key of its own page, which
  is dropped (line 390).
- "the 3rd crossing dispatches" (`escalation_ladder.py:82`): a recurring event's
  cooldown is the ladder's window, so it is counted twice at most before the count
  is reset, and never reaches 3 (`notifiers/orchestrator_dispatch_gate.py:109`).
  `RecurringStaysQuiet` states it, of a finding told in the same details each time;
  `PersistentFindingDispatched` is about names without a cooldown. Nor does a
  detector that sweeps too rarely for three occurrences in a window ever dispatch
  (`QuickDetector`).
- When the ladder's bucket cannot be resolved the answer is None, and the gate
  dispatches at the first occurrence (`escalation_ladder.py:296-298`): as
  documented, and the one way to be loud below the threshold.
- The ladder's moments are stored in whole seconds (`escalation_ladder.py:76-91`)
  and compared with a clock that is finer: a window may end up to a second early,
  in `OneAlarmPerWindow` as in `LoudOncePerWindow`.
- The POST comes after the ladder's write and two calls with timeouts: a slow one
  followed by a fast one puts two dispatches closer together than the window, by the
  time of a call. The bound that holds is `Window - CallTime - Second`.
- The checkpoint takes whatever the finding brings
  (`notifiers/orchestrator_dispatch_budget.py:184`): one with an older attempt, or
  with none, puts it back, and an attempt that was dispatched is dispatched again.
- A relaunch is claimed before GitHub is told (`notifiers/orchestrator_dispatch.py:166`
  and 217) and the claim is not taken back: a VM may be refused on a day on which
  none was relaunched. `RefusedOnlyWhenSpent` counts the claims whose instruction
  was refused or lost.
- "does NOT dispatch to PagerDuty / Telegram" (`notifiers/coalesce.py:28-30`): a
  handler that builds its alert anew drops the synthetic flag, and the router takes
  it for real. A drill's ML_SIGNAL_STALENESS of 24 h or more pages and fires the
  kill-switch bus (`cefi_ml_event_handler.py:100-133`). `DrillsAreSilent` is about
  drills whose flag is still on what the router is handed.
- An alert is claimed before it is routed: one whose routing raises blocks its own
  repeat for a window (`notifiers/router.py:594`).
- Two overlapping revisions that record at once lose a stamp
  (`core/recurring_dedup_persistence.py:100`, against its docstring, lines 25-27):
  a second page, never a silence.
- The report of a replay is always zero: leaving batch mode resets the counters
  it is made of (`main.py:120`, `notifiers/router.py:136`).
- A read of the ladder's bucket that fails answers "" (quiet), as of an identity
  never seen, where None (fail open) is promised (`escalation_ladder.py:301`
  against 288-291).
- A failed token probe is cached for the life of the process
  (`notifiers/orchestrator_dispatch.py:92` against 37-39).
- A drill's signal opens the coalesce window and holds a real one back
  (`notifiers/router.py:630`, before the synthetic flag is looked at).
- Two revisions between count and claim exceed the daily budget
  (`orchestrator_dispatch_budget.py:605`); `OvershootBounded` says by how much.

Failures and gateway:

- A service error whose own routing raises never reaches the breaker
  (`error_event_handler.py:127-133`): `FailUncounted`. Only failures that reached it
  count in `CrashLoopEscalates`.
- A notifier that raises after it has paged leaves the rung unrecorded, and it is
  paged again (`gateway/ack_escalation.py:93-99`). The model takes a call that
  raises for one that did not page, so `StepsFireOnce` says nothing of it.
- "cooldown lets it probe HALF_OPEN after 30 minutes of quiet so a healed
  consolidator de-escalates" (`rules/consolidator_rules.py:97-98`): nothing in the
  service calls `attempt_half_open`; an open circuit escalates until the process
  ends.
- "shorten the audit-ack window to 1h so the human is paged sooner"
  (`gateway/gateway_state.py:175-176`): the deadline becomes one hour from now,
  later than it was for a CRITICAL incident or one escalated before (line 262).
- `due_soon` yields with its lock held while its contract has the caller
  re-enqueue, which takes it (`gateway/audit_ack_queue.py:120`), and a heap entry
  left by dequeue stands for the re-enqueued key (line 126). It has no caller.
- A DISPUTE of an incident already in SAFE_MODE_ACTIVE leaves its severity alone:
  the path is empty and the severity is raised on its last hop
  (`gateway/gateway_state.py:195-212` against 173-174).
- A restart of the gateway forgets every incident; the rehydration its docstring
  speaks of (line 4, and `gateway/audit_ack_queue.py:6`) is not in the repository.
  `run_ack_escalation_loop` has no caller outside the tests.
- `failures_in_window` and `escalation_reason` are hashed into the deduplication
  key, so the hourly cooldown of consolidation and re-fetch failures is one per
  count. `EscalationIsDelivered` relies on it: the escalation is never swallowed.

Live service:

- There are two ways to start: `AlertHandler.run` with the reloaders and the
  subscriber, without dependency probing; `main.py` with the subscriber and the
  probing, without the reloaders. The Dockerfile runs neither but the API.
- A pull acknowledges before anything is routed (`subscribers/alert_subscriber.py:546`):
  the batch in hand is lost with a process that stops, and so is the one a thread
  brings for a task already cancelled.
- A reloader whose first fetch finds nothing never polls
  (`config_reloaders.py:159`): a run that booted while Secret Manager was down
  swallows its own failures to its end.
- A read that brings some of the secrets and not others replaces the dictionary
  (`config_reloaders.py:199-214`): a credential that failed to be read once is gone
  until the next read, and with the webhook the page about the service's own
  failures. `FailuresAreTold` holds as long as the last read that brought anything
  brought the webhook.
- get_paging_credentials takes a lock for each of sixteen fields; a rotation in
  between gives a mixed set. The `get_active_*` snapshots have no reader.
- A malformed typed payload is dropped with a log line, while a handler that raises
  is paged.

Dependencies and halts:

- The outage clock is dropped before the recovery is routed
  (`dependency_health_prober.py:129`): a routing that raises loses the recovery.
  Conversely a recovery is told for outages nobody was told of.
- Counts and clocks are in memory only (`dependency_health_prober.py:103-105`): after
  a restart during an outage, the recovery is told only if the new process has
  clocked an outage of its own first. In the model the alarm is then `"orphaned"`.
  A severe outage that lasts is halted again by the new process.
- The bus is armed on every CRITICAL tick and never cleared on recovery. Nothing
  reads the registry but `should_escalate`, which has no caller.
- Nothing publishes DEPENDENCY_DEGRADED, and `evaluate_dependency_health` drops the
  synthetic flag.
- Nothing calls the reconciliation handler, `route_incident` or
  `route_legacy_alert`: an event about reconciliation is in no dispatch table
  (`subscribers/alert_subscriber.py:449-487`), goes to the router as it is and
  freezes nothing. `HaltsFollowBreaches` is about calls of the handler.
- `recon_freeze_event_handler.py:89`: a routing that raises loses the freezes of its
  breaches. With no verifier registered the recovery gate passes.
- An incident keeps its event id through its transitions, so a second
  RECOVERY_UNCERTAIN within 60 s is suppressed.
- A proposal is marked seen before it is emitted
  (`subscribers/governance_forum_watcher.py:443`): when the emitter raises, the rest
  of the batch is lost for the next run of the loop. `EventuallyTold` excepts ids
  marked before the loop was run again.

## 4. The proofs

`tlapm` checks them to the last leaf. Assumptions are the named ASSUMEs of the
modules (sets of keys and processes of any size, windows and thresholds any
natural numbers) and nothing else.

- **`AlertDedupProofs`**: `TypeCorrect`; `StampsCorrect` (`StampsAreClaims`, the
  inductive invariant: no stamp in memory, cache or bucket is newer than the last
  claim of its key); from it `NeverSilencedForLonger` (`SuppressedOnlyInWindow`).
  The invariant alone is not the property: suppression looks at a stamp in the
  memory of one process, the property at what any process really let through.
  The opposite direction is `CooldownCorrect` (`CooldownSurvivesRedeploy`): while
  nothing has failed and no two revisions overlapped, the object holds the stamp of
  every delivery, the cache of the one revision that runs is never behind the object
  it will overwrite, and an alert on its way out is stamped before it is out
  (`CooldownKept`); a revision that does not run remembers nothing
  (`MemoryIsVolatile`).
- **`EscalationLadderProofs`**: `TypeCorrect`, `QuietCorrect`
  (`QuietBelowThreshold`), which excepts only identities the ladder failed open about.
  The invariant speaks of records about to be written as
  well as of stored ones; without the first half a crash or an overlapping write
  would not preserve the second. `AlarmsCorrect` (`OneAlarmPerWindow`) rests on
  `AlarmsRecorded`: every alarm is accounted for by the durable record of its
  identity, which is open since no later than the alarm but for less than a second,
  and by the record the one call under way is about to write.
- **`OrchestratorProofs`** is about the dispatch gate and the relaunch budget.
  Gate: `TypeCorrect`; `NoRedispatch`
  (`NoRedispatchWithoutActivity`) from `ActivityInv`: until a finding puts it back,
  the checkpoint stands at what was last sent or after it, and what is about to be
  sent has just been written to it; `LoudOnce` (`LoudOncePerWindow`) from `LoudInv`:
  a finding in hand is no older than a call takes, and the last loud call about an
  open ladder came within that time, and a second, of its opening, unless it is still
  on its way; `RecurringQuiet` (`RecurringStaysQuiet`) from `QuietInv`: of a name
  with a cooldown the second occurrence counted comes a window after the first was
  let through, so that by the third the window of the first is over, however late
  within the time of a call each was counted. All hold for any number of crashes.
  Budget: `BudgetTypeCorrect`; `Overshoot` (`OvershootBounded`) for
  any number of revisions and any budget. Inductive (`Charged`): nobody is told without a
  claim, and claims made plus checks that have counted and not claimed never exceed the budget plus the number of
  revisions less one, as long as no call has failed.
  `Spent` (`RefusedOnlyWhenSpent`), whatever fails, from `Honest`: what a bucket or
  a mirror shows of a day is a subset of what was claimed that day, told or not.
- **`GatewayStateProofs`**: `TypeCorrect`, `QueueCorrect` (`NoneForgotten`),
  `StepsCorrect` (`StepsFireOnce`) and `SilenceCorrect` (`SilentAfterAck`), for any
  incidents, severities and policies. `StepsFireOnce` needs `PagesAreRecorded`: that
  a rung which was paged is in the history the next pass reads. `SilentAfterAck`
  needs `AckStands`: no verdict, page or re-queueing takes an ack out of the
  envelope, which is where the pass looks.
- **`AlertRouterProofs`**: `TypeCorrect`; `DrillsSilent` (`DrillsAreSilent`), which is
  inductive as it stands, for replays and for drills whose flag the handler passes
  on; the proof has one lemma for each entry of the router, and
  one saying that a replay leaves the stamps alone. `PagesCorrect`
  (`OnePagePerWindow`) from `PagesAreCooled`: the one identity all shapes of a
  recurring condition page under is in the durable cooldowns since the last page.
  `StalenessCorrect` (`StalenessHeldBackBriefly`) from `SignalsAreDated`: a signal is
  remembered only if it came while the coalesce window of its venue was open, so its
  deduplication window starts within that one. All for any rules, traffic and
  windows, under `ClosedSetsAssumption`: the names that are coalesced have neither a
  cooldown nor a typed handler, and the typed handlers of the recurring names that page
  stamp their events CRITICAL. That is a fact about the tables of the code, and TLC
  evaluates it on those of the instance.
- **`FailureAlertsProofs`**: `TypeCorrect`; `CrashLoopCorrect` (`CrashLoopEscalates`)
  and `StrikesCorrect` (`OpensOnStrikesOnly`) from `Remembers`: a closed breaker has
  forgotten no failure of the window since the last recovery and holds fewer than
  open it, one that is not closed has had its strikes; `EscalationCorrect`
  (`EscalationIsDelivered`) from `StampsAreDeliveries`: no stamp of an escalated
  alert, in memory or durable, is newer than the last delivery of one, so what holds
  an escalation back is a delivery. For breakers that are probed and for those that
  are not, any thresholds and windows.
- **`ServiceProofs`** is about the live service and the typed events.
  Live service: `TypeCorrect`; `DeathReported` (`DeathIsReported`), from
  what the task may be in each phase (`Asked`); `Told` (`FailuresAreTold`), from
  `CredsKept`: as long as the last read that brought anything brought the webhook, it
  is among the credentials;
  `Refinement` (`ImplementsDelivery`), for which one fact about the service is
  needed: while it serves, a thread is out only for a task that waits (`Awaited`),
  so that what the thread brings is not lost; and `Loss` (`LossIsOneBatchARun`):
  as long as a run serves, or its thread pulls, its batch is still to spare
  (`Spare`), a batch is in hand only in a run that routes or is about to
  (`Holding`), and no thread outlives its process (`Ended`).
  Typed events: `EventsTypeCorrect`, which rests on what the handlers give: whatever
  the payload, a list of alerts about its subject (`AlertsAreAList`) and freezes of
  its instrument or of all (`FreezesAreAList`). `HaltsCorrect`
  (`HaltsFollowBreaches`) from `HaltsInv`: a kill that was claimed, and so stands in
  the way of its repetition, has been carried out or its handling has failed
  (`ClaimedKills`), and one the message in hand calls for is done or among the alerts
  to come (`KillsToCome`); that it is called for at all is `KillIsBrought`, a fact
  about the staleness ladder. For any traffic (`TrafficAssumption` says only what
  fields a payload has), any windows and any number of services.
- **`PollingProofs`** is about the polling loops.
  Dependency health: `TypeCorrect`; `AlarmsOpen` (`AlarmsAreOpen`), which
  needs `FreshIsQuiet`: a clock that has just started has raised no alarm yet, that
  is why it may be dropped without a word; a restart, which drops all clocks, leaves
  no alarm of its own process behind; `NoBlip` (`NoBlipPages`) from `CountInv`:
  each counted failure stands for an interval without a successful probe, one more
  while the pass under way has still to come to the dependency, and so does each
  unit of a clock, with the threshold behind it.
  Watchers: `WatchersTypeCorrect` (`WatchersTypeOK`), with `FoundHalted`: what the
  issuer loop has found in the poll under way are issuers that halted, so that what
  is heard is true. What a poller keeps of a list (`Only`) is a function defined by
  recursion. The library's induction theorems take an operator as a parameter, which
  the provers do not instantiate; `LeastNumber` and `InductionUpTo` get the induction
  from the well-foundedness of strict inclusion on finite sets instead, and
  `OnlyKeeps` is proved with it.

Every safety invariant and action property of the passing runs is proved. Only
model-checked is liveness: `PersistentFindingDispatched`, `EventuallyHandled`,
`LastingOutageHalts`, `EventuallyTold` (fairness and ENABLED are out of the
prover's reach).

## 5. Not modelled

- Provider health probe and fallback cascade: nothing constructs the probe or
  starts the cascade but the SEV0 branch of `route_incident`, which no event of the
  subscriber reaches. A model would have to invent the process that runs it.
- Incident persister and evidence collector: nothing constructs them; the state
  machine of the service has no persist callback.
- Alert store and health aggregator: a list trimmed at its limit and queues that
  drop when full; only the HTTP API reads them and nothing is decided on what they
  hold.
- Rules that no event of the subscriber reaches (positions, balances, P&L, health
  factors, rate deviation, transaction simulation, sports), and the tables of the
  data-pipeline and deployment rules, which are literals and an input of
  `AlertRouter`. The alert cycle that would call the first has no caller.
- Manual actions: a forwarder behind a rate limit.
- In the modelled components: the gateway's ring of sign-offs and its display rows
  (read only), the heap behind `due_soon` and `peek_due_at` (no caller outside the
  tests), the dead-letter record of the error handler, the grouping of VM names.
- Formatting, HTTP clients, metrics, CLI parsing and mock data.

Two hazards stay without a property: a refused POST after the checkpoint was written
(`orchestrator_dispatch_budget.py:184`), because no document says what should become
of it; and a restart of the gateway, which forgets what it held, as noted above.
