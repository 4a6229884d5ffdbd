# Verification of by-framework

by-framework runs agents as executions spread over worker processes that share
nothing but Redis. A handler may call another agent and wait for its reply; it
then *suspends*: its activation ends, and the reply, a `ResumeCommand` on the
control stream of the caller's agent type, starts a new activation on whichever
worker reads it. This directory holds TLA+ models of that machinery, the TLC
configurations that check them, and proofs checked by TLAPS.

Paths below are relative to `src/by_framework/` of the repository.

## The system

| Part | State it keeps | Operations | What makes it correct |
|---|---|---|---|
| Wait index and gate (`core/wait_index.py`, `core/wait_gate.py`) | sharded ZSET of waits by deadline; "consumed" markers | register, claim (ZREM, then SET or EXISTS), drop | one wake-up per wait; no reply dropped that was not superseded |
| Wait sweeper (`core/wait_sweeper.py`) | shard locks, renewal origins | claim a shard, triage due waits, renew, answer for a callee, cancel, prune | every wait is answered in the end; live work is left alone |
| Suspending call (`worker/context.py`, `worker/worker.py`) | stored results of callees | `call_agent`, `ask_user`, reply, suspend, resume | the caller is woken once, with the callee's answer if there is one |
| Task Group (`worker/context.py`, `worker/worker.py`, `core/wait_reply.py`) | hashes `task_group`, `task_group_results` | fan out, join, abort, expire, flush stand-ins | one aggregate, whole, and only when all members are done |
| Execution registry (`core/registry.py`) | a JSON record per execution in the session hash; worker statistics | initialise, update, mark finished or cancelling | statuses only move forward; no lost updates |
| Runner (`worker/runner.py`, `worker/_execution_tracking.py`) | slots, running tasks, tracker | consume, process, acknowledge, control commands, shutdown | slots are returned; a message read is processed |
| Worker lease (`worker/heartbeat.py`, `core/registry.py`) | worker-id lock, heartbeat lease, membership | claim, refresh, release, re-register | at most one owner of an id acts as such |
| Cancellation (`client/client.py`, `worker/_control_handling.py`) | cancel flags in execution records | cascade over the execution tree | a cancelled tree ends, and nobody is woken for it |
| Administration (`admin/`, `worker/_control_handling.py`) | lifecycle and denylist of a worker | suspend, resume, evict, deny | a suspended worker takes no work |
| Availability (`core/availability.py`, `core/wakeup_controller.py`, `core/delivery_gate.py`) | wakeup and pending-delivery streams | route, wake up, release | a pending command is delivered once |
| Gateway client (`client/client.py`) | none of its own | send, resume, cancel, read a stream with or without a checkpoint, reload | a send leaves its command in exactly one place; a commit skips nothing |
| Plugins and configurations (`core/extensions/`, `core/agent_config.py`) | registry per worker, snapshot per execution | initialise, reload, bind, restore | a reload is all or nothing; an execution keeps its snapshot |
| Data stream (`worker/context.py`, `client/client.py`) | a stream per session, checkpoints | append, close, consume, iterate | the end comes once and last |
| Tracing (`trace/`, `metrics/snapshot.py`, `libs/by-framework-trace-query`) | spans and metadata of a trace | export, rebuild a tree | nothing stored is lost from the tree; a waiting trace is not completed |
| Metrics (`metrics/`) | collector lock, history points | collect, derive alerts, health and SLO windows | one collector goes on; snapshots list what was there |
| Discovery (`core/discovery.py`, `util/discovery_http_client.py`) | instances, scores, local cache | register, beat, refresh, pick, retry | picks beat recently; a retried transfer is whole |
| Native agent loop (`libs/by-framework-agent`) | saved conversation | model turn, tool calls, suspend, resume, cancel | no model turn with an unanswered tool call |
| Langfuse plugin (`libs/by-framework-trace-langfuse`) | open workflows, uploads in flight | task hooks, expiry, eviction | stays within its limits; what is open can be ended |
| Redis client, files and sandbox, framework adapters, dashboard, other back-ends | see `PROJECT.json` | | |

Parts interact through Redis only: streams (commands and replies), the session
hash (execution records), the wait index, and keys with a TTL (locks, markers,
groups, leases). Every `await` on Redis is a point at which any other process may
run, and a process may die at each of them. That is where the hard behaviours
are: the same reply may exist in several copies (the callee's own, a stand-in of
the sweep, the one of a cancelled callee); several activations of one execution
may run at once; and what was read before an `await` may be false after it.
`PROJECT.json` lists these as hazards, each at its line.

## Modules

| Module | Models |
|---|---|
| `WaitState` | the state shared by gate, sweepers, callers and callees; the type invariant |
| `WaitGate` | `consume_wait_entry` in a runner task |
| `WaitSweeper` | `_sweep_shard`, `_resolve_entry`, `_triage_child` and what they call |
| `SuspendedCall` | callers and callees; composes the three above; the properties |
| `TaskGroup` | a Task Group: fan-out, join, and the sweep on its members |
| `WorkerLease` | the lease of a worker id: claim, heartbeat thread, failure deadline, release |
| `LeaseLock` | abstract: a lock that can run out, which `WorkerLease` implements |
| `WorkerAdmin` | managers, heartbeats, control commands and shutdowns writing lifecycle and membership |
| `ExecutionLedger` | execution records, counters and tracker under concurrent updates and cancellations |
| `Delivery` | `send_message`, router, wake-up controller, delivery gate |
| `RunnerSlots` | slots, batches, control loop and shutdown of one runner |
| `PluginConfigs` | plugin initialisation, reloads, the snapshot of an execution |
| `EventStream` | what executions append to a session's data stream, and its readers |
| `TraceStore` | spans and metadata of a trace, and the two ways of rebuilding a tree |
| `FleetMetrics` | the metrics collectors and what readers derive from the history |
| `ServiceDiscovery` | instances, the cached client, HTTP calls with retries |
| `HarnessLoop` | the native agent's tool-calling loop over suspensions |
| `LangfuseWorkflows` | the Langfuse plugin's open workflows and uploads |
| `MCSuspendedCall`, `MCTaskGroup` | symmetry for TLC |
| `MCWorker`, `MCServices`, `MCLiveness` | several modules in one run, see "Composition" |
| `SuspendedCall_proofs`, `TaskGroup_proofs`, `WorkerLease_proofs`, `ExecutionLedger_proofs`, `RunnerSlots_proofs` | theorems of one module each |
| `Delivery_proofs` | theorems of `Delivery`, and of `MCWorker` |
| `Services_proofs` | theorems of `PluginConfigs`, `LangfuseWorkflows`, `HarnessLoop`, `EventStream`, `ServiceDiscovery` |
| `Observability_proofs` | theorems of `FleetMetrics`, `TraceStore`, and of `MCServices` |

### SuspendedCall

A *wait* is the n-th call of a caller; it stands for the member of the wait index
that `encode_member` builds, which the reply carries back field by field.

* `index` is the ZSET reduced to what decisions depend on: an entry is absent,
  live or due. `marker`, `stream`, `lock` are the other Redis keys. `stream`
  counts unread copies per wait and content, for copies are alike and are
  consumed in any order by several workers.
* `exec` and `callee` are execution records. A caller's record has the status,
  the calls made and whether the worker it names has a lease; a callee's has its
  position, its process, lease, stored result, cancellation and whether the
  renewal ceiling has passed.
* A runner task walks through `_process_message_from_dict`: `zrem`, `mark` or
  `check` in the gate, `resume` (record set to RUNNING), `handler`, `sending`
  (after `initialize_execution` and `_register_wait`, before the XADD), `unwind`
  (handler returned, status not yet recorded).
* A sweeper walks through `_sweep_shard` and the triage of one entry after the
  other. Each Redis read is a step (`caller`, `owner`, `child`, `lease`,
  `result`), and so is each write (`emit`, `extend`, `cancel`, `drop`).
* `hist` records what happened to each wait, for the properties. No action reads
  it except to bound how often a deadline comes due and to attribute a wake-up.

`Environment` names the faults and behaviours in force: crashes of callee,
claimant, handler or sweeper, Redis errors, lost replies, lapsing leases, locks
that run out under a slow pass, handlers that finish after dispatching
(`abandon`), and the deployment's switch for cancelling timed-out callees.

### TaskGroup

One group of a caller. The gate is not repeated in detail but taken as
`SuspendedCall` shows it: it admits copies that claim the member's entry, copies
that find neither entry nor marker, and `MaxExtra` more. The join is one step per
Redis command: HGET total, HGET aborted, HSET result, HINCRBY completed, HGETALL.
The sweep may take an entry at any time, deadlines being the caller's choice.

### WorkerLease and LeaseLock

`lease` and `ttl` are the key `worker:lease:<id>`; a process stands for its
token. `runner[p]` is `WorkerRunner.start` (claim with retry, first heartbeat,
poll loop) followed by the steps of `_shutdown`; `beat[p]` is the heartbeat
thread, which sends a call, has it executed, and gets its answer, or an error
after the call was or was not executed. Time is explicit: `LeaseTick` ages the
key, the thread's timers and `since`, the time since the last success. A tick is
held back while a thread is due to act or a call has used up `CallLatency`, so a
delay is always that of a call and bounded. A thread may outlive the join in
`stop` and refresh once more while the runner releases.

`LeaseLock` has five actions (take, enter, leave, release, expire). `LeaseIsLock`
substitutes `lease` for its holder and the processes in the poll loop for
`serving`. It says that nobody serves without having taken the lock and nobody
takes, refreshes or releases another's. It does not say that who serves holds it:
a lock that can run out cannot promise that. `ServesUnderLease` says how long the
gap may be, with the failure deadline in force.

### WorkerAdmin

The durable state (`admin`, `denylist`), the routing sets (`members`), and the
control stream (`pushed`) of one worker id; managers that suspend, resume, evict,
deny and allow, one step per Redis call whose order matters; two processes that
serve the id one after the other, each with a heartbeat thread (`cas`, `read`,
`tell`, `scan`, `check`, `add`, `refresh`) and a shutdown that releases the id
before it unregisters.

### ExecutionLedger

Every update of `WorkerRegistry` is three steps of its actor: read the record,
write the changed record, update the counters from the two versions. The actors
are the task of each execution, the worker's control loop and the client that
cancels. `trail` notes whether two updates of one record overlapped; the code
takes no lock, so what can be promised then is little, and the properties say so
in their conditions. Suspended statuses are in `SuspendedCall`.

### Delivery

`send[s]` walks through `send_message`: policy, availability probe, fallback,
wake-up and its decision, recheck, enqueue or refuse, then record and publish.
Workers come and go, and the control-plane keys change, between any two steps. The
controller takes a wake-up, may crash, may answer late, and the gate moves what is
pending. The gate is called once for an execution: its caller is outside the
repository.

### RunnerSlots

An action runs from one `await` to the next, asyncio's grain of atomicity. The
consumer takes a slot, reads one stream blocking, then the others, starts tasks,
and waits for a further slot for each message. `stranded` collects what was read
and not started. The control loop processes directly routed commands inline. The
first signal, a second one, and an eviction end the loops in their different ways.

### PluginConfigs

`pluginReg[m]` is a worker's registry; a configuration is the plugin that made it
and the reload it came from. Start-up runs the plugins in order, with failures
half-way through; a reload stages the chain and replaces the stable version; reload
commands may be delivered twice. `binding[e].seen` collects the snapshots an
execution has run with.

### EventStream

The root execution's runs, a sub-agent or an heir, and the stream they append to;
`consume_data_messages` as read, body and commit in two processes under one
consumer name; `iter_data_messages` from `$`.

### TraceStore

Activations export a span in two round trips (metadata, then span) and may lose
it. `SnapshotTree` is the tree of `metrics/snapshot.py`, `MergedTree` that of the
trace query package with its de-duplication and cycle handling. A reply may fail
after the activation did its work; the record is marked finished after the reply
and before the `worker.execute` span.

### FleetMetrics

Collectors take, check, renew and release a lock in separate calls, scan the
online leases, read each lease again, then the counters, and save a point. `points`
is the history; alerts, health and SLO windows are operators on points. Cancelled
executions weigh like failed ones in the ratios and are not told apart.

### ServiceDiscovery

Instances register and beat, with a ZADD that may land late; two refreshers
overwrite the client's cache in any order; a request, an upload or a download is
retried inside the HTTP client and across nodes, with the file's position and the
target's contents as state.

### HarnessLoop and LangfuseWorkflows

`acts[a]` is an activation of the native loop; of a conversation only the calls
that lack a result are kept. `table` is the plugin's ordered dictionary of open
workflow observations; the clock runs only as far as one expiry needs.

## Composition

`SuspendedCall` composes `WaitGate` and `WaitSweeper` over the state of
`WaitState`: they interact through it. The other modules share no variable, as
the parts they model meet only at the points where one module takes the other's
result as an input (a signal, a lapsed lease, an activation). `MCWorker`,
`MCServices` and `MCLiveness` therefore check them side by side and not as a
product: a variable `part` is chosen initially and names the module whose actions
run while the others stand still. The state space is the sum of theirs, and every
property speaks of all behaviours of its own module. Fairness is stated for the
part that runs. Symmetry is used for the processes of `WorkerLease` (`MCWorker`)
and the workers of one agent type in `PluginConfigs` (`MCServices`), and for
nothing in `MCLiveness`.

## Runs

All bounds are constants of the modules. The interesting races need two copies of
a reply in two tasks, hence `Task = {t1, t2}`; a third task adds no new pair.
`MaxStandIns` bounds how often the sweep answers for one wait; two are needed for
a stand-in to meet a re-created entry. Runner tasks and sweepers (and members)
are symmetric; the runs of temporal properties use no symmetry.

| Run | Checks | Shows |
|---|---|---|
| `call_faults` | `TypeOK`, `WakeAccounting`, `DropIsSuperseded` | one call under every fault but lock expiry |
| `call_two_sweepers` | `WakeAccounting`, `OnlyHolderReleases` | two sweepers whose lock may run out |
| `call_chain` | `EntryUntilAnswered` | two calls in a row with a crash of a claimant |
| `call_liveness` | `EveryWaitAnswered` | crashed, hung and mute callees, crashed sweepers |
| `group_join` | `TypeOK`, `AggregateIsWhole`, `JoinsOnce` | two members under every condition |
| `group_liveness` | `GroupIsJoined` | unavailable, mute and hung members, lost stand-ins |
| `worker_safety` | `PartsTypeOK`, `LeaseIsLock`, `ServesUnderLease`; `CancelFindsTask`, `CascadeIsSilent`, `CountersMatchRecords`; `SendAccounting`, `QueuedIsWaiting` | lease, execution records, sending |
| `services_safety` | `PartsTypeOK`, `OneSnapshotPerRun`, `ReloadHolds`; `WorkflowLruHolds`, `WorkflowReclaimable`; `MergedTreeIsComplete`, `WaitingTraceNotCompleted`; `BuildIsWitnessed`, `ReadersAgree`; `TurnsAreWhole`; `StreamEndsOnce`, `CommittedWasProcessed`; `BodiesAreWhole`, `PicksBeatRecently` | configurations, Langfuse, traces, fleet snapshots, the native loop, the data stream, discovery |
| `worker_liveness` | `ConsumerAccounts`, `StreamsAreRead`, `ShutdownEnds`; `LifecycleConverges`, `MembershipHeals`; `CollectionResumes`; `LiveIsDiscovered` | runner loops, administration, collectors, discovery |

Bounds of the last three, and why they are enough:

* Two processes per worker id (`Proc`, `Host`): a holder and a rival; a third
  rival meets the same lock. The lease lasts three ticks, a beat comes each tick,
  a call takes up to one: the failure deadline, a late refresh and an expiry under
  a slow holder all occur. Two faults are needed for a lost answer followed by a
  second one. `MaxStarts = 1`: a restart under the same id is the other process.
* Two executions, parent and child, and three kinds of actor: every pair of
  overlapping updates, and a cascade of depth two.
* Two sends, one of them a resume, of one agent type with another to fall back to,
  and one outage, key change or controller crash: sends share the wake-up
  de-duplication, which is where they meet.
* Two plugins that claim one agent id and resolve the conflict differently, two
  workers, one reload repeated as often as the client likes, one execution over them.
* Three activations of two tasks with a table of one or two entries.
* A caller and a callee for the trace, each activated by dispatch and by replies:
  overlapping activations of one execution need no more.
* Two watched workers, one job, a history of two points (a window).
* Four tool calls, one of each kind and a second sub-agent, three activations.
* Two runs of the root and three entries; two readers under one name.
* One instance, two attempts on each level. Picking between nodes is the subject
  of `RetrySwitchesNode` below.
* Two streams, three messages (one garbled, one for the control stream), one slot
  and batches of two: a full semaphore, an overflowing batch and a shutdown in the
  middle of each.

Faults of the collectors fire in `worker_liveness`, where two collectors compete;
`services_safety` has one and looks at what it saves.

`CHECK_DEADLOCK FALSE` is set for the group runs (a group is joined once and then
nothing is left to do) and for the last three (processes end, and events are
bounded).

`EntryUntilAnswered` has a condition (no wait of the caller was answered twice)
and is checked without `abandon`, `handler_crash` and `redis_error`. Each of
these really breaks it: a finished caller's entries are dropped on purpose, a lost
caller's too, and a failed registration leaves no entry to begin with.
`EveryWaitAnswered` is checked without `redis_error` and `claim_crash` for the
same reason: a claim that dies with its worker is answered by nobody
(`EntryOrReplyOnTheWay` below). `CountersMatchRecords` and `CascadeIsSilent` have
the condition that no two updates of one record overlapped, `StreamEndsOnce` that
no run was cut short: what the code promises otherwise is nothing.

### Where code and documentation part

Three runs state what a comment or a document says of the code, and TLC shows a
behaviour that does otherwise; `PROJECT.json` quotes each under "findings".

| Run | Property | What happens |
|---|---|---|
| `group_partial` | `OnlyWhenAll` | a member counted twice fills the group |
| `refused_resume` | `RefusedResumeKeepsRecord` | a refused resume writes FAILED over the suspended execution |
| `suspended_member` | `SuspendedNotRouted` | a heartbeat under way adds a suspended worker again |

More statements of that kind are properties of the modules. They are not part of
the regular runs. The first five have a configuration of their own; for the others
replace the properties of the configuration named by this one.

| Property | Configuration | What happens |
|---|---|---|
| `OneClaimant` | `call_double_claim` | renewal's ZADD re-creates a claimed entry |
| `EntryOrReplyOnTheWay` | `call_claim_crash` | the claimant dies, nothing redelivers |
| `WaitingMeansParked` | `call_zombie` | a late WAITING_AGENT over COMPLETED |
| `StoredAnswerSurvives` | `call_stored_answer` | a stand-in although the result is stored, the record being not yet terminal |
| `AnswerSurvivesLoss` | `group_lost_answer` | no copy of a member's result is kept |
| `TasksRunUnderLease` | `worker_safety` | tasks in flight go on after the lease ran out, until the drain ends |
| `ActiveSetDrains` | `worker_safety` | a cancel interrupts a task that is still recording RUNNING: the task is over, its record stays CANCELLING, its entry in the index stays |
| `MissingStateMeansStray` | `services_safety` | a sub-agent's reply arrives before the state is saved: the call is dispatched first |
| `IterMissesNothing` | `services_safety` | `iter_data_messages` from `$` misses what comes between two reads |
| `BreachRaisesAlert` | `services_safety` | a success ratio of zero is taken for no ratio: no alert when every execution failed |
| `WorkflowOutlivesSuspension` | `services_safety` | an activation that returns QUEUED completes the workflow although its task has suspended |
| `SnapshotTreeIsComplete` | `services_safety` | spans whose parents form a cycle are not in the snapshot's tree |
| `RootEndIsFinal` | `services_safety` | the suspended activation, still at its spans, finalises the root after the one that was resumed |
| `OneCollectorWrites` | `worker_liveness` | a slow holder writes after its lock ran out |
| `RetrySwitchesNode` | `worker_liveness` with `Instance = {i1, i2}`, `MaxSdFaults = 0` | a retry may pick the node that failed |

### Fairness

`LiveSpec` of `SuspendedCall` assumes weak fairness of each runner task (live
workers keep consuming, asyncio runs what is ready), of each sweeper (a loop with
a fixed interval), of the lock's TTL, and of time (deadlines come due, leases of
dead workers lapse, ceilings pass). A callee is assumed to do nothing at all: it
may never be picked up, hang or die. The one exception is a callee that is
suspended itself: the sweep renews its caller without limit, relying on the
callee's own wait being answered, which is the property one level down; it is
resumed fairly. `TaskGroup` assumes the same of the caller, the tasks, the sweep
and of lapsing leases; a member need not answer.

In `worker_liveness` each part has its own:

* `AdminFairness`: weak fairness of a manager's operation once begun, of a
  heartbeat round, and of the runner's steps, for none of them waits for anything
  but Redis. Strong fairness of `HandleCommand`: a live process reads its control
  stream time and again, although another process of the same id may take a message
  first. Nothing is assumed of operators, signals or the lease.
* `SlotsFairness`: the event loop runs every ready callback and handlers end. The
  control loop is not included: it may die unwatched.
* `MetricsFairness`: awaited calls return or raise, and time passes.
* `DiscoveryFairness`: the same of an instance's heartbeat, the watch loop, a call,
  and time.

## Proofs

Every safety property a passing run checks is also a theorem, for all values of the
constants: any number of callers, tasks, sweepers, processes, plugins, readers or
spans, all bounds and all environments, from the named assumptions each module
declares. Those say that bounds are natural numbers, that a "no value" constant is
not a member of its set, and what must be finite or present: a group has finitely
many members and at least one, a runner serves finitely many streams, the fleet has
finitely many workers and at least one, a trace has a root. Three theorems have a
further hypothesis, stated where they are described: `EntriesKept`,
`SnapshotsAreWitnessed` and `PicturesAgree`.

Each proof module has, per component, the inductive invariant, one lemma per action
or group of actions that shows it is kept, and the theorems. None of the properties
is inductive as it stands; what the invariant adds is the reason it holds.

### Calls, groups and leases

* `SuspendedCall_proofs`: `TypeCorrect`, with one lemma per group of actions. The
  inductive invariant `Inv` is the conjunction of `TypeOK`, `WakeAccounting` and
  three parts: `FreshIsUntouched` (a wait not yet called has no entry, marker, copy
  or history, so a new call starts from zero), `MissIsExplained` (a task that found
  no entry and no marker is looking at a wait whose absence `hist` accounts for) and
  `MarkerIsHeld` (a marker means that somebody was woken, is about to be, or died
  holding the claim). `WakeAccounting` alone is not inductive: the step that allows
  an unregistered copy must be known to be charged to something. `InvHolds` gives
  `WakesAccounted` and `DropsSuperseded`; `LockReleasedByHolder` is an action
  property proved from the type invariant.
* `EntriesKept` (there too): a dispatched call that nothing has answered keeps its
  entry. Its hypothesis `Steady` excludes the three environments in which an entry
  goes away unanswered by design: a Redis error in the gate, a worker that dies
  inside a handler, and a handler that returns without waiting. All other faults
  are allowed. The invariant `Chained` says that the activations of a caller whose
  calls were each let through once form a chain: at most one call is out, none while
  a handler still decides or after one decided to finish (`OneActivation`); a sweeper
  has decided to drop an entry only for an answered call (`DropIsAnswered`, which
  rests on a caller's being terminal only when all its calls are answered); and
  wake-ups are counted before they happen (`ClaimsAreCounted`).
* `TaskGroup_proofs`: `GroupTypeCorrect`, `AggregateWhole` and `JoinedOnce`. The
  inductive invariant is `JoinInv`: a counted member's result is stored (`Stored`,
  which rests on HSET coming before HINCRBY); the gate admitted as many replies of a
  member as have reached the counter or are on their way to it (`Admitted`, so a
  member counted twice was admitted twice); and as long as no member was counted
  twice (`CountedOnce`) the counter is at most the number of counted members, so the
  activation that sees the total sees the last of them, and no other can follow. The
  counter is bounded, not equal, because it starts again at zero when the group key
  expires.
* `WorkerLease_proofs`: `LeaseTypeCorrect`, and `LeaseImplementsLock`, which says
  that every behaviour of `WorkerLease` is one of `LeaseLock` under the mapping
  above, for any number of processes, any timings and any faults. The clause "the
  lease is held exactly as long as its TTL is not zero" is what makes an expiry map
  to `Expire` and nothing else.
* `ServedUnderLease` (there too): a process whose heartbeat thread has not raised
  `_lock_stolen_event` serves without its lease for at most two call latencies,
  whatever the timings. The invariant `BeatsInTime` ties the heartbeat
  thread's clocks to the TTL. A sleeping thread has its last good answer and the
  time left to sleep add up to at least one interval and less than the TTL; a thread
  in a call may be late by one latency; a lease that is held was renewed no longer
  before the last good answer than a call takes; and one that was lost ran out no
  sooner than a TTL, less a call, after it. With these the deadline's two cases (one
  interval, or the TTL less an interval) each close by arithmetic.

### The worker's records

* `Delivery_proofs`: `DeliveryTypeCorrect`, `SendsAccounted`, `PickUpsAreRecorded`.
  `CommandPlaced` says, send by send, where the command is: nowhere before the route
  is decided, in the pending stream if it was queued there, published once by the
  last step otherwise; and the record precedes whatever a worker can take.
* `ExecutionLedger_proofs`: `LedgerTypeCorrect`, `CancelAlwaysFindsTask`,
  `CountersExact`, `CascadeSilent`. `UpdatesOwned` says which actor may be updating
  which record with what kind of status, so that the version a write carries is the
  update of the one that was read. `Tracked`: a task is in the tracker from before its
  RUNNING is written. `CountsExact`: until two updates overlap, the index is the set
  of records that are open, one being counted between a write and its statistics by
  its old status, and the active counter is the index's size. `Cascade`: a canceller
  reaches parents before children, so a child that is signalled has a parent that
  was reached or is not going to be; what was woken is not to be reached any more.
* `RunnerSlots_proofs`: `SlotsTypeCorrect`, `ConsumerAlwaysAccounts`. A message is in
  one place (`Apart`), once, and has not been started while it waits or is in hand
  (`Unstarted`); permits, running tasks and the slot in the consumer's hand add up to
  `MaxConcurrency` while it serves (`Counted`).

### The services beside the tasks

* `PluginConfigs`: `RunsAreBoundOnce`, `ReloadAlwaysHolds`. Every configuration in a
  registry is one of a plugin that registered or of a reload that succeeded
  (`Accounted`); what a failed plugin left in the build context cannot be staged
  (`Registering`); a run reads the snapshot it took or the stored one (`Bound`).
  Staging a list is a recursive function, read entry by entry by `StagesUnfold`.
* `LangfuseWorkflows`: `TableIsLru`, `OpenIsReclaimable`. The table is ordered by last
  use and bounded, and an open observation has an entry or was displaced.
* `HarnessLoop`: `TurnsStayWhole`. At most one activation works and at most one reply
  is awaited (`OneAtWork`, `OneAwaited`); the one overlap is an activation that has
  dispatched its sub-agents and not yet saved (`Overlap`); the loop talks to the model
  without a saved state and without an unanswered call (`InTheLoop`).
* `EventStream`: `StreamClosesOnce`, `NothingSkipped`. Whoever holds the right to close
  is at work until the end is appended (`EndsOnce`, `EndComes`); a reader holds the
  entries that follow the ones it has seen processed (`Fetched`).
* `ServiceDiscovery`: `BodiesStayWhole`, and `PicksAreRecent`, an action property. The
  client's cache, a refresh under way and the registry know nothing younger than an
  instance's last heartbeat (`Aged`); where a call is says where its file stands.
* `FleetMetrics`: `SnapshotsAreWitnessed`, in any fleet the scan limit covers
  (`ScanCoversFleet`, which includes no limit at all; a cut scan omits workers that
  are online): at every moment of a build the leases listed were seen and the others
  missed (`WitnessedBy`).
  `PicturesAgree`: the success ratio of an SLO window is a fraction, and the flow
  status of a point agrees with its health. Points and snapshots count sets of ended
  and of failed executions that only grow, worker by worker (`WindowsOK`). This asks
  for one writer at a time, `OneCollectorWrites`, which the lock gives as long as no
  cycle outlasts it and which the run of that name shows to fail otherwise; the
  hypothesis cannot be dropped, as two collectors whose builds overlap, over two
  workers and three executions, leave a window in which more succeeded than ended.
  `OneCollectorAgrees` is the case of a single collector.
* `TraceStore`: `MergedTreesAreComplete`, `WaitingIsNotCompleted`. Activations begin at
  different times, and a stored span of a segment carries the outcome of the one that
  began when it did (`TraceOK`). That the merged tree is complete is a fact about the
  algorithm: an entry whose chain of parents hits a cycle is a root; any other chain
  ends within as many steps as there are entries, at an entry without a parent, and
  the descent from the roots comes back along it.

`PartsTypeCorrect` of `Delivery_proofs` and of `Observability_proofs` say the same of
the compositions the safety runs check: the part that moves keeps its invariant.

### Method

Induction over data is written with sets: `UpTo` shows by the pigeonhole principle
that a set of numbers with 0 that leads from each number to the next holds all up to
N, and is used for the staging of a list of configurations and for iterated
functions (`Iterates`). No module declares a RECURSIVE operator.

The proofs changed the model in four places. The steps of a computation were CASE
expressions whose guards overlapped, which leaves the value of the expression
unspecified although TLC takes the first arm; now at most one guard holds, or the
step is a conditional. `ReadersAgree` was found to lean on one writer, and says so. `FleetMetrics`, `TraceStore` and
`RunnerSlots` say what they need to be finite and present. The order of a batch that
is read from several streams is left open.

Only model-checked: all liveness properties, under the fairness above, and with them
everything that asks whether an action is enabled; and the properties that the runs
refute, which are false of the code.

## Not modelled

Formatting, logging and the content of messages beyond what a property tells
apart. In the suspending call: `ask_user`'s wait entry and its second candidate
member (a sub-agent reply never claims an `ask_user` entry while its own marker
exists; the native loop's side of a question is in `HarnessLoop`), pruning (it
removes only waits older than any session), expiry of markers and execution records
(their TTL exceeds every deadline in use), the batch limit (the remainder is swept
in the next pass), malformed members and the string codec of a member, the
arithmetic of the renewal ceiling (it is reached or not), and waits with no agent
type to route a stand-in to. In the group: Redis errors inside the join (the
activation fails and reports to its own caller), and handlers that call again after
the join.

In the registry: history limits and the listing queries, which only read. In the
runner: tasks that only log or export. In plugins: hook statistics and loading from
directories. In tracing: sampling, sanitising, lookup indexes, OpenTelemetry,
Prometheus. In discovery: headers and configuration.

Left out as a whole, because they are I/O, wiring or presentation: the Redis client
and its configuration (Redis itself is external and modelled by what its commands
do), file store, workspace and sandbox, the standalone processor, the history
back-ends, the dashboard's server and pages, the exporters, and the LangGraph and
ADK adapters, whose state lives in those frameworks.

Hazards without a property are listed in `PROJECT.json` with the reason. Three are
behaviours the models have and no property denies (a late WAITING_AGENT, the
aborted flag, a flapping lease); the others lie in what is left out above.

## Plan

Done: the suspending call, Task Groups, the worker's lease and administration,
execution records, sending, the runner's loops, configurations, the data stream,
traces, metrics, discovery, the native loop, the Langfuse plugin. Next:

1. Proofs: the lock of the metrics collectors as a premise weaker than
   `OneCollectorWrites` (no cycle outlasts the lock), and the abstract `Call` of 3.
2. `AskUserGate`: consecutive rounds sharing one member; `RenewalBudget`: the
   ceiling's arithmetic against a reference definition; `WaitIndexCodec`: member
   encoding and decoding as inverse functions, shard choice.
3. An abstract `Call` (called, answered once) that `SuspendedCall` implements as
   long as nothing slipped past the gate.
4. A lease that flaps under a living caller in `SuspendedCall`, and the suspended
   statuses in `ExecutionLedger`.
