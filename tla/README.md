# Kopf in TLA+

This directory specifies and verifies the core of [Kopf](../src/README.md), the
framework for Kubernetes operators in Python: how it multiplexes the
watch-events, how it handles the changes of one object across late events,
failures and restarts, how it runs and stops the daemons of the object, how its
API calls share and renew their credentials, how it follows the resources and
namespaces of the cluster, indexes objects, yields to its peers, tells real
changes from its own notes, and starts and exits.
All paths below are relative to `src/kopf/`, or to `src/` if they begin with `docs/`.

The modules are checked with TLC on small instances, and the theorems with
TLAPS for every value of the constants. `PROJECT.json` maps each definition to
the lines of the code it stands for, and lists the runs, the properties, the
mutants that show what each property can catch, the hazards, the findings and
the theorems.

    tlc -workers 2 -config Queueing_safety.cfg MCQueueing.tla
    tlapm QueueingProofs.tla

Contents: 1. the system; 2. the modules; 3. the runs; 4. divergences of the code
from what it says of itself; 5. what is proved; 6. what is not modelled, and why.


## 1. The system

### 1.1 Components

An operator is one process with one asyncio event loop. Tasks take turns at
every `await` and nowhere else, which is why a step of every module here is
what one task does between two suspension points.

| Component | Code | State | Operations | Modelled |
|---|---|---|---|---|
| Event multiplexer | `_core/reactor/queueing.py` | the dict of streams (backlog, pressure), one worker per object, a worker error | watch, put, take, time out, exit, end of stream, deplete, escalate | `Queueing` |
| Task scheduler | `_cogs/aiokits/aiotasks.py` | pending coroutines, running tasks, the queue of the cleaner, closed | spawn, start, clean, wait, close; guard and stop tasks | `Queueing`; `wait()` in `Daemons`; guards and `stop()` in `Operator` |
| Object processing | `_core/reactor/processing.py`, `_core/actions/application.py`, `_cogs/clients/patching.py` | the patch in the making; expected version and consistency time (of the worker) | detect causes, wait for consistency, select and run handlers, patch, sleep, touch | `Processing` |
| Handling progress | `_core/actions/progression.py`, `_cogs/configs/progress.py` | a record per handler, stored in the object | load, with_handlers, with_purpose, with_outcomes, store, purge | `Processing`, `Execution`; where it is stored, in `Storages` |
| Handler execution | `_core/actions/execution.py`, `invocation.py`, `_core/reactor/subhandling.py` | the attempt of a handler | run once, time out, retry, fail | `Execution`, but for sub-handlers |
| Cause detection, registries | `_core/intents/causes.py`, `registries.py`, `handlers.py` | none | reason of a change, handlers for it, need of a finalizer, filters | `Processing`, `Matching`, `Detection` |
| Essences and diffs | `_cogs/configs/diffbase.py`, `conventions.py`, `_cogs/structs/diffs.py`, `dicts.py` | notes in annotations and in the status | build, clear, store, fetch, compare, reduce | `Fields`, `Diffs`, `Storages`, `Detection` |
| Daemons and timers | `_core/engines/daemons.py`, `_core/intents/stoppers.py` | running daemons, forever stopped ones, live body, a stopper per daemon | spawn, match, stop in cycles, stop linearly, exit | `Daemons` |
| Memories | `_core/reactor/inventory.py` | what is remembered of each object | recall, forget | `Processing`, `Daemons`, `Indexing` |
| Indexing | `_core/engines/indexing.py` | indices (forward and reverse), failures per object | index, replace, discard | `Indices`, `Indexing` |
| Observation, orchestration | `_core/reactor/observation.py`, `orchestration.py`, `_cogs/structs/references.py` | insights, the ensemble of tasks and toggles | scan, revise, adjust, spawn, terminate | `Selectors`, `Cluster` |
| Peering | `_core/engines/peering.py` | the records of the peers, the conflict toggle | keep alive, process an event, clean, touch | `Peering`; its toggles in `Cluster` |
| Operator lifecycle | `_core/reactor/running.py`, `_core/engines/activities.py` | the root tasks, the flags | start up, guard, run, stop, clean up | `Operator` |
| Credentials vault | `_cogs/structs/credentials.py`, `_cogs/clients/auth.py` | valid and invalid credentials by key, the lock, the readiness | select, expire, invalidate, populate, log in | `Vault`, but its end |
| Throttling | `_core/actions/throttlers.py` | active until, source of delays | throttle, skip, recover | `Processing`, without the delays' values |
| Watching | `_cogs/clients/watching.py`, `fetching.py` | the resource version of the stream | list, watch, re-list after 410, disconnect when paused | partly, in `Processing`, `Daemons`, `Cluster` |
| API requests | `_cogs/clients/api.py`, `errors.py` | none | request with retries | partly, in `Processing` |
| Toggles, values, flags | `_cogs/aiokits/` | a set of toggles, a value | turn, wait | where they are used |
| Admission, posting, probing | `_core/engines/` | a queue, a server | serve, post | no: I/O without a protocol |
| Settings, decorators, command line, kits | `_cogs/configs/configuration.py`, `on.py`, `cli.py`, `_kits/` | none or constants | pure functions | as constants |

`PROJECT.json` ("components") gives the same list with every file.

### 1.2 How they interact

    cluster --CRDs, namespaces--> observers --insights--> orchestrator
                                                              |
                         starts and stops watchers and peerings, with their toggles
                                                              |
    Kubernetes  --watch-events-->  watcher --streams--> worker (one per object)
        ^                                                  |
        |       process_resource_event():  indexing, [all are indexed?], causes,
        |                                  daemons, handlers
        |                                                  |
        +------------------- PATCH --------- apply() <-----+
                                               |
       paused / exiting --> daemon killer --> stoppers --> daemons and timers

- The observers keep the insights (which resources and namespaces there are to be
  served) under a condition; the orchestrator holds the same condition while it
  adjusts the ensemble of watchers and peerings to them.
- The watcher puts each event into the stream of its object and makes a worker
  if there is none; `Scheduler` runs at most `worker_limit` of them. The
  worker and the watcher share the dict of streams, the backlogs and the
  pressure flag; failures go back through the scheduler's exception handler.
- The worker calls the processor with the event and the pressure flag, and
  gets a resource version back. It keeps it as the *expected* version until an
  event brings it or the consistency timeout passes.
- The processor first indexes the object, then waits until the set of toggles
  `operator_indexed` is on: until all that was listed initially is indexed.
- The processor keeps what it must not lose in the object itself: the progress
  of the handlers and the last handled essence as annotations or in the
  status, the need for a goodbye as a finalizer. Its patches come back to it as
  events, and so do those of other operators. In the memory of the process there
  is only what may be lost by a restart.
- All API calls of all components take their credentials from one vault. When
  the last ones are gone, the calls wait and the authenticator logs in.
- The processor spawns and stops daemons, and the daemon killer does, when the
  operator is paused or exits. They share the dict of running daemons. The operator
  is paused by the toggles of the peerings.
- All of these run in the root tasks of the operator, which `run_tasks()` stops
  when any of them exits, and which the activities task outlives.

### 1.3 What is hard

- **Interleavings**: an event that arrives while the worker times out; a worker
  made while the old one is cleaned up; a daemon spawned while the killer
  sweeps; scans of the cluster that overtake each other.
- **Stale state**: events come after the patches that they do not know of; a
  function of a patch is applied in a later cycle than the one that made it;
  records of peers are removed that have been renewed meanwhile.
- **Restarts**: all that is left is in the object; between the two requests of
  one patch, half of it.
- **Late answers**: a request may fail with credentials that were replaced long
  ago, or with a session that another call has just closed.
- **Waiting**: cycles that are left early "in the hope for a newer event",
  sleeps skipped or interrupted by events, notifications before the wait.
- **Lost or repeated calls**: a response is lost and the request repeated; a
  watch-stream ends with "410 Gone"; a PATCH fails for good.
- **Bounds**: the limit of workers; the timeouts of a daemon's termination;
  retries and timeouts of handlers; the lifetime of a peer.
- **Who waits for whom**: at the exit, where a second cancellation may come at any
  moment; at the start, where every worker waits for the indexing of all objects.

`PROJECT.json` ("hazards") lists them by line with the properties that would
catch each one going wrong.

### 1.4 What makes each component correct

- Multiplexer: one task per object; every event handled once, in order, none
  lost by an idle exit; no stream without a task; a sleeper is told of new
  events; limits kept; exits come to an end and lose nothing when in time.
- Processing: a handler is not repeated because of late events, restarts,
  other causes; nothing rests unhandled; the last handled essence was
  handled; an object is protected before and released only after its handlers.
- Detection: an operator notices all changes of the content, and nothing else;
  it finds what it has stored; the handlers of a field are called for its changes.
- Daemons: no daemon outlives the object it was waited for; asked when paused;
  not respawned when done; the deletion and the exit do not wait forever.
- Vault: only credentials that are bad themselves are dropped; one
  re-authentication for many failures; nobody waits when there are new ones; the
  same bad credentials are not taken again and again.
- Cluster: exactly the watchers and peerings that the insights call for; insights
  that follow the cluster; handlers wait for all indices; no pause for ever.
- Indexing: the indices hold what the last indexing of each object has returned;
  failing objects are excluded for as long as documented.
- Peering: one operator of a peering acts; a paused one resumes.
- Operator: nothing before the startup, cleanup after everything, no task left.


## 2. The modules

| Module | What it is |
|---|---|
| `ObjectStreams` | abstract specification: what the multiplexer promises |
| `Queueing` | the watcher, the workers and the scheduler |
| `QueueingProofs` | theorems about `Queueing`; it implements `ObjectStreams` |
| `Processing` | the cycle of one object, its progress and patches |
| `ProcessingProofs` | theorems about `Processing` |
| `Daemons` | the daemons of one object, their worker and the killer |
| `DaemonsProofs` | theorems about `Daemons` |
| `Vault` | the credentials, the calls that use them, the authenticator |
| `VaultProofs` | theorems about `Vault` |
| `Selectors` | operators: which resources and namespaces are served |
| `Cluster` | the observers, the orchestrator, the watchers, the readiness |
| `ClusterProofs` | theorems about `Cluster` and `Selectors` |
| `Peering` | several operators, their records, their pauses |
| `PeeringProofs` | theorems about `Peering` |
| `Operator` | the root tasks from the startup to the exit |
| `OperatorProofs` | theorems about `Operator` |
| `Execution` | operators: the outcome of one attempt of a handler, its record |
| `Indices` | operators: the forward and the reverse items of an index |
| `Indexing` | the indexing of several objects, with its failures |
| `IndexingProofs` | theorems about `Indexing` |
| `Fields`, `Diffs` | operators: nested fields and the differences of objects |
| `Storages` | operators: essences and records in annotations and in the status |
| `Matching` | operators: which handlers are called for a cause |
| `Detection` | several operators which write on the same objects |
| `MC...` | the instances for TLC |

They are composed by promise: `Queueing` implements `ObjectStreams`, and its
order, its serialization and its honest pressure are what `Processing` and
`Daemons` assume of their stream (`backlog`, `stream`), and `Indexing` and
`Peering` of theirs. `Daemons` takes the handlers of `Processing` as time that the
worker spends, and `Processing` has no daemons; what they have in common, the
finalizer and the functions left over from a conflict, is in both. `Vault`
stands below them all: that an API call may wait, or fail for good, is all that
they see of it. `Cluster` has the toggles of `Peering` (a conflict of a peering task
is resolved by that task alone) and those of the indexing. `Indexing` is composed
of `Execution` and `Indices`, `Detection` of `Storages`, `Matching`, `Diffs` and
`Fields`, `Cluster` of `Selectors`, by `EXTENDS`.

### 2.1 Queueing

*State.* `streams`, `backlog`, `pressure` are the dict of `Stream`s, each named
by its worker's task; `job[w]` is where the task `w` is (pending, created,
idle, timed out, processing, ended, failed, cleaning); `pending`, `Running`,
`cancelled` and `SchedulerClosed` are the scheduler; `phase` is where the
watcher is. `notified` says who waits on a condition and was notified: a
condition of asyncio forgets notifications that nobody waits for, so the
waiters check first and then wait.

*Actions.* `ReceiveKnown`, `ReceiveNew`: the watcher's loop. `TakeEvent`,
`TakeEOS`, `IdleTimeout`, `ExitIdle`, `ContinueAfterTimeout`, `FinishEvent`,
`FailEvent`, `CancelStarted`, `CancelUnstarted`: the worker. `SpawnerRuns`,
`TaskDone`, `CleanerRuns`, `EscalateFailure`: the scheduler and its handler of
exceptions. `StopWatcher`, `StartDepletion`, `CheckDepletion`,
`DepletionTimeout`, `CloseScheduler`, `CheckClosed`: the `finally` part.
A timeout has no value: it may strike whenever the code waits under it.

*Properties.* `Serialized`, `NothingLost`, `PressureIsHonest`,
`GracefulDepletion`, `ImplementsStreams`; under fairness `EventuallyHandled`,
`FailureStopsWatcher`, `ShutdownTerminates`. A failed worker stops its watcher, with the
error; that nobody awaits the watcher then is in section 4. `EveryStreamIsServed` and
`WithinLimit` are proved only.

### 2.2 Processing

*State.* `object` is the object in the cluster with the handling state that it
carries (`progress`, `diffbase`, `finalizer`, the touch's `dummy`), `wire` and
`backlog` are events on their way; `memory` is the `ResourceMemory`;
`expected`, `deadline` are the worker's; `phase`, `patch`, `plan`, `state`,
`delay`, `fresh`, `result` are the locals of the cycle. `ended`, `resumed` and
`excused` are history for the properties: who has finished and whose outcome
was lost.

*Actions.* `TakeEvent` (recall or forget the memory, meet the expected version),
`WaitForConsistency`, `SkipHandlers`, `AwakenedByEvents`, `StartHandling` (the
cause, the selected handlers, the records re-purposed), `RunHandler`,
`FinishHandling` (store or purge, the essence, the release), `PatchMerge` and
`PatchJSON` (two requests, the second guarded by the version), `PatchConflict`
(422: the function remains), `PatchNotFound`, `SleepIsOver`, `Touch`; the
throttling; and the rest of the world: `Edit`, `RequestDeletion`, `Arrive`,
`Relist`, `Crash`, `PatchRepeated`, `RequestFails`.
An essence is a number; the filters are the set `Matching`. The default
lifecycle runs any non-empty part of the handlers in one cycle (`Plans`).

*Properties.* `EventuallySettled`: once nobody changes the object any more, it is
settled, or gone; it is what all the sleeps, touches and early returns serve.
`ChangeIsNotRepeated`, `DeletionIsNotRepeated`, `ResumedOnce`: no handler is
repeated, though the operator sees its own patches late. Excused are those whose
record was lost by a crash or a failed request, in the patch or in the function on the
finalizer that is still to be applied, or overtaken by a premature consistency
timeout (at-least-once, see `docs/idempotence.rst`); and an object that is gone is of no
interest, as a re-listing may have lost its `DELETED` event. `OnePurpose`: superseded
progress is never left beside the new. `HandledIsProtected`, `DeletionIsHandled`: the
finalizer comes before the first handler and goes after the last one, of an object that
always matches the filters (`AlwaysMatches`; else see section 4).
`LastHandledIsSeen`: what is stored as the last handled state was preceded by a success or
a final failure of each handler for creation and updates since the previous one was stored.
It is not promised that they have seen exactly the stored state (section 4).
`RestIsSettled` is the safety half of `EventuallySettled`: the worker does not wait with
work undone. It is proved.

### 2.3 Daemons

*State.* `running[d]` is the record in `running_daemons` with the reasons of its
stopper and its age in stages of the termination (not in seconds), the body it
reads, and the tasks of the killer that chase it. `memory.forever`,
`memory.live` are `forever_stopped` and `live_fresh_body`. `worker` is one cycle
of the object, a record whose fields depend on where it is; `killer` is the
daemon killer, with what its iteration has visited and the size of the dict then.

*Actions.* The daemon: `ExitsOnItsOwn`, `ExitsOnRequest`, `TimerDozes`,
`AgePasses`. The worker: `TakeEvent`, `SpawnDaemons`, `StopDaemon`,
`InstantExitIsOver`, `PauseDaemons`, `Decide`, `Apply`, `NothingToApply`,
`WakeUp`, `Touch`. The killer: `SweepPausing`, `KillerVisits`, `SweepEnds`,
`SweepBreaks`, `KillerReturnsToWait`, `KillerIsDone`, and its stoppers'
`ChaserSteps`. The rest: `UserEdits`, `UserDeletes`, `Pause`, `Disconnect`,
`Resume`, `Exit`. All but the worker step only when the worker is at an `await`
(`Suspended`).

The killer awaits in the middle of its iteration over the dicts, which may have
changed when it goes on: CPython raises "dictionary changed size during
iteration", and that is `SweepBreaks`. It stops the operator.

*Properties.* `ReleasedAfterDaemons`, `OwnExitIsFinal`; under fairness
`PausedAreAsked`, `DeletionCompletes`, `ExitCompletes`; `BodyIsLive` is proved.
`PausedAreAsked` excludes objects that are gone: a daemon whose object was
deleted before its finalizer was added is not stopped, as the last event carries
no deletion timestamp and the memory, through which the killer finds
daemons, is dropped. `ReleasedAfterDaemons` says nothing of a leftover
function of an earlier cycle (see Divergences), nor of daemons that the labels do
not match any more.

### 2.4 Vault

*State.* `loop` is the event loop's queue of ready tasks, `holder` and `queue` are
the `asyncio.Lock`, `waiting` is the condition over it; both are fair and a
released lock is given to nobody, so that order matters. `ready`, `current`,
`items`, `invalid` are the vault's. An item is named apart from its content, as the
vault tells items by identity; `items` keeps those that are in the vault or in
somebody's hands, with the state of their sessions (`caches`). `pc`, `held`,
`expiring` are the locals of the calls, `login` is what the login handlers have returned.
`expired` and `revoked` belong to the world.

*Actions.* `Lock`, `Wait`: any task that goes for the lock, or that has it and finds
its predicate false. A call: `Begin`, `CheckExpiration`, `Expire`,
`Reauthenticated`, `Select`, `RanOut`, `MakeCaches`, `MakeContext`,
`CachesAreGone`; `RequestSucceeds`, `RequestFails`; `Invalidate`, `Depleted`,
`CheckAfterYield`. The authenticator: `BeginLogin`, `LoginEnds`, `LoginFails`,
`Populate`. `CloseEnds` is the end of a session's closing, for which the lock is
held. The world: `Expires`, `Revoke`.

*Properties.* `LoginOnlyWhenDepleted`, `DroppedWithReason`; under fairness
`EveryCallEnds`, with the exception of the calls that need new credentials after the login
handlers have failed for good (`IsForsaken`, section 4); `NobodyWaitsInVain` is proved.

### 2.5 Cluster

*State.* The cluster: `existing` resources and the state of each namespace in
`space`. The observers: `crds`, `crdEvents`, `scans` (requests whose responses are on
their way), `names`, `listing`, `nameEvents`. The insights: `served`, `indexed`,
`namespaces`, `backbone`; `revised` is the notification of their condition, which is
lost unless the orchestrator waits. The ensemble: `watcher` and `peering` by key
(resource and namespace), `failed` (peering tasks that have failed, and are still in it),
`conflicts` and `missing`, the toggles that pause. The
readiness: `toggles` (those that are off), `counted` (watchers that count their
objects), `freed`, `object` (one for each key), `first` (history).

*Actions.* `ChangeResource`, `ChangeNamespace`: the cluster. `ScanResources`,
`ListResources`, `LoseResources` (410), `ScanGroup`, `ReviseGroup`,
`ListNamespaces`, `FirstNamespaces`, `AssumeNamespaces` (403),
`RelistNamespaces`, `LoseNamespaces`, `NoticeNamespace`: the observers.
`BeginAdjusting`, `DropRedundant`, `SpawnPeerings`, `BlockReadiness`, `SpawnWatcher`,
`EndAdjusting`, `CancelOrchestrator`, `CloseOrchestrator`: the orchestrator, each
await of which is a step. `FindObject`, `EndListing`, `AddObject`, `IndexObject`,
`HandleObject`, `KillWorkers`, `EndWatcher`, `FailWatcher`: a watcher and its
workers; `RaiseConflict`, `ResolveConflict`, `FailPeering`: a peering. Any task may fail at
any time; nobody awaits it, and it stays in the ensemble. `Selectors` has what the revisions compute:
the priority of the core group, ambiguous and unsuitable resources, the globs of
namespaces.

*Properties.* `EnsembleMatchesInsights`, `InsightsMatchCluster`,
`PausesAreOwned`, `HandlersSeeFullIndices`. `PausesAreOwned` does not say that the
peering task of a conflict still runs: if it has failed, the conflict stays (section 4).

### 2.6 Peering

*State.* `status` is the peering object's with the time left for each record; `inbox`
are the events on their way, each with its own record of the times left;
`pinger`, `due` are the keep-alive tasks; `worker`, `dead`, `rivals`, `alarm` are the
handler's locals and its sleep; `paused` is the toggle; `life` is whether the operator is
there at all.

*Actions.* `Start`, `Leave`, `Left`, `Crash`; `Ping`, `PingFails`, `Remove`;
`TakeEvent`, `Clean`, `Decide`, `Expire`, `Touch`, `HandlerFails`; `Tick`: time passes
for the records, the alarms and the keep-alives at once, when all have done what was to
be done at the moment, or else somebody lags (`MaxLag`).

*Properties.* `PausedIffOutranked`, `OneIsActive`; under fairness
`ResumesEventually`. Operators of the same priority pause all of them, as the code and
`docs/peering.rst:16-18` have it, against the docstring of the module (section 4).

### 2.7 Operator

*State.* `state[t]` is where a task is (absent, held by its guard, running, exiting,
done, failed, cancelled), `asked` are those with a cancellation to be delivered;
`stage` and `mood` are the activities task and what it is about to re-raise; `started`,
`vault`, `blocked` (calls that wait for credentials), `raised` (the signal or the
stop-flag), `fuse` (the scheduled SIGKILL); `runner`, `awaited`, `failures`,
`cancels`, `loopClosed` are `run_tasks()` and `asyncio.run()`.

*Actions.* `Begin`, `Obey`, `Exit`, `Collapse`: guarded tasks. `Call`, `Unblock`,
`Deplete`, `Authenticate`: the credentials, as far as the exit depends on them.
`Spawn`, `SubEnds`: what the tasks leave behind. `Raise`, `CheckerExits`,
`TerminatorExits`, `Kill`. `StartupSucceeds`, `StartupFails`,
`ActivitiesCancelled`, `OthersExited`, `CoreStopped`, `CleanupEnds`: the activities
task. `RootExited`, `RootsStopped`, `HungWaited`, `HungStopped`,
`CancelOperator`, `CancelledStops`, `CloseLoop`: the runner.

*Properties.* `OrderlyExit`, `CleanupRuns`, `NothingIsLeft`; under fairness
`ExitCompletes`.

### 2.8 Indexing

*State.* `indexers[i]` is an index: `items`, from keys to the stores of values by
object, and `reverse`, from objects to keys. `memory[o]` has the records of the
indexing functions for an object, which live in the memory of the process only.
`last`, `trouble` and `abused` are history: what the last successful indexing has
returned, the errors since then in the words of the documentation, and whether a function
was ever called for an object which it excludes.

*Actions.* `Index` is `index_resource()` for one event: the functions whose filters
match and which are not excluded are executed once (`Execution`: strict checks of
timeouts and retries before, look-ahead checks after, modes of errors), their outcomes
go into the records and the indices (`Indices`). `Delete`, `Tick`.

*Properties.* `IndicesAreExact`, `ExclusionIsRespected`.

### 2.9 Detection

*State.* `bodies` are the objects in the cluster, nested fields as in `Fields`. `records`
and `essences` are history: what each operator has stored and handled.

*Actions.* `Handle` and `Finish` are a handling cycle of one operator up to its patch:
the old and the new essence (`Storages`: built, cleared, fetched; by one storage or by
several), their diff, the cause, the handlers for it (`Matching`: labels,
annotations, callbacks, fields with their old and new values), the records stored or
purged; `Wake` is the touch. `Edit` is a user's merge-patch, `Propagate` the copying
of annotations by Kubernetes from a Deployment to its ReplicaSet. These modules are
recursive and are used by TLC only.

*Properties.* `StoredIsFetched`, `ChangesAreNoticed`, `FieldHandlersSeeChanges`.


## 3. The runs

| Run | Question | Distinct states |
|---|---|---|
| `queueing_safety` | Is every object served by one task at a time, in order, without losses? Do the workers implement the streams? | 946,838 (symmetry of the tasks) |
| `queueing_liveness` | With one slot for two objects: does every event get its turn, a failure its watcher, and every exit come to its end? | 214,266 |
| `processing_settling` | Does an object settle, whatever edits, deletions, errors and crashes there were before? | 1,837,717 |
| `processing_troubles` | Is any handler repeated, skipped or outrun when one trouble of any kind strikes? | 2,039,436 |
| `daemons_lifetime` | Is a daemon asked, awaited, abandoned and respawned as it must, whoever stops it? | 296,946 |
| `daemons_idle_timer` | Is an idle-only timer stopped by the deletion of its object? **No** (3.3) | 81 until the violation |
| `vault_calls` | Do calls share the credentials, drop only the bad ones, and all come to their ends? | 532,188 |
| `cluster_safety` | Do tasks and toggles follow the resources and namespaces? Are indices full before handlers, whatever fails? | 3,010,639 |
| `peering_election` | Is one operator active, and does the other one resume? | 713,173 |
| `operator_exit` | Is every exit orderly and complete? | 553,847 |
| `indexing_events` | Are the indices what the last indexing has returned, with what fails excluded? | 205,842 (symmetry of the objects) |
| `detection_changes` | Are all changes of the content noticed, and nothing else? | 42,331 |

Each takes from half a minute to three minutes with two workers. Every property
of a passing run has a mutant: a change of one definition, such as a bug would
be, with which TLC finds the property violated.

### 3.1 The bounds

- *Queueing*: two objects with two events each. An event can come behind another
  one, and a new worker after an old one; a third event differs in nothing from
  the second. Three names of tasks, with room for two, so that one task can be
  pending, or cleaned up after its successor was made. For liveness, one slot and
  two tasks: the slot's handover decides whether an event gets its turn.
- *Processing*: `processing_settling` has one edit out of three essences (or one sleep
  cut at 10 minutes, from the same bound), of which one mismatches the filters, one temporary error and one crash, with a
  handler for creation and updates, one for updates and one for deletion: two
  handlers in one cause, each in a cycle of its own or both in one, a cause
  superseded by another one, and a superseded deletion. `processing_troubles` has
  one trouble of each of five kinds, at any moment, a resuming handler, and an
  on-event handler whose patch begins a request in every cycle. With two troubles,
  a premature timeout *and* a re-listing behind older events, the operator handles an old
  state that it takes for new, and `LastHandledIsSeen` need not hold: the proofs, which
  are for any number of troubles, are for those without premature timeouts (`NoHaste`).
- *Daemons*: one daemon with both timeouts of the termination, one change of the
  labels to and fro, one pause, one exit, two changes of the object in all: a daemon
  is stopped for each of the reasons, and for two at once.
- *Vault*: two calls and the authenticator, two handlers, two values of credentials, one
  of which expires and the other of which is preferred; both may be revoked at any
  moment. Both calls can be late for one another, and for the login.
- *Cluster*: a handled, an indexed (not namespaced) and a peering resource, one namespace
  beside the cluster-wide scope, two changes. Each change can meet the scans, the
  revisions and the orchestrator at each of their awaits, and the second one can
  take back the first one meanwhile.
- *Peering*: two operators with the same or different priorities, lifetimes of
  two units and keep-alives of one: records expire, are renewed just in time, and are
  cleaned by the other one. One trouble; nobody lags (`MaxLag` 0) but by a trouble.
- *Operator*: the killer and the observer stand for the roots that need credentials
  and those that do not; one cancellation of the operator itself.
- *Indexing*: a strict function with errors, retries and a timeout, and a lenient one;
  three units of time, which is more than any delay.
- *Detection*: a Deployment and its ReplicaSet, an operator with its own prefix and
  one with the default storages, two edits and four cycles: each operator handles
  what the other one and a user have written, in any order.

Deadlocks are not checked: in each of these models the system may come to rest, or
has exited, when there are no more changes; each configuration says so. What
would be a wrong rest is what the liveness properties and the invariants on
resting states are for.

### 3.2 Fairness

A task of asyncio that is ready to run runs at some time, and a timeout that is
set strikes at some time; nothing of what users and the cluster do is fair, and no
trouble must happen.

- *Queueing*: weak for each worker's and scheduler's step, the spawner and the
  unwinding watcher. It includes that the processor returns (or fails): a handler
  that hangs holds its object, but nobody else's.
- *Processing*: weak for the operator, the arrival of events, the consistency
  timeout and the delay of each handler. Not for a particular outcome: a handler may be
  retried as long as there are retries in the budget.
- *Daemons*: weak for the worker; strong for the killer, and, for each daemon, its
  exit on request, its age and its stopper, as these are interleaved with cycles of the
  worker at whose awaits only they may step. A daemon that does not heed its stopper
  nor a cancellation (outside `Heeding` and `Async`) never exits: the
  deletion goes on without it, after its timeouts.
- *Vault*: weak for the event loop, which takes its ready tasks in order, for the
  end of each request, of a session's closing, and of a login. Whatever a login handler
  returns, but not the same expired credentials for ever (`LoginEnds`).
- *Peering*: weak for the clock, the keep-alives, the handler and the end of the
  leaving, for each operator.
- *Operator*: weak for each guarded task's obedience, the two tasks of signals and flags, the
  activities task, the runner, the scheduled kill and the calls. Not for users' code: a
  cleanup handler may hang, which is what the kill is for.

### 3.3 Findings

`daemons_idle_timer` shows that `DeletionCompletes` fails for a timer with `idle`
and no `interval` once it has fired: it waits for the next change of the object in
`while memory.idle_reset_time <= started` (`_core/engines/daemons.py:660`), where
its stopper ends every sleep and not the loop. A deletion is no essential
change, and timers have no cancellation timeout; the finalizer stays. The docstring
(`_core/engines/daemons.py:577-578`) says that timers are instantly terminated on
the deletion.


## 4. Divergences

What the code does and its words deny. The first is a finding with a run of its
own; the others were seen with the modules here, by the formula and the constants
named, and have no run.

| Where | What | How to see it |
|---|---|---|
| `_core/engines/daemons.py:660` | An idle-only timer blocks the deletion for ever; its docstring, lines 577-578, promises an instant termination. | `daemons_idle_timer` |
| `_core/reactor/processing.py:465-477` | A handler that has finished for a change is not called for a later change as long as others retry: its record is re-purposed with the rest, and then the later state is stored as handled. `docs/configuration.rst:549` calls it "the last state that has been successfully handled". | `LastHandledIsSeen` of `Processing` with `r[3] = object'.diffgen` |
| `_cogs/clients/patching.py:91-102` | A crash or a failed request between the merge-patch, which purges the records, and the JSON-patch, which removes the finalizer, makes all deletion handlers be called again; `docs/continuity.rst:39` says "the handlers that succeeded previously will not be re-executed". | `DeletionIsNotRepeated` of `Processing` without `excused` |
| `_core/actions/application.py:72` | The sleep for a retry is skipped if there is a patch, as "the patching above interrupts the sleep instantly". A patch that changes nothing (as on-event handlers make in every cycle) makes no event: the retry is lost until the next one. | `RestIsSettled` of `Processing` with `Spying = TRUE` |
| `_cogs/clients/patching.py:91-95` | After a failed version test, "we know there are newer changes pending, so we will get back to the handling cycle & this same patching almost immediately". But the newer change may be the operator's own: after a re-listing, an older event may come once more after its patch; or a repeated request fails, whose first response was lost. In the next cycle, the function left over finds nothing to do, but its presence skips the handlers (`_core/reactor/processing.py:312-330`), and the cycle ends without a patch, thus without an event: the handlers wait for an unrelated change. | `RestIsSettled` with `Troubles = {"relist"}` or `{"loss"}` |
| `_core/reactor/processing.py:71` | A function that removes the finalizer and is left over from a conflict is applied in a later cycle, also if the object matches the filters again and the state is inconsistent; the comment in line 312 says to never release the object in the inconsistent state. | `DeletionIsHandled` with `object.essence \in Matching` in place of `AlwaysMatches`, `Matching = {1}` and two edits |
| `_cogs/configs/conventions.py:255` | No marker is stored for prefixes that begin with "kopf.", and only `kopf.zalando.org` is known (lines 227-229): operators with such prefixes do play the ping-pong which lines 194-195 promise to prevent. | `NoPingPong` of `Detection` with `KopfConfig` |
| `_core/reactor/running.py:255` | If the login handlers fail for good, the credentials retriever ends with an error (`_core/engines/activities.py:142-146`), but nobody waits for it: the API calls wait for ever, where `docs/authentication.rst:304-305` says that they fail, "and so does the operator". | `LoginFailureStops` of `Operator` |
| `_core/reactor/orchestration.py:171-186` | A watcher that is stopped before its listing has ended leaves its toggle in `operator_indexed`, so that the readiness (`_cogs/aiokits/aiotoggles.py:88-90`) never comes and no handler is called any more. | `ReadyEventually` of `Cluster` under `FairSpec` |
| `_core/reactor/orchestration.py:252` | A watcher that fails, as with a 404 while its resource is gone and back unseen by the insights, or with the error of its worker, stays in the ensemble, so it is not spawned again, and nobody waits for its task: the operator goes on. `_cogs/clients/watching.py:208` says that such errors "should be fatal for the operator", `_core/reactor/queueing.py:158` that a worker's failure is escalated "to the operator to stop it", and the error itself (lines 237-239) that "the operator will stop to prevent damage". | `FailedAreNotLeft` of `Cluster` under the constants of `Cluster_safety.cfg` |
| `_core/reactor/orchestration.py:218` | So does a peering task that fails, as with a 404 when its resource is deleted: the backbone never forgets the resource (`_cogs/structs/references.py:466-470`), so its key is not redundant. A conflict that it has found pauses the operator until it exits, though "when conflicting operators disappear or become presumably dead", it is to "resume the event handling" (`_core/engines/peering.py:113-114`). For the same reason the absence of a mandatory peering (`_core/reactor/orchestration.py:149-151`) is noticed before its first appearance only. | `ConflictsAreObserved` of `Cluster` under the constants of `Cluster_safety.cfg` |
| `_core/engines/peering.py:142-146` | Operators of the same priority are all paused, as `docs/peering.rst:16-18` says; the docstring of the module (lines 13-15) says that such an operator "will print a warning", "but will continue to function". The checked properties are those of the code. | `SamesContinue` of `Peering` under the constants of `Peering_election.cfg`; it takes `IsSuperior` in place of `IsRival` |
| `_cogs/structs/credentials.py:416-417` | After a login that brings nothing new, the next API call raises `LoginError` at once, although the docstring says that re-authentication is tried on the next calls. | `Vault`: `RanOut` after `Populate` |

Not said otherwise anywhere, yet worth knowing:

- `_core/actions/throttlers.py:72-79`: a cycle that ends with an error, as of a request that fails for
  good, is not repeated when the throttling is over: it waits for the next event (`RestIsSettled`
  of `Processing` with `Troubles = {"failure"}`).
- `_cogs/structs/credentials.py:290`: a call that waits for the lock with an item
  whose caches are dropped meanwhile fails with a `TypeError` (`CachesAreGone`);
  or it opens a session for an item that has left the vault, which nobody closes.
  Login handlers that return expired credentials make a loop.
- `_core/engines/daemons.py:334`: the dicts may change during the killer's
  iteration; the `RuntimeError` stops the operator (`SweepBreaks`).
- A handler for deletion and for another cause at once, which has finished for the
  latter, counts as finished for the deletion when its record is re-purposed
  (`StartState`).
- `_core/reactor/orchestration.py:166-167`: the watchers of resources that are not namespaced
  stay when no namespace is left to be served, as those of a peering resource do when
  its handlers have nothing to serve (`Lingers`); they are not started in this state.
- A resource that becomes indexed while its watcher runs already (a selector that has
  preferred the core group until then) has no toggle: nobody waits for its objects.
- An object deleted before its finalizer is added leaves its daemons running: the
  last event has no deletion timestamp, and the memory is dropped.
- `_cogs/configs/conventions.py:151-156`: ids of handlers that differ in `/` and `.`,
  or in `<`, `>` and `_`, share their keys. With `v1=False` (lines 145-149), old records under
  the keys of the first version come to life again when they are turned on.
- `_cogs/configs/diffbase.py:87`: `metadata.annotations` as an extra field brings
  the annotations of other operators back into the essence.
  `StatusProgressStorage.clear` (`_cogs/configs/progress.py:362-370`) leaves
  `touch_field` in it.
- `_cogs/structs/dicts.py:211-213`: `cherrypick` raises a `TypeError` for a parent
  that is not a mapping, which the docstring of `resolve` (110-116) calls tolerated.
- `_core/engines/posting.py`: `warn()` does not look at `settings.posting.enabled`.


## 5. What is proved

All theorems are about the specifications as TLC checks them, for every value of the
constants that the named assumptions allow (`QueueingAssumption`, `ProcessingAssumption`,
`DaemonsAssumption`, `VaultAssumption`, `PeeringAssumption`, `OperatorAssumption`,
`ClusterAssumption`: finite sets and natural
bounds; TLC evaluates them in each run). The bounds are constants too, so they hold
for any number of events, edits and troubles.

| Module | Theorems | Argument |
|---|---|---|
| `QueueingProofs` | `TypeCorrect`, `LimitRespected`, `ObjectsAreSerialized`, `StreamsAreServed`, `NoEventIsLost`, `PressureIsTold`, `ExitsAreGraceful` | `IInv`: the dict and the tasks agree (`StreamsMatchWorkers`), the scheduler's queue is exactly the pending tasks (`PendingIsPending`, `PendingIsListed`), and what is in a stream is what was sent and not handled, in order (`AllAccounted`), with one mark of the end behind it while depleting (`Draining`). `NothingLost` alone is not inductive: it says nothing of a task that is cleaned up while its successor serves. |
| `QueueingProofs` | `StreamsAreImplemented` | The refinement of `ObjectStreams`. A stream's abstract value is what is in the backlog but the mark (`Content`) and the event in the processor. One lemma per action: it is an arrival, a begin, an end, a drop or a stop of `ObjectStreams`, or a stutter. |
| `ProcessingProofs` | `TypeCorrect`; under `AlwaysProtected`, `DeletionsAreHandled`, `HandledAreProtected` | Whatever was seen of the object is older than it: it was deleted only while blocked, and it still is (`Older`). A record of success is nowhere but for a handler that has finished (`Noted`). Nothing is to be released, in a patch or in a function left over from a conflict, before all deletion handlers have finished (`AllowedLast`), and no handler runs without the finalizer (`ProtectedFirst`). `AlwaysProtected`: the object always matches the filters (one that ceases to match is released at once, which is right, and what is left over from it may release it when it matches again: section 4), and the deletion handlers are for nothing else (the success of a creation counts for the deletion when its record is re-purposed). |
| `ProcessingProofs` | Under `NoHaste`: `RecordsAreOfOnePurpose`, `ChangesAreNotRepeated`, `DeletionsAreNotRepeated`, `ResumedAtMostOnce`, `LastHandledWasSeen` | `KInv`: the object as it is, and each event on its way that is not older than the version awaited (`Relevant`), has the record of everybody who has finished for what there is to handle in it (`Fit`); so have the state in the handling (`InHandling`) and the object as the patch will make it (`InPatching`). An exception are those whose records are only in the memory (`Exempt`), and the deletion handlers once the release is decided (`Allows`). It rests on the order in which the object is seen (`Ordered`, `Latest`), on what is true of it at any time (`Sound`), and on the shape of the cycle (`HandlingShape`, `PatchShape`). That nothing is repeated is far from inductive: a repetition begins several steps earlier, with an event taken that lacks a record. `NoHaste`: no consistency timeout strikes while events are on their way; with one, "processing continues as if the version had arrived", with double executions as a possible effect, which is why the timeout "should be long enough" (`docs/configuration.rst:370-381`). |
| `ProcessingProofs` | Under `Undisturbed`: `RestsSettled` | `RInv`, on top of `Base` (the invariant of the order and the shape in `KInv`): if the operator sees the object as it is, then there is a merge-patch that changes it, an operation on its finalizer, or a delay that ends in a touch, or all is done (`AtRest`); else an event is on its way, also when a version is awaited (`Awaited`). The hard part is the finalizer, for a patch whose function has nothing to do makes no event: the operator adds one only when nothing older is on its way, so it may see it go late, but never come (`OnceFree`, `ToBeBlocked`, `ToBeFreed`), and a dummy of a touch is never removed along with it (`Touched`). `Undisturbed`: nothing goes wrong but crashes, and no on-event handler patches in every cycle; each of these exceptions but the premature timeout does leave work undone (section 4). |
| `DaemonsProofs` | `TypeCorrect`, `BodiesAreLive`, `OwnExitsAreFinal`, `ReleasedAfterItsDaemons` | The live body is released with the last daemon only (`FreedWithLast`); a decision to remove the finalizer is made with no daemon that is not abandoned (`StoppedForDeletion`), and daemons spawn only in decisions. |
| `VaultProofs` | `TypeCorrect`, `LoginsOnlyWhenDepleted`, `NobodyMissesNotifications`, `DropsWithReason` | Who holds the lock across the awaits finds what it has left (`ExpiringIsExpired`); a session of a current item is closed, and a request with it fails, for its own credentials only (`ClosingIsBad`, `RequestIsOpen`, `FailedIsBad`); the pigeonhole principle gives a new item its name. |
| `PeeringProofs` | `TypeCorrect`, `PausesAreRight`; under `RefreshedEarly`, `OnlyOneIsActive` | The last event of an inbox is the object as it is (`LastIsCurrent`); after the last event all living rivals are known (`RivalsAreKnown`) and none has died before the alarm (`RivalsAreLive`). As long as nobody is late, the record of an operator with a keep-alive is never seen dead (`NeverDead`), so never cleaned. `RefreshedEarly`: the lifetime is more than a unit, and the keep-alive comes earlier than it by `randint(5, 10)` (`_core/engines/peering.py:192-193`). |
| `OperatorProofs` | `TypeCorrect`, `ExitsAreOrderly`, `CleanupsRun`, `NothingIsLeftBehind` | How the activities task has come to its stage (`StagesInOrder`, `CoreInOrder`, `OverInOrder`), that it is told to exit once (`ToldOnce`), and what the runner knows of the tasks it does not wait for any more (`RootsAreAwaited`, `FailuresAreKnown`). |
| `IndexingProofs` | `Exactness`, `ExclusionsAreRespected` | Lemmas about the dicts of the forward and the reverse items: what discarding and replacing leave, for any keys; then that an object is found where its last result is (`ExactFor`), and that a record knows of each error since the last success (`KnownFor`). |
| `ClusterProofs` | `TypeCorrect`, `EnsembleFollowsInsights`, `PausesStayOwned`, `IndicesAreFull`, `InsightsFollowCluster` | Nobody revises the insights while the orchestrator adjusts to them (`EnsembleInOrder`), and the keys of the tasks fit the scopes of their resources (`KeysInOrder`). What is spawned before the readiness holds it back by one toggle after another: the blocker, its listing, its object (`FirstInOrder`). Of each resource without rivals and of each namespace, the observers know the present state, or have an event or a response on the way that is up to date, unless it was overlooked (`ResourcesAreKnown`, `NamespacesAreKnown`), where the responses of overlapping scans are one per asker (`ScansInOrder`). It rests on what a revision leaves (`RevisionOfItsGroup`, `RevisionOfOthers`), for selectors taken in any order. |

The inductive invariants were checked with TLC before they were proved.

What TLC shows as liveness rests on the fairness of each task, and on that none of them
waits in vain. The latter is safety, and proved for all instances. The definitions below
are in no run: to see one in TLC, put it under INVARIANTS of the cfg of its module
(`Queueing_safety.cfg` or `Queueing_liveness.cfg`, `Daemons_lifetime.cfg`, ...). All of them
were checked in this way, and the bugs they are about were tried on them. They are
`NoWakeUpIsMissed`, `ClosingGoesOn`, `ExitGoesOn`, `NobodyIsStuck`, `FailedIsGone`,
`PausedIsAwakened`, `RestIsSettled` (of `Daemons`) and `EnsembleMatchesCluster`.

| Theorem | The safety side of | Argument |
|---|---|---|
| `WakeUpsAreNotMissed`, `ClosingIsNeverStuck` of `QueueingProofs` | `EventuallyHandled`, `ShutdownTerminates` | `WInv`: each condition has either its notification or a cleaner at work. A limit that is reached becomes free only by a cleaner; one that finishes notifies all those that wait, and only the spawner clears its own notification, when it has looked at the queue (`SpawnerIsTold`, `CloserIsTold`). A spawner that has been told spawns also after the closing, but a cancelled task (`ClosedIsCancelled`). |
| `ExitIsNeverStuck` of `OperatorProofs` | `ExitCompletes` | `EInv`: the tasks that are awaited exist, and the activities task is told to exit together with all others that are there (`ToldTogether`), so that it never waits, at its own end, for root tasks that nobody stops. |
| `NobodyGetsStuck`, `FailedIsNeverThere` of `VaultProofs` | `EveryCallEnds` | `GInv`: each task is in one of the queues of the event loop, of the lock and of the condition, or in a request, a login or an await under the lock, and in one place only (`QueuesOK`, `PlacesOK`); whoever holds the lock and is not ready is closing a session, the only one that is being closed (`ClosingOK`). `FailedIsGone`: an item whose request failed is current only if its call has not dropped it yet. So the `RuntimeError` of `_cogs/clients/auth.py:58` is unreachable, as its message says. `Keys` is finite, as the login handlers are. |
| `PausedAreAwakened` of `PeeringProofs` | `ResumesEventually` | `AlarmIsOfOne`: the alarm is the deadline of one of the rivals that are known, by what is in the object now, since a refresh makes an event, and with it a new alarm. |
| `RestsSettled` of `DaemonsProofs` | `DeletionCompletes` | `SInv`: the last event of the stream, or of the worker, is the object as it is (`LatestIsSeen`), also as for the finalizer (`BlockIsSeen`); a patch fits the finalizer as it was seen, so it makes an event or meets a conflict, behind which there is one (`PatchesFit`); a daemon that must be stopped is still to be visited, has made a delay, or is abandoned (`LoopGoesOn`), and without a delay a cycle decides to keep only what is settled (`ApplyingGoesOn`). A daemon that matches again while it is terminating is not respawned: `docs/daemons.rst` warns of it, so it is not in `IsSettled`. |
| `EnsembleFollowsCluster` of `ClusterProofs` | `ReadyEventually`, up to its indexing | On top of `EnsembleFollowsInsights` and `InsightsFollowCluster`, which leave out what becomes of a watcher: one that is cancelled is redundant, and gone when the orchestrator is done (`StoppedAreRedundant`). |

`DisableAmbiguous` of `Selectors` is a recursive function over a sequence of any length.
What it computes is proved by induction: `LeastNumber` (from the well-foundedness of the
numbers) gives the least counterexample as an element of a set, where the induction rules of
the library would need an operator; `LeftExists` shows that the recursion defines a function.

Only model-checked:

- All liveness: `EventuallyHandled`, `FailureStopsWatcher`, `ShutdownTerminates`,
  `EventuallySettled`, `PausedAreAsked`, `DeletionCompletes`, `EveryCallEnds`,
  `ResumesEventually`, and both `ExitCompletes`. TLAPS does not reason about fairness.
- `Processing`: with a premature consistency timeout, `ChangeIsNotRepeated`, `ResumedOnce`,
  `LastHandledIsSeen`, and that one such timeout alone does not break them
  (`processing_troubles`).
- `Cluster`: `ReadyEventually`, which is a liveness property (and fails: section 4).
- The globs of namespaces in `Selectors`: `MatchPattern` is a fold; the theorems hold for
  whatever it says.
- `Detection` and its modules, which are recursive over nested objects.


## 6. Not modelled, and why

- *Content and encoding*: JSON and its digests, names of handlers, the formats of
  annotations (but for which prefix and which key), server-side dry runs, strategic
  merges. Essences and results are values which are equal or not.
- *Values of times*: a timeout strikes or does not. So `settings.queueing.idle_timeout`
  of 0 is not modelled (with it, `asyncio.wait_for` never takes anything from a queue), nor
  the throttler's growing delays. The intervals of timers are their running time.
- *Watching*: bookmarks, reconnects without a loss, the server-side and the client-side
  timeouts: what the streams see of them is that events come late or are listed again.
- *The end of the vault* (`close()`), when no one makes calls any more.
- *Sub-handlers* (`_core/reactor/subhandling.py`): handlers of the same kind, whose parent
  is retried until they are done; the attempt that a parent counts for it is not modelled.
- *Results* of handlers, which are stored in the status; with them, the separate request
  for the status subresource, in which the default storages put nothing else
  (`NoWriteStatusProgressStorage`). A failure between the two requests would lose results.
- *Resuming handlers with `deleted=True`*, which are mixed into the deletion.
- *Versions in `Daemons`*: two changes that cancel out while the watching is disconnected
  are no conflict there; `Processing` has the versions.
- *A limit of workers during the initial indexing*: a worker that waits for the indexing
  holds its slot, so a limit below the number of objects is a deadlock, as `docs/indexing.rst`
  says; `Cluster` has no limit, and `Queueing` no indexing.
- *Admission webhooks, posting of events, probing*: servers and queues without a protocol
  of their own. *Kits, the command line, decorators, typing*: no state, or test tools.
- *Threads*: synchronous handlers run in executors, which cannot be cancelled: in `Daemons`
  and `Operator` they are those that do not heed.
