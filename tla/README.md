# Verification of csp_lib

TLA+ specifications, TLC model checks and TLAPS proofs for `csp_lib`, an asyncio
library that controls energy storage and other plants: it reads and writes devices
over Modbus and CAN, decides which control strategy commands the plant, elects one of
several nodes to do so, and keeps the data. Paths below are relative to `src/csp_lib`
unless they start with `docs`.

1. The system: components, state, operations, interactions
2. What is hard in it
3. Modules and how they correspond to the code
4. Runs, bounds, fairness
5. Proofs
6. Disagreements between documentation and code
7. What is not modelled, and the plan

## 1. The system

One process runs one asyncio event loop. Nearly everything is a task on it: a task
runs until it awaits, and what it read before an await may be stale after it. The
queue and the registry of shared clients have asyncio locks; alarm aggregation,
runtime parameters and logging, which other threads enter, have thread locks. Outside
the process are the devices, etcd, Redis, MongoDB and a local SQLite file.

```
 operators, API, schedule            etcd                     Redis
        |                              |                        |
   SystemController <---- ClusterController (leader / follower) +-- ClusterSync
    |  ModeManager              |
    |  event overrides          v
    |  StrategyExecutor   DeviceManager --- Device (read loop) --- alarms, events
    |        |                                  |                     |
    |   protection, distribution                |            persistence managers
    +---> CommandRouter ------ write ---------->|                     |
               | CommandRefresh                 v             LocalBuffer / BatchUploader
                                     shared Modbus connection         |
                                       ModbusRequestQueue          MongoDB
                                         CircuitBreaker
```

| Component | State it keeps | Operations | Talks to | What makes it correct |
|---|---|---|---|---|
| Modbus request queue (`modbus/clients/queue.py`) | heap per unit, round-robin deque, `_total_size`, event, breakers, futures, worker task | `submit`, `start`, `stop`, worker, `_dequeue` | callers through futures; the bus through coroutine factories | counter and deque agree with the heaps; no lost wake-up; writes first, units in turn; every future ends; at most one request on the bus, once |
| Circuit breaker, retry (`core/resilience.py`) | state, failure count, backoff, opening time | `state`, `allows_request`, `record_*`, `reset` | queue | transitions follow the diagram, no late answer closes or re-arms it |
| Shared connections (`modbus/clients/client.py`) | registry endpoint -> (client, queue, count), lock, `_resources_acquired` | `connect`, `disconnect`, reads and writes | pymodbus, queue | count covers the users; only the last closes; no connection without an entry |
| Cluster (`cluster/election.py`, `controller.py`) | election state, lease, campaign and keepalive task, leader mode | campaign, keepalive, self-fencing, promotion, demotion, resign, start, stop | etcd, device manager, system controller, publisher | at most one node commands; devices started first; a leader is replaced |
| Cluster sync (`cluster/sync.py`) | publisher loop, Redis keys, subscriber's snapshot | start, stop, publish, poll | Redis | leader key belongs to the leader; a new leader inherits the modes |
| Strategy executor (`controller/executor`) | strategy, stop, trigger and change events | `run`, `set_strategy`, `trigger`, `stop` | hooks of strategies, system controller | runs the strategy set last; triggers and stops are served |
| Mode manager, event overrides, cascade (`controller/system`) | base modes, override stack, override states | set, add, remove base mode; push, pop, clear override | executor by callback | effective mode is the top override, else the base mode |
| System controller, heartbeat (`integration`) | override states with cooldown, pause and counters of the heartbeat | evaluate, resolve, route, start, stop; beat | all of the above | overrides follow their conditions; heartbeat paused exactly with its strategy; beats arrive |
| Strategies, protection, distribution (`controller/strategies`, `controller/system`, `integration/distributor.py`) | ramps, stages, previous command, last shares | `execute`, `apply`, `distribute` | context, parameters | commands within the limits, shares that add up |
| Compensator (`controller/compensator.py`) | integral, learned table, hold | `process`, learn, save, load | meter, file | the meter reaches the setpoint |
| Load shedding (`controller/strategies`, `integration`) | stages with hold and delay, queue of actions | `execute`, activate, deactivate | circuits | circuits follow the stages |
| Local buffer (`mongo/local_buffer`) | SQLite rows, known collections, replay and cleanup task | `enqueue`, `write_immediate`, replay, `ensure_indexes`, cleanup, start, stop | SQLite, MongoDB | nothing lost, nothing twice, everything arrives |
| Batch uploader (`mongo/uploader.py`, `queue.py`) | bounded deques, retry counts, threshold event | `enqueue`, flush loop, `flush_all`, stop | MongoDB | bounded, newest kept, no batch retried for ever, final flush |
| Device (`equipment/device`, `processing`, `transport`) | flags, failure count, latest values, read task, groups of points | `connect`, read loop, `read_once`, `write`, `stop` | client, listeners | flags follow reality; reads coherent, writes arrive |
| Device events (`equipment/device/events.py`) | bounded queue, worker, handlers | `emit`, `emit_await`, start, stop | listeners | events in order, each once |
| CAN device (`equipment/device/can_device.py`, `can`) | frame buffer, sender, waiting requests, snapshot loop | send, request, receive, stop | CAN bus | signals do not mix, silence is noticed |
| Alarms, aggregation (`equipment/alarm`, `alarm`) | hysteresis counters; active sources by name | evaluate, update; `mark_source`, observers | device, Redis, system controller | no flapping; aggregate is the union of its sources |
| Device managers (`manager/device`, `manager/unified.py`, `integration/registry.py`) | devices, groups, `_running`, traits | register, start, stop, unregister | devices | started devices are stopped, also after cancellation |
| Commands (`manager/command`, `integration/orchestrator.py`) | command records; steps of system commands | execute, update status, leader gate | repository, device | each command ends; executed once; steps in turn |
| Alarm, state, data managers, statistics (`manager`, `statistics`) | subscriptions, Redis keys, meters | on event: upsert, resolve, publish, enqueue | device events, repositories, uploader | what is kept follows the device |
| Schedule (`manager/schedule`) | key of the rule activated last | poll, activate, deactivate | mode manager | the current rule's strategy is in charge |
| Command routing, refresh, drift (`integration`) | last written values | route, refresh, reconcile | device writes | refresh never brings an old value back |
| Remote control (`integration/distributed`) | snapshots of sites, health | poll, cycle, publish | Redis | a lost site is not commanded |
| Gateway (`modbus_gateway`) | register map, watchdog, persisted values, sync sources | writes, sync, restore | Modbus clients, Redis | registers survive; watchdog fires in silence |
| Simulated plant (`modbus_server`) | PCS, generator, battery, meters | tick, write | Modbus clients | energy adds up, meters sum |
| Notification, monitor, logging, Redis client, GUI | batches; samples and alarms; levels and sinks; handle; sockets | flush; publish; attach; connect; broadcast | channels, Redis, files, browsers | bounded, in order, consistent |

`PROJECT.json` lists every component with its status, and every hazard with the line
where it bites.

## 2. What is hard

* **Awaits in the middle of a change.** `set_strategy` awaits two hooks without a lock;
  `connect` counts a reference and then awaits a handshake; `write_immediate` and the
  replay write the same row; the refresh holds a snapshot over a series of writes.
* **Counters kept beside the data.** `_total_size`, `ref_count`, `_running`,
  `_client_connected` repeat what another structure says.
* **Two ways for one piece of news.** `emit_await` overtakes the event queue; a log
  level comes by poll and by subscription; observers are called outside the lock.
* **Time.** The lease runs out while keepalives fail; a cooldown ends between two
  evaluations; a caller's timeout races the worker's answer; keys in Redis expire.
* **Partial failure.** A promotion that raises half-way, a hook that raises, a batch of
  which MongoDB refuses one document, a stop that cancels a start.
* **Restart.** What SQLite, MongoDB, Redis and etcd keep outlives the process.
* **Progress.** A loop that never suspends holds the whole event loop; a batch that
  never empties holds all others.
* **Numbers.** Six rules limit one power in turn while threads change their limits;
  cascades share one apparent power; a table learns from what it caused.

## 3. Modules

An action is what one task does between two suspensions (`await` of something that is
not ready). Locks that are never held over an await do not appear: their critical
sections are parts of one action. What the bus, etcd, Redis or MongoDB answers is
chosen nondeterministically. Definitions marked `Mutant:` are plausible errors of a
definition that follows; no specification uses them, they serve to confirm that each
property notices the error.

The protocols at the heart of the library have a module, a proof module, and where TLC
needs more than constants an MC module:

| Module | Code | Composed with |
|---|---|---|
| `RequestQueue` | `modbus/clients/queue.py`, breaker of `core/resilience.py` | `BusPromise` (abstract), `MCRequestQueue` (history, view), `RequestQueue_proofs` |
| `SharedClient` | `modbus/clients/client.py` | `MCPlant`, `Plant_proofs` |
| `Cluster` | `cluster/election.py`, `cluster/controller.py` | `MCControl` (with `ClusterSync`), `Cluster_proofs` |
| `ModeControl` | `controller/executor`, `controller/system`, `integration/system_controller.py` | `MCModeControl`, `ModeControl_proofs` |
| `LocalBuffer` | `mongo/local_buffer/uploader.py` | `MCStorage`, `Storage_proofs` |
| `BatchUploader` | `mongo/uploader.py`, `mongo/queue.py`, `mongo/writer.py` | `MCStorage`, `Storage_proofs` |
| `CommandRouting` | `integration/command_router.py`, the refresh and the drift reconciler | `MCPlant`, `MCStorage`, `Plant_proofs` |
| `Device` | `equipment/device/base.py`, `equipment/alarm/state.py`, `manager/alarm` | `MCPlant`, `Plant_proofs` |
| `PlantCommands` | `manager/command`, `integration/orchestrator.py` | `MCPlant`, `Plant_proofs` |
| `EventEmitter` | `equipment/device/events.py` | `MCStation`, `Station_proofs` |
| `LogLevels` | `core/logging/filter.py`, `redis/log_level_source.py` | `MCStorage`, `Storage_proofs` |
| `PowerPath` | `controller/system/protection.py`, `integration/distributor.py`, `_on_command` | `MCStation`, `Station_proofs` |

The other components are modules of their own that three suites instantiate side by
side. A suite picks one component per behaviour by its variable `part`; the variables of
the others stay in their initial states. So one run checks many components without
multiplying their states, and each property is a conjunction of `part = ... => ...`.

| Suite | Its parts and their modules |
|---|---|
| `MCPlant`: the field side | clients (`SharedClient`), device (`Device`), can (`CanDevice`), data (`DataPath`), redis (`RedisClient`), fleet (`DeviceFleet`), commands and system (`PlantCommands`), routing (`CommandRouting`), schedule (`ScheduleService`), shedding (`LoadShedding`), remote (`RemoteControl`), stores (`BufferStores`) |
| `MCStation`: around the devices | power (`PowerPath`), strategies (`Strategies`), inputs, settings and history (`ControlInputs`), heartbeat (`Heartbeat`), microgrid (`Microgrid`), aggregation (`AlarmAggregation`), telemetry and states (`Telemetry`), gateway and sync (`Gateway`), emitter (`EventEmitter`), batcher and narrow batcher (`NotificationBatcher`), monitor (`Monitor`), sinks and contexts (`LogSinks`), panel and modes panel (`ControlPanel`) |
| `MCStorage`: what must arrive | local (`LocalBuffer`), uploader (`BatchUploader`), routing (`CommandRouting`), compensator (`Compensator`), remote (`RemoteControl`), levels (`LogLevels`) |
| `MCControl`: the cluster | election and takeover (`Cluster`, twice), sync (`ClusterSync`) |

The head comment of each module says what it models and what is external to it; the
`map` of `PROJECT.json` names the lines behind every definition. What a reader needs
beyond that for the central modules:

### RequestQueue, BusPromise, MCRequestQueue

`heap` is the union of the heaps of `_unit_queues`, `keys` its keys, `ring` and `ahead`
the deque `_round_robin` (its members and its total order), `total` is `_total_size`,
`event` the asyncio event, `future`, `left` and `caller` what each `submit` awaits.
`worker` is where `_worker` stands: while it is in its `"loop"` it does not suspend, so
every other task's action has the guard `LoopFree`. The breaker is operators on a
record, with the remaining cooldown instead of a time stamp.

| Action | Code |
|---|---|
| `Submit`, `Refuse` | `submit` up to its await; its three errors |
| `Resume`, `TimeOut`, `CancelCaller` | how `wait_for(shield(future))` ends |
| `Start`, `Stop`, `DrainExpires`, `Flush` | `start`; `stop` before, at the end of and after its wait for the worker |
| `Wake`, `Serve`, `DequeueNone`, `Quit` | `_worker`'s loop with `_dequeue` in it |
| `BusOk`, `BusFails` | what the operation on the bus does, or `worker_timeout` |
| `Tick` | the clock; ready tasks go first unless the worker spins |

`Purged`, `Candidates` and `Chosen` say what `_dequeue` drops and picks; the two checks
that `_worker` repeats after it are proved never to fire (`DequeuedIsLive`).
`BusPromise` is the abstract specification: futures are resolved once, requests go on
the wire one at a time, at most once and only unresolved. `MCRequestQueue` adds the
history `passed` for the round-robin property and the view.

### SharedClient

The registry `_tcp_instances` (`entry`, `refs`), its lock (`lock` is the task that
holds it over an await, which only `queue.stop()` in the last release does), the flag
of each client and where each task is suspended. `Acquire` is `_acquire_resources`,
`Connected` the end of the handshake, the `Release...` and `...Stop` actions
`_release_shared_resources` as `disconnect` and a failed `connect` call it. A task can
be cancelled wherever it waits (`Cancel`, `CancelStop`). The queue is reduced to
running, idle or draining, a backlog, and whether its worker waits for the lock or the
bus. `PymodbusRtuClient` has the same code over a port name as key.

### Cluster, ClusterSync

A node is the controller (`ctl`), the campaign task (`task`), which also carries the
promotion out, and the keepalive task (`keep`), which carries the demotion out. `owner`
and `left` are the election key and its lease in etcd, which is external. `age` counts
the ticks each task has waited, so that sleeps end on their tick and a call takes at
most `Patience`. `Fenced` switches the executor after `publisher.stop`, as
`_handle_demotion` orders it; `Announced` starts the keepalive only after the
promotion has been awaited. `holds` tells whether `_lease` is the lease the key hangs
on: after a failed promotion a node campaigns against its own key with another lease,
and a stop then revokes only that one. `"leaked"` devices are those that a cancelled
`UnifiedDeviceManager.start` or `stop` leaves running while it says it does not run.
`ClusterSync` has the publishing, the polling and the handover of modes, with leaders
that change at any time.

### ModeControl, MCModeControl

`base` and `overrides` are the mode manager's, `active` the system controller's state
of each event override, `strategy` and the three events the executor's. Each task has
a `call` record that says in which hook of `set_strategy` it waits. `SetModes` is a
mode operation with its `_notify_change`; `Evaluate` is one override's part of
`_evaluate_event_overrides`, which runs in the executor's own task and therefore holds
the loop unless it waits for a hook. `Begin`, `Turn`, `GoOn`, `Execute`, `Woken`,
`Processed` and `Routed` are the run loop. A strategy is the set of modes it is made
of: none, one, or a cascade. `muddled` is a history variable: the last switch of
strategy overlapped another one, or a hook raised.

### LocalBuffer, PowerPath

`LocalBuffer`: the rows of the SQLite store (`row`, `number`), the documents in MongoDB
(`stored` counts copies), the collections that have a unique index, the replay of each
collection (`flight`) and the call that submits each document (`caller`). A crash keeps
the store and MongoDB, and lets any part of what is under way arrive. `BufferStores`
has the two stores underneath, with concurrent writers, cancellation and rollback.

`PowerPath`: one active power `p` on its way through the rules of the chain, the
processors, the distributor and the writes; `limit` records the range of the rules that
have been asked. Other threads change parameters between any two steps.

### Telemetry, DataPath, RemoteControl, ControlInputs

`Telemetry`: `worker` is the reading the emitter's worker handles and which handler it is
in, `reader` the event the read loop awaits beside it. The target with policy ON_CHANGE
has a transform that gives a document for each of `Grains`: `Compare` looks at the result
as a whole, `UploadChange` enqueues one document after another, each of which may be
refused, and the result is kept (`target.result`) only if none was; `TransformRaises`
passes a target over. The other target has one document. `retry` of a stored document
tells that one of the result before it was refused.

`DataPath`: points of several words in groups that are read one by one, writes with
read-back, and a digital output with the three modes of `execute_do_action`. `toggling`
is the toggle of each task: it has chosen (`Toggle`), the device has carried it out
(`ToggleReaches`), and it was answered (`Toggled`) or not (`ToggleFails`, before or after
the device). Any number of tasks toggle at once, readings and the other modes come between.
`wanted` is what the toggles that alternate make of the output, and whether that is
certain: not after a failure, an overlap, a pulse or a sustained write, until a reading
shows the output as it is.

`RemoteControl`: `cycle` is the command that is routed and the messages still to be
published; `steady` and `cycle.seen` are the devices available throughout and at some time
of it. `Unserializable` is the `TypeError` that ends a route at NO_CHANGE.

`ControlInputs`: several threads set one parameter (`Set`, `Delete`, `SetDefault`) and
tell observers after the lock is released (`Notify`); `crossed` remembers what
overlapped, and that a default was set in silence.

## 4. Runs

`tlc -workers 2 -config <run>.cfg <module>` in this directory.

| Run | Module | Outcome | What it asks |
|---|---|---|---|
| `queue_safety` | MCRequestQueue | holds | bookkeeping, wake-ups, turns and urgency (`InTurn`), sound steps of breaker, stop and answers (`StepsSound`), refinement of `BusPromise` |
| `queue_liveness` | RequestQueue | holds | every `submit` ends |
| `queue_ontime` | RequestQueue | violated | no caller waits past its timeout |
| `shared_safety` | MCPlant | holds | connections counted and never stolen or orphaned (`ConnectionsHeld`); the records of a device's disconnection and alarm agree with it (`RecordsAgree`); a write taken once and recorded as it went (`JournalTruthful`); commands not undone by the reconcilers (`CommandsPersist`); records, orders, data and steps of the field side |
| `station` | MCStation | holds | reports follow what they report, what is told arrives, device events in turn with a worker to serve them (`Attended`), inputs are what was told, the protection guards, outputs and shares are sound |
| `cluster` | MCControl | holds | one controller, started devices, quiet followers; a leader that ended anyhow is replaced; modes and leader are known |
| `cluster_splitbrain` | Cluster | violated | one controller under the default proportions |
| `modes` | MCModeControl | holds | effective strategy runs, overrides follow, heartbeat, triggers, stop |
| `modes_race` | MCModeControl | violated | an event override on top is what runs |
| `buffer` | MCStorage | holds | nothing lost, nothing twice, newest kept, log levels follow the remote ones (`LevelsFollow`); delivery, service of every collection, setpoints and remote sites in the end |
| `buffer_stuck` | MCStorage | violated | delivery with a refused document that fills a batch |
| `buffer_twice` | MCStorage | violated | nothing twice without registration |

### Bounds, and why they are enough

* **Queue**: three requests, two units, a queue of two. Overtaking twice takes two
  requests of one unit and one of another; a full queue two; every purge of a
  resolved top behind an open breaker is reached. Timeouts of 1 and 3 ticks expire
  before and after a bus operation. Each request is submitted once, so the system
  really stops: deadlock is not an error in these runs. The view drops what no guard
  can read any more, requests and units are symmetric. Liveness is checked with two
  requests on one unit, without symmetry or view, and a breaker that the first failure
  opens for longer than a caller waits (`Threshold` 1, a cooldown of 2 to 4): the other
  call waits behind it, and the worker spins past its timeout before it ends.
* **Shared connection**: two clients on one endpoint and one on another; two instances,
  recycled when nothing refers to them. A third user of one endpoint differs from the
  second only in the count. `MaxRefs` stops connects once leaked references (a task
  cancelled in `connect`) have added up to three; `MaxBacklog` is one request.
* **Cluster**: two nodes are one leader and one rival. In ticks, the lease lasts 12, a
  keepalive is due after 4 (a third of it), a poll after 6 (half of it), the grace
  period is 3 and a call takes at most 1. `MaxFailures` is 1 in `cluster`, which
  satisfies `Timely`, and 3 in `cluster_splitbrain`, the proportions of the default
  configuration (lease 10 s, three failures a third of it apart). Who takes over does
  not hang on how long the lease is, so the takeover runs on a lease of 6. The
  synchronisation has two modes, one switch and two terms: a snapshot that lags by one
  switch, and a leader that has already been one.
* **Modes**: periodic, hybrid and triggered strategies, one with hooks that wait, one
  that suppresses the heartbeat, one operator beside the run task, one event override.
  All races need two tasks; the run task and one operator are two.
* **Buffer**: three documents in two collections, batches of two: the smallest with a
  batch that is split over collections and a document left out of it. Two copies are
  told from one, not from three.
* **Suites**: each component has two of what competes (tasks, devices, documents,
  browsers, signals) or three where order matters, a queue or buffer one shorter than
  what may arrive, and a bound on what the outside may do, named `Max...` in its module
  (`MaxChanges`, `MaxTroubles`, `MaxCalls`, `MaxEvents`, ...): two or three, enough for
  a change to meet the consequences of the one before. Components with many
  dimensions appear more than once with others of them fixed (`inputs`, `settings` and
  `history`, which has three readings for a history of two; `telemetry` and `states`;
  `batcher`, whose deque holds a batch, and `narrow batcher`, whose deque is full before).
  Of the toggled output two tasks make three calls, one write of which fails. The remote
  commands leave out either axis, the one with a transform and the one without. The
  compensator's upper limit lies below what one of its setpoints asks for, so that it
  saturates; Redis answers the remote side of `buffer` always, and may fail in
  `shared_safety`. The strategies run alone and in the cascades whose layers
  share one apparent power. A suite's components stop when their bounds are spent, so
  deadlock is not an error there.

### Fairness

* **RequestQueue**: asyncio runs ready callbacks in turn, so a ready caller gets the
  loop although the worker takes it away now and then: strong fairness of `Resume` and
  `TimeOut`, and of `Tick`. The worker's steps are weakly fair, they stay enabled. An
  operation on the bus ends at least by `worker_timeout`.
* **Cluster**: weak fairness of the clock and of each task: awaited calls return or
  fail within `Patience`. Nothing is assumed of starts, stops, crashes and resigns;
  `TakenOver` is about behaviours in which nodes have stopped coming and going, and in
  which one is up that has not spent its term: after self-fencing or `resign` a node
  waits for the stop event and never campaigns again (`cluster/election.py:199`).
  Publishing, polling and promotion of the synchronisation are loops that go on.
* **ModeControl**: the run task goes on; hooks return or raise, and time passes, also
  if the evaluation holds the loop in between (strong). Operators may stop calling.
  `EventsFollow` concludes only if cycles go on. `StopReturns` is checked for stops
  that come after the run task's first step (`EarlyStop = FALSE`), see section 6.
* **LocalBuffer**: the replay's timer fires, awaited calls return. `Delivers` assumes
  that the uploader stays up and MongoDB eventually answers.
* **Storage suite**: of the batch uploader that its loop wakes by its timer and that
  writes return; of routing that the two reconcilers' rounds come, writes end, devices
  are read and cooldowns pass; of the compensator that cycles go on; of the remote
  sites that polls, cycles and deliveries do; of log levels that a poll ends and a
  listener takes what it got. Nothing is assumed of callers, of failures or of the end
  of a trouble: where a property needs that, it says so.

## 5. Proofs

`tlapm <module>` proves them; they hold for all values of the constants that satisfy
the module's assumptions, and under a hypothesis where one is named. Each rests on an
inductive invariant: the property, and what it needs of the state in between.

**RequestQueue_proofs.** `IInv == Core /\ NoStrayWorker` is inductive (`Invariance`),
for any finite set of requests, any units, timeouts, limits and any breaker
configuration. The invariants that runs check are not inductive alone. `SizeExact`
needs to know that a request that is submitted is not in a heap yet and that what is
purged is; that is `Bookkeeping` (an idle call has no future and is nowhere, the
request on the bus is in no heap). `NoLostWakeup` needs `SizeExact`, because the
worker's second look reads the counter and not the heaps. `DequeAgrees` is carried by
lemmas on the order (`Without`, `AtEnd`). `NoStrayWorker` says that a queue that
neither runs nor drains has no worker, without which `start` could make a second one.
From `IInv` follow `TypeCorrect`, `SizeAlwaysExact`, `DequeAlwaysAgrees`,
`NeverLostWakeup`, and `DequeuedIsLive`, which justifies that the checks `_worker`
repeats after `_dequeue` have no action. `Implements` maps every step to a step of
`BusPromise` or a stutter, with `future` as outcome, `current` as wire, and the
requests that have left the heaps as spent.

The order of service needs more: `Ordered` adds to `IInv` that requests with the same
priority carry different sequence numbers (`Sequenced`), so that a heap has one least
element, and that the unit on the bus is not behind an open breaker (`OnBusNotOpen`).
That a heap that is not empty has a least element (`HasMinimal`) comes from the
library's theorem on well-founded orderings of finite sets, as induction over the heap
is out of reach. From it follow `NothingIsDropped`, `BreakersFollowDiagram`,
`UrgentFirst`, and together with what stop may kill `StepsAreSound`. That one has the
hypothesis `DrainTimeout > 0`: with a drain timeout of 0 `stop` cancels a worker that
merely sleeps (the default is 10 s). `UnitsTakeTurns` is about the history `passed`;
`PassedBehind` says that a unit that has been passed over by another stands ahead of it
in the deque, so that it is not passed over by the same one twice.

**Plant_proofs**, of `SharedClient`. `ConnectionsStayHeld`, under `OneTaskEach` (each client object
is connected and disconnected by one task, as the device layer does it; with two the
count leaks, see section 6). The checked properties speak of clients whose flag is set;
the count is of more: a client whose connect failed or was cancelled has a claim on its
endpoint until its release has run. `IInv` says that the count covers the claims
(`Covered`), that who waits for, closes or connects an instance holds what is
registered (`Coherent`), that instances are not shared by endpoints (`Distinct`), and
that the drain and the lock are with the same task (`Served`). The release that closes
is then the only claim left.

Of `CommandRouting`: `CommandsAlwaysPersist`, for any devices, points and mappings and any
number of commands: the refresh and the drift reconciler never undo a command in the
desired state, unless they had a copy of the state before it when it came (`crossed`, the
race of section 6). The table alone says nothing of what is still on its way to it.
`RoutingInv` therefore speaks of every copy: the entries a reconciler has taken up and not
written, and its writes in the queue of a device, are of the newest command to their point.
A command that finds a copy marks the point, a device that is dropped likewise
(`NoCopy`), and a task that goes on takes only what is fresh (`ContinueKeeps`, over the
lists it may go on with, `ListsAreFresh`).

Of `Device`: `RecordsAlwaysAgree`, for any readers and thresholds, and wherever the repository
raises or a stop cancels a handler, of which the history `cut` knows. The property speaks of
states between events; in the midst of one the record is about to change, by one call or by
two. `DeviceInv` says what the event is then: of the present state (`LinkAgrees`,
`AlarmAgrees`), and no second task emits one about the same record. For the connection that
is so because the application connects and disconnects only while no reader runs (`Roles`);
an operator's clear may cross the reader's evaluation, and then `cut` has `"raced"`.
`CountsTrue` ties the counts of `AlarmState` to the last readings, from which
`AlarmsDebounced` follows; what the history of readings keeps is a lemma on sequences
(`RememberedEnd`). The thresholds are assumed to be positive, which the configuration
classes enforce.

Of `PlantCommands`: `JournalAlwaysTruthful`, for any nodes, writes, actions and leaders,
however often a command is sent, wherever a node crashes or a task is cancelled, and
whichever call raises with or without effect. The property compares the record, the device
and the published results; `JournalInv` ties them to the tasks. One task at most is between
the record of a write and its result, because only who makes the record goes on and the
repository refuses a second one; and each place of the task supposes something of the data
(`Finds`): that nothing was taken before the write, that a success about to be recorded was
one. A call that is given up leaves what it did, and nobody to do it again (`LandedKeeps`).
`StepsAlwaysInTurn`, of the orchestrator, for any steps and overlapping executions: an
execution has noted every bad answer to its present step (`InTurn`), and goes on without one
only. It assumes a system command with at least one step; one without succeeds at once.

**Cluster_proofs.** Two invariants. `Orderly` (`ClusterOrder`) says how the parts of a
node go together: campaign, keepalive and controller, the devices and the executor, and
how long each has waited. It needs no assumption on times or faults except that no
promotion raises, and gives `CommandsAlwaysArrive`. `OneController` needs, besides, the
times: `Timely` (the failures allowed, each an interval and a patience long, and the
demotion, fit into the lease and the grace period) and `Survivable` (faults are failing
calls, crashes and stops). Every node in office has a *term*, a time by which it has
left at the latest, and a *respite*, a time before which it does not command. The lease
keeps them apart: who holds it leaves within lease and grace period, who does not within
the grace period, and the next one waits the grace period out. The two hypotheses are
not for convenience: `resign` gives the lease away before the node stops commanding, and
a promotion that raises leaves a follower that commands.

A third invariant, `SyncInv`, is about what the nodes tell each other, for any nodes,
modes, terms and switches. `ModesAlwaysSurvive` alone is not inductive, as it says
nothing between two leaders. `Inheritable` carries the modes over the gap: until a
promoted node has announced itself, the key, every snapshot that may be inherited and
every node that still publishes have them; after that, `Adding` says that what the node
lacks it is about to add. The proviso of the property (`missed`, `HandedOn`) is the
weakest under which this holds at the moment the old leader goes: with three nodes, a
publisher of an earlier term that is still running writes its own modes over the key.

**ModeControl_proofs.** `IInv` is types, the records of event overrides, `NoStrayOverride`
and `Switch`: as long as `muddled` is false, one task at most is in `set_strategy`, and
the strategy it is heading for is that of the effective mode. `EffectiveRuns` alone is
not inductive, as it says nothing while a switch is under way. `EffectiveModeRuns`,
`NothingStrays` and `ModesTyped` follow. `AlarmsTakeCharge` is the positive side of the
violated run `modes_race`: if no hook suspends, the strategy of an alarm on top of the
stack is in charge. The hooks of `IslandModeStrategy` and `LoadSheddingStrategy`
suspend, the library's others do not.

**Storage_proofs**, of `LocalBuffer`: `IInv == TypeOK /\ NothingLost /\ Sent` is inductive, for any
finite set of documents, any collections, registrations, refusals and faults. `Sent`
says that what is about to be marked is in MongoDB: marking follows the answer and not
the request. From it follow `BufferTypes` and `BufferLosesNothing`. `BufferStoresOnce`
is the positive side of `buffer_twice`: if every collection was registered before
`ensure_indexes`, nothing is in MongoDB twice, because a row exists only after its index.

Of `BatchUploader`: `NewestAlwaysKept`, for any documents, collections, capacity,
threshold and retries that `UploadConfig` accepts, whatever MongoDB refuses and whoever
cancels the stop. `KeepsNewest` is not inductive: a batch that has failed comes back in
front of its queue, and nothing in it says that no younger document was dropped in the
meantime. `UploaderInv` adds `InFlight`: if one was, the queue is full, so that `restore`
takes nothing back. That a queue stays full while its batch is out is where the code
relies on `flush_all` draining a collection only when its last batch is done with. The
lemmas are on the queue: what it drops (`EvictKeeps`), what comes back (`ReturnedKeeps`)
and what a flush leaves behind (`FlushKeeps`); `Smallest` says that a set of numbers has a
least one, which the first non-empty queue and the first refused document are.

Of `LogLevels`: `RemoteLevelsFollowed`, for any modules, levels, numbers of listeners,
lost messages and failing polls. `LevelsFollow` says that a level is the remote one or
will be told; it is not inductive, because what is told may be told again and differently.
`LevelsInv` adds `Heard` (the last message about a module in every listener's queue
agrees with the hash, and a listener that has ended has none), `Levelled` (once a poll has
applied the hash, a level that differs from it has a message about it under way) and
`AttachCurrent` (an attaching source has no poll beside it, so that what it applies last is
not older than what was polled).

**Station_proofs**, of `PowerPath`. `ChainGuards`: no rule of the protection undoes
another, for any chain of the six rules and any limits, while other threads set
parameters. `Guarded` is not inductive: a rule that gives up sets the command to 0, and
that is in range only because every rule so far left 0 in range.

Of `EventEmitter`: `EventsAttended`, for any number of events and any size of the queue,
over any stops, timeouts and restarts. `EmitterInv` adds to `Attended` that what was handed
over and what waits ascends *together* (`Ascends`), and that while no stop has gone past its
timeout the queue of a running emitter holds no sentinel and a worker ends on an empty
queue only (`Served`): this is where the code relies on the draining to pass over sentinels.

Only model-checked: all liveness (fairness and `ENABLED` are outside what these provers
do); the properties of components without a theorem, among them `SharesFit`, the
compensator and the notification batcher, whose statements are about sums, iterations and
sorted sequences (induction over data); among the invariants of the runs, those that put
the components of a suite together. No module with a theorem uses a RECURSIVE
operator.

## 6. Disagreements between documentation and code

With a run that shows them:

1. `queue_ontime`: with every breaker open `_worker` spins without suspending
   (`modbus/clients/queue.py:255`), and no timeout of any caller fires until a cooldown
   ends; the module promises a timeout for every request.
2. `cluster_splitbrain`: with the default configuration self-fencing comes after the
   lease has expired (`cluster/election.py:242`), and the executor is switched after
   yet another await; `Timely` in module Cluster states a sufficient condition.
3. `modes_race`: an operator's switch that waits in a hook overwrites the stop strategy
   an alarm has installed meanwhile (`controller/executor/strategy_executor.py:175`).
4. `buffer_stuck`: documents MongoDB refuses fill the replay's batch for ever
   (`mongo/local_buffer/uploader.py:358`); `max_retry_count` is never read.
5. `buffer_twice`: a collection first used after `ensure_indexes` has no unique index,
   and `write_immediate` races the replay (`mongo/local_buffer/uploader.py:196`).

Met while modelling, without a run of their own:

* A stop that comes before the run task's first step is undone by its `clear`
  (`controller/executor/strategy_executor.py:227`; set `EarlyStop` to TRUE and
  `StopReturns` fails).
* A condition that returns during its cooldown does not cancel it
  (`docs/05-Controller/EventDrivenOverride.md:175`).
* The shared queue's drain waits for a worker that waits for the registry lock the
  drain holds (`modbus/clients/client.py:593`); two tasks on one client object both
  pass the check of `_resources_acquired` (`client.py:627`).
* HALF_OPEN admits any number of requests (`docs/02-Core/Resilience.md:43` speaks of one).
* A promotion that raises after the executor went live leaves a follower that commands
  (`Faults = {"promotion"}` breaks `FollowerNeverCommands`), and `resign` gives the
  lease away before the node stops commanding.
* A device manager cancelled in start or stop forgets devices that run
  (`manager/device/manager.py:376`).
* A promotion takes over the modes of the last snapshot but only adds them to its own:
  a mode that the old leader removed comes back (`cluster/controller.py:251`;
  `docs/09-Cluster/ClusterController.md:87` speaks of inheriting the state). And with three
  nodes a fenced leader's publisher that has not stopped yet writes its modes over those
  of its successor, and a third node that is promoted next inherits them.
* The refresh may overwrite a command that was written meanwhile with the value it
  replaces (`integration/command_refresh.py:199`).
* A stop of the event emitter that outlasts its timeout leaves the sentinel for the
  next worker, which ends with it (`equipment/device/events.py`).
* A CAN device with alarm evaluators ends its snapshot loop in the first round
  (`equipment/device/mixins.py:77` reads what `AsyncCANDevice` never sets).
* The router for remote sites does not look for NO_CHANGE, as the local `CommandRouter`
  does (`docs/05-Controller/Command.md:22`, `:46` say that such an axis is not written).
  A transform that stumbles over it is caught and its mapping passed over; without one
  `json.dumps` raises outside the try (`integration/distributed/command_router.py:131`),
  and the route ends: no device of a later mapping is sent anything in this cycle.
  `AxesArrive` states both, and what still arrives.
* `RuntimeParameters.setdefault` sets a parameter and notifies no observer
  (`core/runtime_params.py:133`; `docs/02-Core/RuntimeParameters.md:54` lists it among the
  writes): a mirror does not know the default until the next change. `MirrorsAgree`
  says so.
* An ON_CHANGE target with several documents remembers its result only when all of them
  were enqueued (`manager/data/upload.py:395`): after a partial failure those that were
  stored are stored again unchanged, and if the result goes back to the one remembered
  nothing is sent, so that the collection ends with a document that no longer holds.
  `UploadsFollow` has the first as its exception and claims nothing of the second until
  a result was stored whole.
* A toggle whose answer is lost does not note its value (`equipment/device/mixins.py:291`):
  the next one writes the same value again; so may toggles that overlap, for no lock lies
  between the look at the latest value and the write. `TogglesAlternate` holds for those
  that do neither, and for all again from the next reading that shows the output as it is.
* A module taken out of the Redis hash keeps its level: neither the poll nor the channel
  tells of it (`core/logging/sink_manager.py:422`).
* The SQLite store drops a document that comes before `start` with a warning
  (`mongo/local_buffer/sqlite_store.py:168`).
* An import in the control panel takes the automatic stop off the stack, which the
  controller does not put back while its alarm lasts; an action of a system command that
  is cancelled counts as a success; a command processor comes after the protection and
  is limited by nothing.

## 7. What is not modelled, and the plan

Not modelled: device templates and the curves of the simulation (factories and data).
Left out of what is modelled: schemas, formats and validation of configuration
everywhere; string and plain numeric codecs, which are pure functions; health reports,
queries and descriptions; statistics over several devices; registering and
unregistering modes by the application; the follower's other snapshots (protection
status, last command, auto-stop flag, which take the same rounds); idempotency keys given
by a caller; the gRPC protocol file. The `note` of each component in `PROJECT.json` says
what of it is left out.

Open: a composition of SharedClient with RequestQueue in place of the reduced queue, which
would bound the drain under the registry lock; and the invariants of components that only
suites check, where the next to prove would be the provenance of `Telemetry`.
