# Napwake, in TLA+

Napwake is a Kubernetes operator that scales idle Deployments and StatefulSets
to zero and wakes them when they're needed. This directory models the operator
in TLA+, checks the models with TLC on small instances, and proves what matters
most about them with TLAPS.

Paths below are relative to the repository. `PROJECT.json` maps every
definition of a model to the lines it stands for, and lists the runs, the
mutants that show each property can fail, the hazards, and the theorems.

## The system

A ManagedWorkload names a target. The operator (`cmd/main.go`, elected leader)
reconciles ManagedWorkloads from informer caches; the doorman (its own
Deployment, several replicas) stands in for a paused target's pods, holds the
connections that come for it, and stamps an annotation that wakes it.

| Component | State it keeps | Operations | What makes it correct |
|---|---|---|---|
| Lifecycle: `internal/controller/managedworkload_controller.go`, `scaledup.go`, `pauserequest.go`, `wakerequest.go`, `protected.go`, `internal/lifecycle` | status.phase, status.pause, answered requests, the finalizer; a copy of the pause record on the target | reconcile: take on, recover, ignore, pause, resume, hand back, delete | a target Napwake turned off can always be brought back, at the replicas it had; requests act once and are answered; pauses, resumes and deletions finish |
| Autoscalers: `internal/autoscaler` | the ScaledObject's paused-replicas annotation | find, hold, release | held only while a record says what it was |
| Activity and the idle clock: `activity.go`, `automation.go`, `dryrun.go` | status.activity, an in-memory clock per workload | observe, restart, run out, veto | time nobody watched is never idle time; activity never lost |
| Dependencies: `dependencies.go`, `workloadgraph.go`, `learned.go` | spec.dependsOn, status.learned, a graph cached per reconcile | hold awake, pass wakes on, wait for Ready | no workload waits for ever, or holds another for ever |
| Doorman routing: `doorman.go`, `doorman_endpoints.go` | status.doorman, status.doormanDraining, doorman EndpointSlices, the leader's in-memory port allocator | allocate, apply slices, prune, remove, drain | a port never reaches another workload |
| Forwarder: `controller/forwarder.go`, `internal/forwarder`, `gkeneg.go` | a Deployment per workload behind GKE NEGs | apply, retire | its routes outlive no route |
| Doorman server: `internal/doorman` | routes, drains, held connections, wakes in flight, the shared key, counts of each source | sync, hold, wake, proxy, refuse | one owner per port, one stamp per wake, caps that hold, tokens every replica accepts |
| Opt-in: `optin_controller.go`, `optin_settings.go` | ManagedWorkloads made from labels | create, update, release | one ManagedWorkload per target, which says what the labels ask |
| Cost and savings: `controller/cost.go`, `internal/cost`, `internal/capacity` | hours counted in status and in memory | accrue, credit, drain | an hour counted once; no room credited that the nodes have |
| Forecast: `internal/forecast`, `automation.go`, `forecast_history.go`, `forecast_status.go` | an engine per workload | observe, predict, seed, hold off, bring forward, wake ahead | acts only once confident; learns only what lasts |
| Reads and reports: `internal/signal`, `metrics`, `gitops`, `guard`, `nodescale`, `discovery`, `cmd/kubectl-napwake` | none | | |

How they meet: the lifecycle reads what the idle clock, the dependencies and
the forecast decide, in one reconcile, and routes the doorman at the end of it.
The doorman reads ManagedWorkload status and writes only annotations. KEDA,
GitOps tools and people write the target, its labels and its ScaledObject at
any time.

What is hard about it: every read may be stale but those made past the cache;
every API write is a separate step that may fail, conflict, or be the last one
before the operator dies; the caller, KEDA and the target's controller act
between any two; and several durations (the progress deadline, drains, the
idle clock) race with all of that. `hazards` in `PROJECT.json` lists where each
of these bites.

## Modules

| Module | What it is |
|---|---|
| `Lifecycle` | the lifecycle of one ManagedWorkload, with the cluster around it |
| `PauseContract` | the abstract promise: whoever turns a target off owes it, until it is on again or off by another's doing |
| `IdleClock` | the idle clock of one workload, in memory and in status |
| `SavedHours` | the hours one workload's cost counts, and the sampler's credits to it |
| `SpareCapacity` | one sample of what the nodes couldn't hold of all that's paused |
| `Forecast` | the evidence one forecast engine keeps, and the phases it goes through |
| `Foresight` | what an engine is taught, and what the rules do by it |
| `Dependencies` | several workloads that hold, wake and wait for each other |
| `OptIn` | labels, annotations and a namespace, and the ManagedWorkloads made of them |
| `DoormanPorts` | the doorman's ports: the leader's allocator, the slices, the statuses, and whom the doorman serves |
| `DoormanWake` | how replicas of the doorman wake a workload: stamps shared, raced and trusted |
| `WakeKey` | the key the replicas share, replaced under the pages they've shown |
| `TurnedAway` | the count of the requests a pause turned away |
| `HeldConnections` | the connections one replica holds: places, endpoints, drains, dials |
| `MCLifecycle`, `MCOperator`, `MCForesight`, `MCProgress`, `MCDoorman`, `MCDoormanPorts`, `MCConnections` | constants and compositions for TLC |
| `LifecycleProofs` | theorems about `Lifecycle`, and that it implements `PauseContract` |
| `IdleClockProofs` | theorems about `IdleClock` |
| `OperatorProofs` | the same of the clocks in `MCOperator`, and theorems about `SavedHours` and `SpareCapacity` |
| `ForesightProofs` | theorems about `Foresight`, about `Forecast`, and of both in `MCForesight` |
| `DoormanProofs` | theorems about `DoormanWake`, `HeldConnections`, `TurnedAway`, `WakeKey` and `DoormanPorts`, and about the last four in `MCDoorman` |
| `DependenciesProofs` | theorems about `Dependencies` |
| `OptInProofs` | a theorem about `OptIn` |
| `ProgressProofs` | theorems about the parts of `MCProgress` |

`MCOperator`, `MCForesight`, `MCProgress`, `MCDoorman` and `MCConnections` put
components that share no state, or several instances of one, side by side. A
variable `part`, chosen at the start, says which of them a behaviour is of; the
variables of the others are blank and stay so. A property of a part is
`part = "..." => ...`. It saves nothing of the system (no two parts of one such
module touch each other's state in the code) and lets one run ask its question
of all of them.

### Lifecycle

One ManagedWorkload, its target and the target's ScaledObject (if `Keda`), at
the API server (`mw`, `tgt`, `hold`); the operator's cached copies of the first
two (`seenMw`, `seenTgt`); and one reconcile at a time (`pc`, and its copy `w`
of the ManagedWorkload). controller-runtime never reconciles one object twice
at once, so there is no second.

A reconcile follows the code from top to bottom. `Start` is `readWorkload`;
`TakeOn`, `RecoverPause`, `Ignored`, `WakeOnScaleUp`, `Decide`
(`resumeTransition` and `scaledToZero`), `WokenOrStaysPaused`, `PauseRequest`
and `IdleClock` are its stages, with the code's early returns between them.
`Prepare` to `ScaleToZero` are `handlePause` and `Pauser.Pause`; `Resume` to
`Resumed` are `handleResume` and `Pauser.Resume`; `Restore` to `DropRecord` are
the hand-back every path shares; `Delete` and `Deleted` are `reconcileDelete`.
Each write to the API server is a step. A write of the ManagedWorkload is
`WriteThen`, then `Update` or `UpdateConflict`. A reconcile that returns an
error or a RequeueAfter queues itself again (`Retry`, `End(TRUE)`).

Around it, `DeliverWorkload` and `DeliverTarget` bring the caches up to date and
queue the workload, as the watches do; `PodsMove` and `KedaHolds` are the
target's controller and KEDA; the rest (`Scale`, `Annotate`, `Edit`,
`LoseStatus`, `Crash` and so on) is everyone else, whose kinds of act a run
chooses with `Externals` and bounds with `Budget`.

What is abstracted:

- resource versions, to whether a copy is of the current version (`wFresh`,
  `seenFresh`): a write of an old one conflicts;
- times, to what they decide. A resume's waits, and a pause's, are timed from
  what the record holds (`resumedAt`, `firstReadyAt`, `pausedAt`), so the model
  lets a wait be over once its start is recorded;
- the idle clock, Prometheus, the forecast and dependents' holds, to any verdict
  they could give. The clock runs out only once the cache shows the target's
  copy of the record as it is (`ClockMayRunOut`): it takes minutes from a wake;
- `staleForRouting` may read the live phase or not: whether it does depends on
  how recently the phase was written;
- the activity annotations of the workload and of the target, to one counter;
- a stale target status counts its pods of before as running;
- `reconcileProtected` is `reconcileIgnored` but for what it reports;
- whether there is a ScaledObject never changes (`Keda`).

Not modelled here: duplicates (`checkDuplicate`; they are in `OptIn`), a
namespace being terminated (`abandonHandBack`), conditions, events, cost,
doorman routing and waiting for dependencies. The cached target may move between
two reads of one reconcile, as an informer's does.

Its properties: `RecordKept` (a target Napwake turned off has a record to be
brought back from), `HoldRecorded` (nor is a ScaledObject held without one),
`HandedBackWhenGone` (deletion leaves nothing of Napwake's behind),
`NeverScalesDownAwake`, `Restores` (a resume brings back what the pause took,
through any number of retries; run as `BroughtBack`), `RequestActsOnce`, and
`KeepsContract`: `Lifecycle` implements `PauseContract` under the mapping
`Contract`, whose `power` tells a target Napwake turned off from one others
did, and whose `owed` is a record, in the status or on the target. Liveness,
under `FairSpec`: `RequestsAreAnswered`, `WakesWhenAsked`,
`NeverStrandedMidway`, `NeverLeftOff`, `DeletionCompletes`.

### IdleClock

One workload's checks, a minute apart: what each finds of CPU and queries (busy,
quiet, or not to be read), of annotations people stamp and of a hold, how
`mergeActivity` and `observeActivity` move the clock (`memo`, in memory, and
`stored`, in status), when it's written (`statusFlushInterval`, a share of
`idleAfter`), and when it runs out, or the forecast brings the pause forward.
`Restart` is another operator, which knows what was written; `GapTolerance` is
how long nobody may have watched before the clock starts again. `Requested` is a
pause asked for, `Refill` a cache that catches up. In dry-run, Idle stands for the
pause that isn't made.

`used`, `heldAt`, `watched` and `looked` are history: what really happened, with
which `NeverPausedEarly`, `GapTold` and `WouldBePausesCounted` compare the
operator's clock. What a query answers is an input; demand, and the engines'
registry, are `Foresight`'s.

### SavedHours and SpareCapacity

`SavedHours` has the settling of one workload's hours (`accrue`, `settleCost`,
`startMonth`), at each check and each change of phase, from the snapshot of the
target's resources (which may not be read), with a second month in the middle,
status writes that conflict, a cache that lags, and the leader's sampler, whose
credits (`credited`) are in memory until a reconcile drains them. `down` is
history: what was really requested by replicas Napwake kept at zero.

`SpareCapacity` is one sample: the pools' spare room, what each paused workload
would need there, and the shares (`realise`, `spareByPool`, `heldPaused`).
`NeverCreditsRoom` compares what's credited with every way of placing the paused
replicas back. A pause midway through a rollout is left out. Prices and storage
are left out of both.

### Forecast and Foresight

`Forecast` is `Engine.Observe` and all it keeps as evidence: the scorer, the
anomaly detector's two windows, coverage, the change of a week held for a day
before it's learned, the phases, and `Expect`. The demand forecast is left out:
of each hour the model keeps how far demand was from it, which is any. Hours go
unobserved, up to `MaxGap` in a row. Left out too: a clock that went backwards
(`lastHourAhead`), and the encoding of the state.

`Foresight` is the looks that make up an hour (`Hour.Look`, `Whole`), what of
them counts as demand (`AwakeDemand`), and the rules (`HoldPause`, `PauseEarly`,
`WakeAhead`) with the clock they bend. What is forecast of an hour to come is any.

### Dependencies and OptIn

`Dependencies` has several workloads' reconciles, each of a copy of its own
object and of a graph that lags (`node`): holds by dependents that are awake,
wakes passed on (`stamped`), waits for readiness and their cycles and deadlines,
edges learned from a wake or from the environment, and namespaces that don't
allow them. Dry-run dependents, unmanaged ones and `checkDependenciesExist` are
left out; forgetting a learned edge, too.

`OptIn` has the reconciles of both kinds' controllers, each from caches that lag
and with one write, and of a ManagedWorkload what takes it on, marks it a
duplicate and hands it back. Labels are one value of three; `dryRun` and
`dependsOn` stand for the settings, since of these annotations alone a value that can't
be read does more than pass to the next level. Workloads themselves are neither
made nor deleted.

### DoormanPorts

Several workloads, whose lifecycle is reduced to the phase a reconcile's status
write may change, and their Services' ports (`Keys`), share the doorman's ports.
At the API server are each workload's `status` (its routes, its drains, what
`mayMissSlices` goes by) and its `slices`; in the operator, caches of both
(`seen`, `seenSlices`), the leader's allocator (`mem`: `claims`, `draining`,
when it loads again), and one reconcile of each workload at a time, all of them
at once; in the doorman, whom each port serves and who drains there.

A reconcile is `reconcileDoorman` and what follows it. `Start` lists the
workload's slices, from the cache or, when `mayMissSlices` says so, from the API
server, and tells a workload to route from one to stop routing. `List` and
`Merge` are a load of the allocator, in two steps, since the read is made
without its lock; `Assign` is `assign` with the lock held, and the routes and
drains that go in the reconcile's copy of the status. `WriteSlice` writes or
deletes one slice at a time, and `Release` is `removeDoorman` once they're gone.
`WriteStatus`, `WriteNothing` and `LetGo` are the end: the status written, in
the phase the lifecycle moves on to, or not, or the deletion that waits for its
drains. `Crash` is another leader, with an empty allocator and fresh caches.
`Sync` is the doorman's `syncRoutes` with `resolve`.

Time is in units of `doorman.RouteDrain`, and a `Tick` ages every drain, in the
statuses, in their copies, in the allocator and in the doorman alike. What takes
much less than a unit is over before the next: the caches catch up, a queued
reconcile starts, the doorman syncs, and clients stop following a slice that has
changed (`lingering`).

What is abstracted:

- which Services are routed, to a set of keys (`plan`) that may change, and a
  Service's slices, to one for each key;
- resource versions, as in `Lifecycle` (`seenFresh`, `fresh`);
- the phases, to awake, paused and resuming; a reconcile moves between them as
  it likes;
- a list of the cluster, to one instant;
- the doorman, to one pod that syncs atomically. `DoormanRestarts` puts another
  in its place that has no drains;
- `pick`, to any port that's free, and the keys' order, to any order;
- backoff after a failure, to a retry within the same unit: the failures in a
  row that `Budget` allows don't add up to one.

Not modelled: the caps on a workload's and a namespace's ports (a workload over
them is left as one without a free port is), address families, other owners'
slices, the forwarder, `doormanSliceSync` (which changes endpoints, not ports),
conditions, listeners and connections.

Its properties: `NoMisdelivery` (whoever a slice, present or just gone, sends to
a port is never taken for a client of another workload's), `PortsStay` (a route
keeps its port, through failures and new leaders), and `NothingLeftBehind` (no
slice outlives its workload's pause, or its deletion).

### DoormanWake

One workload, with the last-request value its pause recorded and the one it
carries (`mw`); the doorman's replicas, each with a lagging copy of it (`seen`),
one stamp in flight (`calls`), and a record of the last it made (`stamped`); and
the connections held for it (`pc`).

A connection runs `requestWake`. `Ask` is its locked part: make the stamp, or
wait for the one in flight. `Look` is `stamp` up to `allowWake`, on the cached
workload; `Patch` and `Reread` are `patchStamp`, a write and a read after a
conflict; `Finish` tells everyone who waited, and `Hear` is one of them, who
asks again if the limit was another source's. `Retry` is the retry in `await`.
`Wakes`, `Runs`, `Pauses`, `Paused` and `WritesStatus` are the operator's writes,
each of which makes every copy old; `Stamp` is a portal's.

A value is a time to the second, or to the nanosecond (`setStamp`'s way out when
the first would be no wake), which nobody else makes in that second.

What is abstracted: resource versions, as in `Lifecycle`; the rate limiters, to an
allowance that is full again every second (they refill more slowly: 30 and 200
wakes at once, one each 2 s and 0.1 s); `pausedAt`, set at the step to Paused.
Not modelled: pauses that recorded no annotations, the page, `warnUnserved`, and
a value that is removed. `Settled` keeps a workload awake until no stamp for the
pause before is about to land and no cache shows that pause: a stamp takes 10 s
at most, and a workload that has just woken stays awake for minutes. Without it
the third, unlocked write may land in the next pause; it is among the hazards.

Its properties: `WakeOnItsWay` (a connection told its workload is waking is told
right), `AnnouncedOnce`, `StampsRemembered` (a stamp that a replica leaves others
out for is there), `RefusedForItself`, and `RequestsEnd`.

### WakeKey, TurnedAway, HeldConnections

`WakeKey` is the Secret the replicas share, empty when someone replaces the key:
the first to notice fills it (`Fill`, with the conflict of whoever came second),
each reads it again every `Refresh` minutes (`Load`), and `Use` keeps the
previous key for as long as a button signed with it may last. Whoever replaces
the key waits for the last buttons of the one before. The MAC is left out.

`TurnedAway` is each replica's own count of a pause's turned-away requests, the
flush that adds it to a shared annotation (three writes, a conflict or a failure
of each, or an addition that lands unheard), and the operator's copy in status.

`HeldConnections` is a replica's connections, from accept to end, a `step` each
as `heldConn` takes them: admission's counts (in all, by workload, by source, by
both), the bytes buffered, sources forgotten and seen again (`Prune`), endpoints
listed, shared and invalidated from slices that lag, and pods read when a slice
says nothing, dials that fail, routes that drain, go and come back. Byte streams
and the idle timeouts of a connection passed on are left out.

## Runs

| Run | Module, config | Properties | Distinct states |
|---|---|---|---|
| `operator` | `MCOperator`, `Operator.cfg` | `RecordKept`, `BroughtBack` (`Lifecycle`, with caches that lag), `NeverPausedEarly`, `GapTold`, `WouldBePausesCounted` (three `IdleClock`s: dry-run, live, and one the forecast may pause early), `HoursCountedOnce`, `NeverCreditsRoom` | 2.0 M |
| `lifecycle_recovery` | `MCLifecycle`, `LifecycleRecovery.cfg` | `TypeOK`, `KeepsContract`, `RequestActsOnce`, with KEDA, lost statuses, crashes, and others scaling the target | 1.9 M |
| `lifecycle_progress` | `MCLifecycle`, `LifecycleProgress.cfg` | the liveness properties of `Lifecycle`, `HandedBackWhenGone`, `HoldRecorded`, `NeverScalesDownAwake`, with failed calls and a target deleted and made again | 0.3 M |
| `ports_changes` | `MCDoormanPorts`, `PortsChanges.cfg` | `NoMisdelivery`, `PortsStay`: two workloads, Services that change, deletions, failed writes, a dead leader, a doorman that restarts | 2.9 M |
| `doorman` | `MCDoorman`, `Doorman.cfg` | `WakeOnItsWay`, `AnnouncedOnce`, `ClicksWork`, `EachCountedOnce`, `PlacesReturned`, and `NoMisdelivery`, `NothingLeftBehind` of a slice cache that lags | 1.9 M |
| `connections` | `MCConnections`, `Connections.cfg` | `NoneLeftWaiting` | 0.5 M |
| `progress` | `MCProgress`, `Progress.cfg` | `RefusedForItself`, `RequestsEnd` (requests of one replica), `WorkloadsMoveOn`, `NeededIsWoken` (a cycle, a pair and a chain of dependencies), `OptInSettles`, `InheritingMakesNoCycle` (three sets of targets) | 0.6 M |
| `foresight` | `MCForesight`, `Foresight.cfg` | `TaughtByUse`, `NotWokenStraightBack` (the rules), `ActsOnEvidence`, `LearnsWhatLasts` (the engine) | 0.9 M |
| `stale_pausing`, `stale_copy`, `delete_lost`, `pruned_by_cache` | | the findings below | |

### Bounds

`Lifecycle`. Two replicas tell a partial readiness from a full one and a target
scaled by others from one restored; in `operator` the range of the autoscaler
(0..1 against 2 replicas) makes the clamp matter. A `Budget` of 2 or 3 acts is
what it takes to start a pause, disturb it, and ask for something else
meanwhile; the failures that need the most (`stale_pausing`) take three. One
value of each request (`MaxToken = 1`) is a request, answered or not, and what a
lost status does to it; in `lifecycle_recovery` it also keeps a second pause out,
where `stale_copy` already shows what goes wrong. Deadlock is checked in
`lifecycle_recovery`; elsewhere the system stops for good once the
ManagedWorkload is gone, or the last act and the last minute of a part are past.

`Lag = FALSE` in the two `lifecycle` runs has a reconcile start from the
current ManagedWorkload: with a cache that lags there, `stale_pausing` and what
follows from it would be all they found. `operator` has it lag, and leaves out
the acts that lead there. The cached target lags in every run.

`IdleClock`, `SavedHours`. `idleAfter` of 3 and 4 minutes against a tolerance of
2 or 3 tells a gap that counts as idle time from one that doesn't. One fault
(`Chances = 1`) in four to six minutes is enough for a clock behind its memory,
a restart and the pause after it, and for an hour counted in one month and
settled in the next. `SpareCapacity`: three nodes of two pools, one pod that isn't
Napwake's, two workloads of at most two replicas, all of their requests.

`Forecast`, `Foresight`. A day of two hours and a week of two days keep every
window of the engine's (a day's, a week's, a day before) apart; `MaxGap = 2` is
a day missed. An hour of four looks with a lead, a gap and a warm-up of one, and ten
looks, is a pause, the hour it's forecast to sleep, and the wake in the next.

`DoormanPorts`. Two workloads with a Service each and two ports are what it
takes for a port to change hands with another to move to, or to run out of ports
while one drains; in `doorman` they have one port to contend for.
`PortDrain = 2` is the code's, in units of RouteDrain. `SliceSettle = 1` is
shorter than the code's two, and `Reload = 1` has the allocator read the cluster
again every unit rather than every 60: both are harder on the code, and `Reload`
is what puts merges in the middle of everything. `Budget = 1` is one fault,
change or crash; phases change as often as they like besides. `MaxAge = 0` has a
reconcile end in the unit it starts in: `portDrain` counts on it ("the status
write and the doorman's next sync that start it", `doorman.go:67-68`), though a
reconcile may last two minutes. `Lag` is the caches a reconcile may start from
before they've caught up: the slices' in `doorman`, none in `ports_changes`,
where the Services change and `pruned_by_cache` would be all it found.
Workloads and ports are symmetric in `ports_changes`, where deadlock is checked:
time, at least, can always go on.

`DoormanWake`. Two connections on two replicas race; three on one, of two
sources, share a stamp and its refusal. `MaxTime = 1` is enough for a stamp to
be made, recorded by the next pause, and made again in the same second, the case
`setStamp` is written for. `StampInterval = 1` stands for ten seconds: a record
is trusted in its own second and not in the next. `ClickInterval = 2` has a
click of the second pause always find the first's stamp recent.

`WakeKey`: six minutes of a button that lasts two, a clock off by one and a
refresh each minute are two replacements, one of them under a button. `Refresh`
is no more than `Skew`, as in the code (a minute each); otherwise
`ClicksWork` is false. `TurnedAway`: two pauses of one turned-away request, and one flush
that fails. `HeldConnections`: two connections with one place to be passed on by
are the least that wait for each other; one with a chunk to buffer and an hour to
be forgotten in.

`Dependencies`, `OptIn`. Two workloads are a cycle, three a chain or a cycle
with a tail. What others do is bounded (`Chances`), so that in the end nothing
is under way: the liveness properties say that everyone gets there, in the form
`[]<>(\A ...)`, which implies what each module says of each of its own.

### Fairness

Nothing is assumed of people, of failures or of pods that fail; what is assumed
is what the code and the cluster do by themselves.

- `Lifecycle`: weak fairness of the operator's own steps (the work queue retries
  for ever, with backoff), of the caches' deliveries, and of the target's
  controller and KEDA. Strong fairness of `Settle`, the end of a resume's wait: a
  reconcile that retries passes the test again and again, and each wait is
  measured from a time written in the record, so once it has run out, it has run
  out for every retry.
- `DoormanWake`: weak fairness of a connection's own steps: goroutines run, and
  calls end within `apiTimeout`. Nobody has to leave, or run out of time.
- `HeldConnections`: weak fairness of each connection's goroutine, of the slices
  reaching the cache, of what was read of a pod being read again, and of the poll.
- `Dependencies`: weak fairness of each workload's reconciles, of the graph's
  watch, of pods that become Ready, and of minutes passing.
- `OptIn`: weak fairness of reconciles, and of the caches' deliveries.

In `MCProgress` and `MCConnections` one fairness formula stands for those of
several parts, joined by `\/`: of them, only one is of the part that moves.

## Findings

- `stale_pausing`. The cache shows a workload Pausing after a scale-up has
  already woken it. `wakeOnScaleUp` reads the live phase, finds that it differs,
  and leaves it at that; the reconcile goes on with the cached phase, and
  `handlePause` scales the running target to zero, with the phase Running. The
  write that follows conflicts. `scaledup.go:44-46` says it wouldn't be.
- `stale_copy`. `copyRecord` leaves out the write if the cached target carries
  the same copy. Right after a resume it can carry that of the last pause,
  dropped since. The pause that follows has no copy, so a status lost while it
  lasts leaves the target off (`managedworkload_controller.go:644-645` counts on
  the copy).
- `delete_lost`. A deletion hands back from `status.pause` alone. If the status
  was lost and not yet recovered, the target stays at zero and its ScaledObject
  held.
- `pruned_by_cache`. `removeDoorman` says that ports are let go of only once their
  slices are gone, and lists slices past the cache for that
  (`doorman.go:402-408`). A workload that stays routed does neither:
  `reconcileDoorman` lists from the cache, lets go of the port of a Service that
  has left the plan, then prunes what the cache showed. A slice written just
  before isn't there yet, and is pruned by the next reconcile, which nothing
  brings before the port's drain is over; another workload is then given the port.

### Seen outside the runs' bounds

Each of these is reachable in a model with other constants, or was read in the
code while modelling; none has a run of its own. The runs' bounds leave them out
on purpose, so that they don't hide the rest.

Of the lifecycle:

- `RecordKept` fails where the cached ManagedWorkload lags and others scale or
  touch it (what follows from `stale_pausing`); where a status is lost after a
  second pause (what follows from `stale_copy`: two pauses, a wake and a lost
  status are enough); where a target is deleted and made again while the cache
  still shows it gone, and the ManagedWorkload deleted; and where a target that
  held the only copy is deleted.
- `HoldRecorded` fails under KEDA with a pause, a wake, a touch and a lost status: a
  resume whose last write conflicted has released the ScaledObject, holds it
  again as it's retried, and then the status goes.
- `requestPause` patches the difference from the copy it read, so an override
  annotation set in between outlives it (`pause.go`, about line 385); `wake.go`
  reads what was there before its patch, not with it.

Of the idle clock, in dry-run only: a would-be pause may begin early, if use that
was seen went unwritten because of a conflict with a hold, and another operator
starts inside the would-be pause before it; and with a request and a hold, a gap may go untold.
Nothing is paused, so `NeverPausedEarly` and `GapTold` are of real pauses.

Of cost: a target whose replicas can't be read, from its ManagedWorkload's creation
and five times, over a pause, its resume and the next pause, leaves an interval from
before the pause to be counted as freed (`accrueAwake`, `settleCost`; `cost.go:136-141` has the reasoning for
one). Saved hours can exceed paused hours
(`docs/concepts/cost-tracking.md:61`): `sampler.go:337` credits from `pausedAt`
while the workload is still Pausing, and so at a month's start. Settling the
interval of a workload that's Pausing may read its replicas as zero.

Of the forecast: `settleHeld`'s loop (`phase.go:276-287`) never reaches the slot
itself, so after a gap of more than a week the change held for the day before it
isn't dropped, as the comment above it has it. `phase.go:123-127` and `:358-365`
speak of the highest phase held since the oldest anomaly still in the window; the
code keeps the highest while anomalies go on without a break. `adoptSeed`
takes a seed for what learned the same hours, though an hour observed live
between the query's end and the adoption is lost. A pause decided and then held
off by the GitOps back-off isn't vetoed again (`rules.go:79-80`, `activity.go:850-893`):
with `Backoff`, `NotWokenStraightBack` is false.

Of the doorman's ports: (a) a reconcile that starts from a status and slices
both from before its routing picks another port and moves its slice, then fails
to write the status; the next goes back to the first port, but `applyDoormanSlice`
compares with the cached slice and writes nothing, so the slice stays on a port
that drains. (b) A leader that dies between writing a slice and
the status: the next leader's `removeDoorman` deletes the slice and
records no drain, and the port can be given away while clients still follow the
slice. (c) A reconcile held up between a port's release and its status write for
half the port's drain (`doorman.go:69`). (d) A delete of a slice that keeps
failing, with backoff, while the workload stays routed and its port drains. With
two keys, one Service's old port may also be given at once to another of the same
workload, which `NoMisdelivery` allows, as the allocator does.

Of opt-in: two ManagedWorkloads made from the label for one target, if the plain
name is freed while the cache still shows it taken (`optin_controller.go:373-374`;
one is marked a duplicate); a release that deletes by name, with no
precondition, against `docs/reference/labels-annotations.md:11`; a target both of
whose names are taken isn't queued when one is freed; a hand-written
ManagedWorkload that's being deleted isn't waited for.

## Proofs

All for every value of the constants that satisfies the modules' assumptions, and
for any number of steps. Each rests on an inductive invariant that TLC checked on
the runs' instances first; the lemmas go by the shape of the model, a lemma for each
helper the actions share, one for each action or group of them, then the step, then
the theorem.

| Theorem | States | Beyond the modules' assumptions |
|---|---|---|
| `LifecycleProofs!TypeCorrect` | `Spec => []TypeOK` | |
| `LifecycleProofs!ActsOnce` | `Spec => RequestActsOnce` | |
| `LifecycleProofs!ContractKeepsRecord` | `KeepsContract => []RecordKept` | |
| `LifecycleProofs!ContractKept`, `NeverLost` | `KeepsContract`, `[]RecordKept` | `Relies`, and `[][CachesShow]_vars` |
| `LifecycleProofs!HoldsRecorded`, `LeavesNothing` | `[]HoldRecorded`, `[]HandedBackWhenGone` | no lag, no lost status, and `[][CachesShow]_vars` |
| `LifecycleProofs!KeptWhateverTheCache` | all three | no lag, no lost status, no target deleted |
| `LifecycleProofs!AwakeLeftUp` | `NeverScalesDownAwake` | no lag |
| `LifecycleProofs!RestoresTaken` | `RestoresWhatItTook` | nobody else scales the target (`ScaledByNapwakeAlone`) |
| `OperatorProofs!BroughtBackBeside` | `BroughtBack`, in `MCOperator` | the same |
| `DoormanProofs!NoWakeIsLost`, `RemembersRight`, `WakesAreAnnouncedOnce`, `RefusalsAreOnesOwn` | `WakeOnItsWay`, `StampsRemembered`, `AnnouncedOnce`, `RefusedForItself` | |
| `DoormanProofs!PlacesAlwaysReturned` | `[]PlacesReturned` of `HeldConnections` | |
| `DoormanProofs!AlwaysCountedOnce` | `[]EachCountedOnce` of `TurnedAway` | |
| `DoormanProofs!ButtonsWork` | `[]ClicksWork` of `WakeKey` | `ButtonOutlasts` |
| `DoormanProofs!NothingStaysBehind` | `[]NothingLeftBehind` of `DoormanPorts` | |
| `DoormanProofs!PlacesReturnedBeside`, `CountedOnceBeside`, `ButtonsWorkBeside`, `NothingLeftBeside` | the four, in `MCDoorman` | `ButtonOutlasts` for the third |
| `DependenciesProofs!DependenciesTyped` | `[]TypeOK` | |
| `DependenciesProofs!NeededWoken` | `[]NeededIsWoken` | no stamp fails |
| `ProgressProofs!NeededWokenBeside` | the same of the cycle and the pair in `MCProgress` | |
| `OptInProofs!NoCycleInherited` | `[]InheritingMakesNoCycle` | |
| `ProgressProofs!NoCycleBeside` | the same of the two parts of `MCProgress` with lists | |
| `ProgressProofs!RefusedBeside` | `[]RefusedForItself`, of both parts of `MCProgress` with requests | |
| `ForesightProofs!LearnsLasting` | `[]LearnsWhatLasts` | `MaxGap < Week` |
| `ForesightProofs!ActsOnlyOnEvidence` | `[]ActsOnEvidence` | |
| `ForesightProofs!TaughtOnlyByUse` | `[]TaughtByUse` | |
| `ForesightProofs!SleepsOnIt` | `NotWokenStraightBack` | `~Backoff` |
| `ForesightProofs!LearnsBeside`, `ActsBeside` | the engine's two, in `MCForesight` | `MaxGap < Week` for the first |
| `IdleClockProofs!IdleTyped` | `[]TypeOK` | |
| `IdleClockProofs!NeverEarly` | `NeverPausedEarly` | not dry-run |
| `IdleClockProofs!GapsTold` | `GapTold` | not dry-run, and `TellsFirst` |
| `OperatorProofs!NeverEarlyBeside`, `GapsToldBeside` | the two, in `MCOperator` | for the second, `idleAfter` over two minutes and `EarlyAfter` over the tolerances |
| `IdleClockProofs!WouldBePausesTrue`, `OperatorProofs!WouldBeBeside` | `WouldBePausesCounted`, and so in `MCOperator` | dry-run |
| `OperatorProofs!HoursOnce` | `[]HoursCountedOnce` | `ReadFails` |
| `OperatorProofs!NeverCreditsWhatFits`, `NeverCreditsBeside` | `[]NeverCreditsRoom` of `SpareCapacity`, and so in `MCOperator` | |

### The lifecycle

`TypeOK` alone is not inductive: the steps that scale a target read the fields of
a pause record, which is nil unless some earlier step put it there (the code
dereferences `status.pause` in `handleResume` without looking). The invariant is
`TypeInv`, which adds `PauseInHand`: at each step that reads the record, there is
one. That depends in turn on phases: a `Pausing` or `Resuming` copy that has
passed `recoverPause` has a record.

`ActsOnce` holds though the status that keeps the answer can be lost, and any
copy of it may be stale. `AnswerInv` says why. A request that has acted is one the
status answers, unless the status has lost its phase. A copy read at the current
version tells of the requests what the ManagedWorkload does, or answers them
(`Answers`), so a stale one that would act again conflicts. And a reconcile of a
status without a phase gets no further than taking the workload on, which answers
them (`StillNew`).

`ContractKept` says that `Lifecycle` implements `PauseContract` step by step.
The invariant, `ContractInv`, is of some forty conjuncts: what the copy on the
target says of the record (`CopyInv`), what the ScaledObject's hold says of it,
and what is left to undo (`RecordInv`), and, at each step of the reconcile,
how much of that its own copy already knows. What it needs of the world is
written as it is:

- `Relies`: a reconcile starts from the current ManagedWorkload (`~Lag`; without
  it, `stale_pausing`), and there aren't both lost statuses and deleted targets, as a
  copy can't make up for a status lost if it went with the target.
- `CachesShow`, an action property: at `Restore` a cache that shows no target is
  right about that; where statuses are lost, at `RecoverPause` and `CopyRecord`
  the cache shows the copy the target carries. `stale_copy` shows what happens
  otherwise. The cache may lag at every other step.

Where no status is lost and no target deleted, `CachesShow` holds of itself
(`KeptWhateverTheCache`). `AwakeLeftUp` has an invariant of its own, `DownInv`: a
reconcile about to scale down has seen a phase that isn't awake, and whatever has
changed that since has made its copy old.

`RestoresTaken` says of each step that scales up that it scales to what the pause
took, though the number travels from the target to the record, the copy of it, the
ScaledObject and a reconcile's own `n`, may be lost from some of these and found
again in others, and may be recorded anew by a pause that starts while the resume is
still settling. `took` itself changes on the way: a target that was at 1 is brought
back at an autoscaler's minimum of 2, and then taken down from 2. What doesn't
change is what a number comes to (`Resumes`, which gives the same of what it gave).
So the invariant is that there is one `c` to which all of them come (`Alike`): the
record in status, cache and hand, its copy, the hold, the target's replicas and
`took`; and that a reconcile about to scale up has `c` for its `n`, of a target that
was taken down (`Within`). It needs that nobody else scales the target or deletes
it, or holds its ScaledObject (`ScaledByNapwakeAlone`): that changes what is to be
brought back, and a record read before it no longer says so. It needs nothing of
the caches, nor that a status is kept.

### The doorman's wakes

`WakeInv` says of a cached copy, and of one a stamp is about to be made from, that
a pause it shows is the last one, stamped no less since, and that it's the
workload as it is if it counts as current (`CachesRight`, `CopiesRight`); of a
replica's record, and of whoever is told "ok", that the pause it's of is stamped or
over (`Remembered`, `ToldRight`); and of a connection's nanosecond value that it made
it before the one it's about to make (`ValuesOnce`), so that a stamp never repeats
what the pause recorded. `AnnounceInv` adds that a workload that's to be woken has
no wake announced, and `RefuseInv` that a refusal being told, or kept, is of one's
own source.

### The doorman's counts

`PlacesReturned` and `EachCountedOnce` compare a counter with a sum: over the
connections, of what each takes; over the replicas, of what each has yet to add.
The models write sums with the community modules' folds, which are recursive
functions. The library's induction theorems can't be used for these here, but its
well-founded minimum can (`WFMin`: a set of subsets that isn't empty has a least
one). `SumIsTotal` takes the least set of which the fold isn't the number of units
in it, counted as the cardinality of a set of pairs, and takes an element away. The
rest is about cardinalities. `SumMoves` is what all else uses: a function that
changes at one argument changes its sum by as much. The number of connections and of
replicas is finite (`Assumptions` of both modules), and any.

`PlaceInv` adds types to `PlacesReturned`, which is as good as inductive: each step
moves the counts, overall, of the source, of the workload and of the source at the
workload, by as much as it moves its connection between the steps that take a place
(`ConnMoves`), and gives back the chunks it had buffered. That goes for every way
out of `heldConn`, and for a source forgotten meanwhile.

`AwayInv` says, of each pause, that what the annotation has of it and what the
replicas have yet to add (in `away`, or in a flush under way) are together no more
than was turned away (`NeverMore`), and no less but for what was displaced by a later
pause's count (`NeverLess`), or unless an addition that landed was taken for one that
failed. A flush that patches over a workload that changed since must fail: `StillCurrent`
says what a flush's base, if it still is the current version, says of the annotation.

`KeyInv` is about time. A key comes in only once the last button of the one before
the last has run out, so that any two are a button's time apart
(`KeysInTurn`); a replica has read it within `Late`, what that takes when as many
reads fail as may (`NotLate`). So a replica is never two keys behind
(`AtMostOneBehind`), and the others still take the key it has (`KeepsPrevious`).
`ButtonOutlasts` is what that needs of the durations:
`Refresh <= Skew` and `(1 + KeyFaults) * Refresh < TTL + Skew`. In the code a refresh
is a minute, as is the skew, and a button lasts ten (`wakekey.go:35`, `token.go:35`,
`token.go:39`), so it holds of up to nine reads that fail or replicas that restart;
with more, or a refresh that's longer than the skew, `ClicksWork` is false.

### The doorman's ports

`NothingLeftBehind` is of one workload at a time: what another's reconcile does
leaves it as it was (`ReconcileOthers`, `BehindStays`), so `BehindInv` is a
conjunction over the workloads, `BehindAt`:

- `RoutesAlive`: a reconcile that is making slices is of a workload that was read as
  paused or resuming, and still is, and that hasn't been let go of. A phase changes
  only by the reconcile's own write, and a copy that isn't the live phase isn't
  routed (`staleForRouting`).
- `Unroutes`: where the copy says awake or deleted and no deletion of a slice has
  failed, what slices remain are those the reconcile has yet to delete, so that it
  ends with none.
- `DrainsBare`: a workload whose drains are waited for has none, by the above.
- `SlicesKnown`: nor has one that has been awake for `SliceSettle` any that the cache
  doesn't know of, since a tick brings the caches up to date and no slice is made
  from then on. That is when `mayMissSlices` trusts the cache again; before, it has
  the API server asked.
- `CopyFits`: a fresh copy, or cache, says what the status does, and the cache has
  shown a deletion by when a drain has begun or the workload is gone.
- `RestsBare` is the property.

It holds with both caches lagging, any `MaxAge`, and leaders that die at any step.

### Dependencies

`EdgeInv` has two parts. What's declared by a workload that's awake or waking, and
is going to zero or there, is stamped (`OnItsWay`). What's declared so and is quiet, but
still runs, won't be paused before the graph has told of the dependent
(`HeldInTime`): a pause reads the graph, and a wake passed on leaves its stamp before the
graph shows the wake. A stamp that couldn't be written is made again only by the next
reconcile, hence the hypothesis; the run `progress` has it fail, and checks that the
wake goes through in the end.

### Labels

`InheritingMakesNoCycle` compares what two recursive functions reach in as many
steps as there are workloads: `LeadsTo`, which the code walks as a queue, and
`Depended`. Each is what walks along the lists reach (`WalkedStep`), which says it
without recursion, and so that the functions are what their equations say
(`NamedAre`, `DependedAre`). As long as the first hasn't come to the workload itself,
the second stays within it (`StaysWithin`, by the first step at which it wouldn't):
what any other workload depends on is its own list, or the namespace's. Nothing is
said of how the labels and annotations came about: only that they are ones
(`ListsTyped`), so it holds of every state that users can make.

### The forecast

`HeldInv` follows each change held for a day by its age: it's younger than a day,
and as old as the break that made it, so what is settled is exactly a day old. It is
false for gaps of a week and more (above), hence `MaxGap < Week`. `EvidenceInv`
ties the engine's two counts of hours to those scored since the last change of
regime, and a phase that acts to a confidence that has earned it. The
Holt-Winters arithmetic takes no part in either.

`UseInv` says that an hour under way is busy only if it was used, which needs what
the activity clock remembers: if its source is use, then of an hour that was used, or
one that's over, or of a start-up, which `AwakeDemand` leaves out. `QuietInv` says
that nothing is forecast busy of the hour a pause was decided in, nor of the next,
while what's forecast is what was then. `LearnsBeside` and `ActsBeside` carry the
engine's theorems into the composition the run checks.

### The idle clock

`TimeInv` has the types, and nothing ahead of the present. `KnownInv` is the
argument: an operator that remembers the workload remembers its use, or the stamp
that told of it, and since when it's been watched, of which nothing was evaluated
after it last looked; one that has yet to look remembers nothing, and starts from a
status whose age says whether it can be trusted. `UntoldInv` adds that an operator
remembers each gap it hasn't told of, and that its clock hasn't been evaluated since
it restarted for it. `TellsFirst` is that a pause waits longer than a gap may last:
`idleAfter` over two minutes (the code allows one) and an early pause's 20 minutes
over the tolerance's 7.

In dry-run `DryInv` follows the would-be pause: the cache knows when it began, or it
has just begun; it has been Idle for as long as it has lasted; and no clock, stored,
cached or remembered, is past its beginning but by use since (`Backs`), a stamp
being no later than the use it tells of. So one that ends was ended by use or a
hold since it began, never by a gap in watching, and adds no more than the time it
was Idle for.

### The hours

`CostInv` has the types, the order of the times in status, copy and sampler
(`CostTimes`), and the sums (`CostCounts`): saved and credited hours, with what
the sampler may still credit of the pause under way (`Uncredited`), are never more
than what was down; tracked ones never more than the month has had. A target whose replicas haven't been read
since its ManagedWorkload was made may leave an interval to a later phase;
`Failed` is how many reads must have failed for it to have got there. `ReadFails`
says that no reads fail, or that fewer than five things go wrong in all; with five,
TLC finds the violation above.

### The room on the nodes

`RoomInv` is short: shares are none, or what a sample would give now. All else is
arithmetic, with sums counted as the doorman's are: a sum is that of its parts
(`TotalOfParts`), and a table's rows and columns sum up alike (`TotalEitherWay`).
Then, place by place:

- A workload holds in a pool what its replicas that ran there request (`HeldIs`,
  `NeedsIs`), the division in `heldPaused` being exact.
- Shares are rounded down, so a place's add up to no more than its shortfall
  (`SharesWithin`), and all of them to no more than the shortfalls (`CreditWithin`).
- Replicas that are back in a pool have room there, with the guests, those whose
  pool wasn't recorded (`RoomFor`). So a pool's shortfall and its guests are no more
  than those of the pool that aren't back and what it has left once its own are held.
  Summed up over the pools, and with `left` for the guests, that bounds the
  shortfalls by what the replicas that aren't back request (`ShortWithin`).

### Only model-checked

- Every liveness property: TLAPS has no ENABLED here.
- `PortsStay`.
- `NoMisdelivery`: it has no general theorem. With `Lag = {}`, two acts of others
  are enough to break it: a deletion, and a leader that dies between writing a slice and
  the status (b, above). What its bounds stand for would have to be stated first.

## What is left

Not modelled: the forwarder's retirement; `kubectl-napwake`'s scans and commands
(its writes are the annotations that `Lifecycle`'s others set); the seeding of a
forecast from Prometheus' history; signals, metrics, GitOps detection, the
guard and the node report, which read and report; charts and wiring.

To model next: `DoormanPorts` with two keys, `MaxAge > 0` and the caps;
`pause.go` and `wake.go` of the command line with their races; the forwarder.

To prove next: `PortsStay` and `NoMisdelivery` with `Lag = {}` and no crash.
