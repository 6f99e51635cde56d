# A formal model of csi-driver-localstorage

TLA+ modules, TLC configurations and TLAPS proofs about the driver in `src/`
(`caoyingjunz/csi-driver-localstorage`): a CSI driver that gives pods
directories of the node they run on, and keeps the books of each node's storage
in a custom object, the `LocalStorage` of the node.

Contents: [the system](#1-the-system) ·
[modules and code](#2-the-modules-and-the-code-they-model) ·
[runs](#3-what-is-checked) · [fairness](#4-fairness) ·
[proofs](#5-what-is-proved) · [disagreements](#6-where-code-and-words-disagree) ·
[not modelled](#7-what-is-abstracted-and-what-is-not-modelled) ·
[plan](#8-plan) · [how to run](#9-how-to-run)

## 1. The system

```
            kube-scheduler ──HTTP──► scheduler extender ──cache──┐
                  │ assigns a node                               │
                  ▼                                              ▼
 provisioner ──gRPC──► node plugin ──Update──► API server ◄──Update── storage controller
 (one per node)         │  ▲  │                │  ▲   │                     (the leader)
                        ▼  └──┼───── watch ────┘  │   └── webhooks (every controller process)
                    directories                   │ Create
                                             job, users
```

### Inventory

**API object and helpers** (`pkg/apis`, `pkg/util/util.go`). State: phase
(`"" → Pending → Initiating → Ready`, `Terminating` on deletion), finalizer,
deletion timestamp, backend (`path`, `lvm`), the node-size annotation,
`Capacity`, `Allocatable`, the volume list. Operations: helpers on a copy
(`AddVolume`, `RemoveVolume`, `SetLocalStoragePhase`, ...).
*Correct when* `Allocatable` is the capacity less the listed volumes.

**Node plugin, initialisation** (`pkg/localstorage/localstorage.go`). State: an
informer cache that lags, event handlers behind a filter on phase, a
rate-limited work queue, one worker, the plugin's mutex. Operations: `sync`
(Pending → Initiating, then capacity and Ready), `handleErr`, retries up to 15,
resync. *Hard:* it writes whole copies of an object others write too; a retry
may run long after its reason is gone; events are filtered by phase.
*Correct when* an object that can be initialised becomes Ready, and nothing
written by others is undone.

**Node plugin, CSI controller service** (`pkg/localstorage/controllerserver.go`).
State: the volume list (in the object) and the directories (on disk), which no
transaction spans. Operations: `CreateVolume` (directory, then Update),
`DeleteVolume` (Update, then directory), each under the mutex from reading the
cache to returning. *Hard:* conflicts, lost replies, requests applied after
their caller gave up, crashes between the two halves, repeated calls.
*Correct when* a listed volume has its directory, a returned volume stays
listed, a deleted one is gone from both, and a deletion completes.

**Storage controller** (`pkg/controller/storage`). State: informer cache,
queue, five workers. Operation: `syncStorage` (Terminating for an object being
deleted, Initiating for a Pending one). *Hard:* it races with the plugin on the
same object from a cache of its own. *Correct when* neither undoes the other
and an object under deletion ends as Terminating.

**Admission webhooks** (`pkg/webhook`). The mutating one sets finalizer, phase
and volume list; the validating one checks names, backends, the immutability of
the node, and that a node has no other object, in a cache. *Hard:* the check is
a read of stale state, before the write it guards. *Correct when* no version
has both backends, the finalizer is never skipped, a node has one object.

**Job** (`cmd/localstorage-job`, `CreateLocalStorages`). Lists nodes and objects
and creates what is missing, stopping at the first error; its pod is restarted.
*Correct when* a pod that ends well has left no labelled node out, and in the
end every node has its one object.

**Scheduler extender** (`pkg/scheduler`). Stateless but for its informers:
`Filter` lets a node pass if it is Ready and the claim fits its cached
`Allocatable`; `Score` is the free share. *Hard:* it decides on a cache that
lacks what it let through a moment ago. *Correct when* no node is given more
than it has, what it decides on is there to be read (a Ready object has sizes),
and every pod that fits runs.

**Volume cache** (`pkg/cache/store.go`; no command uses it). A map in memory,
dumped to a file at every change. *Hard:* failing and torn dumps, restarts.
*Correct when* what was acknowledged survives.

**Controller process** (`cmd/localstorage-controller`, `pkg/signals`). Webhook
server, leader election, signals. *Correct when* a controller that has lost the
lease is gone within a bounded time, one runs again after every failure, and a
shutdown ends.

**Server processes** (`main` of plugin, extender and controller,
`pkg/localstorage/server.go`, `pkg/signals`, the informer factories). State: how
far `main` and `Run` are, which informers a factory knows, runs and has synced,
the signal handler and its channel, the plugin's socket file. *Hard:* the order
of the calls in `main` decides which informers are ever run; a signal, an outage
or a crash may fall between any two of them; a socket file outlives its process.
*Correct when* none works on a cache that holds no list yet, each serves in the
end, and signals end it.

The remaining parts (node and identity services, which answer constants;
generated clients; scheme and constants; manifests) are listed with the reason
they are left out in `PROJECT.json`, and so are the hazards, each with the line
where it bites and the properties that watch it.

## 2. The modules and the code they model

| module | code | instance | proofs |
|---|---|---|---|
| `LocalStorageObject` | object type and helpers | – | – |
| `ApiServer` | API server (external) and the webhooks on the path of a write | – | – |
| `WorkQueue` | client-go work queue with `handleErr` of both components | – | – |
| `NodePlugin` | informer, worker, `sync`, `CreateVolume`, `DeleteVolume`, process | `MCNodePlugin` | `NodePlugin_proofs`, `LocalStorageSystem_proofs` |
| `VolumeSizes` | the sum of the sizes of a set of volumes, for properties of the plugin and the extender | – | `VolumeSizes_proofs` |
| `VolumeLedger` | abstract specification, implemented by `NodePlugin` | – | – |
| `StorageController` | `pkg/controller/storage` | – | – |
| `LocalStorageSystem` | plugin ∥ controller ∥ API server ∥ users | `MCLocalStorageSystem` | `LocalStorageSystem_proofs` |
| `NodeBinding` | job, users, validating webhook, uniqueness of names | `MCNodeBinding` | `NodeBinding_proofs` |
| `SchedulerExtender` | `Filter`, `Score`, kube-scheduler and plugins around them | `MCSchedulerExtender` | `SchedulerExtender_proofs` |
| `VolumeCache` | `pkg/cache/store.go` | itself | `VolumeCache_proofs` |
| `ControllerManager` | election, signals, life of a controller process | `MCControllerManager` | `ControllerManager_proofs` |
| `ServerProcess` | the three commands from `main` to exit: informers, `Run`, socket, signals | itself | `ServerProcess_proofs` |

`NodePlugin`, `StorageController` and `LocalStorageSystem` share one API server;
`NodeBinding`, `SchedulerExtender`, `VolumeCache`, `ControllerManager` and
`ServerProcess` stand alone, at the abstraction their own question needs. `map` in `PROJECT.json`
gives for every definition the lines it stands for.

### The API server (`ApiServer`)

`log` is the sequence of versions the object of one node went through, with
`NoObject` where there was none. A position is a `resourceVersion`; an informer
cache is a position the reader has come to. `Update(rv, new)` holds only when
`rv` is the last position (optimistic concurrency); it runs the webhooks and
appends. A write that changes nothing makes no version. `Abandon` is a caller
that gives up: its copy goes into `late` and may be applied later
(`LateArrives`) as long as its version is the last. Users (`UserCreate`,
`UserEdit`, `UserDelete`) write through the same webhooks and are bounded by
`MaxLog`; components are not. The resource has no status subresource, so that a
manifest may bring a status when it creates an object: `Submitted` has the phase
of an object that is not initialised, or none, and any volumes, which the mutating
webhook drops. That users submit no sizes, no phase that comes with them, and no
status in an edit is an assumption of the model: no webhook looks at them.

### The node plugin (`NodePlugin`)

| variable | code |
|---|---|
| `seen`, `notified` | the informer's store; how far its handlers have been called |
| `queue` | the key in the work queue: dirty, processing, waiting for a retry, requeues |
| `op` | who holds `ls.lock`, with the copy it is about to Update and the version that copy was read at |
| `dirs` | directories under the volume dir |
| `used` | UUIDs drawn; `pv` is what the provisioner was told of each volume |
| `up` | the process |

A handler is two or three steps: *begin* takes the lock, reads the cache and
prepares the copy (`SyncPending`, `SyncInitialize`, `CreateBegin`,
`DeleteBegin`), *commit* is the Update and all that follows its reply
(`SyncWritten`, `CreateWritten`, `DeleteWritten`, then `RemoveDir`). Between
them everything outside the process may happen, and inside it the informer. An
Update may also be refused (`WriteRefused`: a conflict, or any error) or given
up (`WriteAbandoned`). `Crash` may come at any step. `CreateVolume` before the
object is Ready dereferences a nil `Allocatable` and panics after it made the
directory: `CreatePanics`, with the process down.

### The controller and the system

`StorageController` is the same shape with one step less (`CtlSyncBegin`,
`CtlWritten`). A queue never hands one key to two workers, so that for one
object five workers are one. `LocalStorageSystem` interleaves it with
`NodePlugin` on the same log.

### The others

`NodeBinding`: `requests` are creates on their way, admitted by the webhook
against `history[listed]`, its lagging cache, and stored later against the last
element; each pod of the job keeps `lsNodeNames` and its place in the loop.
`SchedulerExtender`: `history[1]` is what the extender's informer has, the last
element what the API server has; a pod goes pending → filtered → scored →
assigned, and its volumes are provisioned in the background. A storage is
missing (`NoStorage`), not yet initialised (`NoSizes`: its quantities are nil) or
sized. The nodes in `Unstable` have their object removed once and created again;
a volume remembers whether its node's object still lists it, since
`DeleteVolume` gives back the size of listed volumes only. What `sync` writes is in
two actions: `StorageReady` for an object without sizes, and `StorageRedeclared`
for one that has them, and perhaps volumes: the whole capacity becomes allocatable
again (what `PluginResync` shows of the plugin, at most `MaxRedeclared` times in a
run). It may do so at any moment; the model does not ask whether a key is left. Two
auxiliary variables say what the properties except: `given[n]` is what the last
such sync of the present object of `n` gave away, and `overtaken` has the pods whose
decision did not see all that was on its way (the cache showed more than there was,
or another pod was under way), or had the object changed under it.
`VolumeCache`: memory, file and what callers were told; `Truncate` and `Written`
are the two halves of `os.WriteFile`. `ControllerManager`: the lease as its
holder, its age and the time since it changed hands. A write of it is two steps:
`LeaseWritten` when it is stored, `ReplyHeard` when the process learns of it, up to
`MaxDelay` later, or never (`ReplyLost`, and what `Gone` leaves behind as
`drifting`). Others respect the lease from the write on; the process counts down
`left` from the reply.
`ServerProcess`: a behaviour is the life of one command. The calls of its `main`,
in their order, are a sequence (`Program`), since what is asked of a factory after
`Start` is never run; `run` is where the server's `Run` is; the signal handler is
a channel for two and a goroutine that takes the first signal as a cancellation
and the second as `os.Exit`. A crash, a fatal error and SIGKILL leave the
plugin's socket file, which the next process removes before it listens.

### Slips

An operator whose comment begins with *Slip* is no part of any specification.
It is a plausible mistake in the definition that follows it (a dropped check, an
error not looked at, a swapped order), kept to show that the property it is
paired with (`mutants` in `PROJECT.json`) notices it; a few belong to the further
configurations of section 3.

## 3. What is checked

Twelve runs are listed in `PROJECT.json`. Ten pass; in two TLC finds the
disagreement the run is there to show.

| run | question | bounds |
|---|---|---|
| `PluginVolumes` | do volume list, directories, replies and `Allocatable` stay in step? | 2 volumes (symmetric), 1 retry, 1 abandoned request, users write while the log is shorter than 2 |
| `PluginUsers` | do syncs and handlers respect users' edits, deletion and re-creation? | 1 volume, log 7 for users, backends and annotation edited while it is shorter than 3 |
| `PluginDeletion` | does a deletion complete? | 2 volumes, no abandoned request |
| `PluginResync` | *violation:* is `Allocatable` what the listed volumes leave? | as `PluginVolumes` |
| `SystemSafety` | do plugin and controller undo each other, or leave a Ready object without sizes? | 1 volume, 1 late write, users create and delete only, users' log 6, no component that is more than 1 version behind goes on |
| `SystemLiveness` | does an object become Ready, and Terminating for good? | no volume, 1 late write, users add the path at most, users' log 3, a lag of any length |
| `BindingJobs` | does the job give every node one object? | 2 nodes, 2 pods at once, 2 troubles (refused requests, killed pods), 4 restarts |
| `BindingUsers` | *violation:* does the webhook keep a node to one object? | 2 nodes, a job, a user |
| `SchedulerPlacement` | does what `Filter` has judged fit? do sizes add up? does each pod run? | 2 nodes of unequal size, one whose object is removed and created again; 2 pods, one with two local claims; sizes declared again once; a cache at most 2 versions behind |
| `CacheFailures` | does an acknowledged set survive? | 2 IDs, 2 values, any number of crashes and failing dumps |
| `ManagerElection` | how long may two controllers run at once? always one again? | 2 processes, 15/10/2 s as in the code, replies up to 10 s late or lost, 2 crashes or signals |
| `ServerLife` | does a process work on empty caches? does it serve, and end? | each of the three commands, 3 crashes, signals or outages at any moment |

### What the properties say

*Plugin.* `VolumesHaveDirs`: a listed volume has its directory.
`BoundVolumesKept`: a volume the provisioner was given, and has not released, is
listed, unless the whole object was removed. `ReleasedVolumesGone`: a volume
reported deleted is off the disk and the list, and no request on its way can
bring it back. `AllocatableNotUnderstated`: every deletion gives back what its
creation took. `IInv`, the inductive invariant, includes type correctness.
`ImplementsLedger`: each version of the object is one step of
`VolumeLedger`; a volume enters once, leaves once, and the free space moves with
it. `EditsKept`: a component's write, which carries the whole object, does not
put an older annotation, backend or deletion mark back. `NeverBothBackends` is
the `// never happen` of `sync`. `RemovedOnlyWhenDeleting` is what the finalizer
is for. `SyncsNotForgotten`: an object that `sync` has still to write, and whose
last version the handlers have been told of, has its key in the queue, in the
delaying queue or with the worker; only the last of `maxRetries` failures changes
that. (A resync would find it again, but only after 300 s.) `DeletionCompletes`:
deletion, repeated, gets done. `AllocatableExact` is the property of `PluginResync`, which the code breaks (section 6).

*System.* `NoStepBack`: once initialised an object is never set back to Pending
or Initiating by whoever holds an older copy. `ReadyHasSizes`: no version that an
informer may hold is Ready without the sizes that the extender dereferences.
`CtlSyncsNotForgotten`: the same of the controller's queue and an object that wants
another phase; it is why a Ready written over Terminating is seen again without
waiting for the resync. `EventuallyReady`,
`SettlesTerminating`: the event filters, which look at the phase, do not lose an
object; and the Ready that a late sync writes over Terminating is put right.

*Binding.* `OneObjectPerNode`, `DoneMeansBound`, `EventuallyBound`, and `JobInv`,
the inductive invariant.

*Scheduler.* `NoOvercommit`: the volumes that `Filter` has judged (of the claim it
looks at, the first local one of a pod, by a decision that was not overtaken) fit
their node, or exceed it by what a repeated sync has given away. It does not say
that a node is never overcommitted; it says that the three ways to that are the
only ones, and that pods overtaken, or with more claims, take nothing from the
others. `SizesAddUp`: what an object has left and the sizes of the volumes it lists are
its capacity and what was given away for good, so that no node gains space by
the end of a pod whose volumes an earlier object listed, and none loses any.
`EveryPodRuns`: neither the cache's lag, nor a refusal, a panic of `Score` on an object without
sizes, or an object that went away keeps a pod from running and leaving.

*Cache.* `SetsDurable`: a cache that is up has every acknowledged set, whatever
dumps failed and whatever starts lie between. After a torn write it stays down; the
property does not say otherwise. `CacheInv` is its inductive invariant. *Election.*
`OverlapBounded`: a controller whose lease another process holds ends in time.
client-go lets a leader run for `RenewDeadline + RetryPeriod` from the *reply*
to its last renewal, and others take the lease `LeaseDuration` after the *write*.
With a reply that is `MaxDelay` late the two may run side by side for
`MaxDelay + RenewDeadline + RetryPeriod - LeaseDuration`: 7 seconds when a renewal
is answered at the last moment its own deadline allows. (The request that acquires
the lease has no deadline of its own; a longer delay is a larger `MaxDelay`.) What
two controllers write meanwhile goes through `resourceVersion` and is in `ApiServer`
as late writes. `LeaseInv` is its inductive invariant. `AlwaysAgainController`.

*Processes.* `WorksOnSyncedCaches`: nothing is answered or synced from a cache
without a list, not even when a signal ended the wait for it. `InformersStarted`:
no `main` waits for an informer that its factory was asked for after `Start`.
`EventuallyServes`: informers are known to their factory in time, and what a crash, a signal or an
outage leaves behind is got over. `PluginShutsDown`: one signal ends the plugin
although its `Run` never returns. `SecondSignalEnds`: two end any process, however
close.

### Why the bounds are enough

The properties of the plugin relate one volume to the object, or two volumes to
each other (a copy that lacks the other's entry), so two volumes show every way
a write can lose an entry; with one the run affords longer histories. In the
plugin a user's write only serves to make copies stale or to end the object:
`PluginVolumes` leaves that to the plugin's own writes (two handlers and a sync
against a lagging cache), `PluginUsers` has seven versions, enough for a first
object with a volume (when it is submitted as Initiating), its removal, and a second one. One abandoned request is
enough for each version, since two of the same version exclude each other; the
proof covers any number. In `SystemSafety` the caches lag by one version and copies
by more: one that is read, and the versions that come while it is held or on its
way. (With `MaxLag = 2` and no late write it passes too, with 1.3 million states.) The job's two pods
suffice for its races, as pods are told apart by their requests only, and two
nodes for a loop that has nodes behind and before it. In `SchedulerPlacement`
one pod fits the larger node only and fills it, the other has a non-local claim first
and two local ones after it, and two versions of lag let a removed object and the next
one of the same node be behind the cache at once. One repeated declaration suffices to
let a pod in that does not fit. Three troubles of a process are a crash that leaves the
socket file, and two signals of, or an outage under, the next one. The
manager's periods are the defaults of its flags, and `MaxDelay` is `RenewDeadline`, the
deadline of the renewal that a reply answers; the bound is reached in the run, and the
theorem holds for all periods and delays that client-go admits.

Deadlock is checked except where the system may stop: when the job's pods are
done (`Binding*`), when all pods are gone (`Scheduler*`), when a crash in the
middle of a dump has left a file that keeps the cache from starting (`Cache*`),
and when a process serves and no trouble is left (`Server*`).

### Further configurations

These are beside the twelve, to be run by hand; they share the modules.

| configuration | module | what TLC says |
|---|---|---|
| `BindingSerial` | `MCNodeBinding` | `OneObjectPerNode` holds for a job and a user as long as one request is under way at a time and the webhook's cache is current |
| `BindingLongName` | `MCNodeBinding` | `EventuallyBound` fails: a node whose name leaves no room for `ls-` ends the job's loop at each attempt, and nodes listed after it are never served |
| `SchedulerSpread` | `MCSchedulerExtender` | `Spread` holds: scoring by free share keeps equal nodes within one claim of each other |
| `SchedulerStale` | `MCSchedulerExtender` | `NeverOvercommitted` fails: a second pod is filtered before the first one's volume is in the cache |
| `SchedulerSecondClaim` | `MCSchedulerExtender` | `NeverOvercommitted` fails with one pod and nothing concurrent: only its first local claim is compared |
| `CacheCrashes` | `VolumeCache` | `DeletesDurable` holds when dumps do not fail |
| `CacheResurrects` | `VolumeCache` | `DeletesDurable` fails when they do: the repeated deletion finds nothing in memory, returns nil without a dump, and a restart reads the volume back |
| `ManagerPrompt` | `MCControllerManager` | `AtMostOneController` holds when replies are 2 s late at most |
| `ManagerLateReply` | `MCControllerManager` | `AtMostOneController` fails when they may be 3 s late: 3 + 10 + 2 is no less than 15 |
| `ManagerShutdown` | `MCControllerManager` | `ShutdownCompletes` fails: after SIGTERM the webhooks stop, and the process stays, or becomes, leader until it is killed |
| `ServerShutdown` | `ServerProcess` | `ShutsDownBySignal` fails: the extender and the controller go on after one signal, the extender answering from informers that have stopped |

## 4. Fairness

Safety properties are checked without fairness. Liveness assumes:

- `DeleteFairness` (`PluginDeletion`): the process is up for good in the end
  (the kubelet restarts it, and it does not crash for ever); the informer
  delivers; a call that was sent returns; the provisioner repeats `DeleteVolume`
  until it succeeds. The strong parts stand for back-off: a call that can be
  made again and again is made at a moment when nothing disturbs it (a fair
  `sync.Mutex`, conflicts that do not go on for ever).
- `PluginFairness`, `ControllerFairness` (`SystemLiveness`): the same for the
  two workers; the informer's 300 s resync comes round. The retry timers need
  not fire: the resync makes up for them.
- `JobFairness` (`BindingJobs`): pods run and the API server answers. That the
  troubles end before the restarts do is a bound: `backoffLimit` is finite, and
  with more failures than restarts the job rightly fails.
- `Fairness` of `SchedulerExtender` (`SchedulerPlacement`): every component makes
  its steps, pods end, and a pod that fits again and again is filtered in the
  end (strong fairness: kube-scheduler flushes its unschedulable pods, one
  scheduling cycle at a time).
- `Fairness` of `ControllerManager`: processes are restarted, contend and are
  killed after their grace period; a leader that cannot renew exits; time goes
  on. Renewals need not succeed; but a process that writes the lease again and again
  hears of it in the end (strong fairness of `ReplyHeard` for one that is no leader).
- `ProcessFairness` (`ServerLife`): the goroutines of a process run, a process that
  ended is started again, an outage ends. `FairSpec` adds SIGKILL where exactly
  one signal was sent to the extender or the controller, for it is all that ends
  them then; neither the plugin's end nor that by a second signal rests on it.

## 5. What is proved

TLAPS checks each proof for every value of the constants that satisfies the
named assumptions, and for any bounds.

**`NodePlugin_proofs`** — `PluginInvariant`, and from it `PluginTypeCorrect`,
`PluginVolumesHaveDirs`, `PluginBoundVolumesKept`, `PluginReleasedVolumesGone`.
The three properties are not inductive: they say nothing of the copies that are
about to be written. `IInv` adds `HistorySound` (a UUID in a version, a
directory or a reply was drawn; an object under deletion holds its finalizer, so
that no Update removes it), `OpSound` (the copy of the operation that holds the
lock differs from the version it was read at in that operation's own volume
only; a volume being created has its directory and is in no version; one being
deleted is in neither the copy nor, after the Update, in the object) and
`LateSound` (an abandoned copy may be written as it stands: its volumes have
directories and none that is bound is missing). An Update succeeds only on the
version that was read, so that what `OpSound` relates to the read version it
relates to the current one (`OpCopySound`, `UpdateEffect`, `WriteKeepsVolumes`);
any other write empties `late`. Lemmas by kind of step then give `StepIInv`.
Assumptions: sizes are natural numbers and the null values are none of the values they
stand beside.

**`VolumeSizes_proofs`** — `TotalSizeRemove`, `TotalSizeAdd`, `TotalSizeSubset`: what one
volume more or less does to the sum of the sizes of a finite set, and that a part of it
sums up to no more. `TotalSize` is a fold of the
community modules, and the library's induction theorems are out of reach here (they
take an operator as parameter), so that the induction is by a least counterexample:
a set of subsets that is not empty has a member none of whose proper subsets is in
it (`LeastSubset`, from the well-foundedness of the strict subset ordering). The
function the fold chooses exists (`SumsExist`), agrees on smaller sets (`SumsAgree`),
and so the order in which it goes through the set does not matter.

**`LocalStorageSystem_proofs`, the plugin with its users** — `NeverBoth`,
`ReadyObjectsHaveSizes`, `PluginAllocatableNotUnderstated`, the action properties
`RemovedWhenDeleting`, `UserEditsKept` and `InitializedForGood`, and the refinement
`PluginImplementsLedger`. Each speaks of what one write changes, and so
depends on what a copy may hold. `VInv` adds to `IInv` what is true of every
version (`VersionsSound`: the effect of admission, sizes where it is Ready, no
UUID twice, and `BooksKept`, that `Allocatable` and the listed sizes come to the
capacity at least: here the sums of `VolumeSizes_proofs` are used) and what every
copy, of the operation or late, owes to the version it was read at (`CopiesKept`): it agrees in what users own, is initialised and past
Initiating if that was, and it has the volumes of that version with the same or a
newly declared `Allocatable`, or one volume more or less and its size with it
(`Moves`). What a late copy lists is listed now or never was (`LateFresh`), so that
no UUID is entered again. `StepKinds` sorts all steps of `Next` into five:
quiet ones, reads of a copy, copies given up, writes of a copy, and users' writes;
the theorems then follow from what the last two write (`StepWrites`). For the
refinement a write of a copy is `Enter`, `TakeOut` or `Initialize` of the ledger,
for it is admitted on the version it was read at only; a removal of the object is
`Close`.

*No key is lost* (`PluginSyncsNotForgotten`): a property of steps that needs one more
invariant, `SyncOwes`. While the worker's Update of a sync is out the key is with the
worker, and what it writes needs no further sync or is another phase than that of
the version it was read at. Hence a successful write either ends the need or makes a
version that the handlers have still to be told of; a failing one leads to
`AddRateLimited`; a worker that finds nothing to do has read the last version, which
needs nothing, or the handlers are still behind; and a version written by anybody else
is one the handlers have not been told of (`GrowthForgetsNothing`).

**`LocalStorageSystem_proofs`, plugin and controller together** —
`SystemTypeCorrect`, `SystemBoundVolumesKept`, `SystemVolumesTrue`,
`SystemReadyHasSizes`, `SystemAllocatableNotUnderstated`, `SystemNoStepBack`,
`SystemEditsKept`, `SystemRemovedWhenDeleting`, `SystemImplementsLedger`. `SysInv` adds to `VInv` that
the controller's copy has the volumes of the version it was read at and owes it
what any copy does (`CtlSound`). A step of the plugin keeps `CtlSound`, since the log
only grows; a step of the controller is to the plugin one more request of the API
server, whose effect on `VInv` the lemmas before already
give. `SystemSyncsNotForgotten` and `SystemCtlSyncsNotForgotten` add `SyncOwes` and
its counterpart `CtlOwes` (the worker holds the key, and writes another phase than
the version it read has): each component's writes are to the other's queue a longer
log and no more. Neither the lag of the caches nor what users write is bounded here,
as it is in the run.

**`NodeBinding_proofs`** — `JobInvariant`, `JobDoneMeansBound`,
`JobOneObjectPerNode`: for the job alone, any number of pods at once, any list of
nodes, restarts and troubles, a webhook cache of any age. `JobInv` ties each
request to the place of its pod in the loop, and each object's name to its
node; uniqueness of names, which the API server does enforce, then carries over
to nodes, however stale the webhook. `BindingTypes` is type correctness with users
and their deletions; a pod's place in the loop (`LoopInRange`) has to be added.

**`VolumeCache_proofs`** — `CacheInvariant`, `CacheSetsDurable`: memory, while the
cache is up, and whatever list the next start may read (`FileHasSets`) have every
acknowledged volume; the ID of the call under way is unknown to its caller. A torn file
has no list to read: it keeps the cache down, for which the theorem promises nothing.

**`ControllerManager_proofs`** — `LeaseInvariant`, `ManagerOverlapBounded`,
`ManagerAtMostOneController`. `LeaseInv` ties the deadline of a controller to the last
write of its process (`WorkingInTime`: the age of that write and what is left of the
deadline come to `MaxDelay + RenewDeadline + RetryPeriod` at most; when another
process holds the lease, `LeaseDuration` lies between its write and the old one), a
reply to come to the write it answers (`WaitingInTime`), and the write of a
process that is gone to the lease it had (`DriftsAllowed`). Assumed of the periods is
what client-go checks, `LeaseDuration > RenewDeadline > 1.2 RetryPeriod`, no more; that
there is one controller at most needs, and has as a hypothesis, that the three terms are
less than `LeaseDuration`. Clocks run alike, and processes are not suspended (the
`Tick` of the model waits for a leader's deadline): there is no fencing token, and
without that no bound is true of the code either.

**`SchedulerExtender_proofs`** — `SchedulerTypes`, `SchedulerSizesAddUp`, and
`JudgedVolumesFit`, for any nodes, capacities, pods, numbers of claims, lag and
repeated declarations. The invariant of the last (`CommitInv`): of the pods whose decision was not
overtaken and which have a local claim, one is under way at most (`OneUnderWay`);
as long as the volume of the claim that `Filter` looked at is not made, each node the pod
may go to has room for it beside what is judged there already (`RoomOnTheWay`).
`Filter` establishes the room from a cache that shows no more than there is, and from
`SizesAddUp`: what is allocatable is at most what the judged volumes leave, other
volumes only make it less. `Provision` uses the room up; volumes of overtaken pods and
of further claims are not counted; a sync that declares sizes again takes room away
only from a pod it is then said to have overtaken (one let in by more than the capacity, which an
earlier such sync had given away). That some node has the
best score is a fact about finite sets (`BestExists`), needed for the type of
`Prioritize`. `SchedulerSizesAddUp` rests on `BooksInv` (an object without sizes lists no
volume) and on the sums of `VolumeSizes_proofs`. Assumed: finitely many nodes with
positive capacities.

**`ServerProcess_proofs`** — `ServerTypes`, `ServerWorksOnSyncedCaches`,
`ServerInformersStarted`. `ProcessInv`: `Run` is called once in each `main`
(`RunCalledOnce`), and a factory knows only the informers it was asked for
(`OnlyAsked`). That informers are started before they are waited for is a fact about
the order of the calls in each of the three programs (`PluginMainOrdered`,
`ControllerMainOrdered`, `ExtenderMainOrdered`), which the calls made so far carry over
to the informers' states (`InformersInv`).

Every invariant and action property of a passing run that is about safety is stated
by one of these theorems. Only model-checked: the liveness properties and the
fairness they rest on (`ENABLED` is beyond TLAPS), and the properties of the further
configurations of section 3, except `AtMostOneController`.

## 6. Where code and words disagree

- **`Allocatable` is declared anew** (`localstorage.go:194`, run `PluginResync`).
  `sync` has no guard on the phase. A key whose retry was waiting, or that was
  added again while it was processed, is synced when the object is Ready and
  lists volumes, and the whole capacity becomes allocatable again, for good.
  `types.go:95` calls the field the quantity on this node and
  `calculateAllocatedSize` keeps it as what the volumes leave.
- **Two objects on a node** (`validating.go:154`, run `BindingUsers`). The check
  reads a cache, and the object is stored later under a name of its own choice.
  `validating.go:140` says "only the one node to binding to".

Met while modelling, and not the subject of a listed run: the failing
configurations of section 3; a repeated `CreateVolume` makes a second volume,
since the name is not looked up; `CreateVolume` compares the size with nothing;
`CreateVolume` and `DeleteVolume` panic on an object that is not initialised;
an object deleted while Pending may never have been Ready; nothing in the code
removes the finalizer; plugin and controller both move Pending to Initiating,
and one of them meets a conflict; a torn cache file keeps the cache from
starting; `Score` returns nil for pods without local claims and divides by a
capacity of zero; `examples/ls.yaml` names both backends, which the webhook
refuses.

## 7. What is abstracted, and what is not modelled

- One `LocalStorage` object in the plugin and system modules: objects of
  different nodes share no state, and a plugin's filter selects its own node's.
- A status that users submit has no sizes (section 2). A manifest saved from a Ready object
  and applied after its removal breaks that: phase and sizes stay, the volumes are
  dropped, and the new object has less allocatable than it could.
- Sizes are small integers; quantities are not formatted or parsed, but an
  annotation that does not parse is a case of its own (`BadAnnotation`).
- The API server is linearizable; watch events are neither lost nor reordered
  (client-go's contract). A relist while the process is alive is not
  distinguished from a fast run of deliveries.
- Durations are abstracted except in `ControllerManager`: retry timers and the
  resync may fire at any moment.
- `NodeBinding`: nodes neither join nor leave while the job runs; the backoff
  limit is counted for each pod; a user's deletion includes removing the
  finalizer.
- `SchedulerExtender`: kube-scheduler, the kubelet and the provisioner are
  external; the plugin is reduced to what it does to `Allocatable`, its volume
  placed on the node the pod was assigned to, with the size its claim asks for; HTTP
  encoding is left out. A
  capacity of zero is left out (`CapacityAssumption`): `Score` then divides by
  zero, and what the conversion of NaN to `int64` gives is the platform's. Each
  unstable node's object is removed once. What the volumes of a removed object
  still hold of the disk is no part of `NoOvercommit`. The capacity of a node stays
what it is: an annotation that is edited before a repeated declaration is in
`NodePlugin` only. An object that is deleted before it has sizes is left out here too.
- `VolumeCache`: a volume's fields are one value; one call at a time, for the
  mutex spans the dump.
- `ControllerManager`: client-go's election is external, modelled by how `main`
  configures it; the healthz server is left out. `--leader-elect=false` is the
  controller of `ServerProcess`.
- `ServerProcess`: a container restart keeps the host path of the socket;
  `Stop` and `ForceStop` of the gRPC server, which nothing calls, pprof, flags and
  certificates are left out; a watch that breaks after the first list is
  client-go's to repair.
- Not modelled: node and identity services (constant answers), generated code
  (except by what it does), scheme and constants, `logicalvolume`, manifests.

## 8. Plan

What would add most to what is here, most important first.

1. *Composition*: the storages of `SchedulerExtender` shown to implement one
   `VolumeLedger` for each node, the specification that `NodePlugin` implements, so that
   what the extender assumes of the plugins is what they promise. It needs the node of
   a pod that has left to be remembered.
2. *Binding*: uniqueness of nodes proved for serial requests of any client
   (`BindingSerial`); nodes that join and leave while the job runs.
3. *Cache*: `DeletesDurable` proved for dumps that do not fail.
4. *Webhook certificates and the healthz server* of the controller process.

## 9. How to run

In this directory, with TLC, the community modules and TLAPS installed:

```
tlc -config PluginVolumes.cfg MCNodePlugin
tlapm NodePlugin_proofs.tla
```

`PROJECT.json` names the module of each run, the source lines of each
definition, and the slip that each property is known to catch.
