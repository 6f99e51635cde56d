---------------------------- MODULE NodePlugin ----------------------------
(***************************************************************************)
(* The node plugin (pkg/localstorage): an informer with its cache, a work  *)
(* queue drained by one worker that initialises the node's LocalStorage    *)
(* object, and the gRPC handlers CreateVolume and DeleteVolume that keep   *)
(* the object's volume list and the volume directories of the node.        *)
(*                                                                         *)
(* sync, CreateVolume and DeleteVolume hold the plugin's lock from reading *)
(* the cache to returning; what happens elsewhere between the read and the *)
(* Update is what the steps Begin and Commit leave room for.  op is the    *)
(* holder of the lock.                                                     *)
(***************************************************************************)
EXTENDS ApiServer, WorkQueue, VolumeSizes

CONSTANT NoVolume

ASSUME NoVolumeAssumption == NoVolume \notin VolIDs

VARIABLES
    up,        \* the process runs
    seen,      \* the log position of the informer's cache
    notified,  \* the log position the event handlers have been called up to
    queue,     \* the object's key in the work queue
    op,        \* the operation that holds the lock
    dirs,      \* the volumes whose directory exists on the node
    used,      \* the UUIDs drawn so far
    pv         \* what the provisioner, the caller, knows of each volume

pluginVars == << up, seen, notified, queue, op, dirs, used, pv >>

Idle == [pc |-> "idle", rv |-> 0, new |-> NoObject, id |-> NoVolume]

TypeOKPlugin ==
    /\ up \in BOOLEAN
    /\ seen \in 1 .. Len(log)
    /\ notified \in 0 .. seen
    /\ queue \in Queue
    /\ op \in [ pc  : {"idle", "sync", "create", "delete", "rmdir"},
                rv  : 0 .. Len(log),
                new : LocalStorage \cup {NoObject},
                id  : VolIDs \cup {NoVolume} ]
    /\ dirs \subseteq VolIDs
    /\ used \subseteq VolIDs
    /\ pv \in [VolIDs -> {"none", "bound", "releasing", "released"}]

InitPlugin ==
    /\ up = TRUE
    /\ seen = Len(log)
    /\ notified = Len(log)
    /\ queue = EmptyQueue
    /\ op = Idle
    /\ dirs = {}
    /\ used = {}
    /\ pv = [v \in VolIDs |-> "none"]

Cached == log[seen]

----------------------------------------------------------------------------
(* The informer. *)

(* Slip: the filter selects Pending objects only. *)
EnqueuedPending(q, version) ==
    IF version # NoObject /\ LocalStorageIsPending(version) THEN Add(q) ELSE q

(* The handlers AddFunc and UpdateFunc behind FilterFunc: the key is added *)
(* when the new version passes the filter.  There is no DeleteFunc.        *)
Enqueued(q, version) ==
    IF version # NoObject /\ AssignedLocalstorage(version) THEN Add(q) ELSE q

Deliver ==
    /\ up
    /\ seen < Len(log)
    /\ seen' = seen + 1
    /\ UNCHANGED << apiVars, up, notified, queue, op, dirs, used, pv >>

Notify ==
    /\ up
    /\ notified < seen
    /\ notified' = notified + 1
    /\ queue' = Enqueued(queue, log[notified'])
    /\ UNCHANGED << apiVars, up, seen, op, dirs, used, pv >>

(* The informer's resync hands the cached object to the handlers again. *)
Resync ==
    /\ up
    /\ notified = seen
    /\ queue' = Enqueued(queue, Cached)
    /\ UNCHANGED << apiVars, up, seen, notified, op, dirs, used, pv >>

RetryTimer ==
    /\ up
    /\ queue.waiting
    /\ queue' = TimerFires(queue)
    /\ UNCHANGED << apiVars, up, seen, notified, op, dirs, used, pv >>

----------------------------------------------------------------------------
(* The worker: processNextWorkItem, sync, handleErr. *)

WorkerGet ==
    /\ up
    /\ CanGet(queue)
    /\ queue' = Get(queue)
    /\ UNCHANGED << apiVars, up, seen, notified, op, dirs, used, pv >>

Finish(ok) ==
    /\ op' = Idle
    /\ queue' = HandleErr(queue, ok)

(* sync has the lock: op is idle until it has read the cache. *)
SyncStarts == up /\ queue.processing /\ op.pc = "idle"

PastPending == Cached # NoObject /\ ~LocalStorageIsPending(Cached)

(* sync returns nil: there is no object, no backend yet, or an lvm one.    *)
SyncNothing ==
    /\ SyncStarts
    /\ \/ Cached = NoObject
       \/ PastPending /\ ~Cached.path
    /\ Finish(TRUE)
    /\ UNCHANGED << apiVars, up, seen, notified, dirs, used, pv >>

(* sync returns an error: two backends, an annotation that does not parse, *)
(* or a base directory that cannot be made.                                *)
SyncError ==
    /\ SyncStarts
    /\ PastPending
    /\ Cached.path
    /\ Finish(FALSE)
    /\ UNCHANGED << apiVars, up, seen, notified, dirs, used, pv >>

(* Slip: the phase and the capacity, as if Allocatable followed from them. *)
ReadyObjectNotFree(l) ==
    [l EXCEPT !.capacity = DeclaredSize(l), !.phase = "Ready"]

(* The object sync is about to write. *)
ReadyObject(l) ==
    [l EXCEPT !.capacity    = DeclaredSize(l),
              !.allocatable = DeclaredSize(l),
              !.phase       = "Ready"]

Begin(pc, new, id) == op' = [pc |-> pc, rv |-> seen, new |-> new, id |-> id]

SyncPending ==
    /\ SyncStarts
    /\ Cached # NoObject
    /\ LocalStorageIsPending(Cached)
    /\ Begin("sync", SetLocalStoragePhase(Cached, "Initiating"), NoVolume)
    /\ UNCHANGED << apiVars, up, seen, notified, queue, dirs, used, pv >>

SyncInitialize ==
    /\ SyncStarts
    /\ PastPending
    /\ Cached.path
    /\ ~Cached.lvm
    /\ DeclaredSize(Cached) # BadAnnotation
    /\ Begin("sync", ReadyObject(Cached), NoVolume)
    /\ UNCHANGED << apiVars, up, seen, notified, queue, dirs, used, pv >>

(* UpdateLocalStoragePhase, and what follows its reply. *)
SyncWritten ==
    /\ up
    /\ op.pc = "sync"
    /\ Update(op.rv, op.new)
    /\ Finish(TRUE)
    /\ UNCHANGED << up, seen, notified, dirs, used, pv >>

(* An Update that fails: refused (a conflict, the object gone, a webhook or *)
(* the API server out of reach), or given up on.                            *)
Writing == op.pc \in {"sync", "create", "delete"}

Fails ==
    /\ op' = Idle
    /\ queue' = IF op.pc = "sync" THEN HandleErr(queue, FALSE) ELSE queue

WriteRefused ==
    /\ up
    /\ Writing
    /\ Fails
    /\ UNCHANGED << apiVars, up, seen, notified, dirs, used, pv >>

WriteAbandoned ==
    /\ up
    /\ Writing
    /\ Abandon(op.rv, op.new)
    /\ Fails
    /\ UNCHANGED << up, seen, notified, dirs, used, pv >>

----------------------------------------------------------------------------
(* CreateVolume.  The handler does not look at the request's name for a    *)
(* volume it already made: a retry is one more request.  When its Update   *)
(* fails the directory stays.                                              *)

(* Slip: Allocatable is left to the next sync. *)
WithVolumeOnly(l, v) == AddVolume(l, v)

WithVolume(l, v) ==
    [AddVolume(l, v) EXCEPT !.allocatable = @ - v.size]

CreateStarts(id) ==
    /\ up
    /\ op.pc = "idle"
    /\ Cached # NoObject
    /\ id \in VolIDs \ used
    /\ used' = used \cup {id}
    /\ dirs' = dirs \cup {id}

CreateBegin(id, size) ==
    /\ CreateStarts(id)
    /\ Initialized(Cached)
    /\ Begin("create", WithVolume(Cached, [id |-> id, size |-> size]), id)
    /\ UNCHANGED << apiVars, up, seen, notified, queue, pv >>

(* What a process that stops leaves behind. *)
ProcessStops ==
    /\ up' = FALSE
    /\ seen' = 1
    /\ notified' = 0
    /\ queue' = EmptyQueue
    /\ op' = Idle

(* calculateAllocatedSize dereferences Allocatable, nil until the object   *)
(* is Ready: the process panics, after it made the directory.              *)
CreatePanics(id) ==
    /\ CreateStarts(id)
    /\ ~Initialized(Cached)
    /\ ProcessStops
    /\ UNCHANGED << apiVars, pv >>

CreateWritten ==
    /\ up
    /\ op.pc = "create"
    /\ Update(op.rv, op.new)
    /\ op' = Idle
    /\ pv' = [pv EXCEPT ![op.id] = "bound"]
    /\ UNCHANGED << up, seen, notified, queue, dirs, used >>

----------------------------------------------------------------------------
(* DeleteVolume, called, and called again, for the volumes the provisioner *)
(* was given.                                                              *)

(* Slip: the size is looked up after the volume was taken out. *)
WithoutVolumeFirst(l, id) ==
    [RemoveVolume(l, id) EXCEPT !.allocatable = @ + RemovedSize(RemoveVolume(l, id), id)]

WithoutVolume(l, id) ==
    [RemoveVolume(l, id) EXCEPT !.allocatable = @ + RemovedSize(l, id)]

DeleteStarts(id) ==
    /\ up
    /\ op.pc = "idle"
    /\ pv[id] # "none"
    /\ Cached # NoObject
    /\ pv' = [pv EXCEPT ![id] = IF @ = "bound" THEN "releasing" ELSE @]

(* Slip: the directory is removed before the Update. *)
DeleteBeginDirFirst(id) ==
    /\ DeleteStarts(id)
    /\ Initialized(Cached)
    /\ Begin("delete", WithoutVolume(Cached, id), id)
    /\ dirs' = dirs \ {id}
    /\ UNCHANGED << apiVars, up, seen, notified, queue, used >>

(* Slip: a volume that is not listed is an error. *)
DeleteBeginListed(id) ==
    /\ DeleteStarts(id)
    /\ Initialized(Cached)
    /\ ContainsVolume(Cached, id)
    /\ Begin("delete", WithoutVolume(Cached, id), id)
    /\ UNCHANGED << apiVars, up, seen, notified, queue, dirs, used >>

DeleteBegin(id) ==
    /\ DeleteStarts(id)
    /\ Initialized(Cached)
    /\ Begin("delete", WithoutVolume(Cached, id), id)
    /\ UNCHANGED << apiVars, up, seen, notified, queue, dirs, used >>

DeletePanics(id) ==
    /\ DeleteStarts(id)
    /\ ~Initialized(Cached)
    /\ ProcessStops
    /\ UNCHANGED << apiVars, dirs, used >>

(* Slip: the error of the Update is not looked at. *)
DeleteWrittenOrNot ==
    /\ up
    /\ op.pc = "delete"
    /\ Update(op.rv, op.new) \/ UNCHANGED apiVars
    /\ op' = [Idle EXCEPT !.pc = "rmdir", !.id = op.id]
    /\ UNCHANGED << up, seen, notified, queue, dirs, used, pv >>

DeleteWritten ==
    /\ up
    /\ op.pc = "delete"
    /\ Update(op.rv, op.new)
    /\ op' = [Idle EXCEPT !.pc = "rmdir", !.id = op.id]
    /\ UNCHANGED << up, seen, notified, queue, dirs, used, pv >>

RemoveDir ==
    /\ up
    /\ op.pc = "rmdir"
    /\ dirs' = dirs \ {op.id}
    /\ pv' = [pv EXCEPT ![op.id] = "released"]
    /\ op' = Idle
    /\ UNCHANGED << apiVars, up, seen, notified, queue, used >>

(* Slip: the error of RemoveAll is not looked at. *)
RemoveDirFailsSilently ==
    /\ up
    /\ op.pc = "rmdir"
    /\ pv' = [pv EXCEPT ![op.id] = "released"]
    /\ op' = Idle
    /\ UNCHANGED << apiVars, up, seen, notified, queue, dirs, used >>

RemoveDirFails ==
    /\ up
    /\ op.pc = "rmdir"
    /\ op' = Idle
    /\ UNCHANGED << apiVars, up, seen, notified, queue, dirs, used, pv >>

----------------------------------------------------------------------------
(* The process stops at any moment and is started again by the kubelet.    *)

Crash ==
    /\ up
    /\ ProcessStops
    /\ \/ UNCHANGED apiVars
       \/ Writing /\ Abandon(op.rv, op.new)
    /\ UNCHANGED << dirs, used, pv >>

(* Run waits for the cache to hold the listed object; the Add event of the *)
(* list is still to be handled.                                            *)
Restart ==
    /\ ~up
    /\ up' = TRUE
    /\ seen' = Len(log)
    /\ notified' = Len(log) - 1
    /\ UNCHANGED << apiVars, queue, op, dirs, used, pv >>

InformerNext == Deliver \/ Notify \/ Resync \/ RetryTimer

SyncNext ==
    \/ WorkerGet \/ SyncNothing \/ SyncError \/ SyncPending \/ SyncInitialize
    \/ SyncWritten

VolumeNext ==
    \/ \E id \in VolIDs :
          \/ \E size \in Sizes : CreateBegin(id, size)
          \/ CreatePanics(id) \/ DeleteBegin(id) \/ DeletePanics(id)
    \/ CreateWritten \/ DeleteWritten \/ RemoveDir \/ RemoveDirFails

PluginNext ==
    \/ InformerNext \/ SyncNext \/ VolumeNext
    \/ WriteRefused \/ WriteAbandoned
    \/ Crash \/ Restart

vars == << apiVars, pluginVars >>

Init == InitApi /\ InitPlugin

Next == PluginNext \/ (ApiNext /\ UNCHANGED pluginVars)

Spec == Init /\ [][Next]_vars

----------------------------------------------------------------------------
(* Safety. *)

(* Every variable keeps to the values its component can hold; in particular *)
(* no reader is ahead of the API server and the retry counter stays within  *)
(* maxRetries.                                                              *)
TypeOK == TypeOKApi /\ TypeOKPlugin

Recorded(version, id) == version # NoObject /\ ContainsVolume(version, id)

(* A volume the object lists has its directory: CreateVolume makes it       *)
(* before the Update, DeleteVolume removes it after one, whatever stale     *)
(* copy, lost reply, crash or late request comes between.                   *)
VolumesHaveDirs == \A id \in VolIDs : Recorded(Current, id) => id \in dirs

(* A volume that CreateVolume returned and DeleteVolume was not asked for   *)
(* stays listed, unless the object as a whole was removed meanwhile: no     *)
(* write of another handler or component, from however old a copy, may lose *)
(* it.                                                                      *)
BoundVolumesKept ==
    \A id \in VolIDs : pv[id] = "bound" =>
        \/ Recorded(Current, id)
        \/ \E p, q \in 1 .. Len(log) :
              p < q /\ Recorded(log[p], id) /\ log[q] = NoObject

(* A volume that DeleteVolume reported deleted is neither on the node's     *)
(* disk nor in the object, nor will a request still on its way bring it     *)
(* back.                                                                    *)
ReleasedVolumesGone ==
    \A id \in VolIDs : pv[id] = "released" =>
        /\ id \notin dirs
        /\ ~Recorded(Current, id)
        /\ \A version \in late : ~Recorded(version, id)

(* Allocatable never says less than is free: each deletion gives back what  *)
(* the creation took.  (It may say more, see AllocatableExact.)             *)
AllocatableNotUnderstated ==
    Exists /\ Initialized(Current) =>
        Current.allocatable + TotalSize(Current.volumes) >= Current.capacity

(* Allocatable is what the listed volumes leave of the capacity.            *)
AllocatableExact ==
    Exists /\ Initialized(Current) =>
        Current.allocatable + TotalSize(Current.volumes) = Current.capacity

(* The object's status seen as a ledger. *)
Ledger == INSTANCE VolumeLedger WITH
    entries <- IF Exists THEN Current.volumes ELSE {},
    past    <- {id \in VolIDs : /\ ~Recorded(Current, id)
                                /\ \E p \in 1 .. Len(log) : Recorded(log[p], id)},
    free    <- IF Exists THEN Current.allocatable ELSE NoQuantity

(* The plugin implements the ledger: under every interleaving of handlers,  *)
(* stale reads, lost replies, late requests and crashes each new version of *)
(* the object is one ledger step, so that no volume is entered twice, none  *)
(* comes back, and Allocatable moves with the list.                         *)
ImplementsLedger == Ledger!Spec

(* The two backends sync is told never to meet at once, "never happen": the *)
(* webhooks keep every version, and so every cache, from having both.       *)
NeverBothBackends ==
    \A n \in 1 .. Len(log) : log[n] # NoObject => ~(log[n].path /\ log[n].lvm)

(* What a user has edited only a user edits again: a write of the plugin    *)
(* carries the whole object, annotation and deletion included, as its copy  *)
(* has it, and must not bring back what that copy still shows.              *)
EditsKept ==
    [][Exists /\ Exists' /\ ~UserNext =>
          /\ Current'.path = Current.path
          /\ Current'.lvm = Current.lvm
          /\ Current'.nodeSize = Current.nodeSize
          /\ Current'.deleting = Current.deleting]_vars

(* An object that has volumes has been through initialisation and never     *)
(* goes back before it: a sync that still holds a Pending or Initiating     *)
(* copy cannot undo Ready.                                                  *)
NoStepBack ==
    [][Exists /\ Exists' /\ Initialized(Current) =>
          Initialized(Current') /\ ~AssignedLocalstorage(Current')]_vars

(* The last version is one that sync has still to write, the handlers have  *)
(* been told of it, and nothing is left in the queue that leads to a sync   *)
(* of it: only the resync would.                                            *)
NeedsSync ==
    /\ Exists
    /\ LocalStorageIsPending(Current) \/ (LocalStorageIsInitiating(Current) /\ Current.path)

SyncForgotten ==
    /\ up
    /\ NeedsSync
    /\ notified = Len(log)
    /\ ~queue.dirty /\ ~queue.processing /\ ~queue.waiting

(* No object is left half-way because its key got lost between the filter,  *)
(* the queue and the retries: whatever version a sync has read, and however *)
(* its Update ended, only handleErr, after maxRetries failures in a row,    *)
(* gives the key up.                                                        *)
SyncsNotForgotten ==
    [][SyncForgotten' =>
          \/ SyncForgotten
          \/ queue.processing /\ queue.requeues = MaxRetries /\ UNCHANGED log]_vars

(* No version says Ready without the sizes: Filter of the scheduler         *)
(* extender dereferences Allocatable, nil until then, of any object whose   *)
(* phase it reads as Ready, in whatever version its cache holds.            *)
ReadyHasSizes ==
    \A n \in 1 .. Len(log) :
        log[n] # NoObject /\ log[n].phase = "Ready" =>
            Initialized(log[n]) /\ log[n].capacity # NoQuantity

(* The object goes away only after a deletion was requested and seen        *)
(* through: its protection finalizer cannot be skipped.                     *)
RemovedOnlyWhenDeleting ==
    [][Exists /\ ~Exists' => Current.deleting]_vars

----------------------------------------------------------------------------
(* The inductive invariant behind the safety properties: what the copy held *)
(* by an operation or by a late request owes to the version it was read at. *)

Held(version) == version.deleting => version.finalizer

(* What a directory or a call of the provisioner tells about a UUID, and an *)
(* object in the log about its finalizer.                                   *)
HistorySound ==
    /\ dirs \subseteq used
    /\ \A id \in VolIDs :
          /\ pv[id] # "none" => id \in used
          /\ \A n \in 1 .. Len(log) : Recorded(log[n], id) => id \in used
    /\ \A n \in 1 .. Len(log) : log[n] # NoObject => Held(log[n])

(* A copy read at the last version may be written: it lists no volume but   *)
(* those of that version and new ones, and every one that is bound.         *)
CopySound(version) ==
    /\ Held(version)
    /\ \A id \in VolIDs :
          /\ Recorded(version, id) =>
                /\ id \in dirs
                /\ Recorded(Current, id) \/ pv[id] = "none"
          /\ pv[id] = "bound" /\ Recorded(Current, id) => Recorded(version, id)

LateSound == \A version \in late : CopySound(version)

(* The copy an operation is about to write differs from the version it was  *)
(* read at in the volume of the operation only.                             *)
OpSound ==
    /\ Writing =>
          /\ op.rv > 0
          /\ log[op.rv] # NoObject
          /\ op.new # NoObject
          /\ Held(op.new)
          /\ \A id \in VolIDs :
                \/ Recorded(op.new, id) <=> Recorded(log[op.rv], id)
                \/ op.pc # "sync" /\ id = op.id
    /\ op.pc = "create" =>
          /\ op.id \in dirs
          /\ pv[op.id] = "none"
          /\ Recorded(op.new, op.id)
          /\ \A n \in 1 .. Len(log) : ~Recorded(log[n], op.id)
          /\ \A version \in late : ~Recorded(version, op.id)
    /\ op.pc \in {"delete", "rmdir"} =>
          /\ op.id \in VolIDs
          /\ pv[op.id] \in {"releasing", "released"}
          /\ ~Recorded(IF op.pc = "delete" THEN op.new ELSE Current, op.id)

IInv ==
    /\ TypeOK
    /\ HistorySound
    /\ LateSound
    /\ OpSound
    /\ VolumesHaveDirs
    /\ BoundVolumesKept
    /\ ReleasedVolumesGone

----------------------------------------------------------------------------
(* Liveness of DeleteVolume.  The process is up for good in the end, its    *)
(* calls return, and the provisioner calls DeleteVolume again until it is   *)
(* told that the volume is gone; the lock is a fair sync.Mutex, and a step  *)
(* that can be tried again and again succeeds at last.                      *)

DeleteFairness ==
    /\ <>[]up
    /\ WF_vars(Deliver)
    /\ WF_vars(SyncWritten \/ CreateWritten \/ DeleteWritten \/ WriteRefused)
    /\ WF_vars(RemoveDir \/ RemoveDirFails)
    /\ \A id \in VolIDs :
          /\ SF_vars(DeleteBegin(id))
          /\ SF_vars(op.id = id /\ DeleteWritten)
          /\ SF_vars(op.id = id /\ RemoveDir)

FairSpec == Spec /\ DeleteFairness

(* A volume whose deletion was once asked for is deleted at last, wherever  *)
(* a crash, a conflict or a failing removal cut an earlier attempt short:   *)
(* DeleteVolume can be repeated.                                            *)
DeletionCompletes ==
    \A id \in VolIDs : pv[id] = "releasing" ~> pv[id] = "released"
============================================================================
