--------------------- MODULE LocalStorageSystem_proofs ---------------------
(***************************************************************************)
(* Proofs about what one write of the object may change, by the plugin and *)
(* its users first, and then with the storage controller beside it.        *)
(*                                                                         *)
(* All rest on two facts: what every version satisfies, and that a copy    *)
(* about to be written, or written late, agrees with the version it was    *)
(* read at in what its writer does not own.  With one more, that a volume  *)
(* such a copy brings in has never been listed, they show that the         *)
(* versions of the object are the steps of the ledger.                     *)
(*                                                                         *)
(* With the controller, a step of the plugin or of the API server is a     *)
(* step of NodePlugin, and its invariant is inherited; a write of the      *)
(* controller is, for the plugin, one more request of the API server,      *)
(* sound because its copy has the volumes of the version it was read at    *)
(* and a phase it may take.                                                *)
(***************************************************************************)
EXTENDS LocalStorageSystem, NodePlugin_proofs, VolumeSizes_proofs

(* Only an object that is not initialised is Pending or Initiating, and no  *)
(* other one is Ready.                                                      *)
PhaseSound(l) ==
    /\ Initialized(l) => ~AssignedLocalstorage(l)
    /\ l.phase = "Ready" => Initialized(l) /\ l.capacity # NoQuantity

UniqueIDs(l) == \A u, v \in l.volumes : u.id = v.id => u = v

(* The volumes are finitely many, and Allocatable leaves them no more than  *)
(* the capacity has.                                                        *)
BooksKept(l) ==
    /\ IsFiniteSet(l.volumes)
    /\ Initialized(l) =>
          /\ l.capacity \in Int
          /\ l.allocatable + TotalSize(l.volumes) >= l.capacity

VersionSound(l) ==
    /\ ~(l.path /\ l.lvm)
    /\ l.deleting \/ l.finalizer
    /\ PhaseSound(l)
    /\ UniqueIDs(l)
    /\ BooksKept(l)

VersionsSound ==
    \A n \in 1 .. Len(log) : log[n] # NoObject => VersionSound(log[n])

SameSpec(l, k) ==
    /\ l.path = k.path
    /\ l.lvm = k.lvm
    /\ l.nodeSize = k.nodeSize
    /\ l.deleting = k.deleting

(* What a copy does to the list of volumes and to the sizes: no volume,     *)
(* with all of the capacity declared free or nothing changed, one volume    *)
(* more or one less.                                                        *)
Keeps(copy, version) ==
    /\ copy.volumes = version.volumes
    /\ \/ copy.allocatable = version.allocatable /\ copy.capacity = version.capacity
       \/ copy.allocatable \in Nat /\ copy.capacity = copy.allocatable

Adds(copy, version, v) ==
    /\ v \in Volume
    /\ ~ContainsVolume(version, v.id)
    /\ Initialized(version)
    /\ copy.capacity = version.capacity
    /\ copy.volumes = version.volumes \cup {v}
    /\ copy.allocatable = version.allocatable - v.size

Drops(copy, version, v) ==
    /\ v \in version.volumes
    /\ Initialized(version)
    /\ copy.capacity = version.capacity
    /\ copy.volumes = version.volumes \ {v}
    /\ copy.allocatable = version.allocatable + v.size

Moves(copy, version) ==
    \/ Keeps(copy, version)
    \/ \E v : Adds(copy, version, v) \/ Drops(copy, version, v)

CopyKept(copy, version) ==
    /\ SameSpec(copy, version)
    /\ Initialized(version) => Initialized(copy)
    /\ PhaseSound(copy)
    /\ Moves(copy, version)

CopiesKept ==
    /\ Writing => CopyKept(op.new, log[op.rv])
    /\ \A copy \in late : CopyKept(copy, Current)

Listed(id) == \E n \in 1 .. Len(log) : Recorded(log[n], id)

(* What a copy of the last version lists is listed there, or never was.     *)
Fresh(copy) ==
    \A id \in VolIDs : Recorded(copy, id) => Recorded(Current, id) \/ ~Listed(id)

LateFresh == \A copy \in late : Fresh(copy)

VInv == IInv /\ VersionsSound /\ CopiesKept /\ LateFresh

----------------------------------------------------------------------------
(* The five kinds of steps. *)

NotWritingNext == op' = op \/ op'.pc \in {"idle", "rmdir"}

(* Neither a write nor a copy. *)
Quiet == UNCHANGED apiVars /\ NotWritingNext

(* An operation reads a copy. *)
Reads ==
    /\ UNCHANGED apiVars
    /\ op'.rv \in 1 .. Len(log)
    /\ CopyKept(op'.new, log[op'.rv])

(* An operation gives its copy up. *)
GivesUp ==
    /\ Writing
    /\ Abandon(op.rv, op.new)
    /\ NotWritingNext

(* A copy is written. *)
Writes(copy) ==
    /\ copy \in LocalStorage
    /\ Held(copy)
    /\ Exists
    /\ CopyKept(copy, Current)
    /\ Fresh(copy)
    /\ Update(Len(log), copy)
    /\ NotWritingNext

UserWrites == UserNext /\ op' = op

(* The copies that operations make of a version. *)

LEMMA PhaseCopyKept ==
    ASSUME NEW l \in LocalStorage, LocalStorageIsPending(l), PhaseSound(l)
    PROVE  CopyKept(SetLocalStoragePhase(l, "Initiating"), l)
BY DEF CopyKept, SameSpec, PhaseSound, Moves, Keeps, SetLocalStoragePhase,
       LocalStorage, Initialized, AssignedLocalstorage, LocalStorageIsPending

LEMMA ReadyCopyKept ==
    ASSUME NEW l \in LocalStorage, DeclaredSize(l) # BadAnnotation
    PROVE  CopyKept(ReadyObject(l), l)
<1> DEFINE r == ReadyObject(l)
<1>1. /\ r.phase = "Ready" /\ SameSpec(r, l)
      /\ r.allocatable = DeclaredSize(l) /\ r.capacity = DeclaredSize(l)
      /\ r.volumes = l.volumes
  BY DEF ReadyObject, SameSpec, LocalStorage
<1>2. DeclaredSize(l) \in Nat
  <2>1. l.nodeSize \in NodeSizes \cup {NoAnnotation, BadAnnotation}
    BY DEF LocalStorage
  <2>2. QED
    BY <2>1, SizeAssumption DEF DeclaredSize
<1>3. Initialized(r) /\ r.capacity # NoQuantity
  BY <1>1, <1>2, NilAssumption DEF Initialized
<1> HIDE DEF r
<1>4. CopyKept(r, l)
  BY <1>1, <1>2, <1>3 DEF CopyKept, PhaseSound, Moves, Keeps, AssignedLocalstorage,
                          LocalStorageIsPending, LocalStorageIsInitiating
<1>5. QED
  BY <1>4 DEF r

(* CreateVolume and DeleteVolume change the volume list and Allocatable.    *)
LEMMA VolumeCopyKept ==
    ASSUME NEW l \in LocalStorage, NEW copy \in LocalStorage,
           PhaseSound(l), Initialized(l),
           copy = [l EXCEPT !.volumes = copy.volumes, !.allocatable = copy.allocatable],
           Initialized(copy),
           Moves(copy, l)
    PROVE  CopyKept(copy, l)
<1>1. SameSpec(copy, l) /\ copy.phase = l.phase /\ copy.capacity = l.capacity
  BY DEF SameSpec, LocalStorage
<1>2. QED
  BY <1>1 DEF CopyKept, PhaseSound, AssignedLocalstorage, LocalStorageIsPending,
              LocalStorageIsInitiating

LEMMA WithVolumeCopy ==
    ASSUME NEW l \in LocalStorage, NEW v \in Volume, PhaseSound(l), Initialized(l),
           ~ContainsVolume(l, v.id)
    PROVE  CopyKept(WithVolume(l, v), l)
<1> DEFINE copy == WithVolume(l, v)
<1>1. copy \in LocalStorage
  BY WithVolumeType
<1>2. copy = [l EXCEPT !.volumes = copy.volumes, !.allocatable = copy.allocatable]
  <2>1. AddVolume(l, v) = [l EXCEPT !.volumes = AddVolume(l, v).volumes]
    BY DEF AddVolume, LocalStorage
  <2>2. QED
    BY <2>1 DEF WithVolume, LocalStorage
<1>3. Initialized(copy)
  <2>1. /\ AddVolume(l, v) \in LocalStorage
        /\ AddVolume(l, v).allocatable = l.allocatable
    BY AddVolumeType
  <2>2. l.allocatable \in Int
    BY DEF Initialized, LocalStorage, Quantity
  <2>3. v.size \in Int
    BY SizesAreIntegers DEF Volume
  <2>4. copy.allocatable = l.allocatable - v.size
    BY <2>1 DEF WithVolume, LocalStorage
  <2>5. l.allocatable - v.size \in Int
    BY <2>2, <2>3
  <2>6. QED
    BY <2>4, <2>5, NilAssumption DEF Initialized
<1>4. Moves(copy, l)
  <2>1. /\ copy.volumes = l.volumes \cup {v}
        /\ copy.allocatable = l.allocatable - v.size
        /\ copy.capacity = l.capacity
    BY DEF WithVolume, AddVolume, LocalStorage
  <2> HIDE DEF copy
  <2>2. Adds(copy, l, v)
    BY <2>1 DEF Adds
  <2>3. QED
    BY <2>2 DEF Moves
<1> HIDE DEF copy
<1>5. CopyKept(copy, l)
  BY <1>1, <1>2, <1>3, <1>4, VolumeCopyKept
<1>6. QED
  BY <1>5 DEF copy

(* The volume taken out is the one with the ID, for there is no other.      *)
LEMMA RemovedVolume ==
    ASSUME NEW l \in LocalStorage, NEW id \in VolIDs, UniqueIDs(l), Initialized(l)
    PROVE  Moves(WithoutVolume(l, id), l)
<1> DEFINE copy == WithoutVolume(l, id)
<1>1. /\ copy.volumes = {v \in l.volumes : v.id # id}
      /\ copy.allocatable = l.allocatable + RemovedSize(l, id)
      /\ copy.capacity = l.capacity
      /\ l.allocatable \in Int
  BY DEF WithoutVolume, RemoveVolume, LocalStorage, Initialized, Quantity
<1> HIDE DEF copy
<1>2. CASE ContainsVolume(l, id)
  <2>1. PICK v \in l.volumes : v.id = id
    BY <1>2 DEF ContainsVolume, VolumeIDs
  <2>2. \A u \in l.volumes : u.id = id => u = v
    BY <2>1 DEF UniqueIDs
  <2>3. RemovedSize(l, id) = v.size
    <3> DEFINE w == CHOOSE u \in l.volumes : u.id = id
    <3>1. w \in l.volumes /\ w.id = id
      BY <2>1
    <3>2. RemovedSize(l, id) = w.size
      BY <1>2 DEF RemovedSize
    <3> HIDE DEF w
    <3>3. QED
      BY <2>2, <3>1, <3>2
  <2>4. {u \in l.volumes : u.id # id} = l.volumes \ {v}
    BY <2>1, <2>2
  <2>5. Drops(copy, l, v)
    BY <1>1, <2>1, <2>3, <2>4 DEF Drops
  <2>6. QED
    BY <2>5 DEF Moves, copy
<1>3. CASE ~ContainsVolume(l, id)
  <2>1. RemovedSize(l, id) = 0 /\ {u \in l.volumes : u.id # id} = l.volumes
    BY <1>3 DEF RemovedSize, ContainsVolume, VolumeIDs
  <2>2. Keeps(copy, l)
    BY <1>1, <2>1 DEF Keeps
  <2>3. QED
    BY <2>2 DEF Moves, copy
<1>4. QED
  BY <1>2, <1>3

LEMMA WithoutVolumeCopy ==
    ASSUME NEW l \in LocalStorage, NEW id \in VolIDs, VersionSound(l), Initialized(l)
    PROVE  CopyKept(WithoutVolume(l, id), l)
<1> DEFINE copy == WithoutVolume(l, id)
<1>1. copy \in LocalStorage
  BY WithoutVolumeType
<1>2. copy = [l EXCEPT !.volumes = copy.volumes, !.allocatable = copy.allocatable]
  BY DEF WithoutVolume, RemoveVolume, LocalStorage
<1>3. Initialized(copy)
  <2>1. l.allocatable \in Int /\ RemovedSize(l, id) \in Int
    BY RemovedSizeType DEF Initialized, LocalStorage, Quantity
  <2>2. copy.allocatable = l.allocatable + RemovedSize(l, id)
    BY DEF WithoutVolume, RemoveVolume, LocalStorage
  <2>3. l.allocatable + RemovedSize(l, id) \in Int
    BY <2>1
  <2>4. QED
    BY <2>2, <2>3, NilAssumption DEF Initialized
<1>4. Moves(copy, l)
  BY RemovedVolume DEF VersionSound
<1> HIDE DEF copy
<1>5. CopyKept(copy, l)
  BY <1>1, <1>2, <1>3, <1>4, VolumeCopyKept DEF VersionSound
<1>6. QED
  BY <1>5 DEF copy

----------------------------------------------------------------------------
(* Every step is of one of the five kinds. *)

LEMMA CachedIsSound ==
    ASSUME VInv, Cached # NoObject
    PROVE  Cached \in LocalStorage /\ VersionSound(Cached) /\ seen \in 1 .. Len(log)
BY CachedIsHeld DEF VInv, VersionsSound, Cached

LEMMA SyncReads == ASSUME VInv, SyncPending \/ SyncInitialize PROVE Reads
<1>1. CASE SyncPending
  BY <1>1, CachedIsSound, PhaseCopyKept DEF SyncPending, Begin, Reads, VersionSound, Cached
<1>2. CASE SyncInitialize
  BY <1>2, CachedIsSound, ReadyCopyKept
     DEF SyncInitialize, PastPending, Begin, Reads, Cached
<1>3. QED
  BY <1>1, <1>2

LEMMA VolumeReads ==
    ASSUME VInv, NEW id \in VolIDs,
           DeleteBegin(id) \/ \E size \in Sizes : CreateBegin(id, size)
    PROVE  Reads
<1>1. CASE DeleteBegin(id)
  BY <1>1, CachedIsSound, WithoutVolumeCopy
     DEF DeleteBegin, DeleteStarts, Begin, Reads, VersionSound, Cached
<1>2. ASSUME NEW size \in Sizes, CreateBegin(id, size)
      PROVE  Reads
  <2> DEFINE v == [id |-> id, size |-> size]
  <2>1. v \in Volume
    BY DEF Volume
  <2>2. Cached # NoObject /\ Initialized(Cached)
    BY <1>2 DEF CreateBegin, CreateStarts
  <2>3. CopyKept(WithVolume(Cached, v), Cached)
    <3>1. ~ContainsVolume(Cached, v.id)
      BY <1>2, <2>2, CachedIsSound
         DEF CreateBegin, CreateStarts, VInv, IInv, HistorySound, Recorded, Cached
    <3>2. QED
      BY <2>1, <2>2, <3>1, CachedIsSound, WithVolumeCopy DEF VersionSound
  <2>4. QED
    BY <1>2, <2>2, <2>3, CachedIsSound DEF CreateBegin, Begin, Reads, Cached
<1>3. QED
  BY <1>1, <1>2

(* CreateVolume draws a UUID no version has listed; nothing else adds one.  *)
LEMMA OpFresh ==
    ASSUME IInv, Writing, op.rv = Len(log)
    PROVE  Fresh(op.new)
<1> SUFFICES ASSUME NEW id \in VolIDs, Recorded(op.new, id), ~Recorded(Current, id)
             PROVE  ~Listed(id)
  BY DEF Fresh
<1>1. op.pc \in {"create", "delete"} /\ id = op.id
  BY DEF IInv, OpSound, Current, Writing
<1>2. op.pc = "create"
  BY <1>1 DEF IInv, OpSound
<1>3. QED
  BY <1>1, <1>2 DEF IInv, OpSound, Listed

(* The Updates of the plugin and the ones that arrive late.                 *)
LEMMA OpWrites ==
    ASSUME VInv, SyncWritten \/ CreateWritten \/ DeleteWritten
    PROVE  Writes(op.new)
<1>1. Writing /\ Update(op.rv, op.new) /\ op.rv = Len(log) /\ Exists
  BY DEF SyncWritten, CreateWritten, DeleteWritten, Writing, Update
<1>2. op.new \in LocalStorage /\ Held(op.new)
  BY <1>1, OpCopySound DEF VInv, CopySound
<1>3. CopyKept(op.new, Current)
  BY <1>1 DEF VInv, CopiesKept, Current
<1>4. op'.pc \in {"idle", "rmdir"}
  <2>1. CASE SyncWritten \/ CreateWritten
    <3>1. op' = Idle
      BY <2>1 DEF SyncWritten, CreateWritten, Finish
    <3>2. QED
      BY <3>1 DEF Idle
  <2>2. CASE DeleteWritten
    <3>1. op' = [Idle EXCEPT !.pc = "rmdir", !.id = op.id]
      BY <2>2 DEF DeleteWritten
    <3>2. QED
      BY <3>1 DEF Idle
  <2>3. QED
    BY <2>1, <2>2
<1>5. Fresh(op.new)
  BY <1>1, OpFresh DEF VInv
<1>6. QED
  BY <1>1, <1>2, <1>3, <1>4, <1>5 DEF Writes, NotWritingNext

LEMMA LateWrites ==
    ASSUME VInv, LateArrives, op' = op
    PROVE  \E copy \in late : Writes(copy)
<1>1. PICK copy \in late : Update(Len(log), copy)
  BY DEF LateArrives
<1>2. /\ copy \in LocalStorage /\ Held(copy) /\ CopyKept(copy, Current)
      /\ Fresh(copy) /\ Exists
  BY <1>1 DEF VInv, IInv, TypeOK, TypeOKApi, LateSound, CopySound, CopiesKept,
              LateFresh, Update
<1>3. QED
  BY <1>1, <1>2 DEF Writes, NotWritingNext

LEMMA StepKinds ==
    ASSUME VInv, [Next]_vars
    PROVE  Quiet \/ Reads \/ GivesUp \/ UserWrites \/ \E copy : Writes(copy)
<1>1. CASE InformerNext \/ Restart
  <2>1. UNCHANGED << apiVars, op >>
    BY <1>1 DEF InformerNext, Deliver, Notify, Resync, RetryTimer, Restart
  <2>2. QED
    BY <2>1 DEF Quiet, NotWritingNext
<1>2. CASE SyncNext
  <2>1. CASE WorkerGet \/ SyncNothing \/ SyncError
    <3>1. UNCHANGED apiVars /\ op' \in {op, Idle}
      BY <2>1 DEF WorkerGet, SyncNothing, SyncError, Finish
    <3>2. QED
      BY <3>1 DEF Quiet, NotWritingNext, Idle
  <2>2. QED
    BY <1>2, <2>1, SyncReads, OpWrites DEF SyncNext
<1>3. CASE VolumeNext
  <2>1. ASSUME NEW id \in VolIDs, CreatePanics(id) \/ DeletePanics(id)
        PROVE  Quiet
    BY <2>1 DEF CreatePanics, DeletePanics, ProcessStops, Idle, Quiet, NotWritingNext
  <2>2. CASE RemoveDir \/ RemoveDirFails
    BY <2>2 DEF RemoveDir, RemoveDirFails, Idle, Quiet, NotWritingNext
  <2>3. QED
    BY <1>3, <2>1, <2>2, VolumeReads, OpWrites DEF VolumeNext
<1>4. CASE WriteRefused
  BY <1>4 DEF WriteRefused, Fails, Idle, Quiet, NotWritingNext
<1>5. CASE WriteAbandoned
  BY <1>5 DEF WriteAbandoned, Fails, Idle, GivesUp, NotWritingNext
<1>6. CASE Crash
  BY <1>6 DEF Crash, ProcessStops, Idle, Quiet, GivesUp, NotWritingNext
<1>7. CASE ApiNext /\ UNCHANGED pluginVars
  BY <1>7, LateWrites DEF ApiNext, UserWrites, pluginVars
<1>8. CASE UNCHANGED vars
  BY <1>8 DEF vars, pluginVars, Quiet, NotWritingNext
<1>9. QED
  BY <1>1, <1>2, <1>3, <1>4, <1>5, <1>6, <1>7, <1>8 DEF Next, PluginNext

----------------------------------------------------------------------------
(* What the steps that write a version write. *)

(* Admission keeps what a copy says of the spec and of the initialisation,  *)
(* and leaves a finalizer on what is not being deleted.                     *)
LEMMA MovedIDs ==
    ASSUME NEW copy, NEW version, Moves(copy, version), UniqueIDs(version)
    PROVE  UniqueIDs(copy)
BY DEF Moves, Keeps, Adds, Drops, UniqueIDs, ContainsVolume, VolumeIDs

(* No copy leaves less than the capacity: what creation takes the list      *)
(* gains, what deletion gives back it loses.                                *)
LEMMA MovedBooks ==
    ASSUME NEW copy, NEW version \in LocalStorage, Moves(copy, version), BooksKept(version)
    PROVE  BooksKept(copy)
<1>1. \A v \in version.volumes : v.size \in Nat
  BY SizeAssumption DEF LocalStorage, Volume
<1>2. IsFiniteSet(version.volumes) /\ TotalSize(version.volumes) \in Nat
  BY <1>1, TotalSizeType DEF BooksKept
<1>3. Initialized(version) => version.allocatable \in Int
  BY DEF LocalStorage, Quantity, Initialized
<1>4. CASE Keeps(copy, version)
  BY <1>2, <1>4 DEF Keeps, BooksKept, Initialized
<1>5. ASSUME NEW v, Adds(copy, version, v)
      PROVE  BooksKept(copy)
  <2>1. v \notin version.volumes /\ v.size \in Nat
    BY <1>5, SizeAssumption DEF Adds, ContainsVolume, VolumeIDs, Volume
  <2>2. /\ IsFiniteSet(copy.volumes)
        /\ TotalSize(copy.volumes) = v.size + TotalSize(version.volumes)
    BY <1>1, <1>2, <1>5, <2>1, TotalSizeAdd, FS_AddElement DEF Adds
  <2>3. QED
    BY <1>2, <1>3, <1>5, <2>1, <2>2 DEF Adds, BooksKept
<1>6. ASSUME NEW v, Drops(copy, version, v)
      PROVE  BooksKept(copy)
  <2>1. IsFiniteSet(copy.volumes)
    BY <1>2, <1>6, FS_RemoveElement DEF Drops
  <2>2. /\ TotalSize(version.volumes) = v.size + TotalSize(copy.volumes)
        /\ v.size \in Nat /\ TotalSize(copy.volumes) \in Nat
    BY <1>1, <1>2, <1>6, <2>1, TotalSizeRemove, TotalSizeType DEF Drops
  <2>3. QED
    BY <1>2, <1>3, <1>6, <2>1, <2>2 DEF Drops, BooksKept
<1>7. QED
  BY <1>4, <1>5, <1>6 DEF Moves

LEMMA AdmittedCopy ==
    ASSUME NEW copy \in LocalStorage, CopyKept(copy, Current), ValidateBackend(copy),
           Current \in LocalStorage, UniqueIDs(Current), BooksKept(Current)
    PROVE  /\ CopyKept(MutateUpdate(copy), Current)
           /\ VersionSound(MutateUpdate(copy))
           /\ MutateUpdate(copy).volumes = copy.volumes
<1>0. /\ MutateUpdate(copy).volumes = copy.volumes
      /\ MutateUpdate(copy).allocatable = copy.allocatable
      /\ MutateUpdate(copy).capacity = copy.capacity
      /\ MutateUpdate(copy).phase = copy.phase
      /\ SameSpec(MutateUpdate(copy), copy)
  BY DEF MutateUpdate, SetFinalizer, LocalStorage, SameSpec
<1>1. CopyKept(MutateUpdate(copy), Current)
  <2>1. Moves(MutateUpdate(copy), Current)
    BY <1>0 DEF CopyKept, Moves, Keeps, Adds, Drops
  <2>2. QED
    BY <1>0, <2>1 DEF CopyKept, SameSpec, PhaseSound, Initialized,
                      AssignedLocalstorage, LocalStorageIsPending,
                      LocalStorageIsInitiating
<1>2. ~(MutateUpdate(copy).path /\ MutateUpdate(copy).lvm)
  BY DEF MutateUpdate, SetFinalizer, LocalStorage, ValidateBackend
<1>3. MutateUpdate(copy).deleting \/ MutateUpdate(copy).finalizer
  BY DEF MutateUpdate, SetFinalizer, LocalStorage
<1>4. UniqueIDs(MutateUpdate(copy)) /\ BooksKept(MutateUpdate(copy))
  BY <1>1, MovedIDs, MovedBooks DEF CopyKept
<1>5. QED
  BY <1>0, <1>1, <1>2, <1>3, <1>4 DEF VersionSound, CopyKept

LEMMA WritesVersion ==
    ASSUME VInv, NEW copy, Writes(copy)
    PROVE  /\ Exists
           /\ Store(MutateUpdate(copy))
           /\ MutateUpdate(copy) \in LocalStorage
           /\ MutateUpdate(copy) # NoObject
           /\ CopyKept(MutateUpdate(copy), Current)
           /\ VersionSound(MutateUpdate(copy))
           /\ Fresh(MutateUpdate(copy))
           /\ Current' = MutateUpdate(copy)
<1>1. /\ copy \in LocalStorage /\ Held(copy) /\ CopyKept(copy, Current)
      /\ Update(Len(log), copy) /\ ValidateBackend(copy) /\ TypeOKApi
  BY DEF Writes, Update, ValidateUpdate, VInv, IInv, TypeOK
<1>2. /\ Exists
      /\ Store(MutateUpdate(copy))
      /\ MutateUpdate(copy) \in LocalStorage
      /\ MutateUpdate(copy) # NoObject
  BY <1>1, UpdateEffect
<1>3. Current \in LocalStorage /\ UniqueIDs(Current) /\ BooksKept(Current)
  <2>1. Len(log) \in 1 .. Len(log)
    BY <1>1, LastVersion
  <2>2. QED
    BY <1>1, <1>2, <2>1, LastVersion DEF VInv, VersionsSound, VersionSound, Exists, Current
<1>4. MutateUpdate(copy).volumes = copy.volumes
  BY <1>1, <1>3, AdmittedCopy
<1>5. Fresh(MutateUpdate(copy))
  BY <1>1, <1>4, ObjectAssumption
     DEF Writes, Fresh, Recorded, ContainsVolume, VolumeIDs
<1>6. QED
  BY <1>1, <1>2, <1>3, <1>5, AdmittedCopy, StoreEffect

(* Users' writes: of a new object, and of an existing one.                  *)
UserVersion(version) ==
    /\ version \in LocalStorage \cup {NoObject}
    /\ Store(version)
    /\ version # NoObject => VersionSound(version)
    /\ Exists /\ version = NoObject => Current.deleting
    /\ Exists /\ version # NoObject =>
          /\ version.phase = Current.phase
          /\ version.allocatable = Current.allocatable
          /\ version.volumes = Current.volumes
    /\ ~Exists => /\ version # NoObject
                  /\ version.allocatable = NoQuantity
                  /\ version.volumes = {}

LEMMA CreatedVersion ==
    ASSUME NEW path \in BOOLEAN, NEW lvm \in BOOLEAN,
           NEW s \in NodeSizes \cup {NoAnnotation, BadAnnotation},
           UserCreate(path, lvm, s)
    PROVE  \E version : UserVersion(version)
<1>0. PICK phase \in {"", "Pending", "Initiating"}, volumes \in SUBSET Volume :
           LET new == MutateCreate(Submitted(path, lvm, s, phase, volumes)) IN
           ValidateBackend(new) /\ Store(new)
  BY DEF UserCreate
<1> DEFINE version == MutateCreate(Submitted(path, lvm, s, phase, volumes))
<1>1. version \in LocalStorage
  BY MutateCreateType
<1>2. ~(version.path /\ version.lvm)
  BY <1>0 DEF ValidateBackend
<1>3. /\ version.finalizer /\ version.phase \in {"Pending", "Initiating"}
      /\ ~Initialized(version) /\ version.volumes = {}
  BY DEF MutateCreate, SetFinalizer, Submitted, Initialized
<1>4. Store(version) /\ ~Exists
  BY <1>0 DEF UserCreate
<1> HIDE DEF version
<1>5. UserVersion(version)
  BY <1>1, <1>2, <1>3, <1>4, ObjectAssumption, FS_EmptySet
     DEF UserVersion, VersionSound, PhaseSound, UniqueIDs, BooksKept, Initialized
<1>6. QED
  BY <1>5

LEMMA EditKeeps ==
    ASSUME NEW l \in LocalStorage, NEW new \in Edits(l)
    PROVE  /\ new.phase = l.phase
           /\ new.allocatable = l.allocatable
           /\ new.capacity = l.capacity
           /\ new.deleting = l.deleting
           /\ new.volumes = l.volumes
<1>1. CASE \E b \in BOOLEAN : new = [l EXCEPT !.path = b]
  BY <1>1 DEF LocalStorage
<1>2. CASE \E b \in BOOLEAN : new = [l EXCEPT !.lvm = b]
  BY <1>2 DEF LocalStorage
<1>3. CASE \E s \in NodeSizes \cup {NoAnnotation, BadAnnotation} :
              new = [l EXCEPT !.nodeSize = s]
  BY <1>3 DEF LocalStorage
<1>4. CASE new = [l EXCEPT !.finalizer = FALSE]
  BY <1>4 DEF LocalStorage
<1>5. QED
  BY <1>1, <1>2, <1>3, <1>4 DEF Edits

(* An edit that takes the last finalizer off removes an object only when    *)
(* that is being deleted: the webhook puts the finalizer of any other back. *)
LEMMA EditedVersion ==
    ASSUME Current \in LocalStorage, VersionSound(Current),
           NEW new \in Edits(Current), UserEdit(new)
    PROVE  \E version : UserVersion(version)
<1> DEFINE m == MutateUpdate(new)
<1>1. new \in LocalStorage
  BY EditsType
<1>2. /\ m \in LocalStorage
      /\ m.phase = Current.phase
      /\ m.allocatable = Current.allocatable /\ m.capacity = Current.capacity
      /\ m.deleting = Current.deleting
      /\ m.deleting \/ m.finalizer
      /\ m.path = new.path /\ m.lvm = new.lvm
      /\ m.volumes = Current.volumes
  BY <1>1, EditKeeps DEF MutateUpdate, SetFinalizer, LocalStorage
<1>3. ~(new.path /\ new.lvm) /\ Store(AfterFinalizers(m))
  BY DEF UserEdit, ValidateUpdate, ValidateBackend
<1> HIDE DEF m
<1>4. VersionSound(m)
  BY <1>2, <1>3 DEF VersionSound, PhaseSound, Initialized, AssignedLocalstorage,
                    LocalStorageIsPending, LocalStorageIsInitiating, UniqueIDs,
                    BooksKept
<1>5. CASE m.deleting /\ ~m.finalizer
  BY <1>2, <1>3, <1>5, ObjectAssumption DEF UserVersion, AfterFinalizers, Exists
<1>6. CASE ~(m.deleting /\ ~m.finalizer)
  BY <1>2, <1>3, <1>4, <1>6, ObjectAssumption DEF UserVersion, AfterFinalizers, Exists
<1>7. QED
  BY <1>5, <1>6

(* A deletion leaves the object to its finalizer.                           *)
LEMMA DeletedVersion ==
    ASSUME Current \in LocalStorage, VersionSound(Current), UserDelete
    PROVE  \E version : UserVersion(version)
<1> DEFINE d == [Current EXCEPT !.deleting = TRUE]
<1>1. /\ d \in LocalStorage
      /\ d.phase = Current.phase
      /\ d.allocatable = Current.allocatable /\ d.capacity = Current.capacity
      /\ d.finalizer = Current.finalizer /\ d.deleting
      /\ d.path = Current.path /\ d.lvm = Current.lvm
      /\ d.volumes = Current.volumes
  BY DEF LocalStorage
<1>2. Store(AfterFinalizers(d)) /\ ~Current.deleting
  BY DEF UserDelete
<1> HIDE DEF d
<1>3. AfterFinalizers(d) = d
  BY <1>1, <1>2 DEF VersionSound, AfterFinalizers
<1>4. VersionSound(d)
  BY <1>1 DEF VersionSound, PhaseSound, Initialized, AssignedLocalstorage,
              LocalStorageIsPending, LocalStorageIsInitiating, UniqueIDs,
              BooksKept
<1>5. UserVersion(d)
  BY <1>1, <1>2, <1>3, <1>4, ObjectAssumption DEF UserVersion, Exists
<1>6. QED
  BY <1>5

LEMMA UserWritesVersion ==
    ASSUME VInv, UserWrites
    PROVE  \E version : UserVersion(version)
<1>1. Len(log) \in Nat \ {0} /\ Current \in LocalStorage \cup {NoObject}
  BY LastVersion DEF VInv, IInv, TypeOK
<1>2. Exists => Current \in LocalStorage /\ VersionSound(Current)
  BY <1>1 DEF VInv, VersionsSound, Exists, Current
<1>3. UserNext
  BY DEF UserWrites
<1>4. QED
  BY <1>2, <1>3, CreatedVersion, EditedVersion, DeletedVersion DEF UserNext, UserDelete

----------------------------------------------------------------------------
(* The invariant is kept. *)

OpCopyKept == Writing => CopyKept(op.new, log[op.rv])

LateCopiesKept == \A copy \in late : CopyKept(copy, Current)

(* A new version keeps the copies: the operation under way still has the    *)
(* version it read, and the requests given up on are void.                  *)
LEMMA StoreKeepsCopies ==
    ASSUME VInv, NEW version \in LocalStorage \cup {NoObject}, Store(version),
           version # NoObject => VersionSound(version),
           NotWritingNext
    PROVE  VersionsSound' /\ CopiesKept' /\ LateFresh'
<1>1. /\ TypeOKApi'
      /\ Current' = version
      /\ \/ log' = log /\ late' = late
         \/ Len(log') = Len(log) + 1 /\ late' = {} /\ version # Current
      /\ \A n \in 1 .. Len(log) : log'[n] = log[n]
      /\ \A n \in 1 .. Len(log') :
            n \in 1 .. Len(log) \/ (n = Len(log') /\ log'[n] = version)
  BY StoreEffect DEF VInv, IInv, TypeOK
<1>2. VersionsSound'
  <2> SUFFICES ASSUME NEW n \in 1 .. Len(log'), log'[n] # NoObject
               PROVE  VersionSound(log'[n])
    BY DEF VersionsSound
  <2>1. QED
    BY <1>1 DEF VInv, VersionsSound
<1>3. OpCopyKept'
  <2>1. CASE op' = op
    <3>1. Writing => op.rv \in 1 .. Len(log)
      BY LastVersion DEF VInv, IInv, TypeOK, TypeOKPlugin, OpSound
    <3>2. QED
      BY <1>1, <2>1, <3>1 DEF VInv, CopiesKept, OpCopyKept, Writing
  <2>2. CASE op'.pc \in {"idle", "rmdir"}
    BY <2>2 DEF OpCopyKept, Writing
  <2>3. QED
    BY <2>1, <2>2 DEF NotWritingNext
<1>4. LateCopiesKept'
  BY <1>1 DEF VInv, CopiesKept, LateCopiesKept, Current
<1>5. LateFresh'
  BY <1>1 DEF VInv, LateFresh, Fresh, Listed, Current
<1>6. QED
  BY <1>2, <1>3, <1>4, <1>5 DEF CopiesKept, OpCopyKept, LateCopiesKept

LEMMA StepVInv == ASSUME VInv, [Next]_vars PROVE VInv'
<1>1. IInv'
  BY StepIInv DEF VInv
<1>2. CASE Quiet
  <2>1. VersionsSound' /\ LateCopiesKept'
    BY <1>2 DEF Quiet, VInv, VersionsSound, CopiesKept, LateCopiesKept, apiVars, Current
  <2>2. OpCopyKept'
    BY <1>2 DEF Quiet, NotWritingNext, VInv, CopiesKept, OpCopyKept, Writing, apiVars
  <2>3. LateFresh'
    BY <1>2 DEF Quiet, VInv, LateFresh, Fresh, Listed, apiVars, Current
  <2>4. QED
    BY <1>1, <2>1, <2>2, <2>3 DEF VInv, CopiesKept, OpCopyKept, LateCopiesKept
<1>3. CASE Reads
  <2>1. VersionsSound' /\ CopiesKept'
    BY <1>3 DEF Reads, VInv, VersionsSound, CopiesKept, apiVars, Current
  <2>2. LateFresh'
    BY <1>3 DEF Reads, VInv, LateFresh, Fresh, Listed, apiVars, Current
  <2>3. QED
    BY <1>1, <2>1, <2>2 DEF VInv
<1>4. CASE GivesUp
  <2>1. log' = log /\ late' = late \cup {op.new} /\ op.rv = Len(log) /\ Writing
    BY <1>4 DEF GivesUp, Abandon
  <2>2. LateCopiesKept' /\ VersionsSound'
    BY <2>1 DEF VInv, VersionsSound, CopiesKept, LateCopiesKept, Current
  <2>3. OpCopyKept'
    BY <1>4, <2>1 DEF GivesUp, NotWritingNext, VInv, CopiesKept, OpCopyKept, Writing
  <2>4. LateFresh'
    <3>1. Fresh(op.new)
      BY <2>1, OpFresh DEF VInv
    <3>2. QED
      BY <2>1, <3>1 DEF VInv, LateFresh, Fresh, Listed, Current
  <2>5. QED
    BY <1>1, <2>2, <2>3, <2>4 DEF VInv, CopiesKept, OpCopyKept, LateCopiesKept
<1>5. CASE UserWrites
  <2>1. PICK version : UserVersion(version)
    BY <1>5, UserWritesVersion
  <2>2. NotWritingNext
    BY <1>5 DEF UserWrites, NotWritingNext
  <2>3. QED
    BY <1>1, <2>1, <2>2, StoreKeepsCopies DEF UserVersion, VInv
<1>6. ASSUME NEW copy, Writes(copy)
      PROVE  VInv'
  BY <1>1, <1>6, WritesVersion, StoreKeepsCopies DEF Writes, VInv
<1>7. QED
  BY <1>2, <1>3, <1>4, <1>5, <1>6, StepKinds

LEMMA InitVInv == Init => VInv
<1> SUFFICES ASSUME Init PROVE VInv
  OBVIOUS
<1>1. IInv
  BY InitIInv
<1>2. log = << NoObject >> /\ late = {} /\ op = Idle
  BY DEF Init, InitApi, InitPlugin
<1>3. VersionsSound
  <2>1. \A n \in 1 .. Len(log) : log[n] = NoObject
    BY <1>2
  <2>2. QED
    BY <2>1 DEF VersionsSound
<1>4. CopiesKept
  BY <1>2 DEF CopiesKept, Writing, Idle
<1>5. LateFresh
  BY <1>2 DEF LateFresh
<1>6. QED
  BY <1>1, <1>3, <1>4, <1>5 DEF VInv

(* What every version satisfies, and what every copy owes to the version it *)
(* was read at, holds throughout, whatever the sizes and the bounds.        *)
THEOREM VersionInvariant == Spec => []VInv
<1>1. VInv /\ [Next]_vars => VInv'
  BY StepVInv
<1>2. QED
  BY InitVInv, <1>1, PTL DEF Spec

----------------------------------------------------------------------------
(* What one step does to the object. *)

(* sync's "never happen": the validating webhook lets no version have both  *)
(* backends, and sync reads versions only.                                  *)
THEOREM NeverBoth == Spec => []NeverBothBackends
<1>1. VInv => NeverBothBackends
  BY DEF VInv, VersionsSound, VersionSound, NeverBothBackends
<1>2. QED
  BY <1>1, VersionInvariant, PTL

(* What Filter dereferences of a Ready object is there, in every version a  *)
(* cache may hold.                                                          *)
THEOREM ReadyObjectsHaveSizes == Spec => []ReadyHasSizes
<1>1. VInv => ReadyHasSizes
  BY DEF VInv, VersionsSound, VersionSound, PhaseSound, ReadyHasSizes
<1>2. QED
  BY <1>1, VersionInvariant, PTL

(* Whatever is created and deleted, retried and applied late, what is       *)
(* allocatable and what the listed volumes take are no less than the        *)
(* capacity: no deletion keeps back what its creation took.                 *)
THEOREM PluginAllocatableNotUnderstated == Spec => []AllocatableNotUnderstated
<1>1. VInv => AllocatableNotUnderstated
  BY LastVersion
     DEF VInv, IInv, TypeOK, VersionsSound, VersionSound, BooksKept, Exists, Current,
         AllocatableNotUnderstated
<1>2. QED
  BY <1>1, VersionInvariant, PTL

(* A step that is not a user's either leaves the version or writes a copy.  *)
LEMMA StepWrites ==
    ASSUME VInv, [Next]_vars
    PROVE  \/ Current' = Current
           \/ UserNext /\ \E version : UserVersion(version) /\ Current' = version
           \/ Exists' /\ Exists /\ CopyKept(Current', Current)
<1>1. CASE Quiet \/ Reads \/ GivesUp
  <2>1. log' = log
    BY <1>1 DEF Quiet, Reads, GivesUp, Abandon, apiVars
  <2>2. QED
    BY <2>1 DEF Current
<1>2. CASE UserWrites
  <2>1. PICK version : UserVersion(version)
    BY <1>2, UserWritesVersion
  <2>2. Current' = version
    BY <2>1, StoreEffect DEF UserVersion, VInv, IInv, TypeOK
  <2>3. QED
    BY <1>2, <2>1, <2>2 DEF UserWrites
<1>3. ASSUME NEW copy, Writes(copy)
      PROVE  Exists' /\ Exists /\ CopyKept(Current', Current)
  BY <1>3, WritesVersion DEF Exists
<1>4. QED
  BY <1>1, <1>2, <1>3, StepKinds

(* The mutating webhook keeps LsProtectionFinalizer on every object that is *)
(* not being deleted, so that none goes away before its deletion is asked   *)
(* for.                                                                     *)
THEOREM RemovedWhenDeleting == Spec => RemovedOnlyWhenDeleting
<1>1. VInv /\ [Next]_vars => [Exists /\ ~Exists' => Current.deleting]_vars
  <2> SUFFICES ASSUME VInv, [Next]_vars, Exists, ~Exists'
               PROVE  Current.deleting
    OBVIOUS
  <2>1. QED
    BY StepWrites DEF Exists, UserVersion
<1>2. QED
  BY <1>1, VersionInvariant, PTL DEF Spec, RemovedOnlyWhenDeleting

(* The Updates of sync, CreateVolume and DeleteVolume, the late ones        *)
(* included, write back the backend, the annotation and the deletion that   *)
(* users last wrote.                                                        *)
THEOREM UserEditsKept == Spec => EditsKept
<1> DEFINE A == Exists /\ Exists' /\ ~UserNext =>
                  /\ Current'.path = Current.path
                  /\ Current'.lvm = Current.lvm
                  /\ Current'.nodeSize = Current.nodeSize
                  /\ Current'.deleting = Current.deleting
<1>1. VInv /\ [Next]_vars => A
  BY StepWrites DEF CopyKept, SameSpec
<1>2. QED
  BY <1>1, VersionInvariant, PTL DEF Spec, EditsKept

(* No Update of an older copy, and no edit, takes an initialised object     *)
(* back to Pending or Initiating.                                           *)
THEOREM InitializedForGood == Spec => NoStepBack
<1> DEFINE A == Exists /\ Exists' /\ Initialized(Current) =>
                  Initialized(Current') /\ ~AssignedLocalstorage(Current')
<1>1. VInv /\ [Next]_vars => A
  <2> SUFFICES ASSUME VInv, [Next]_vars, Exists, Exists', Initialized(Current)
               PROVE  Initialized(Current') /\ ~AssignedLocalstorage(Current')
    OBVIOUS
  <2>1. Current \in LocalStorage /\ VersionSound(Current)
    BY LastVersion DEF VInv, IInv, TypeOK, VersionsSound, Exists, Current
  <2>2. CASE Current' = Current
    BY <2>1, <2>2 DEF VersionSound, PhaseSound
  <2>3. ASSUME NEW version, UserVersion(version), Current' = version
        PROVE  Initialized(Current') /\ ~AssignedLocalstorage(Current')
    BY <2>1, <2>3 DEF Exists, UserVersion, VersionSound, PhaseSound, Initialized
  <2>4. CASE CopyKept(Current', Current)
    BY <2>4 DEF CopyKept, PhaseSound
  <2>5. QED
    BY <2>2, <2>3, <2>4, StepWrites
<1>2. QED
  BY <1>1, VersionInvariant, PTL DEF Spec, NoStepBack

----------------------------------------------------------------------------
(* The versions of the object are the steps of the ledger. *)

Entries == IF Exists THEN Current.volumes ELSE {}

Past == {id \in VolIDs : /\ ~Recorded(Current, id)
                         /\ \E p \in 1 .. Len(log) : Recorded(log[p], id)}

Free == IF Exists THEN Current.allocatable ELSE NoQuantity

LEMMA PastMeaning == \A id \in VolIDs : id \in Past <=> ~Recorded(Current, id) /\ Listed(id)
BY DEF Past, Listed

(* A write adds the volumes of its version to those that have been listed.  *)
LEMMA StoreLists ==
    ASSUME TypeOKApi, NEW version \in LocalStorage \cup {NoObject}, Store(version)
    PROVE  /\ Current' = version
           /\ \A id : Listed(id)' <=> Listed(id) \/ Recorded(version, id)
           /\ \A id : Recorded(Current, id) => Listed(id)
<1>1. /\ Current' = version
      /\ Len(log) \in Nat \ {0}
      /\ log' = log \/ Len(log') = Len(log) + 1
      /\ \A n \in 1 .. Len(log) : log'[n] = log[n]
      /\ \A n \in 1 .. Len(log') :
            n \in 1 .. Len(log) \/ (n = Len(log') /\ log'[n] = version)
  BY StoreEffect, LastVersion
<1>2. /\ Len(log) \in 1 .. Len(log) /\ Len(log') \in 1 .. Len(log')
      /\ \A n \in 1 .. Len(log) : n \in 1 .. Len(log')
  BY <1>1
<1>3. log'[Len(log')] = version
  BY <1>1 DEF Current
<1>4. \A id : Recorded(Current, id) => Listed(id)
  BY <1>2 DEF Listed, Current
<1>5. ASSUME NEW id
      PROVE  Listed(id)' <=> Listed(id) \/ Recorded(version, id)
  BY <1>1, <1>2, <1>3 DEF Listed
<1>6. QED
  BY <1>1, <1>4, <1>5

(* The mapping of the ledger's Next, without its name.                      *)
LedgerStep ==
    \/ Ledger!Next
    \/ UNCHANGED << Entries, Past, Free >>

(* A component's write is an initialisation, an entry, or a removal.        *)
LEMMA WriteIsLedgerStep ==
    ASSUME VInv, NEW copy, Writes(copy)
    PROVE  LedgerStep
<1> DEFINE version == MutateUpdate(copy)
<1>1. /\ Exists /\ Exists'
      /\ TypeOKApi
      /\ Store(version)
      /\ version \in LocalStorage
      /\ Moves(version, Current)
      /\ Fresh(version)
      /\ Current' = version
  BY WritesVersion DEF VInv, IInv, TypeOK, CopyKept, Exists
<1> HIDE DEF version
<1>2. Current \in LocalStorage /\ UniqueIDs(Current)
  BY <1>1, LastVersion DEF Exists, VInv, VersionsSound, VersionSound, Current
<1>3. /\ Entries = Current.volumes /\ Free = Current.allocatable
      /\ Entries' = version.volumes /\ Free' = version.allocatable
  BY <1>1 DEF Entries, Free
<1>4. /\ \A id : Listed(id)' <=> Listed(id) \/ Recorded(version, id)
      /\ \A id : Recorded(Current, id) => Listed(id)
  BY <1>1, StoreLists
<1>5. /\ \A id \in VolIDs : id \in Past <=> ~Recorded(Current, id) /\ Listed(id)
      /\ \A id \in VolIDs : id \in Past' <=> ~Recorded(version, id) /\ Listed(id)'
      /\ Past \subseteq VolIDs /\ Past' \subseteq VolIDs
  BY <1>1, PastMeaning DEF Past, Listed
<1>6. /\ \A id : Recorded(Current, id) <=> \E u \in Current.volumes : u.id = id
      /\ \A id : Recorded(version, id) <=> \E u \in version.volumes : u.id = id
  BY <1>1, <1>2, ObjectAssumption DEF Exists, Recorded, ContainsVolume, VolumeIDs
<1>7. CASE Keeps(version, Current)
  <2>1. Past' = Past
    BY <1>4, <1>5, <1>6, <1>7 DEF Keeps
  <2>2. CASE version.allocatable = Current.allocatable
    BY <1>3, <1>7, <2>1, <2>2 DEF Keeps, LedgerStep
  <2>3. CASE version.allocatable \in Nat
    <3>1. Ledger!Initialize
      BY <1>3, <1>7, <2>1, <2>3 DEF Keeps, Ledger!Initialize, Entries, Past, Free
    <3>2. QED
      BY <3>1 DEF LedgerStep, Ledger!Next
  <2>4. QED
    BY <1>7, <2>2, <2>3 DEF Keeps
<1>8. ASSUME NEW v, Adds(version, Current, v)
      PROVE  LedgerStep
  <2>1. /\ v.id \in VolIDs /\ v.size \in Sizes /\ v = [id |-> v.id, size |-> v.size]
        /\ ~Recorded(Current, v.id)
        /\ Recorded(version, v.id)
    BY <1>6, <1>8 DEF Adds, Volume, Recorded
  <2>2. ~Listed(v.id)
    BY <1>1, <2>1 DEF Fresh
  <2>9. \A id : Recorded(version, id) <=> Recorded(Current, id) \/ id = v.id
    BY <1>6, <1>8 DEF Adds
  <2>3. Past' = Past
    BY <1>4, <1>5, <2>1, <2>2, <2>9
  <2>4. v.id \notin Ledger!IDs \cup Past
    BY <1>3, <1>5, <1>6, <2>1, <2>2 DEF Ledger!IDs, Entries
  <2>5. Free # NoQuantity
    BY <1>3, <1>8 DEF Adds, Initialized
  <2>6. /\ Entries' = Entries \cup {[id |-> v.id, size |-> v.size]}
        /\ Free' = Free - v.size
    BY <1>3, <1>8, <2>1 DEF Adds
  <2>7. Ledger!Enter(v.id, v.size)
    BY <2>3, <2>4, <2>5, <2>6 DEF Ledger!Enter, Entries, Past, Free
  <2>8. QED
    BY <2>1, <2>7 DEF LedgerStep, Ledger!Next
<1>9. ASSUME NEW v, Drops(version, Current, v)
      PROVE  LedgerStep
  <2>1. /\ v \in Entries
        /\ v.id \in VolIDs
        /\ Recorded(Current, v.id)
        /\ \A u \in Current.volumes : u.id = v.id => u = v
    BY <1>2, <1>3, <1>6, <1>9 DEF Drops, UniqueIDs, LocalStorage, Volume
  <2>2. \A id : Recorded(version, id) <=> Recorded(Current, id) /\ id # v.id
    BY <1>6, <1>9, <2>1 DEF Drops
  <2>3. Past' = Past \cup {v.id}
    BY <1>4, <1>5, <2>1, <2>2
  <2>4. Entries' = Entries \ {v} /\ Free' = Free + v.size
    BY <1>3, <1>9 DEF Drops
  <2>5. Ledger!TakeOut(v)
    BY <2>3, <2>4 DEF Ledger!TakeOut, Entries, Past, Free
  <2>6. QED
    BY <2>1, <2>5 DEF LedgerStep, Ledger!Next, Entries
<1>10. QED
  BY <1>1, <1>7, <1>8, <1>9 DEF Moves

(* A user's write leaves the ledger alone, or closes it with the object.    *)
LEMMA UserIsLedgerStep ==
    ASSUME VInv, NEW version, UserVersion(version)
    PROVE  LedgerStep
<1>1. /\ TypeOKApi
      /\ version \in LocalStorage \cup {NoObject}
      /\ Store(version)
      /\ Current' = version
  BY StoreEffect DEF VInv, IInv, TypeOK, UserVersion
<1>2. /\ \A id : Listed(id)' <=> Listed(id) \/ Recorded(version, id)
      /\ \A id : Recorded(Current, id) => Listed(id)
  BY <1>1, StoreLists
<1>3. /\ \A id \in VolIDs : id \in Past <=> ~Recorded(Current, id) /\ Listed(id)
      /\ \A id \in VolIDs : id \in Past' <=> ~Recorded(version, id) /\ Listed(id)'
      /\ Past \subseteq VolIDs /\ Past' \subseteq VolIDs
  BY <1>1, PastMeaning DEF Past, Listed
<1>4. CASE Exists /\ version = NoObject
  <2>1. Entries' = {} /\ Free' = NoQuantity
    BY <1>1, <1>4 DEF Entries, Free, Exists
  <2>2. \A id : ~Recorded(version, id)
    BY <1>4 DEF Recorded
  <2>3. \A id : id \in Ledger!IDs <=> Recorded(Current, id)
    BY <1>4 DEF Ledger!IDs, Exists, Recorded, ContainsVolume, VolumeIDs
  <2>4. \A id : Recorded(Current, id) => id \in VolIDs
    BY <1>1, LastVersion
       DEF Recorded, ContainsVolume, VolumeIDs, LocalStorage, Volume
  <2>5. Past' = Past \cup Ledger!IDs
    BY <1>2, <1>3, <2>2, <2>3, <2>4
  <2>6. Ledger!Close
    BY <2>1, <2>5 DEF Ledger!Close, Entries, Past, Free
  <2>7. QED
    BY <2>6 DEF LedgerStep, Ledger!Next
<1>5. CASE ~(Exists /\ version = NoObject)
  <2>1. version # NoObject /\ Exists'
    BY <1>1, <1>5 DEF UserVersion, Exists
  <2>2. /\ version.volumes = Entries
        /\ version.allocatable = Free
    BY <1>5, <2>1 DEF UserVersion, Entries, Free
  <2>3. Entries' = Entries /\ Free' = Free
    BY <1>1, <2>1, <2>2 DEF Entries, Free
  <2>4. \A id : Recorded(version, id) <=> Recorded(Current, id)
    BY <2>1, <2>2 DEF Entries, Exists, Recorded, ContainsVolume, VolumeIDs
  <2>5. Past' = Past
    BY <1>2, <1>3, <2>4
  <2>6. QED
    BY <2>3, <2>5 DEF LedgerStep
<1>6. QED
  BY <1>4, <1>5

LEMMA StepIsLedgerStep == ASSUME VInv, [Next]_vars PROVE LedgerStep
<1>1. CASE Quiet \/ Reads \/ GivesUp
  <2>1. log' = log
    BY <1>1 DEF Quiet, Reads, GivesUp, Abandon, apiVars
  <2>2. QED
    BY <2>1 DEF LedgerStep, Entries, Past, Free, Exists, Current
<1>2. CASE UserWrites
  BY <1>2, UserWritesVersion, UserIsLedgerStep
<1>3. ASSUME NEW copy, Writes(copy)
      PROVE  LedgerStep
  BY <1>3, WriteIsLedgerStep
<1>4. QED
  BY <1>1, <1>2, <1>3, StepKinds

LEMMA InitIsLedgerInit == Init => Ledger!Init
<1> SUFFICES ASSUME Init PROVE Ledger!Init
  OBVIOUS
<1>1. log = << NoObject >>
  BY DEF Init, InitApi
<1>2. ~Exists /\ \A p \in 1 .. Len(log) : log[p] = NoObject
  BY <1>1 DEF Exists, Current
<1>3. \A id \in VolIDs : \A p \in 1 .. Len(log) : ~Recorded(log[p], id)
  BY <1>2 DEF Recorded
<1>4. QED
  BY <1>2, <1>3 DEF Ledger!Init

(* The plugin implements the ledger, for any volumes and sizes: what stale  *)
(* caches, lost replies, late requests and crashes make of CreateVolume and *)
(* DeleteVolume, each version is at most one entry or removal away from the *)
(* one before, Allocatable with it, and no UUID is entered twice.           *)
THEOREM PluginImplementsLedger == Spec => ImplementsLedger
<1>1. VInv /\ [Next]_vars => [Ledger!Next]_(Ledger!ledger)
  BY StepIsLedgerStep DEF LedgerStep, Ledger!ledger, Entries, Past, Free
<1>2. QED
  BY InitIsLedgerInit, <1>1, VersionInvariant, PTL DEF Spec, ImplementsLedger, Ledger!Spec

----------------------------------------------------------------------------
(* The plugin and the storage controller together. *)

(* What the Update of a worker of the controller owes to the version it was *)
(* read at.                                                                 *)
CtlSound ==
    ctlOp # NoUpdate =>
        /\ ctlOp.rv \in 1 .. Len(log)
        /\ log[ctlOp.rv] # NoObject
        /\ ctlOp.new \in LocalStorage
        /\ Held(ctlOp.new)
        /\ ctlOp.new.volumes = log[ctlOp.rv].volumes
        /\ CopyKept(ctlOp.new, log[ctlOp.rv])

SysInv == VInv /\ TypeOKController /\ CtlSound

----------------------------------------------------------------------------
(* The log of the API server only grows. *)

LogGrows ==
    /\ Len(log') \in Nat
    /\ Len(log) <= Len(log')
    /\ \A n \in 1 .. Len(log) : log'[n] = log[n]

LEMMA StoreGrows ==
    ASSUME TypeOKApi, NEW version \in LocalStorage \cup {NoObject}, Store(version)
    PROVE  LogGrows
<1>1. Len(log) \in Nat /\ (log' = log \/ Len(log') = Len(log) + 1)
  BY StoreEffect, LastVersion
<1>2. Len(log') \in Nat /\ Len(log) <= Len(log')
  BY <1>1
<1>3. \A n \in 1 .. Len(log) : log'[n] = log[n]
  BY StoreEffect
<1>4. QED
  BY <1>2, <1>3 DEF LogGrows

LEMMA SameLogGrows == ASSUME VInv, log' = log PROVE LogGrows
BY LastVersion DEF LogGrows, VInv, IInv, TypeOK

LEMMA StepGrows == ASSUME VInv, [Next]_vars PROVE LogGrows
<1>0. TypeOKApi
  BY DEF VInv, IInv, TypeOK
<1>1. CASE Quiet \/ Reads \/ GivesUp
  <2>1. log' = log
    BY <1>1 DEF Quiet, Reads, GivesUp, Abandon, apiVars
  <2>2. QED
    BY <2>1, SameLogGrows
<1>2. CASE UserWrites
  <2>1. PICK version : UserVersion(version)
    BY <1>2, UserWritesVersion
  <2>2. QED
    BY <1>0, <2>1, StoreGrows DEF UserVersion
<1>3. ASSUME NEW copy, Writes(copy)
      PROVE  LogGrows
  BY <1>0, <1>3, WritesVersion, StoreGrows
<1>4. QED
  BY <1>1, <1>2, <1>3, StepKinds

----------------------------------------------------------------------------
(* No key is lost. *)

(* What the worker of the plugin is about to write is another phase than    *)
(* the object has while it waits for a sync, and the key is with the worker *)
(* till the reply.                                                          *)
SyncOwes ==
    op.pc = "sync" =>
        /\ queue.processing
        /\ op.new.phase \notin {"Pending", "Initiating"} \/
              (op.new.phase = "Initiating" /\ LocalStorageIsPending(log[op.rv]))

CtlOwes ==
    ctlOp # NoUpdate => ctlQueue.processing /\ ctlOp.new.phase # log[ctlOp.rv].phase

SyncKept ==
    SyncForgotten' =>
        \/ SyncForgotten
        \/ queue.processing /\ queue.requeues = MaxRetries /\ UNCHANGED log

CtlKept ==
    CtlForgotten' =>
        \/ CtlForgotten
        \/ ctlQueue.processing /\ ctlQueue.requeues = MaxRetries /\ UNCHANGED log

(* Only handleErr on an error leaves a key with nothing, and only then.     *)
LEMMA QueueEffect ==
    ASSUME NEW q \in Queue
    PROVE  /\ Add(q).dirty /\ Add(q).processing = q.processing
           /\ TimerFires(q).dirty /\ TimerFires(q).processing = q.processing
           /\ Get(q).processing
           /\ HandleErr(q, FALSE).waiting \/ q.requeues = MaxRetries
<1>1. /\ Add(q).dirty /\ Add(q).processing = q.processing
      /\ TimerFires(q).dirty /\ TimerFires(q).processing = q.processing
      /\ Get(q).processing
  BY DEF Queue, Add, TimerFires, Get
<1>2. MaxRetries \in Nat /\ q.requeues \in 0 .. MaxRetries
  BY RetriesAssumption DEF Queue
<1>3. q.requeues >= MaxRetries => q.requeues = MaxRetries
  BY <1>2
<1>4. ~(q.requeues >= MaxRetries) => HandleErr(q, FALSE).waiting
  BY DEF Queue, HandleErr, Done, AddRateLimited
<1>q. QED  BY <1>1, <1>3, <1>4

(* A version that the handlers have not been told of is not forgotten.      *)
LEMMA GrowthForgetsNothing ==
    ASSUME TypeOKApi, LogGrows
    PROVE  /\ TypeOKPlugin /\ UNCHANGED << up, notified, queue >> =>
                 (SyncForgotten' => SyncForgotten)
           /\ TypeOKController /\ UNCHANGED << ctlUp, ctlNotified, ctlQueue >> =>
                 (CtlForgotten' => CtlForgotten)
<1>1. Len(log) \in Nat \ {0} /\ Len(log') \in Nat /\ Len(log) <= Len(log')
  BY LastVersion DEF LogGrows
<1>2. Len(log') = Len(log) => Current' = Current
  BY <1>1 DEF LogGrows, Current
<1>3. ASSUME TypeOKPlugin, UNCHANGED << up, notified, queue >>, SyncForgotten'
      PROVE  SyncForgotten
  <2>1. notified \in Nat /\ notified <= Len(log) /\ notified = Len(log')
    BY <1>1, <1>3 DEF TypeOKPlugin, SyncForgotten
  <2>2. Len(log') = Len(log) /\ Current' = Current
    BY <1>1, <1>2, <2>1
  <2>q. QED  BY <1>3, <2>1, <2>2 DEF SyncForgotten, NeedsSync, Exists
<1>4. ASSUME TypeOKController, UNCHANGED << ctlUp, ctlNotified, ctlQueue >>, CtlForgotten'
      PROVE  CtlForgotten
  <2>1. ctlNotified \in Nat /\ ctlNotified <= Len(log) /\ ctlNotified = Len(log')
    BY <1>1, <1>4 DEF TypeOKController, CtlForgotten
  <2>2. Len(log') = Len(log) /\ Current' = Current
    BY <1>1, <1>2, <2>1
  <2>q. QED  BY <1>4, <2>1, <2>2 DEF CtlForgotten, Exists
<1>q. QED  BY <1>3, <1>4

(* An event handler that has been told of the last version has its key      *)
(* added, if the version is to be synced.                                   *)
LEMMA InformerForgetsNothing ==
    ASSUME VInv, SyncOwes, InformerNext
    PROVE  SyncOwes' /\ SyncKept
<1>1. /\ queue \in Queue /\ Len(log) \in Nat \ {0}
      /\ seen \in 1 .. Len(log) /\ notified \in 0 .. seen
  BY LastVersion DEF VInv, IInv, TypeOK, TypeOKPlugin
<1>2. UNCHANGED << apiVars, up, op >> /\ log' = log /\ Current' = Current
  BY DEF InformerNext, Deliver, Notify, Resync, RetryTimer, apiVars, Current
<1>3. queue' \in {queue, Add(queue), TimerFires(queue)}
  BY DEF InformerNext, Deliver, Notify, Resync, RetryTimer, Enqueued
<1>4. SyncOwes'
  BY <1>1, <1>2, <1>3, QueueEffect DEF SyncOwes
<1>5. CASE Deliver
  BY <1>2, <1>4, <1>5 DEF Deliver, SyncKept, SyncForgotten, NeedsSync, Exists
<1>6. ASSUME Notify \/ Resync, SyncForgotten'
      PROVE  FALSE
  <2>1. /\ notified' = Len(log) /\ NeedsSync /\ ~queue'.dirty
    BY <1>2, <1>6 DEF SyncForgotten, NeedsSync, Exists
  <2>2. queue' = Enqueued(queue, Current)
    <3>1. CASE Notify
      BY <1>2, <2>1, <3>1 DEF Notify, Current
    <3>2. CASE Resync
      BY <2>1, <3>2 DEF Resync, Cached, Current
    <3>q. QED  BY <1>6, <3>1, <3>2
  <2>3. queue' = Add(queue)
    BY <2>1, <2>2 DEF Enqueued, NeedsSync, Exists, AssignedLocalstorage
  <2>q. QED  BY <1>1, <2>1, <2>3, QueueEffect
<1>7. CASE RetryTimer
  BY <1>1, <1>4, <1>7, QueueEffect DEF RetryTimer, SyncKept, SyncForgotten
<1>q. QED  BY <1>4, <1>5, <1>6, <1>7 DEF InformerNext, SyncKept

(* The worker's reading: what it finds to do it has still to do, and where  *)
(* it finds nothing to do the last version is another one, or needs nothing.*)
LEMMA WorkerForgetsNothing ==
    ASSUME VInv, SyncOwes,
           WorkerGet \/ SyncNothing \/ SyncError \/ SyncPending \/ SyncInitialize
    PROVE  SyncOwes' /\ SyncKept
<1>1. /\ queue \in Queue /\ Len(log) \in Nat \ {0}
      /\ seen \in 1 .. Len(log) /\ notified \in 0 .. seen
      /\ Cached \in LocalStorage \cup {NoObject}
  BY LastVersion DEF VInv, IInv, TypeOK, TypeOKPlugin, Cached
<1>2. UNCHANGED << apiVars, up, seen, notified >> /\ log' = log /\ Current' = Current
  BY DEF WorkerGet, SyncNothing, SyncError, SyncPending, SyncInitialize, apiVars, Current
<1>3. CASE WorkerGet
  <2>1. queue'.processing /\ op' = op
    BY <1>1, <1>3, QueueEffect DEF WorkerGet
  <2>q. QED  BY <1>2, <2>1 DEF SyncOwes, SyncKept, SyncForgotten
<1>4. CASE SyncNothing
  <2>1. SyncOwes'
    BY <1>4 DEF SyncNothing, Finish, Idle, SyncOwes
  <2>2. ASSUME SyncForgotten'
        PROVE  FALSE
    <3>1. NeedsSync /\ notified = Len(log)
      BY <1>2, <2>2 DEF SyncForgotten, NeedsSync, Exists
    <3>2. Cached = Current
      BY <1>1, <3>1 DEF Cached, Current
    <3>q. QED  BY <1>4, <3>1, <3>2 DEF SyncNothing, PastPending, NeedsSync, Exists
  <2>q. QED  BY <2>1, <2>2 DEF SyncKept
<1>5. CASE SyncError
  <2>1. /\ op' = Idle /\ queue' = HandleErr(queue, FALSE) /\ queue.processing
    BY <1>5 DEF SyncError, Finish, SyncStarts
  <2>2. SyncOwes'
    BY <2>1 DEF Idle, SyncOwes
  <2>3. queue'.waiting \/ queue.requeues = MaxRetries
    BY <1>1, <2>1, QueueEffect
  <2>q. QED  BY <1>2, <2>1, <2>2, <2>3 DEF SyncKept, SyncForgotten
<1>6. CASE SyncPending \/ SyncInitialize
  <2>1. queue.processing /\ queue' = queue /\ op'.rv = seen /\ Cached = log[seen]
    BY <1>6 DEF SyncPending, SyncInitialize, SyncStarts, Begin, Cached
  <2>2. Cached \in LocalStorage
    BY <1>1, <1>6 DEF SyncPending, SyncInitialize, PastPending
  <2>3. \/ op'.new.phase = "Ready"
        \/ op'.new.phase = "Initiating" /\ LocalStorageIsPending(Cached)
    <3>1. CASE SyncPending
      BY <2>2, <3>1 DEF SyncPending, Begin, SetLocalStoragePhase, LocalStorage
    <3>2. CASE SyncInitialize
      BY <2>2, <3>2 DEF SyncInitialize, Begin, ReadyObject, LocalStorage
    <3>q. QED  BY <1>6, <3>1, <3>2
  <2>4. SyncOwes'
    BY <1>2, <2>1, <2>3 DEF SyncOwes, LocalStorageIsPending
  <2>q. QED  BY <2>1, <2>4 DEF SyncKept, SyncForgotten
<1>q. QED  BY <1>3, <1>4, <1>5, <1>6

(* The write of a sync makes a version that the handlers are told of; one   *)
(* that changed nothing would leave an object that needs no sync.           *)
LEMMA WrittenForgetsNothing ==
    ASSUME VInv, SyncOwes, SyncWritten
    PROVE  SyncOwes' /\ SyncKept
<1>1. /\ op.pc = "sync" /\ op' = Idle /\ notified' = notified /\ op.rv = Len(log)
      /\ Writing /\ Update(op.rv, op.new)
  BY DEF SyncWritten, Finish, Update, Writing
<1>2. /\ IInv /\ TypeOKApi /\ Len(log) \in Nat \ {0} /\ notified \in Nat /\ notified <= Len(log)
  BY LastVersion DEF VInv, IInv, TypeOK, TypeOKPlugin
<1>3. /\ Store(MutateUpdate(op.new)) /\ MutateUpdate(op.new) \in LocalStorage
  BY <1>1, <1>2, OpUpdate
<1>4. op.new \in LocalStorage
  BY <1>1, <1>2, OpCopySound
<1>5. MutateUpdate(op.new).phase = op.new.phase
  BY <1>4 DEF MutateUpdate, SetFinalizer, LocalStorage
<1>6. SyncOwes'
  BY <1>1 DEF Idle, SyncOwes
<1>7. ASSUME SyncForgotten'
      PROVE  FALSE
  <2>1. notified = Len(log') /\ NeedsSync'
    BY <1>1, <1>7 DEF SyncForgotten
  <2>2. log' = log /\ Current' = MutateUpdate(op.new) /\ Current = MutateUpdate(op.new)
    <3>1. log' = log \/ Len(log') = Len(log) + 1
      BY <1>2, <1>3, StoreEffect
    <3>2. log' = log
      BY <1>2, <2>1, <3>1
    <3>q. QED  BY <1>2, <1>3, <3>2, StoreEffect DEF Current
  <2>3. op.new.phase \in {"Pending", "Initiating"}
    BY <1>5, <2>1, <2>2 DEF NeedsSync, LocalStorageIsPending, LocalStorageIsInitiating
  <2>4. op.new.phase = "Initiating" /\ LocalStorageIsPending(Current)
    BY <1>1, <2>3 DEF SyncOwes, Current
  <2>q. QED  BY <1>5, <2>2, <2>4 DEF LocalStorageIsPending
<1>q. QED  BY <1>6, <1>7 DEF SyncKept

(* An Update that fails sends the key to its retry, the last time excepted; *)
(* it is nothing to the key if it was not the worker's.                     *)
LEMMA FailureForgetsNothing ==
    ASSUME VInv, SyncOwes, WriteRefused \/ WriteAbandoned
    PROVE  SyncOwes' /\ SyncKept
<1>1. /\ op' = Idle /\ log' = log /\ UNCHANGED << up, notified >>
      /\ queue' = IF op.pc = "sync" THEN HandleErr(queue, FALSE) ELSE queue
  BY DEF WriteRefused, WriteAbandoned, Fails, Abandon, apiVars
<1>2. SyncOwes'
  BY <1>1 DEF Idle, SyncOwes
<1>3. CASE op.pc = "sync"
  <2>1. queue.processing /\ (queue'.waiting \/ queue.requeues = MaxRetries)
    BY <1>1, <1>3, QueueEffect DEF SyncOwes, VInv, IInv, TypeOK, TypeOKPlugin
  <2>q. QED  BY <1>1, <1>2, <2>1 DEF SyncKept, SyncForgotten
<1>4. CASE op.pc # "sync"
  BY <1>1, <1>2, <1>4 DEF SyncKept, SyncForgotten, NeedsSync, Exists, Current
<1>q. QED  BY <1>3, <1>4

(* CreateVolume and DeleteVolume leave the queue alone, a process that      *)
(* stops has none, and one that starts is told of the last version again.   *)
LEMMA OthersForgetNothing ==
    ASSUME VInv, SyncOwes, VolumeNext \/ Crash \/ Restart
    PROVE  SyncOwes' /\ SyncKept
<1>1. CASE Restart
  <2>1. log' = log /\ notified' = Len(log) - 1 /\ UNCHANGED << op, queue >>
    BY <1>1 DEF Restart, apiVars
  <2>2. Len(log) \in Nat
    BY LastVersion DEF VInv, IInv, TypeOK
  <2>q. QED  BY <2>1, <2>2 DEF SyncOwes, SyncKept, SyncForgotten
<1>2. CASE Crash \/ \E id \in VolIDs : CreatePanics(id) \/ DeletePanics(id)
  <2>1. up' = FALSE /\ op' = Idle
    BY <1>2 DEF Crash, CreatePanics, DeletePanics, ProcessStops
  <2>q. QED  BY <2>1 DEF Idle, SyncOwes, SyncKept, SyncForgotten
<1>3. ASSUME UNCHANGED << up, notified, queue >>, op'.pc # "sync", [Next]_vars
      PROVE  SyncOwes' /\ SyncKept
  BY <1>3, StepGrows, GrowthForgetsNothing
     DEF VInv, IInv, TypeOK, SyncOwes, SyncKept
<1>4. ASSUME NEW pc \in {"create", "delete"}, NEW new, NEW id, Begin(pc, new, id)
      PROVE  op'.pc # "sync"
  BY <1>4 DEF Begin
<1>5. ASSUME NEW id \in VolIDs, NEW size \in Sizes, CreateBegin(id, size)
      PROVE  UNCHANGED << up, notified, queue >> /\ op'.pc # "sync"
  <2>1. UNCHANGED << up, notified, queue >>
    BY <1>5 DEF CreateBegin
  <2>2. Begin("create", WithVolume(Cached, [id |-> id, size |-> size]), id)
    BY <1>5 DEF CreateBegin
  <2>q. QED  BY <2>1, <2>2, <1>4
<1>6. ASSUME NEW id \in VolIDs, DeleteBegin(id)
      PROVE  UNCHANGED << up, notified, queue >> /\ op'.pc # "sync"
  <2>1. UNCHANGED << up, notified, queue >>
    BY <1>6 DEF DeleteBegin
  <2>2. Begin("delete", WithoutVolume(Cached, id), id)
    BY <1>6 DEF DeleteBegin
  <2>q. QED  BY <2>1, <2>2, <1>4
<1>7. ASSUME CreateWritten \/ RemoveDir \/ RemoveDirFails
      PROVE  UNCHANGED << up, notified, queue >> /\ op'.pc # "sync"
  <2>1. op' = Idle /\ UNCHANGED << up, notified, queue >>
    BY <1>7 DEF CreateWritten, RemoveDir, RemoveDirFails
  <2>q. QED  BY <2>1 DEF Idle
<1>8. ASSUME DeleteWritten
      PROVE  UNCHANGED << up, notified, queue >> /\ op'.pc # "sync"
  <2>1. /\ op' = [Idle EXCEPT !.pc = "rmdir", !.id = op.id]
        /\ UNCHANGED << up, notified, queue >>
    BY <1>8 DEF DeleteWritten
  <2>q. QED  BY <2>1 DEF Idle
<1>9. VolumeNext => [Next]_vars
  BY DEF Next, PluginNext
<1>q. QED  BY <1>1, <1>2, <1>3, <1>5, <1>6, <1>7, <1>8, <1>9 DEF VolumeNext

(* Writes of others do not touch the worker's copy, nor the version it was  *)
(* read at.                                                                 *)
LEMMA OutsideForgetsNothing ==
    ASSUME VInv, SyncOwes, LogGrows, UNCHANGED pluginVars
    PROVE  SyncOwes' /\ SyncKept
<1>1. UNCHANGED << up, notified, queue, op >>
  BY DEF pluginVars
<1>2. SyncKept
  BY <1>1, GrowthForgetsNothing DEF VInv, IInv, TypeOK, SyncKept
<1>3. op.pc = "sync" => log'[op.rv] = log[op.rv]
  <2>1. ASSUME op.pc = "sync"
        PROVE  op.rv \in 1 .. Len(log)
    BY <2>1 DEF VInv, IInv, OpSound, Writing, TypeOK, TypeOKPlugin
  <2>q. QED  BY <2>1 DEF LogGrows
<1>q. QED  BY <1>1, <1>2, <1>3 DEF SyncOwes

LEMMA StepForgetsNothing ==
    ASSUME VInv, SyncOwes, [Next]_vars
    PROVE  SyncOwes' /\ SyncKept
<1>1. CASE PluginNext
  BY <1>1, InformerForgetsNothing, WorkerForgetsNothing, WrittenForgetsNothing,
     FailureForgetsNothing, OthersForgetNothing DEF PluginNext, SyncNext
<1>2. CASE (ApiNext /\ UNCHANGED pluginVars) \/ UNCHANGED vars
  <2>1. UNCHANGED pluginVars
    BY <1>2 DEF vars
  <2>q. QED  BY <2>1, StepGrows, OutsideForgetsNothing
<1>q. QED  BY <1>1, <1>2 DEF Next

(* The plugin loses no key of an object that it has still to initialise:    *)
(* the filter, the queue, a conflict, a lost reply or a restart may delay   *)
(* the sync, and only handleErr drops it, after maxRetries failures.        *)
THEOREM PluginSyncsNotForgotten == Spec => SyncsNotForgotten
<1>1. Init => SyncOwes
  BY DEF Init, InitPlugin, Idle, SyncOwes
<1>2. VInv /\ SyncOwes /\ [Next]_vars => SyncOwes' /\ SyncKept
  BY StepForgetsNothing
<1>3. SyncKept => (SyncForgotten' =>
          \/ SyncForgotten
          \/ queue.processing /\ queue.requeues = MaxRetries /\ UNCHANGED log)
  BY DEF SyncKept
<1>q. QED  BY <1>1, <1>2, <1>3, VersionInvariant, PTL DEF Spec, SyncsNotForgotten

----------------------------------------------------------------------------
(* The steps of the controller. *)

(* A longer log leaves the controller's positions in it, and its copy the   *)
(* version it was read at.                                                  *)
LEMMA GrowthKeepsController ==
    ASSUME TypeOKController, CtlSound, LogGrows, Len(log) \in Nat,
           ctlUp' \in BOOLEAN,
           ctlSeen' \in 1 .. Len(log),
           ctlNotified' \in 0 .. ctlSeen',
           ctlQueue' \in Queue,
           ctlOp' \in {ctlOp, NoUpdate}
    PROVE  TypeOKController' /\ CtlSound'
<1>1. ctlSeen' \in 1 .. Len(log')
  BY DEF LogGrows
<1>2. ctlOp' \in [rv : 0 .. Len(log'), new : LocalStorage \cup {NoObject}]
  <2>1. ctlOp.rv \in 0 .. Len(log') /\ 0 \in 0 .. Len(log')
    BY DEF TypeOKController, LogGrows
  <2>2. CASE ctlOp' = ctlOp
    BY <2>1, <2>2 DEF TypeOKController
  <2>3. CASE ctlOp' = NoUpdate
    BY <2>1, <2>3 DEF NoUpdate
  <2>4. QED
    BY <2>2, <2>3
<1>3. CtlSound'
  BY DEF CtlSound, LogGrows
<1>4. QED
  BY <1>1, <1>2, <1>3 DEF TypeOKController

(* The phases syncStorage writes: Terminating, and Initiating over Pending. *)
LEMMA WantedCopyKept ==
    ASSUME NEW l \in LocalStorage, PhaseSound(l), Held(l), WantedPhase(l) # l.phase
    PROVE  /\ SetLocalStoragePhase(l, WantedPhase(l)) \in LocalStorage
           /\ SetLocalStoragePhase(l, WantedPhase(l)).volumes = l.volumes
           /\ Held(SetLocalStoragePhase(l, WantedPhase(l)))
           /\ CopyKept(SetLocalStoragePhase(l, WantedPhase(l)), l)
<1> DEFINE copy == SetLocalStoragePhase(l, WantedPhase(l))
<1>1. WantedPhase(l) \in {"Terminating", "Initiating"}
      /\ (WantedPhase(l) = "Initiating" => LocalStorageIsPending(l))
  BY DEF WantedPhase
<1>2. WantedPhase(l) \in Phases
  BY <1>1 DEF Phases
<1>3. copy \in LocalStorage /\ copy.volumes = l.volumes /\ Held(copy)
  BY <1>2, SetPhaseType
<1>4. SameSpec(copy, l) /\ copy.phase = WantedPhase(l)
      /\ copy.allocatable = l.allocatable /\ copy.capacity = l.capacity
      /\ copy.volumes = l.volumes
  BY DEF SetLocalStoragePhase, SameSpec, LocalStorage
<1> HIDE DEF copy
<1>5. CopyKept(copy, l)
  BY <1>1, <1>4 DEF CopyKept, PhaseSound, Moves, Keeps, Initialized,
                    AssignedLocalstorage, LocalStorageIsPending,
                    LocalStorageIsInitiating
<1>6. QED
  BY <1>3, <1>5 DEF copy

LEMMA CtlSyncBeginStep ==
    ASSUME SysInv, CtlSyncBegin
    PROVE  TypeOKController' /\ CtlSound'
<1>1. log' = log /\ ctlSeen \in 1 .. Len(log) /\ ctlQueue \in Queue /\ Len(log) \in Nat
  BY LastVersion
     DEF CtlSyncBegin, apiVars, SysInv, TypeOKController, VInv, IInv, TypeOK
<1>2. CtlCached \in LocalStorage /\ PhaseSound(CtlCached) /\ Held(CtlCached)
  <2>1. CtlCached \in LocalStorage \cup {NoObject} /\ CtlCached # NoObject
    BY <1>1, LastVersion DEF CtlSyncBegin, CtlCached, SysInv, VInv, IInv, TypeOK
  <2>2. VersionSound(CtlCached) /\ Held(CtlCached)
    BY <1>1, <2>1 DEF CtlCached, SysInv, VInv, VersionsSound, IInv, HistorySound
  <2>3. QED
    BY <2>1, <2>2 DEF VersionSound
<1> DEFINE copy == SetLocalStoragePhase(CtlCached, WantedPhase(CtlCached))
<1>3. /\ copy \in LocalStorage
      /\ copy.volumes = CtlCached.volumes
      /\ Held(copy)
      /\ CopyKept(copy, CtlCached)
  BY <1>2, WantedCopyKept DEF CtlSyncBegin
<1>4. ctlOp' = [rv |-> ctlSeen, new |-> copy]
      /\ ctlQueue' \in Queue
      /\ UNCHANGED << ctlUp, ctlSeen, ctlNotified >>
      /\ CtlCached # NoObject
  BY <1>1, QueueType DEF CtlSyncBegin
<1> HIDE DEF copy
<1>5. ctlOp'.rv = ctlSeen /\ ctlOp'.new = copy
      /\ ctlOp' \in [rv : 0 .. Len(log), new : LocalStorage \cup {NoObject}]
  BY <1>1, <1>3, <1>4
<1>6. TypeOKController'
  BY <1>1, <1>4, <1>5 DEF SysInv, TypeOKController
<1>7. CtlSound'
  BY <1>1, <1>3, <1>4, <1>5 DEF CtlSound, CtlCached
<1>8. QED
  BY <1>6, <1>7

(* What a worker writes, or leaves on its way, is a copy of the last        *)
(* version with a phase it may take.                                        *)
LEMMA CtlCopy ==
    ASSUME SysInv, CtlWriting, ctlOp.rv = Len(log)
    PROVE  /\ Exists
           /\ ctlOp.new \in LocalStorage
           /\ Held(ctlOp.new)
           /\ CopySound(ctlOp.new)
           /\ CopyKept(ctlOp.new, Current)
           /\ Fresh(ctlOp.new)
           /\ \A id : Recorded(ctlOp.new, id) <=> Recorded(Current, id)
<1>1. /\ Exists
      /\ ctlOp.new \in LocalStorage
      /\ Held(ctlOp.new)
      /\ ctlOp.new.volumes = Current.volumes
      /\ CopyKept(ctlOp.new, Current)
  BY DEF SysInv, CtlSound, CtlWriting, Exists, Current
<1>2. CopySound(ctlOp.new)
  BY <1>1, SameVolumes DEF SysInv, VInv
<1>3. \A id : Recorded(ctlOp.new, id) <=> Recorded(Current, id)
  BY <1>1, ObjectAssumption DEF Exists, Recorded, ContainsVolume, VolumeIDs
<1>4. QED
  BY <1>1, <1>2, <1>3 DEF Fresh

(* The operation of the plugin that makes a volume is alone with it.        *)
LEMMA CreatingAlone ==
    ASSUME IInv, op.pc = "create"
    PROVE  ~Recorded(Current, op.id)
BY LastVersion DEF IInv, OpSound, TypeOK, Current

(* The controller's Update, seen from the plugin.                           *)
LEMMA CtlWrittenStep ==
    ASSUME SysInv, CtlWriting, Update(ctlOp.rv, ctlOp.new), UNCHANGED pluginVars
    PROVE  VInv' /\ Writes(ctlOp.new) /\ LogGrows
<1> DEFINE version == MutateUpdate(ctlOp.new)
<1>1. VInv /\ IInv /\ TypeOKApi /\ ctlOp.rv = Len(log) /\ op' = op
  BY DEF SysInv, VInv, IInv, TypeOK, Update, pluginVars
<1>2. /\ Exists
      /\ ctlOp.new \in LocalStorage
      /\ Held(ctlOp.new)
      /\ CopySound(ctlOp.new)
      /\ CopyKept(ctlOp.new, Current)
      /\ Fresh(ctlOp.new)
      /\ \A id : Recorded(ctlOp.new, id) <=> Recorded(Current, id)
  BY <1>1, CtlCopy
<1>3. Writes(ctlOp.new)
  BY <1>1, <1>2 DEF Writes, NotWritingNext
<1>4. /\ Store(version)
      /\ version \in LocalStorage
      /\ Held(version)
      /\ \A id : Recorded(version, id) <=> Recorded(ctlOp.new, id)
  BY <1>1, <1>2, UpdateEffect
<1>5. VersionSound(version)
  BY <1>1, <1>3, WritesVersion
<1> HIDE DEF version
<1>6. CopySound(version)
  BY <1>2, <1>4, AdmittedCopySound
<1>7. op.pc = "create" => ~Recorded(version, op.id)
  BY <1>1, <1>2, <1>4, CreatingAlone
<1>8. IInv'
  BY <1>1, <1>4, <1>6, <1>7, ApiWriteStep
<1>9. VersionsSound' /\ CopiesKept' /\ LateFresh'
  BY <1>1, <1>4, <1>5, StoreKeepsCopies DEF NotWritingNext
<1>10. QED
  BY <1>1, <1>3, <1>4, <1>8, <1>9, StoreGrows DEF VInv

(* The request the controller gave up on joins those on their way.          *)
LEMMA CtlAbandonStep ==
    ASSUME SysInv, CtlWriting, Abandon(ctlOp.rv, ctlOp.new), UNCHANGED pluginVars
    PROVE  VInv' /\ log' = log
<1> DEFINE copy == ctlOp.new
<1>1. /\ VInv /\ IInv
      /\ ctlOp.rv = Len(log) /\ log' = log /\ late' = late \cup {copy}
      /\ UNCHANGED << up, seen, notified, queue, op, dirs, used, pv >>
  BY DEF SysInv, VInv, Abandon, pluginVars
<1>2. /\ copy \in LocalStorage
      /\ CopySound(copy)
      /\ CopyKept(copy, Current)
      /\ Fresh(copy)
      /\ \A id : Recorded(copy, id) <=> Recorded(Current, id)
  BY <1>1, CtlCopy
<1> HIDE DEF copy
<1>3. TypeOK'
  BY <1>1, <1>2 DEF IInv, TypeOK, TypeOKApi, TypeOKPlugin
<1>4. LateSound'
  BY <1>1, <1>2 DEF IInv, LateSound, CopySound, Current
<1>5. OpSound'
  <2>1. op.pc = "create" => ~Recorded(copy, op.id)
    BY <1>1, <1>2, CreatingAlone
  <2>2. QED
    BY <1>1, <2>1 DEF IInv, OpSound, Writing, Current
<1>6. ReleasedVolumesGone'
  BY <1>1, <1>2 DEF IInv, ReleasedVolumesGone, Current
<1>7. HistorySound' /\ VolumesHaveDirs' /\ BoundVolumesKept'
  BY <1>1 DEF IInv, HistorySound, VolumesHaveDirs, BoundVolumesKept, Current
<1>8. VersionsSound' /\ CopiesKept'
  BY <1>1, <1>2 DEF VInv, VersionsSound, CopiesKept, Writing, Current
<1>9. LateFresh'
  BY <1>1, <1>2 DEF VInv, LateFresh, Fresh, Listed, Current
<1>10. QED
  BY <1>1, <1>3, <1>4, <1>5, <1>6, <1>7, <1>8, <1>9 DEF VInv, IInv

(* What the steps of the controller do to the log and to the controller.    *)
LEMMA ControllerSteps ==
    ASSUME SysInv, ControllerNext
    PROVE  /\ \/ UNCHANGED apiVars
              \/ CtlWriting /\ Update(ctlOp.rv, ctlOp.new)
              \/ CtlWriting /\ Abandon(ctlOp.rv, ctlOp.new)
           /\ \/ CtlSyncBegin
              \/ /\ ctlUp' \in BOOLEAN
                 /\ ctlSeen' \in 1 .. Len(log)
                 /\ ctlNotified' \in 0 .. ctlSeen'
                 /\ ctlQueue' \in Queue
                 /\ ctlOp' \in {ctlOp, NoUpdate}
<1>1. /\ Len(log) \in Nat \ {0} /\ ctlUp \in BOOLEAN
      /\ ctlSeen \in 1 .. Len(log) /\ ctlNotified \in 0 .. ctlSeen
      /\ ctlQueue \in Queue
  BY LastVersion DEF SysInv, TypeOKController, VInv, IInv, TypeOK
<1>2. /\ Add(ctlQueue) \in Queue
      /\ TimerFires(ctlQueue) \in Queue
      /\ EmptyQueue \in Queue
      /\ Get(ctlQueue) \in Queue
      /\ \A ok \in BOOLEAN : HandleErr(ctlQueue, ok) \in Queue
  BY <1>1, QueueType
<1>3. HandleErr(Get(ctlQueue), TRUE) \in Queue
  BY <1>2, QueueType
<1>4. CASE CtlDeliver \/ CtlNotify \/ CtlResync \/ CtlRetryTimer
  BY <1>1, <1>2, <1>4 DEF CtlDeliver, CtlNotify, CtlResync, CtlRetryTimer
<1>5. CASE CtlSyncNothing
  BY <1>1, <1>3, <1>5 DEF CtlSyncNothing
<1>6. CASE CtlSyncBegin
  BY <1>6 DEF CtlSyncBegin
<1>7. CASE CtlWritten \/ CtlRefused \/ CtlAbandoned
  BY <1>1, <1>2, <1>7 DEF CtlWritten, CtlRefused, CtlAbandoned, CtlFinish
<1>8. CASE CtlCrash
  <2>1. /\ ctlUp' = FALSE /\ ctlSeen' = 1 /\ ctlNotified' = 0
        /\ ctlQueue' = EmptyQueue /\ ctlOp' = NoUpdate
    BY <1>8 DEF CtlCrash
  <2>2. 1 \in 1 .. Len(log) /\ 0 \in 0 .. 1
    BY <1>1
  <2>3. /\ ctlUp' \in BOOLEAN /\ ctlSeen' \in 1 .. Len(log)
        /\ ctlNotified' \in 0 .. ctlSeen' /\ ctlQueue' \in Queue
        /\ ctlOp' \in {ctlOp, NoUpdate}
    BY <1>2, <2>1, <2>2
  <2>4. UNCHANGED apiVars \/ (CtlWriting /\ Abandon(ctlOp.rv, ctlOp.new))
    BY <1>8 DEF CtlCrash
  <2>5. QED
    BY <2>3, <2>4
<1>9. CASE CtlRestart
  BY <1>1, <1>9 DEF CtlRestart
<1>10. QED
  BY <1>4, <1>5, <1>6, <1>7, <1>8, <1>9 DEF ControllerNext

(* A step of the controller keeps the plugin's invariant.                   *)
LEMMA ControllerVInv ==
    ASSUME SysInv, ControllerNext, UNCHANGED pluginVars
    PROVE  VInv' /\ LogGrows
<1>1. CASE UNCHANGED apiVars
  <2>1. VInv /\ UNCHANGED vars /\ log' = log
    BY <1>1 DEF SysInv, vars, apiVars
  <2>2. QED
    BY <2>1, StepVInv, SameLogGrows
<1>2. CASE CtlWriting /\ Update(ctlOp.rv, ctlOp.new)
  BY <1>2, CtlWrittenStep
<1>3. CASE CtlWriting /\ Abandon(ctlOp.rv, ctlOp.new)
  BY <1>3, CtlAbandonStep, SameLogGrows DEF SysInv
<1>4. QED
  BY <1>1, <1>2, <1>3, ControllerSteps

----------------------------------------------------------------------------
(* The invariant of the system. *)

LEMMA SysStep == SysInv /\ [SysNext]_sysVars => SysInv'
<1> SUFFICES ASSUME SysInv, [SysNext]_sysVars PROVE SysInv'
  OBVIOUS
<1>0. VInv /\ TypeOKController /\ CtlSound /\ Len(log) \in Nat
  BY LastVersion DEF SysInv, VInv, IInv, TypeOK
<1>1. CASE [Next]_vars /\ UNCHANGED ctlVars
  <2>1. VInv' /\ LogGrows
    BY <1>0, <1>1, StepVInv, StepGrows
  <2>2. /\ UNCHANGED << ctlUp, ctlSeen, ctlNotified, ctlQueue, ctlOp >>
        /\ ctlUp \in BOOLEAN /\ ctlSeen \in 1 .. Len(log)
        /\ ctlNotified \in 0 .. ctlSeen /\ ctlQueue \in Queue
    BY <1>0, <1>1 DEF ctlVars, TypeOKController
  <2>3. TypeOKController' /\ CtlSound'
    BY <1>0, <2>1, <2>2, GrowthKeepsController
  <2>4. QED
    BY <2>1, <2>3 DEF SysInv
<1>2. CASE ControllerNext /\ UNCHANGED pluginVars
  <2>1. VInv' /\ LogGrows
    BY <1>2, ControllerVInv
  <2>2. TypeOKController' /\ CtlSound'
    BY <1>0, <1>2, <2>1, ControllerSteps, CtlSyncBeginStep, GrowthKeepsController
  <2>3. QED
    BY <2>1, <2>2 DEF SysInv
<1>3. CASE UNCHANGED sysVars
  <2>1. [Next]_vars /\ UNCHANGED ctlVars
    BY <1>3 DEF sysVars
  <2>2. QED
    BY <1>1, <2>1
<1>4. QED
  BY <1>1, <1>2, <1>3 DEF SysNext, Next

LEMMA SysInitInv == SysInit => SysInv
<1> SUFFICES ASSUME SysInit PROVE SysInv
  OBVIOUS
<1>1. VInv
  BY InitVInv DEF SysInit
<1>2. Len(log) = 1 /\ ctlOp = NoUpdate
  BY DEF SysInit, Init, InitApi, InitController
<1>3. CtlSound
  BY <1>2 DEF CtlSound
<1>4. TypeOKController
  <2>1. EmptyQueue \in Queue
    BY RetriesAssumption DEF EmptyQueue, Queue
  <2>2. NoUpdate \in [rv : 0 .. Len(log), new : LocalStorage \cup {NoObject}]
    BY <1>2 DEF NoUpdate
  <2>3. QED
    BY <1>2, <2>1, <2>2 DEF SysInit, InitController, TypeOKController
<1>5. QED
  BY <1>1, <1>3, <1>4 DEF SysInv

(* The plugin's invariant survives the company of the controller.           *)
THEOREM SystemInvariant == SysSafety => []SysInv
BY SysInitInv, SysStep, PTL DEF SysSafety

(* Neither cache runs ahead of the API server, and neither queue retries    *)
(* more than maxRetries times, whoever writes.                              *)
THEOREM SystemTypeCorrect == SysSafety => []SysTypeOK
<1>1. SysInv => SysTypeOK
  BY DEF SysInv, VInv, IInv, SysTypeOK
<1>2. QED
  BY <1>1, SystemInvariant, PTL

(* A phase that the controller writes from an old cache, or whose reply is  *)
(* lost and which is applied late, drops no volume that CreateVolume        *)
(* returned.                                                                *)
THEOREM SystemBoundVolumesKept == SysSafety => []BoundVolumesKept
<1>1. SysInv => BoundVolumesKept
  BY DEF SysInv, VInv, IInv
<1>2. QED
  BY <1>1, SystemInvariant, PTL

(* Nor does it bring a volume back that DeleteVolume reported deleted, or   *)
(* list one that has no directory.                                          *)
THEOREM SystemVolumesTrue == SysSafety => [](VolumesHaveDirs /\ ReleasedVolumesGone)
<1>1. SysInv => VolumesHaveDirs /\ ReleasedVolumesGone
  BY DEF SysInv, VInv, IInv
<1>2. QED
  BY <1>1, SystemInvariant, PTL

(* Nor does the controller, whose copies carry older sizes, make Allocatable *)
(* less than what the listed volumes leave.                                 *)
THEOREM SystemAllocatableNotUnderstated == SysSafety => []AllocatableNotUnderstated
<1>1. SysInv => AllocatableNotUnderstated
  BY LastVersion
     DEF SysInv, VInv, IInv, TypeOK, VersionsSound, VersionSound, BooksKept, Exists,
         Current, AllocatableNotUnderstated
<1>2. QED
  BY <1>1, SystemInvariant, PTL

(* No version written by either component says Ready without the sizes.     *)
THEOREM SystemReadyHasSizes == SysSafety => []ReadyHasSizes
<1>1. SysInv => ReadyHasSizes
  BY DEF SysInv, VInv, VersionsSound, VersionSound, PhaseSound, ReadyHasSizes
<1>2. QED
  BY <1>1, SystemInvariant, PTL

----------------------------------------------------------------------------
(* What one step of the system does to the object. *)

LEMMA SysStepWrites ==
    ASSUME SysInv, [SysNext]_sysVars
    PROVE  \/ Current' = Current
           \/ UserNext /\ \E version : UserVersion(version) /\ Current' = version
           \/ Exists' /\ Exists /\ CopyKept(Current', Current)
<1>0. VInv
  BY DEF SysInv
<1>1. CASE [Next]_vars
  BY <1>0, <1>1, StepWrites
<1>2. CASE ControllerNext /\ UNCHANGED pluginVars
  <2>1. CASE CtlWriting /\ Update(ctlOp.rv, ctlOp.new)
    <3>1. Writes(ctlOp.new)
      BY <1>2, <2>1, CtlWrittenStep
    <3>2. QED
      BY <1>0, <3>1, WritesVersion DEF Exists
  <2>2. CASE UNCHANGED apiVars \/ Abandon(ctlOp.rv, ctlOp.new)
    BY <2>2 DEF apiVars, Abandon, Current
  <2>3. QED
    BY <1>2, <2>1, <2>2, ControllerSteps
<1>3. CASE UNCHANGED sysVars
  BY <1>1, <1>3 DEF sysVars
<1>4. QED
  BY <1>1, <1>2, <1>3 DEF SysNext, Next

(* The controller's Initiating, written late, does not undo a Ready of the  *)
(* plugin, nor the plugin's the other way round.                            *)
THEOREM SystemNoStepBack == SysSafety => NoStepBack
<1> DEFINE A == Exists /\ Exists' /\ Initialized(Current) =>
                  Initialized(Current') /\ ~AssignedLocalstorage(Current')
<1>1. SysInv /\ [SysNext]_sysVars => A
  <2> SUFFICES ASSUME SysInv, [SysNext]_sysVars, Exists, Exists', Initialized(Current)
               PROVE  Initialized(Current') /\ ~AssignedLocalstorage(Current')
    OBVIOUS
  <2>1. Current \in LocalStorage /\ VersionSound(Current)
    BY LastVersion DEF SysInv, VInv, IInv, TypeOK, VersionsSound, Exists, Current
  <2>2. CASE Current' = Current
    BY <2>1, <2>2 DEF VersionSound, PhaseSound
  <2>3. ASSUME NEW version, UserVersion(version), Current' = version
        PROVE  Initialized(Current') /\ ~AssignedLocalstorage(Current')
    BY <2>1, <2>3 DEF Exists, UserVersion, VersionSound, PhaseSound, Initialized
  <2>4. CASE CopyKept(Current', Current)
    BY <2>4 DEF CopyKept, PhaseSound
  <2>5. QED
    BY <2>2, <2>3, <2>4, SysStepWrites
<1>2. QED
  BY <1>1, SystemInvariant, PTL DEF SysSafety, NoStepBack

(* Neither component's write reverts an edit, or a deletion, of the users.  *)
THEOREM SystemEditsKept == SysSafety => EditsKept
<1> DEFINE A == Exists /\ Exists' /\ ~UserNext =>
                  /\ Current'.path = Current.path
                  /\ Current'.lvm = Current.lvm
                  /\ Current'.nodeSize = Current.nodeSize
                  /\ Current'.deleting = Current.deleting
<1>1. SysInv /\ [SysNext]_sysVars => A
  BY SysStepWrites DEF CopyKept, SameSpec
<1>2. QED
  BY <1>1, SystemInvariant, PTL DEF SysSafety, EditsKept

(* Nor does the controller, which marks an object Terminating, let it go    *)
(* before its deletion.                                                     *)
THEOREM SystemRemovedWhenDeleting == SysSafety => RemovedOnlyWhenDeleting
<1>1. SysInv /\ [SysNext]_sysVars => (Exists /\ ~Exists' => Current.deleting)
  BY SysStepWrites DEF Exists, UserVersion
<1>2. QED
  BY <1>1, SystemInvariant, PTL DEF SysSafety, RemovedOnlyWhenDeleting

----------------------------------------------------------------------------
(* Neither component loses a key. *)

(* The handlers, the timer and the worker's reading, where it has nothing   *)
(* to write: it has read the last version, or is told of a later one.       *)
LEMMA CtlReadsForgetNothing ==
    ASSUME SysInv, CtlOwes,
           CtlDeliver \/ CtlNotify \/ CtlResync \/ CtlRetryTimer \/ CtlSyncNothing
    PROVE  CtlOwes' /\ CtlKept
<1>1. /\ ctlQueue \in Queue /\ Len(log) \in Nat \ {0}
      /\ ctlSeen \in 1 .. Len(log) /\ ctlNotified \in 0 .. ctlSeen
  BY LastVersion DEF SysInv, TypeOKController, VInv, IInv, TypeOK
<1>2. /\ log' = log /\ Current' = Current /\ UNCHANGED << ctlUp, ctlOp >>
  BY DEF CtlDeliver, CtlNotify, CtlResync, CtlRetryTimer, CtlSyncNothing, apiVars, Current
<1>3. CASE CtlDeliver
  BY <1>2, <1>3 DEF CtlDeliver, CtlOwes, CtlKept, CtlForgotten, Exists
<1>4. CASE CtlNotify \/ CtlResync \/ CtlRetryTimer
  <2>1. ctlQueue'.dirty /\ ctlQueue'.processing = ctlQueue.processing
    BY <1>1, <1>4, QueueEffect DEF CtlNotify, CtlResync, CtlRetryTimer
  <2>q. QED  BY <1>2, <2>1 DEF CtlOwes, CtlKept, CtlForgotten
<1>5. CASE CtlSyncNothing
  <2>1. ctlOp = NoUpdate
    BY <1>5 DEF CtlSyncNothing, CanGet, CtlOwes
  <2>2. ASSUME CtlForgotten'
        PROVE  FALSE
    <3>1. Exists /\ WantedPhase(Current) # Current.phase /\ ctlNotified = Len(log)
      BY <1>2, <1>5, <2>2 DEF CtlSyncNothing, CtlForgotten, Exists
    <3>2. CtlCached = Current
      BY <1>1, <3>1 DEF CtlCached, Current
    <3>q. QED  BY <1>5, <3>1, <3>2 DEF CtlSyncNothing, Exists
  <2>q. QED  BY <1>2, <2>1, <2>2 DEF CtlOwes, CtlKept
<1>q. QED  BY <1>3, <1>4, <1>5

(* A worker that has a phase to write holds the key, and its write makes a  *)
(* version the handlers are still to be told of.                            *)
LEMMA CtlWritesForgetNothing ==
    ASSUME SysInv, CtlOwes, CtlSyncBegin \/ CtlWritten
    PROVE  CtlOwes' /\ CtlKept
<1>1. /\ ctlQueue \in Queue /\ TypeOKApi /\ Len(log) \in Nat \ {0}
      /\ ctlSeen \in 1 .. Len(log) /\ ctlNotified \in 0 .. ctlSeen
  BY LastVersion DEF SysInv, TypeOKController, VInv, IInv, TypeOK
<1>2. CASE CtlSyncBegin
  <2>1. /\ log' = log /\ ctlQueue' = Get(ctlQueue)
        /\ ctlOp' = [ rv  |-> ctlSeen,
                      new |-> SetLocalStoragePhase(CtlCached, WantedPhase(CtlCached)) ]
    BY <1>2 DEF CtlSyncBegin, apiVars
  <2>2. ctlQueue'.processing
    BY <1>1, <2>1, QueueEffect
  <2>3. CtlCached \in LocalStorage /\ WantedPhase(CtlCached) # CtlCached.phase
    BY <1>1, <1>2, LastVersion DEF CtlSyncBegin, CtlCached
  <2>4. SetLocalStoragePhase(CtlCached, WantedPhase(CtlCached)).phase = WantedPhase(CtlCached)
    BY <2>3 DEF SetLocalStoragePhase, LocalStorage
  <2>5. ctlOp'.rv = ctlSeen /\ ctlOp'.new.phase # CtlCached.phase
    BY <2>1, <2>3, <2>4
  <2>6. log'[ctlOp'.rv] = CtlCached
    BY <2>1, <2>5 DEF CtlCached
  <2>q. QED  BY <2>2, <2>5, <2>6 DEF CtlOwes, CtlKept, CtlForgotten
<1>3. CASE CtlWritten
  <2>1. /\ CtlWriting /\ Update(ctlOp.rv, ctlOp.new) /\ ctlOp.rv = Len(log)
        /\ ctlOp' = NoUpdate /\ ctlNotified' = ctlNotified
    BY <1>3 DEF CtlWritten, CtlFinish, Update
  <2>2. ctlOp.new \in LocalStorage /\ Held(ctlOp.new)
    BY <2>1, CtlCopy
  <2>3. Store(MutateUpdate(ctlOp.new)) /\ MutateUpdate(ctlOp.new) \in LocalStorage
    BY <1>1, <2>1, <2>2, UpdateEffect
  <2>4. MutateUpdate(ctlOp.new).phase = ctlOp.new.phase
    BY <2>2 DEF MutateUpdate, SetFinalizer, LocalStorage
  <2>5. MutateUpdate(ctlOp.new) # Current
    BY <2>1, <2>4 DEF CtlWriting, CtlOwes, Current
  <2>6. Len(log') = Len(log) + 1
    <3>1. /\ Current' = MutateUpdate(ctlOp.new)
          /\ log' = log \/ Len(log') = Len(log) + 1
      BY <1>1, <2>3, StoreEffect
    <3>q. QED  BY <2>5, <3>1 DEF Current
  <2>7. ctlNotified' # Len(log')
    BY <1>1, <2>1, <2>6
  <2>q. QED  BY <2>1, <2>7 DEF CtlOwes, CtlKept, CtlForgotten
<1>q. QED  BY <1>2, <1>3

(* An Update that fails leads to a retry, a leader that is lost to the list *)
(* of the next one.                                                         *)
LEMMA CtlFailureForgetsNothing ==
    ASSUME SysInv, CtlOwes, CtlRefused \/ CtlAbandoned \/ CtlCrash \/ CtlRestart
    PROVE  CtlOwes' /\ CtlKept
<1>1. /\ ctlQueue \in Queue /\ Len(log) \in Nat \ {0}
  BY LastVersion DEF SysInv, TypeOKController, VInv, IInv, TypeOK
<1>2. log' = log
  BY DEF CtlRefused, CtlAbandoned, CtlCrash, CtlRestart, Abandon, apiVars
<1>3. CASE CtlRefused \/ CtlAbandoned
  <2>1. CtlWriting /\ ctlOp' = NoUpdate /\ ctlQueue' = HandleErr(ctlQueue, FALSE)
    BY <1>3 DEF CtlRefused, CtlAbandoned, CtlFinish
  <2>2. ctlQueue.processing
    BY <2>1 DEF CtlWriting, CtlOwes
  <2>3. ctlQueue'.waiting \/ ctlQueue.requeues = MaxRetries
    BY <1>1, <2>1, QueueEffect
  <2>q. QED  BY <1>2, <2>1, <2>2, <2>3 DEF CtlOwes, CtlKept, CtlForgotten
<1>4. CASE CtlCrash
  BY <1>4 DEF CtlCrash, CtlOwes, CtlKept, CtlForgotten
<1>5. CASE CtlRestart
  <2>1. ctlNotified' # Len(log') /\ UNCHANGED << ctlQueue, ctlOp >>
    BY <1>1, <1>2, <1>5 DEF CtlRestart
  <2>q. QED  BY <1>2, <2>1 DEF CtlOwes, CtlKept, CtlForgotten
<1>q. QED  BY <1>3, <1>4, <1>5

(* Whatever one component does leaves the other's keys as they are.         *)
LEMMA SysStepForgetsNothing ==
    ASSUME SysInv, SyncOwes, CtlOwes, [SysNext]_sysVars
    PROVE  SyncOwes' /\ SyncKept /\ CtlOwes' /\ CtlKept
<1>0. VInv /\ TypeOKApi /\ TypeOKController /\ CtlSound
  BY DEF SysInv, VInv, IInv, TypeOK
<1>1. CASE [Next]_vars /\ UNCHANGED ctlVars
  <2>1. SyncOwes' /\ SyncKept
    BY <1>0, <1>1, StepForgetsNothing
  <2>2. LogGrows
    BY <1>0, <1>1, StepGrows
  <2>3. UNCHANGED << ctlUp, ctlNotified, ctlQueue, ctlOp >>
    BY <1>1 DEF ctlVars
  <2>4. CtlKept
    BY <1>0, <2>2, <2>3, GrowthForgetsNothing DEF CtlKept
  <2>5. CtlOwes'
    BY <1>0, <2>2, <2>3 DEF CtlOwes, CtlSound, LogGrows
  <2>q. QED  BY <2>1, <2>4, <2>5
<1>2. CASE ControllerNext /\ UNCHANGED pluginVars
  <2>1. SyncOwes' /\ SyncKept
    BY <1>0, <1>2, ControllerVInv, OutsideForgetsNothing
  <2>2. CtlOwes' /\ CtlKept
    BY <1>2, CtlReadsForgetNothing, CtlWritesForgetNothing, CtlFailureForgetsNothing
       DEF ControllerNext
  <2>q. QED  BY <2>1, <2>2
<1>3. CASE UNCHANGED sysVars
  <2>1. [Next]_vars /\ UNCHANGED ctlVars
    BY <1>3 DEF sysVars
  <2>q. QED  BY <1>1, <2>1
<1>q. QED  BY <1>1, <1>2, <1>3 DEF SysNext, Next

LEMMA KeysOwed == SysSafety => [](SysInv /\ SyncOwes /\ CtlOwes)
<1>1. SysInit => SyncOwes /\ CtlOwes
  BY DEF SysInit, Init, InitPlugin, Idle, SyncOwes, InitController, CtlOwes
<1>2. SysInv /\ SyncOwes /\ CtlOwes /\ [SysNext]_sysVars => (SyncOwes /\ CtlOwes)'
  BY SysStepForgetsNothing
<1>q. QED  BY <1>1, <1>2, SystemInvariant, PTL DEF SysSafety

(* The controller's writes do not make the plugin lose the key of an object *)
(* that waits for its sync.                                                 *)
THEOREM SystemSyncsNotForgotten == SysSafety => SyncsNotForgotten
<1>1. SysInv /\ SyncOwes /\ CtlOwes /\ [SysNext]_sysVars =>
          (SyncForgotten' =>
               \/ SyncForgotten
               \/ queue.processing /\ queue.requeues = MaxRetries /\ UNCHANGED log)
  BY SysStepForgetsNothing DEF SyncKept
<1>q. QED  BY <1>1, KeysOwed, PTL DEF SysSafety, SyncsNotForgotten

(* A Ready of the plugin that overtakes Terminating does not make the       *)
(* controller forget the object: it is told of the version, and only after  *)
(* maxRetries failures does it let an object that wants a phase go.         *)
THEOREM SystemCtlSyncsNotForgotten == SysSafety => CtlSyncsNotForgotten
<1>1. SysInv /\ SyncOwes /\ CtlOwes /\ [SysNext]_sysVars =>
          (CtlForgotten' =>
               \/ CtlForgotten
               \/ /\ ctlQueue.processing
                  /\ ctlQueue.requeues = MaxRetries
                  /\ UNCHANGED log)
  BY SysStepForgetsNothing DEF CtlKept
<1>q. QED  BY <1>1, KeysOwed, PTL DEF SysSafety, CtlSyncsNotForgotten

----------------------------------------------------------------------------
(* The system as a ledger. *)

(* To the ledger a phase of the controller is nothing at all, and a late    *)
(* one neither enters, nor removes, nor restores a volume.                  *)
THEOREM SystemImplementsLedger == SysSafety => ImplementsLedger
<1>1. SysInv /\ [SysNext]_sysVars => LedgerStep
  <2> SUFFICES ASSUME SysInv, [SysNext]_sysVars PROVE LedgerStep
    OBVIOUS
  <2>0. VInv
    BY DEF SysInv
  <2>1. CASE [Next]_vars
    BY <2>0, <2>1, StepIsLedgerStep
  <2>2. CASE ControllerNext /\ UNCHANGED pluginVars
    <3>1. CASE CtlWriting /\ Update(ctlOp.rv, ctlOp.new)
      BY <2>0, <2>2, <3>1, CtlWrittenStep, WriteIsLedgerStep
    <3>2. CASE UNCHANGED apiVars \/ Abandon(ctlOp.rv, ctlOp.new)
      BY <3>2 DEF apiVars, Abandon, LedgerStep, Entries, Past, Free, Exists, Current
    <3>3. QED
      BY <2>2, <3>1, <3>2, ControllerSteps
  <2>3. CASE UNCHANGED sysVars
    BY <2>1, <2>3 DEF sysVars
  <2>4. QED
    BY <2>1, <2>2, <2>3 DEF SysNext, Next
<1>2. SysInv /\ [SysNext]_sysVars => [Ledger!Next]_(Ledger!ledger)
  BY <1>1 DEF LedgerStep, Ledger!ledger, Entries, Past, Free
<1>3. QED
  BY InitIsLedgerInit, <1>2, SystemInvariant, PTL
     DEF SysSafety, SysInit, ImplementsLedger, Ledger!Spec
============================================================================
