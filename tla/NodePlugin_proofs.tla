------------------------- MODULE NodePlugin_proofs -------------------------
(***************************************************************************)
(* Proofs about the node plugin: for any volumes, sizes and bounds, every  *)
(* reachable state satisfies the inductive invariant IInv of NodePlugin,   *)
(* and with it the safety properties IInv contains.                        *)
(***************************************************************************)
EXTENDS NodePlugin, TLAPS

----------------------------------------------------------------------------
LEMMA SizesAreIntegers == Sizes \subseteq Int /\ NodeSizes \cup {DefaultSize} \subseteq Int
BY SizeAssumption

(* The operators on objects stay within LocalStorage.                      *)

LEMMA MutateUpdateType ==
    ASSUME NEW l \in LocalStorage
    PROVE  /\ MutateUpdate(l) \in LocalStorage
           /\ Held(l) => Held(MutateUpdate(l))
           /\ MutateUpdate(l).volumes = l.volumes
           /\ MutateUpdate(l).deleting = l.deleting
BY DEF MutateUpdate, SetFinalizer, LocalStorage, Held

LEMMA AfterFinalizersType ==
    ASSUME NEW l \in LocalStorage
    PROVE  /\ AfterFinalizers(l) \in {l, NoObject}
           /\ AfterFinalizers(l) # NoObject => Held(l)
           /\ Held(l) => AfterFinalizers(l) = l
BY ObjectAssumption DEF AfterFinalizers, LocalStorage, Held

LEMMA MutateCreateType ==
    ASSUME NEW path \in BOOLEAN, NEW lvm \in BOOLEAN,
           NEW nodeSize \in NodeSizes \cup {NoAnnotation, BadAnnotation},
           NEW phase \in {"", "Pending", "Initiating"}, NEW volumes
    PROVE  LET new == MutateCreate(Submitted(path, lvm, nodeSize, phase, volumes)) IN
           /\ new \in LocalStorage
           /\ new.volumes = {}
           /\ Held(new)
BY DEF MutateCreate, SetFinalizer, Submitted, LocalStorage, Phases, Quantity, Held

LEMMA SetPhaseType ==
    ASSUME NEW l \in LocalStorage, NEW phase \in Phases
    PROVE  /\ SetLocalStoragePhase(l, phase) \in LocalStorage
           /\ SetLocalStoragePhase(l, phase).volumes = l.volumes
           /\ Held(l) => Held(SetLocalStoragePhase(l, phase))
BY DEF SetLocalStoragePhase, LocalStorage, Held

LEMMA ReadyObjectType ==
    ASSUME NEW l \in LocalStorage, DeclaredSize(l) # BadAnnotation
    PROVE  /\ ReadyObject(l) \in LocalStorage
           /\ ReadyObject(l).volumes = l.volumes
           /\ Held(l) => Held(ReadyObject(l))
<1>0. l.nodeSize \in NodeSizes \cup {NoAnnotation, BadAnnotation}
  BY DEF LocalStorage
<1>1. DeclaredSize(l) \in Quantity
  <2>1. DeclaredSize(l) \in NodeSizes \cup {DefaultSize}
    BY <1>0 DEF DeclaredSize
  <2>2. QED
    BY <2>1, SizesAreIntegers DEF Quantity
<1>2. "Ready" \in Phases
  BY DEF Phases
<1>3. QED
  BY <1>1, <1>2 DEF ReadyObject, LocalStorage, Held

LEMMA AddVolumeType ==
    ASSUME NEW l \in LocalStorage, NEW v \in Volume
    PROVE  /\ AddVolume(l, v) \in LocalStorage
           /\ ContainsVolume(AddVolume(l, v), v.id)
           /\ \A id \in VolIDs : id # v.id =>
                (ContainsVolume(AddVolume(l, v), id) <=> ContainsVolume(l, id))
           /\ AddVolume(l, v).allocatable = l.allocatable
           /\ Held(l) => Held(AddVolume(l, v))
<1>1. CASE ContainsVolume(l, v.id)
  BY <1>1 DEF AddVolume
<1>2. CASE ~ContainsVolume(l, v.id)
  <2> DEFINE m == [l EXCEPT !.volumes = @ \cup {v}]
  <2>1. AddVolume(l, v) = m
    BY <1>2 DEF AddVolume
  <2>2. m \in LocalStorage /\ m.volumes = l.volumes \cup {v}
        /\ m.allocatable = l.allocatable /\ (Held(l) => Held(m))
    BY DEF LocalStorage, Held
  <2>3. VolumeIDs(m) = VolumeIDs(l) \cup {v.id}
    BY <2>2 DEF VolumeIDs
  <2> HIDE DEF m
  <2>4. QED
    BY <2>1, <2>2, <2>3 DEF ContainsVolume
<1>3. QED
  BY <1>1, <1>2

LEMMA WithVolumeType ==
    ASSUME NEW l \in LocalStorage, NEW v \in Volume, Initialized(l)
    PROVE  /\ WithVolume(l, v) \in LocalStorage
           /\ ContainsVolume(WithVolume(l, v), v.id)
           /\ \A id \in VolIDs : id # v.id =>
                (ContainsVolume(WithVolume(l, v), id) <=> ContainsVolume(l, id))
           /\ Held(l) => Held(WithVolume(l, v))
<1> DEFINE a == AddVolume(l, v)
<1>0. a \in LocalStorage /\ a.allocatable = l.allocatable
  BY AddVolumeType
<1>1. a.allocatable - v.size \in Quantity
  <2>1. v.size \in Sizes
    BY DEF Volume
  <2>2. v.size \in Int
    BY <2>1, SizesAreIntegers
  <2>3. a.allocatable \in Int
    BY <1>0 DEF Initialized, Quantity, LocalStorage
  <2> HIDE DEF a
  <2>4. QED
    BY <2>2, <2>3 DEF Quantity
<1>2. /\ WithVolume(l, v) \in LocalStorage
      /\ WithVolume(l, v).volumes = a.volumes
      /\ Held(a) => Held(WithVolume(l, v))
  BY <1>0, <1>1 DEF WithVolume, LocalStorage, Held
<1>3. QED
  BY <1>2, AddVolumeType DEF ContainsVolume, VolumeIDs

LEMMA RemovedSizeType ==
    ASSUME NEW l \in LocalStorage, NEW id \in VolIDs
    PROVE  RemovedSize(l, id) \in Int
<1>1. CASE ContainsVolume(l, id)
  <2>1. PICK v \in l.volumes : v.id = id
    BY <1>1 DEF ContainsVolume, VolumeIDs
  <2> DEFINE w == CHOOSE u \in l.volumes : u.id = id
  <2>2. w \in Volume
    BY <2>1 DEF LocalStorage
  <2>3. RemovedSize(l, id) = w.size
    BY <1>1 DEF RemovedSize
  <2> HIDE DEF w
  <2>4. w.size \in Sizes
    BY <2>2 DEF Volume
  <2>5. QED
    BY <2>3, <2>4, SizesAreIntegers
<1>2. CASE ~ContainsVolume(l, id)
  BY <1>2 DEF RemovedSize
<1>3. QED
  BY <1>1, <1>2

LEMMA WithoutVolumeType ==
    ASSUME NEW l \in LocalStorage, NEW id \in VolIDs, Initialized(l)
    PROVE  /\ WithoutVolume(l, id) \in LocalStorage
           /\ ~ContainsVolume(WithoutVolume(l, id), id)
           /\ \A i \in VolIDs : i # id =>
                (ContainsVolume(WithoutVolume(l, id), i) <=> ContainsVolume(l, i))
           /\ Held(l) => Held(WithoutVolume(l, id))
<1> DEFINE r == RemoveVolume(l, id)
<1>1. /\ r \in LocalStorage
      /\ r.volumes = {v \in l.volumes : v.id # id}
      /\ r.allocatable = l.allocatable
      /\ Held(l) => Held(r)
  BY DEF RemoveVolume, LocalStorage, Held
<1>2. r.allocatable + RemovedSize(l, id) \in Int
  BY <1>1, RemovedSizeType DEF Initialized, Quantity, LocalStorage
<1> HIDE DEF r
<1>3. WithoutVolume(l, id) = [r EXCEPT !.allocatable = r.allocatable + RemovedSize(l, id)]
  BY DEF WithoutVolume, r
<1>4. /\ WithoutVolume(l, id) \in LocalStorage
      /\ WithoutVolume(l, id).volumes = r.volumes
      /\ Held(r) => Held(WithoutVolume(l, id))
  BY <1>1, <1>2, <1>3 DEF LocalStorage, Quantity, Held
<1>5. QED
  BY <1>1, <1>4 DEF ContainsVolume, VolumeIDs

----------------------------------------------------------------------------
(* What a write does to the log: it leaves every version, adds at most one, *)
(* and makes the abandoned requests obsolete when it does.                  *)

LEMMA StoreEffect ==
    ASSUME TypeOKApi,
           NEW version \in LocalStorage \cup {NoObject},
           Store(version)
    PROVE  /\ TypeOKApi'
           /\ Current' = version
           /\ \/ log' = log /\ late' = late
              \/ Len(log') = Len(log) + 1 /\ late' = {} /\ version # Current
           /\ \A n \in 1 .. Len(log) : log'[n] = log[n]
           /\ \A n \in 1 .. Len(log') :
                 n \in 1 .. Len(log) \/ (n = Len(log') /\ log'[n] = version)
<1>1. CASE version = Current
  BY <1>1 DEF Store, TypeOKApi, Current
<1>2. CASE version # Current
  <2>1. log' = Append(log, version) /\ late' = {}
    BY <1>2 DEF Store
  <2>2. /\ log' \in Seq(LocalStorage \cup {NoObject})
        /\ Len(log') = Len(log) + 1
        /\ log'[Len(log')] = version
        /\ \A n \in 1 .. Len(log) : log'[n] = log[n]
    BY <2>1 DEF TypeOKApi
  <2>3. Len(log) \in Nat
    BY DEF TypeOKApi
  <2>4. QED
    BY <1>2, <2>1, <2>2, <2>3 DEF TypeOKApi, Current
<1>3. QED
  BY <1>1, <1>2

LEMMA LastVersion ==
    ASSUME TypeOKApi
    PROVE  /\ Len(log) \in Nat \ {0}
           /\ Current \in LocalStorage \cup {NoObject}
           /\ \A n \in 1 .. Len(log) : log[n] \in LocalStorage \cup {NoObject}
BY DEF TypeOKApi, Current

(* An Update writes the copy, with its finalizer, and never removes the    *)
(* object.                                                                 *)
LEMMA UpdateEffect ==
    ASSUME TypeOKApi, NEW new \in LocalStorage, Held(new), NEW rv, Update(rv, new)
    PROVE  /\ rv = Len(log)
           /\ Exists
           /\ Store(MutateUpdate(new))
           /\ MutateUpdate(new) \in LocalStorage
           /\ MutateUpdate(new) # NoObject
           /\ Held(MutateUpdate(new))
           /\ \A id : Recorded(MutateUpdate(new), id) <=> Recorded(new, id)
<1>1. /\ MutateUpdate(new) \in LocalStorage
      /\ Held(MutateUpdate(new))
      /\ MutateUpdate(new).volumes = new.volumes
  BY MutateUpdateType
<1>2. AfterFinalizers(MutateUpdate(new)) = MutateUpdate(new)
  BY <1>1, AfterFinalizersType
<1>3. new # NoObject /\ MutateUpdate(new) # NoObject
  BY <1>1, ObjectAssumption
<1>4. QED
  BY <1>1, <1>2, <1>3 DEF Update, Recorded, ContainsVolume, VolumeIDs

----------------------------------------------------------------------------
(* A sound copy, or the removal of the object, keeps the invariant, but for *)
(* what it says of the operation under way.  A volume the copy brings in    *)
(* may become bound with it.                                                *)

Volumes == HistorySound /\ LateSound /\ VolumesHaveDirs /\ BoundVolumesKept
              /\ ReleasedVolumesGone

LEMMA WriteKeepsVolumes ==
    ASSUME IInv,
           NEW version \in LocalStorage \cup {NoObject},
           Store(version),
           version # NoObject => CopySound(version),
           UNCHANGED << dirs, used >>,
           \A id \in VolIDs :
              \/ pv'[id] = pv[id]
              \/ /\ pv[id] = "none" /\ pv'[id] = "bound"
                 /\ Recorded(version, id) /\ ~Recorded(Current, id)
    PROVE  Volumes'
<1>1. /\ TypeOKApi'
      /\ Current' = version
      /\ \/ log' = log /\ late' = late
         \/ Len(log') = Len(log) + 1 /\ late' = {} /\ version # Current
      /\ \A n \in 1 .. Len(log) : log'[n] = log[n]
      /\ \A n \in 1 .. Len(log') :
            n \in 1 .. Len(log) \/ (n = Len(log') /\ log'[n] = version)
  BY StoreEffect DEF IInv, TypeOK
<1>2. Len(log) \in Nat \ {0}
  BY LastVersion DEF IInv, TypeOK
<1>3. CASE log' = log /\ late' = late
  <2>1. \A id \in VolIDs : pv'[id] = pv[id]
    BY <1>1, <1>3 DEF Current
  <2>2. QED
    BY <1>3, <2>1 DEF IInv, Volumes, HistorySound, LateSound, CopySound,
                      VolumesHaveDirs, BoundVolumesKept, ReleasedVolumesGone, Current
<1>4. CASE Len(log') = Len(log) + 1 /\ late' = {} /\ version # Current
  <2>1. HistorySound'
    <3>1. \A id \in VolIDs : Recorded(version, id) => id \in used
      BY DEF IInv, HistorySound, CopySound, Recorded
    <3>2. version # NoObject => Held(version)
      BY DEF CopySound
    <3>3. \A n \in 1 .. Len(log') :
             /\ \A id \in VolIDs : Recorded(log'[n], id) => id \in used
             /\ log'[n] # NoObject => Held(log'[n])
      BY <1>1, <3>1, <3>2 DEF IInv, HistorySound
    <3>4. \A id \in VolIDs : pv'[id] # "none" => id \in used
      BY <3>1 DEF IInv, HistorySound
    <3>5. QED
      BY <3>3, <3>4 DEF IInv, HistorySound
  <2>2. LateSound'
    BY <1>4 DEF LateSound
  <2>3. VolumesHaveDirs'
    BY <1>1 DEF VolumesHaveDirs, CopySound, Recorded
  <2>4. BoundVolumesKept'
    <3> SUFFICES ASSUME NEW id \in VolIDs, pv'[id] = "bound", ~Recorded(version, id)
                 PROVE  \E p, q \in 1 .. Len(log') :
                           p < q /\ Recorded(log'[p], id) /\ log'[q] = NoObject
      BY <1>1 DEF BoundVolumesKept
    <3>0. pv[id] = "bound"
      OBVIOUS
    <3>1. CASE Recorded(Current, id)
      <4>1. version = NoObject
        BY <3>0, <3>1 DEF CopySound
      <4>2. Len(log) < Len(log') /\ Len(log) \in 1 .. Len(log') /\ Len(log') \in 1 .. Len(log')
        BY <1>2, <1>4
      <4>3. Recorded(log'[Len(log)], id) /\ log'[Len(log')] = NoObject
        BY <1>1, <1>2, <3>1, <4>1 DEF Current
      <4>4. QED
        BY <4>2, <4>3
    <3>2. CASE ~Recorded(Current, id)
      <4>1. PICK p \in 1 .. Len(log), q \in 1 .. Len(log) :
               p < q /\ Recorded(log[p], id) /\ log[q] = NoObject
        BY <3>0, <3>2 DEF IInv, BoundVolumesKept
      <4>2. p \in 1 .. Len(log') /\ q \in 1 .. Len(log')
        BY <1>2, <1>4
      <4>3. Recorded(log'[p], id) /\ log'[q] = NoObject
        BY <1>1, <4>1
      <4>4. QED
        BY <4>1, <4>2, <4>3
    <3>3. QED
      BY <3>1, <3>2
  <2>5. ReleasedVolumesGone'
    BY <1>1, <1>4 DEF IInv, ReleasedVolumesGone, CopySound, Recorded
  <2>6. QED
    BY <2>1, <2>2, <2>3, <2>4, <2>5 DEF Volumes
<1>5. QED
  BY <1>1, <1>3, <1>4

(* An object with the volumes of the last version is a sound copy.          *)
LEMMA SameVolumes ==
    ASSUME IInv, Exists, NEW version \in LocalStorage, Held(version),
           version.volumes = Current.volumes
    PROVE  CopySound(version)
<1>1. \A id : Recorded(version, id) <=> Recorded(Current, id)
  BY ObjectAssumption DEF Exists, Recorded, ContainsVolume, VolumeIDs
<1>2. QED
  BY <1>1 DEF CopySound, IInv, VolumesHaveDirs

(* So is the copy of an operation that read the last version.               *)
LEMMA OpCopySound ==
    ASSUME IInv, Writing, op.rv = Len(log)
    PROVE  op.new \in LocalStorage /\ CopySound(op.new)
<1>1. op.new \in LocalStorage
  BY DEF IInv, TypeOK, TypeOKPlugin, OpSound
<1>2. Held(op.new)
  BY DEF IInv, OpSound
<1>3. ASSUME NEW id \in VolIDs
      PROVE  /\ Recorded(op.new, id) =>
                   id \in dirs /\ (Recorded(Current, id) \/ pv[id] = "none")
             /\ pv[id] = "bound" /\ Recorded(Current, id) => Recorded(op.new, id)
  <2>1. CASE Recorded(op.new, id) <=> Recorded(Current, id)
    BY <2>1 DEF IInv, VolumesHaveDirs
  <2>2. CASE op.pc = "create" /\ id = op.id
    BY <2>2 DEF IInv, OpSound
  <2>3. CASE op.pc = "delete" /\ id = op.id
    BY <2>3 DEF IInv, OpSound
  <2>4. QED
    BY <2>1, <2>2, <2>3 DEF IInv, OpSound, Writing, Current
<1>4. QED
  BY <1>1, <1>2, <1>3 DEF CopySound

(* A write leaves the operation under way sound, as long as it brings in no *)
(* volume that operation is creating.                                       *)
LEMMA WriteKeepsOp ==
    ASSUME IInv,
           NEW version \in LocalStorage \cup {NoObject},
           Store(version),
           version # NoObject => CopySound(version),
           op.pc = "create" => ~Recorded(version, op.id),
           UNCHANGED << op, dirs, used, pv >>
    PROVE  OpSound'
<1>1. /\ Current' = version
      /\ late' \subseteq late
      /\ \A n \in 1 .. Len(log) : log'[n] = log[n]
      /\ \A n \in 1 .. Len(log') :
            n \in 1 .. Len(log) \/ (n = Len(log') /\ log'[n] = version)
  BY StoreEffect DEF IInv, TypeOK
<1>2. op.rv \in 0 .. Len(log) /\ Len(log) \in Nat
  BY LastVersion DEF IInv, TypeOK, TypeOKPlugin
<1>3. (Writing => /\ op.rv > 0
                  /\ log[op.rv] # NoObject
                  /\ op.new # NoObject
                  /\ Held(op.new)
                  /\ \A id \in VolIDs :
                        \/ Recorded(op.new, id) <=> Recorded(log[op.rv], id)
                        \/ op.pc # "sync" /\ id = op.id)'
  <2>1. Writing => log'[op.rv] = log[op.rv]
    BY <1>1, <1>2 DEF IInv, OpSound
  <2>2. QED
    BY <2>1 DEF IInv, OpSound, Writing
<1>4. (op.pc = "create" => /\ op.id \in dirs
                           /\ pv[op.id] = "none"
                           /\ Recorded(op.new, op.id)
                           /\ \A n \in 1 .. Len(log) : ~Recorded(log[n], op.id)
                           /\ \A old \in late : ~Recorded(old, op.id))'
  BY <1>1 DEF IInv, OpSound
<1>5. (op.pc \in {"delete", "rmdir"} =>
          /\ op.id \in VolIDs
          /\ pv[op.id] \in {"releasing", "released"}
          /\ ~Recorded(IF op.pc = "delete" THEN op.new ELSE Current, op.id))'
  <2>1. op.pc = "rmdir" => ~Recorded(version, op.id)
    BY DEF IInv, OpSound, CopySound, Recorded
  <2>2. QED
    BY <1>1, <2>1 DEF IInv, OpSound
<1>6. QED
  BY <1>3, <1>4, <1>5 DEF OpSound

(* An idle plugin has nothing to keep.                                      *)
LEMMA IdleIsSound == op' = Idle => OpSound'
BY DEF Idle, OpSound, Writing

----------------------------------------------------------------------------
(* Types across a step. *)

(* handleErr and the other operations of the queue keep the retry counter   *)
(* within maxRetries.                                                       *)
LEMMA QueueType ==
    ASSUME NEW q \in Queue
    PROVE  /\ Add(q) \in Queue
           /\ Get(q) \in Queue
           /\ TimerFires(q) \in Queue
           /\ EmptyQueue \in Queue
           /\ \A ok \in BOOLEAN : HandleErr(q, ok) \in Queue
           /\ \A version : Enqueued(q, version) \in Queue
<1>1. MaxRetries \in Nat /\ q.requeues \in 0 .. MaxRetries /\ 0 \in 0 .. MaxRetries
  BY RetriesAssumption DEF Queue
<1> DEFINE Count == 0 .. MaxRetries
<1>q. Queue = [ dirty : BOOLEAN, processing : BOOLEAN, waiting : BOOLEAN,
                requeues : Count ]
  BY DEF Queue
<1> HIDE DEF Count
<1>a. 0 \in Count
  BY <1>1 DEF Count
<1>2. Add(q) \in Queue /\ Get(q) \in Queue /\ TimerFires(q) \in Queue
      /\ EmptyQueue \in Queue
  <2>1. Add(q) \in Queue
    BY <1>q DEF Add
  <2>2. Get(q) \in Queue
    BY <1>q DEF Get
  <2>3. TimerFires(q) \in Queue
    BY <1>q DEF TimerFires
  <2>4. EmptyQueue \in Queue
    BY <1>q, <1>a DEF EmptyQueue
  <2>5. QED
    BY <2>1, <2>2, <2>3, <2>4
<1>3. ASSUME NEW ok \in BOOLEAN
      PROVE  HandleErr(q, ok) \in Queue
  <2>1. CASE ok \/ q.requeues >= MaxRetries
    <3>1. HandleErr(q, ok) = [q EXCEPT !.requeues = 0, !.processing = FALSE]
      BY <2>1, <1>q DEF HandleErr, Done, Forget
    <3>2. QED
      BY <3>1, <1>q, <1>a
  <2>2. CASE ~(ok \/ q.requeues >= MaxRetries)
    <3>1. q.requeues + 1 \in Count
      BY <2>2, <1>1 DEF Count
    <3>2. HandleErr(q, ok) = [q EXCEPT !.waiting = TRUE, !.requeues = @ + 1,
                                       !.processing = FALSE]
      BY <2>2, <1>q DEF HandleErr, Done, AddRateLimited
    <3>3. QED
      BY <3>1, <3>2, <1>q
  <2>3. QED
    BY <2>1, <2>2
<1>4. \A version : Enqueued(q, version) \in Queue
  BY <1>2 DEF Enqueued
<1>5. QED
  BY <1>2, <1>3, <1>4

LEMMA IdleType ==
    ASSUME Len(log) \in Nat
    PROVE  Idle \in [ pc  : {"idle", "sync", "create", "delete", "rmdir"},
                      rv  : 0 .. Len(log),
                      new : LocalStorage \cup {NoObject},
                      id  : VolIDs \cup {NoVolume} ]
BY DEF Idle

Provisioner == {"none", "bound", "releasing", "released"}

(* The state of a delete once its Update is written.                        *)
Removing == [Idle EXCEPT !.pc = "rmdir", !.id = op.id]

(* A longer log leaves every position in range.                             *)
LEMMA LongerLog ==
    ASSUME TypeOKPlugin, Len(log) \in Nat, Len(log') \in Nat, Len(log) <= Len(log'),
           UNCHANGED << up, seen, notified, dirs, used >>,
           queue' \in Queue,
           op' \in {op, Idle, Removing},
           pv' \in [VolIDs -> Provisioner]
    PROVE  TypeOKPlugin'
<1>1. op' \in [ pc  : {"idle", "sync", "create", "delete", "rmdir"},
                rv  : 0 .. Len(log'),
                new : LocalStorage \cup {NoObject},
                id  : VolIDs \cup {NoVolume} ]
  <2>1. op.rv \in 0 .. Len(log') /\ 0 \in 0 .. Len(log')
    BY DEF TypeOKPlugin
  <2>2. CASE op' = op
    BY <2>1, <2>2 DEF TypeOKPlugin
  <2>3. CASE op' = Idle
    BY <2>1, <2>3 DEF Idle
  <2>4. CASE op' = Removing
    BY <2>1, <2>4 DEF TypeOKPlugin, Idle, Removing
  <2>5. QED
    BY <2>2, <2>3, <2>4
<1>2. QED
  BY <1>1 DEF TypeOKPlugin, Provisioner

----------------------------------------------------------------------------
(* Steps that write nothing and leave volumes and directories alone.        *)

LEMMA QuietStep ==
    ASSUME IInv,
           UNCHANGED << apiVars, dirs, used, pv >>,
           op' \in {op, Idle},
           up' \in BOOLEAN,
           seen' \in 1 .. Len(log),
           notified' \in 0 .. seen',
           queue' \in Queue
    PROVE  IInv'
<1>1. TypeOK'
  BY LastVersion, IdleType
     DEF IInv, TypeOK, TypeOKApi, TypeOKPlugin, apiVars
<1>2. /\ HistorySound' /\ LateSound' /\ VolumesHaveDirs' /\ BoundVolumesKept'
      /\ ReleasedVolumesGone'
  BY DEF IInv, HistorySound, LateSound, CopySound, VolumesHaveDirs, BoundVolumesKept,
         ReleasedVolumesGone, Current, apiVars
<1>3. OpSound'
  <2>1. CASE op' = op
    BY <2>1 DEF IInv, OpSound, Writing, Current, apiVars
  <2>2. CASE op' = Idle
    BY <2>2, IdleIsSound
  <2>3. QED
    BY <2>1, <2>2
<1>4. QED
  BY <1>1, <1>2, <1>3 DEF IInv

(* The informer's steps: the cache advances, the handlers fill the queue.   *)
LEMMA InformerStep == ASSUME IInv, InformerNext PROVE IInv'
<1>0. /\ Len(log) \in Nat /\ seen \in 1 .. Len(log) /\ notified \in 0 .. seen
      /\ up \in BOOLEAN /\ queue \in Queue
  BY LastVersion DEF IInv, TypeOK, TypeOKPlugin
<1>1. CASE Deliver
  BY <1>0, <1>1, QuietStep DEF Deliver
<1>2. CASE Notify
  <2>1. queue' \in Queue
    BY <1>0, <1>2, QueueType DEF Notify
  <2>2. notified' \in 0 .. seen'
    BY <1>0, <1>2 DEF Notify
  <2>3. QED
    BY <1>0, <1>2, <2>1, <2>2, QuietStep DEF Notify
<1>3. CASE Resync
  BY <1>0, <1>3, QueueType, QuietStep DEF Resync
<1>4. CASE RetryTimer
  BY <1>0, <1>4, QueueType, QuietStep DEF RetryTimer
<1>5. QED
  BY <1>1, <1>2, <1>3, <1>4 DEF InformerNext

(* The steps of an operation that end it, or take a key, without a write.   *)
LEMMA EndingStep ==
    ASSUME IInv,
           WorkerGet \/ SyncNothing \/ SyncError \/ WriteRefused \/ RemoveDirFails
              \/ Restart
    PROVE  IInv'
<1>0. /\ Len(log) \in Nat \ {0} /\ seen \in 1 .. Len(log) /\ notified \in 0 .. seen
      /\ up \in BOOLEAN /\ queue \in Queue
  BY LastVersion DEF IInv, TypeOK, TypeOKPlugin
<1>1. CASE WorkerGet
  BY <1>0, <1>1, QueueType, QuietStep DEF WorkerGet
<1>2. CASE SyncNothing
  BY <1>0, <1>2, QueueType, QuietStep DEF SyncNothing, Finish
<1>3. CASE SyncError
  BY <1>0, <1>3, QueueType, QuietStep DEF SyncError, Finish
<1>4. CASE WriteRefused
  BY <1>0, <1>4, QueueType, QuietStep DEF WriteRefused, Fails
<1>5. CASE RemoveDirFails
  BY <1>0, <1>5, QuietStep DEF RemoveDirFails
<1>6. CASE Restart
  <2>1. /\ seen' \in 1 .. Len(log)
        /\ notified' \in 0 .. seen'
    BY <1>0, <1>6 DEF Restart
  <2>2. /\ UNCHANGED << apiVars, dirs, used, pv >>
        /\ op' \in {op, Idle}
        /\ up' \in BOOLEAN
        /\ queue' \in Queue
    BY <1>0, <1>6 DEF Restart
  <2>3. QED
    BY <2>1, <2>2, QuietStep
<1>7. QED
  BY <1>1, <1>2, <1>3, <1>4, <1>5, <1>6

----------------------------------------------------------------------------
(* The steps that begin an operation read the informer's copy. *)

LEMMA CachedIsHeld ==
    ASSUME IInv, Cached # NoObject
    PROVE  /\ Cached \in LocalStorage
           /\ Held(Cached)
           /\ seen \in 1 .. Len(log)
           /\ seen \in 0 .. Len(log)
           /\ seen > 0
           /\ log[seen] # NoObject
<1>1. seen \in 1 .. Len(log) /\ Len(log) \in Nat
  BY LastVersion DEF IInv, TypeOK, TypeOKPlugin
<1>2. Cached \in LocalStorage
  BY <1>1, LastVersion DEF IInv, TypeOK, Cached
<1>3. Held(Cached)
  BY <1>1 DEF IInv, HistorySound, Cached
<1>4. QED
  BY <1>1, <1>2, <1>3 DEF Cached

(* sync begins: the copy has the volumes of the version it was read at.     *)
LEMMA SyncBeginStep ==
    ASSUME IInv, SyncPending \/ SyncInitialize
    PROVE  IInv'
<1>1. PICK new \in LocalStorage :
         /\ Cached # NoObject
         /\ Begin("sync", new, NoVolume)
         /\ new.volumes = Cached.volumes
         /\ Held(new)
         /\ UNCHANGED << apiVars, up, seen, notified, queue, dirs, used, pv >>
  <2>1. CASE SyncPending
    <3>1. "Initiating" \in Phases
      BY DEF Phases
    <3>2. QED
      BY <2>1, <3>1, CachedIsHeld, SetPhaseType DEF SyncPending
  <2>2. CASE SyncInitialize
    BY <2>2, CachedIsHeld, ReadyObjectType DEF SyncInitialize, PastPending
  <2>3. QED
    BY <2>1, <2>2
<1>2. op' = [pc |-> "sync", rv |-> seen, new |-> new, id |-> NoVolume]
  BY <1>1 DEF Begin
<1>3. TypeOK'
  BY <1>1, <1>2, CachedIsHeld DEF IInv, TypeOK, TypeOKApi, TypeOKPlugin, apiVars
<1>4. /\ HistorySound' /\ LateSound' /\ VolumesHaveDirs' /\ BoundVolumesKept'
      /\ ReleasedVolumesGone'
  BY <1>1 DEF IInv, HistorySound, LateSound, CopySound, VolumesHaveDirs,
              BoundVolumesKept, ReleasedVolumesGone, Current, apiVars
<1>5. new # NoObject
  BY ObjectAssumption
<1>6. \A id \in VolIDs : Recorded(new, id) <=> Recorded(log[seen], id)
  BY <1>1, <1>5, CachedIsHeld DEF Recorded, ContainsVolume, VolumeIDs, Cached
<1>7. OpSound'
  BY <1>1, <1>2, <1>5, <1>6, CachedIsHeld DEF OpSound, apiVars
<1>8. QED
  BY <1>3, <1>4, <1>7 DEF IInv

(* CreateVolume draws a new UUID and makes its directory.                   *)
LEMMA CreateStartsKeeps ==
    ASSUME IInv, NEW id \in VolIDs, CreateStarts(id), UNCHANGED << apiVars, pv >>
    PROVE  Volumes'
<1>1. pv[id] = "none" /\ id \notin used
  BY DEF CreateStarts, IInv, HistorySound
<1>2. HistorySound'
  BY DEF CreateStarts, IInv, HistorySound, apiVars
<1>3. LateSound' /\ VolumesHaveDirs' /\ BoundVolumesKept'
  BY DEF CreateStarts, IInv, LateSound, CopySound, VolumesHaveDirs, BoundVolumesKept,
         Current, apiVars
<1>4. ReleasedVolumesGone'
  BY <1>1 DEF CreateStarts, IInv, ReleasedVolumesGone, Current, apiVars
<1>5. QED
  BY <1>2, <1>3, <1>4 DEF Volumes

LEMMA CreateBeginStep ==
    ASSUME IInv, NEW id \in VolIDs, NEW size \in Sizes, CreateBegin(id, size)
    PROVE  IInv'
<1> DEFINE v   == [id |-> id, size |-> size]
           new == WithVolume(Cached, v)
<1>1. Cached # NoObject /\ id \notin used
  BY DEF CreateBegin, CreateStarts
<1>2. v \in Volume /\ v.id = id
  BY DEF Volume
<1>3. /\ new \in LocalStorage
      /\ ContainsVolume(new, id)
      /\ \A i \in VolIDs : i # id => (ContainsVolume(new, i) <=> ContainsVolume(Cached, i))
      /\ Held(new)
  BY <1>1, <1>2, CachedIsHeld, WithVolumeType DEF CreateBegin
<1>4. op' = [pc |-> "create", rv |-> seen, new |-> new, id |-> id]
  BY DEF CreateBegin, Begin
<1> HIDE DEF new, v
<1>5. UNCHANGED << apiVars, up, seen, notified, queue, pv >>
  BY DEF CreateBegin
<1>6. used' = used \cup {id} /\ dirs' = dirs \cup {id}
  BY DEF CreateBegin, CreateStarts
<1>7. TypeOK'
  BY <1>1, <1>3, <1>4, <1>5, <1>6, CachedIsHeld
     DEF IInv, TypeOK, TypeOKApi, TypeOKPlugin, apiVars
<1>8. Volumes'
  BY <1>5, CreateStartsKeeps DEF CreateBegin
<1>9. OpSound'
  <2>1. new # NoObject
    BY <1>3, ObjectAssumption
  <2>2. \A i \in VolIDs : (Recorded(new, i) <=> Recorded(log[seen], i)) \/ i = id
    BY <1>1, <1>3, <2>1 DEF Recorded, Cached
  <2>3. /\ pv[id] = "none"
        /\ \A n \in 1 .. Len(log) : ~Recorded(log[n], id)
        /\ \A version \in late : ~Recorded(version, id)
    BY <1>1 DEF IInv, HistorySound, LateSound, CopySound
  <2>4. Recorded(new, id)
    BY <1>3, <2>1 DEF Recorded
  <2>5. QED
    BY <1>1, <1>3, <1>4, <1>5, <1>6, <2>1, <2>2, <2>3, <2>4, CachedIsHeld
       DEF OpSound, apiVars
<1>10. QED
  BY <1>7, <1>8, <1>9 DEF IInv, Volumes

(* A deletion that is asked for releases a bound volume.                    *)
LEMMA DeleteStartsKeeps ==
    ASSUME IInv, NEW id \in VolIDs, DeleteStarts(id), UNCHANGED << apiVars, dirs, used >>
    PROVE  /\ Volumes'
           /\ pv' \in [VolIDs -> Provisioner]
           /\ pv'[id] \in {"releasing", "released"}
<1>1. /\ pv \in [VolIDs -> Provisioner]
      /\ pv[id] # "none"
      /\ pv' = [pv EXCEPT ![id] = IF @ = "bound" THEN "releasing" ELSE @]
  BY DEF DeleteStarts, IInv, TypeOK, TypeOKPlugin, Provisioner
<1>2. /\ pv' \in [VolIDs -> Provisioner]
      /\ pv'[id] \in {"releasing", "released"}
      /\ \A i \in VolIDs : pv'[i] = pv[i] \/ (pv[i] = "bound" /\ pv'[i] = "releasing")
  BY <1>1 DEF Provisioner
<1>3. Volumes'
  BY <1>2 DEF Volumes, IInv, HistorySound, LateSound, CopySound, VolumesHaveDirs,
              BoundVolumesKept, ReleasedVolumesGone, Current, apiVars
<1>4. QED
  BY <1>2, <1>3

LEMMA DeleteBeginStep ==
    ASSUME IInv, NEW id \in VolIDs, DeleteBegin(id)
    PROVE  IInv'
<1> DEFINE new == WithoutVolume(Cached, id)
<1>1. Cached # NoObject
  BY DEF DeleteBegin, DeleteStarts
<1>2. /\ new \in LocalStorage
      /\ ~ContainsVolume(new, id)
      /\ \A i \in VolIDs : i # id => (ContainsVolume(new, i) <=> ContainsVolume(Cached, i))
      /\ Held(new)
  BY <1>1, CachedIsHeld, WithoutVolumeType DEF DeleteBegin
<1>3. op' = [pc |-> "delete", rv |-> seen, new |-> new, id |-> id]
  BY DEF DeleteBegin, Begin
<1> HIDE DEF new
<1>4. UNCHANGED << apiVars, up, seen, notified, queue, dirs, used >>
  BY DEF DeleteBegin
<1>5. /\ Volumes'
      /\ pv' \in [VolIDs -> Provisioner]
      /\ pv'[id] \in {"releasing", "released"}
  BY <1>4, DeleteStartsKeeps DEF DeleteBegin
<1>6. TypeOK'
  BY <1>1, <1>2, <1>3, <1>4, <1>5, CachedIsHeld
     DEF IInv, TypeOK, TypeOKApi, TypeOKPlugin, apiVars, Provisioner
<1>7. OpSound'
  <2>1. new # NoObject
    BY <1>2, ObjectAssumption
  <2>2. \A i \in VolIDs : (Recorded(new, i) <=> Recorded(log[seen], i)) \/ i = id
    BY <1>1, <1>2, <2>1 DEF Recorded, Cached
  <2>3. ~Recorded(new, id)
    BY <1>2 DEF Recorded
  <2>4. QED
    BY <1>2, <1>3, <1>4, <1>5, <2>1, <2>2, <2>3, <1>1, CachedIsHeld DEF OpSound, apiVars
<1>8. QED
  BY <1>5, <1>6, <1>7 DEF IInv, Volumes

----------------------------------------------------------------------------
(* The process stops: the handlers' panics, and a crash. *)

LEMMA ProcessStopsType ==
    ASSUME IInv, ProcessStops, Len(log') = Len(log),
           dirs' \subseteq VolIDs, used' \subseteq VolIDs, pv' \in [VolIDs -> Provisioner]
    PROVE  TypeOKPlugin' /\ OpSound'
<1>1. Len(log) \in Nat \ {0} /\ queue \in Queue
  BY LastVersion DEF IInv, TypeOK, TypeOKPlugin
<1>2. /\ up' \in BOOLEAN
      /\ seen' \in 1 .. Len(log')
      /\ notified' \in 0 .. seen'
      /\ queue' \in Queue
  <2>1. queue' \in Queue
    BY <1>1, QueueType DEF ProcessStops
  <2>2. Len(log') \in Nat \ {0}
    BY <1>1
  <2>3. up' = FALSE /\ seen' = 1 /\ notified' = 0
    BY DEF ProcessStops
  <2>4. 1 \in 1 .. Len(log') /\ 0 \in 0 .. 1
    BY <2>2
  <2>5. QED
    BY <2>1, <2>3, <2>4
<1>3. op' \in [ pc  : {"idle", "sync", "create", "delete", "rmdir"},
                rv  : 0 .. Len(log'),
                new : LocalStorage \cup {NoObject},
                id  : VolIDs \cup {NoVolume} ]
  BY <1>1, IdleType DEF ProcessStops
<1>4. TypeOKPlugin'
  BY <1>2, <1>3 DEF TypeOKPlugin, Provisioner
<1>5. QED
  BY <1>4, IdleIsSound DEF ProcessStops

LEMMA PanicStep ==
    ASSUME IInv, NEW id \in VolIDs, CreatePanics(id) \/ DeletePanics(id)
    PROVE  IInv'
<1>1. dirs \subseteq VolIDs /\ used \subseteq VolIDs /\ pv \in [VolIDs -> Provisioner]
  BY DEF IInv, TypeOK, TypeOKPlugin, Provisioner
<1>2. ProcessStops /\ UNCHANGED apiVars
  BY DEF CreatePanics, DeletePanics
<1>3. CASE CreatePanics(id)
  <2>1. Volumes'
    BY <1>3, CreateStartsKeeps DEF CreatePanics
  <2>2. TypeOKPlugin' /\ OpSound'
    BY <1>1, <1>2, <1>3, ProcessStopsType DEF CreatePanics, CreateStarts, apiVars
  <2>3. QED
    BY <1>2, <2>1, <2>2 DEF IInv, Volumes, TypeOK, TypeOKApi, apiVars
<1>4. CASE DeletePanics(id)
  <2>1. Volumes' /\ pv' \in [VolIDs -> Provisioner]
    BY <1>4, DeleteStartsKeeps DEF DeletePanics
  <2>2. TypeOKPlugin' /\ OpSound'
    BY <1>1, <1>2, <1>4, <2>1, ProcessStopsType DEF DeletePanics, apiVars
  <2>3. QED
    BY <1>2, <2>1, <2>2 DEF IInv, Volumes, TypeOK, TypeOKApi, apiVars
<1>5. QED
  BY <1>3, <1>4

(* A request given up on is a sound copy, and so is every other.            *)
LEMMA AbandonKeeps ==
    ASSUME IInv, Writing, Abandon(op.rv, op.new), UNCHANGED << dirs, used, pv >>
    PROVE  Volumes' /\ TypeOKApi'
<1>1. log' = log /\ late' = late \cup {op.new} /\ op.rv = Len(log)
  BY DEF Abandon
<1>2. op.new \in LocalStorage /\ CopySound(op.new)
  BY <1>1, OpCopySound
<1>3. LateSound'
  BY <1>1, <1>2 DEF IInv, LateSound, CopySound, Current
<1>4. ReleasedVolumesGone'
  BY <1>1, <1>2 DEF IInv, ReleasedVolumesGone, CopySound, Current
<1>5. HistorySound' /\ VolumesHaveDirs' /\ BoundVolumesKept'
  BY <1>1 DEF IInv, HistorySound, VolumesHaveDirs, BoundVolumesKept, Current
<1>6. QED
  BY <1>1, <1>2, <1>3, <1>4, <1>5 DEF Volumes, IInv, TypeOK, TypeOKApi

LEMMA WriteAbandonedStep == ASSUME IInv, WriteAbandoned PROVE IInv'
<1>1. Volumes' /\ TypeOKApi'
  BY AbandonKeeps DEF WriteAbandoned
<1>2. log' = log /\ Len(log) \in Nat /\ queue \in Queue
      /\ pv \in [VolIDs -> Provisioner] /\ TypeOKPlugin
  BY LastVersion DEF WriteAbandoned, Abandon, IInv, TypeOK, TypeOKPlugin, Provisioner
<1>3. op' = Idle /\ queue' \in Queue
  BY <1>2, QueueType DEF WriteAbandoned, Fails
<1>4. /\ Len(log') \in Nat /\ Len(log) <= Len(log')
      /\ UNCHANGED << up, seen, notified, dirs, used >>
      /\ pv' \in [VolIDs -> Provisioner]
  BY <1>2 DEF WriteAbandoned
<1>5. TypeOKPlugin'
  BY <1>2, <1>3, <1>4, LongerLog
<1>6. QED
  BY <1>1, <1>3, <1>5, IdleIsSound DEF IInv, Volumes, TypeOK

LEMMA CrashStep == ASSUME IInv, Crash PROVE IInv'
<1>1. /\ dirs \subseteq VolIDs /\ used \subseteq VolIDs /\ pv \in [VolIDs -> Provisioner]
      /\ ProcessStops
      /\ UNCHANGED << dirs, used, pv >>
  BY DEF Crash, IInv, TypeOK, TypeOKPlugin, Provisioner
<1>2. CASE UNCHANGED apiVars
  <2>1. TypeOKPlugin' /\ OpSound'
    BY <1>1, <1>2, ProcessStopsType DEF apiVars
  <2>2. Volumes'
    BY <1>1, <1>2 DEF Volumes, IInv, HistorySound, LateSound, CopySound,
                      VolumesHaveDirs, BoundVolumesKept, ReleasedVolumesGone, Current,
                      apiVars
  <2>3. QED
    BY <1>2, <2>1, <2>2 DEF IInv, Volumes, TypeOK, TypeOKApi, apiVars
<1>3. CASE Writing /\ Abandon(op.rv, op.new)
  <2>1. TypeOKPlugin' /\ OpSound'
    BY <1>1, <1>3, ProcessStopsType DEF Abandon
  <2>2. QED
    BY <1>1, <1>3, <2>1, AbandonKeeps DEF IInv, Volumes, TypeOK
<1>4. QED
  BY <1>2, <1>3 DEF Crash

----------------------------------------------------------------------------
(* The steps that write a new version, and the removal of a directory. *)

(* Admission changes neither the volumes nor the soundness of a copy.       *)
LEMMA AdmittedCopySound ==
    ASSUME NEW copy, NEW version, CopySound(copy), Held(version),
           \A id : Recorded(version, id) <=> Recorded(copy, id)
    PROVE  CopySound(version)
BY DEF CopySound

LEMMA WriteType ==
    ASSUME IInv,
           NEW version \in LocalStorage \cup {NoObject},
           Store(version),
           UNCHANGED << up, seen, notified, dirs, used >>,
           queue' \in Queue,
           op' \in {op, Idle, Removing},
           pv' \in [VolIDs -> Provisioner]
    PROVE  TypeOK'
<1>1. TypeOKApi /\ TypeOKPlugin
  BY DEF IInv, TypeOK
<1>2. TypeOKApi' /\ Len(log) \in Nat /\ (log' = log \/ Len(log') = Len(log) + 1)
  BY <1>1, StoreEffect, LastVersion
<1>3. Len(log') \in Nat /\ Len(log) <= Len(log')
  BY <1>2
<1>4. TypeOKPlugin'
  BY <1>1, <1>2, <1>3, LongerLog
<1>5. QED
  BY <1>2, <1>4 DEF TypeOK

(* What SyncWritten, CreateWritten and DeleteWritten write.                 *)
LEMMA OpUpdate ==
    ASSUME IInv, Writing, Update(op.rv, op.new)
    PROVE  /\ Store(MutateUpdate(op.new))
           /\ MutateUpdate(op.new) \in LocalStorage
           /\ CopySound(MutateUpdate(op.new))
           /\ \A id : Recorded(MutateUpdate(op.new), id) <=> Recorded(op.new, id)
<1>1. op.rv = Len(log)
  BY DEF Update
<1>2. op.new \in LocalStorage /\ CopySound(op.new)
  BY <1>1, OpCopySound
<1>3. /\ Store(MutateUpdate(op.new))
      /\ MutateUpdate(op.new) \in LocalStorage
      /\ Held(MutateUpdate(op.new))
      /\ \A id : Recorded(MutateUpdate(op.new), id) <=> Recorded(op.new, id)
  BY <1>2, UpdateEffect DEF IInv, TypeOK, CopySound
<1>4. QED
  BY <1>2, <1>3, AdmittedCopySound

LEMMA SyncWrittenStep == ASSUME IInv, SyncWritten PROVE IInv'
<1>1. /\ Store(MutateUpdate(op.new))
      /\ MutateUpdate(op.new) \in LocalStorage
      /\ CopySound(MutateUpdate(op.new))
  BY OpUpdate DEF SyncWritten, Writing
<1>2. /\ UNCHANGED << up, seen, notified, dirs, used, pv >>
      /\ op' = Idle
      /\ queue' \in Queue
      /\ pv \in [VolIDs -> Provisioner]
  BY QueueType DEF SyncWritten, Finish, IInv, TypeOK, TypeOKPlugin, Provisioner
<1>3. TypeOK'
  BY <1>1, <1>2, WriteType
<1>4. Volumes'
  BY <1>1, <1>2, WriteKeepsVolumes
<1>5. QED
  BY <1>2, <1>3, <1>4, IdleIsSound DEF IInv, Volumes

LEMMA CreateWrittenStep == ASSUME IInv, CreateWritten PROVE IInv'
<1> DEFINE version == MutateUpdate(op.new)
<1>1. /\ Store(version)
      /\ version \in LocalStorage
      /\ CopySound(version)
      /\ \A id : Recorded(version, id) <=> Recorded(op.new, id)
  BY OpUpdate DEF CreateWritten, Writing
<1> HIDE DEF version
<1>2. /\ UNCHANGED << up, seen, notified, queue, dirs, used >>
      /\ op' = Idle
      /\ queue \in Queue
      /\ pv \in [VolIDs -> Provisioner]
      /\ pv' = [pv EXCEPT ![op.id] = "bound"]
  BY DEF CreateWritten, IInv, TypeOK, TypeOKPlugin, Provisioner
<1>3. /\ op.id \in dirs
      /\ pv[op.id] = "none"
      /\ Recorded(op.new, op.id)
      /\ \A n \in 1 .. Len(log) : ~Recorded(log[n], op.id)
  BY DEF CreateWritten, IInv, OpSound
<1>4. op.id \in VolIDs
  BY <1>3 DEF IInv, TypeOK, TypeOKPlugin
<1>5. TypeOK'
  <2>1. pv' \in [VolIDs -> Provisioner]
    BY <1>2 DEF Provisioner
  <2>2. QED
    BY <1>1, <1>2, <2>1, WriteType
<1>6. Volumes'
  <2>1. ~Recorded(Current, op.id)
    BY <1>3, LastVersion DEF IInv, TypeOK, Current
  <2>2. \A id \in VolIDs :
           \/ pv'[id] = pv[id]
           \/ /\ pv[id] = "none" /\ pv'[id] = "bound"
              /\ Recorded(version, id) /\ ~Recorded(Current, id)
    BY <1>1, <1>2, <1>3, <1>4, <2>1
  <2>3. QED
    BY <1>1, <1>2, <2>2, WriteKeepsVolumes
<1>7. QED
  BY <1>2, <1>5, <1>6, IdleIsSound DEF IInv, Volumes

LEMMA DeleteWrittenStep == ASSUME IInv, DeleteWritten PROVE IInv'
<1> DEFINE version == MutateUpdate(op.new)
<1>1. /\ Store(version)
      /\ version \in LocalStorage
      /\ CopySound(version)
      /\ \A id : Recorded(version, id) <=> Recorded(op.new, id)
  BY OpUpdate DEF DeleteWritten, Writing
<1> HIDE DEF version
<1>2. /\ UNCHANGED << up, seen, notified, queue, dirs, used, pv >>
      /\ op' = Removing
      /\ queue \in Queue
      /\ pv \in [VolIDs -> Provisioner]
  BY DEF DeleteWritten, Removing, IInv, TypeOK, TypeOKPlugin, Provisioner
<1>3. TypeOK'
  BY <1>1, <1>2, WriteType
<1>4. Volumes'
  BY <1>1, <1>2, WriteKeepsVolumes
<1>5. OpSound'
  <2>1. /\ op.id \in VolIDs
        /\ pv[op.id] \in {"releasing", "released"}
        /\ ~Recorded(op.new, op.id)
    BY DEF DeleteWritten, IInv, OpSound
  <2>2. Current' = version
    BY <1>1, StoreEffect DEF IInv, TypeOK
  <2>3. QED
    BY <1>1, <1>2, <2>1, <2>2 DEF OpSound, Writing, Removing, Idle
<1>6. QED
  BY <1>3, <1>4, <1>5 DEF IInv, Volumes

(* The directory goes when no version, and no request, lists the volume.    *)
LEMMA RemoveDirStep == ASSUME IInv, RemoveDir PROVE IInv'
<1>1. /\ op.id \in VolIDs
      /\ pv[op.id] \in {"releasing", "released"}
      /\ ~Recorded(Current, op.id)
  BY DEF RemoveDir, IInv, OpSound
<1>2. \A version \in late : ~Recorded(version, op.id)
  BY <1>1 DEF IInv, LateSound, CopySound
<1>3. /\ UNCHANGED << log, late, up, seen, notified, queue, used >>
      /\ dirs' = dirs \ {op.id}
      /\ pv' = [pv EXCEPT ![op.id] = "released"]
      /\ op' = Idle
      /\ pv \in [VolIDs -> Provisioner]
  BY DEF RemoveDir, apiVars, IInv, TypeOK, TypeOKPlugin, Provisioner
<1>4. \A id \in VolIDs : pv'[id] = IF id = op.id THEN "released" ELSE pv[id]
  BY <1>1, <1>3
<1>5. TypeOK'
  <2>1. Len(log) \in Nat /\ pv' \in [VolIDs -> Provisioner]
    BY <1>3, LastVersion DEF IInv, TypeOK, Provisioner
  <2>2. QED
    BY <1>3, <2>1, IdleType
       DEF IInv, TypeOK, TypeOKApi, TypeOKPlugin, Provisioner
<1>6. HistorySound' /\ BoundVolumesKept'
  BY <1>1, <1>3, <1>4 DEF IInv, HistorySound, BoundVolumesKept, Current
<1>7. LateSound' /\ VolumesHaveDirs' /\ ReleasedVolumesGone'
  BY <1>1, <1>2, <1>3, <1>4
     DEF IInv, LateSound, CopySound, VolumesHaveDirs, ReleasedVolumesGone, Current
<1>8. QED
  BY <1>3, <1>5, <1>6, <1>7, IdleIsSound DEF IInv

----------------------------------------------------------------------------
(* The steps of the users and of requests given up on. *)

LEMMA ApiWriteStep ==
    ASSUME IInv,
           NEW version \in LocalStorage \cup {NoObject},
           Store(version),
           version # NoObject => CopySound(version),
           op.pc = "create" => ~Recorded(version, op.id),
           UNCHANGED pluginVars
    PROVE  IInv'
<1>1. UNCHANGED << up, seen, notified, queue, op, dirs, used, pv >>
  BY DEF pluginVars
<1>2. queue \in Queue /\ pv \in [VolIDs -> Provisioner]
  BY DEF IInv, TypeOK, TypeOKPlugin, Provisioner
<1>3. TypeOK'
  BY <1>1, <1>2, WriteType
<1>4. Volumes'
  BY <1>1, WriteKeepsVolumes
<1>5. OpSound'
  BY <1>1, WriteKeepsOp
<1>6. QED
  BY <1>3, <1>4, <1>5 DEF IInv, Volumes

(* A write of a user's copy, whose volumes are those of the last version.   *)
LEMMA SameVolumesStep ==
    ASSUME IInv, Exists,
           NEW copy \in LocalStorage, copy.volumes = Current.volumes,
           Store(AfterFinalizers(copy)),
           UNCHANGED pluginVars
    PROVE  IInv'
<1> DEFINE version == AfterFinalizers(copy)
<1>1. version \in {copy, NoObject} /\ (version # NoObject => Held(copy))
  BY AfterFinalizersType
<1>2. version # NoObject => version = copy /\ CopySound(version)
  BY <1>1, SameVolumes
<1>3. \A id : Recorded(version, id) => Recorded(Current, id)
  BY <1>1 DEF Exists, Recorded, ContainsVolume, VolumeIDs
<1>4. op.pc = "create" => ~Recorded(version, op.id)
  BY <1>3, LastVersion DEF IInv, OpSound, TypeOK, Current
<1> HIDE DEF version
<1>5. QED
  BY <1>1, <1>2, <1>4, ApiWriteStep DEF version

LEMMA EditsType ==
    ASSUME NEW l \in LocalStorage, NEW new \in Edits(l)
    PROVE  new \in LocalStorage /\ new.volumes = l.volumes
<1>1. CASE \E b \in BOOLEAN : new = [l EXCEPT !.path = b]
  BY <1>1 DEF LocalStorage
<1>2. CASE \E b \in BOOLEAN : new = [l EXCEPT !.lvm = b]
  BY <1>2 DEF LocalStorage
<1>3. CASE \E s \in NodeSizes \cup {NoAnnotation, BadAnnotation} :
              new = [l EXCEPT !.nodeSize = s]
  BY <1>3 DEF LocalStorage
<1>4. CASE new = [l EXCEPT !.finalizer = FALSE]
  BY <1>4 DEF LocalStorage
<1>5. QED
  BY <1>1, <1>2, <1>3, <1>4 DEF Edits

LEMMA UserStep == ASSUME IInv, UserNext, UNCHANGED pluginVars PROVE IInv'
<1>0. Current \in LocalStorage \cup {NoObject}
  BY LastVersion DEF IInv, TypeOK
<1>1. ASSUME NEW path \in BOOLEAN, NEW lvm \in BOOLEAN,
             NEW s \in NodeSizes \cup {NoAnnotation, BadAnnotation},
             UserCreate(path, lvm, s)
      PROVE  IInv'
  <2>0. PICK phase \in {"", "Pending", "Initiating"}, volumes \in SUBSET Volume :
             Store(MutateCreate(Submitted(path, lvm, s, phase, volumes)))
    BY <1>1 DEF UserCreate
  <2> DEFINE version == MutateCreate(Submitted(path, lvm, s, phase, volumes))
  <2>1. version \in LocalStorage /\ version.volumes = {} /\ Held(version)
    BY MutateCreateType
  <2>2. Store(version) /\ Current = NoObject
    BY <1>1, <2>0 DEF UserCreate, Exists
  <2> HIDE DEF version
  <2>3. \A id : ~Recorded(version, id) /\ ~Recorded(Current, id)
    BY <2>1, <2>2 DEF Recorded, ContainsVolume, VolumeIDs
  <2>4. CopySound(version)
    BY <2>1, <2>3 DEF CopySound
  <2>5. QED
    BY <2>1, <2>2, <2>3, <2>4, ApiWriteStep
<1>2. ASSUME Exists, NEW new \in Edits(Current), UserEdit(new)
      PROVE  IInv'
  <2>1. new \in LocalStorage /\ new.volumes = Current.volumes
    BY <1>0, <1>2, EditsType DEF Exists
  <2>2. MutateUpdate(new) \in LocalStorage
        /\ MutateUpdate(new).volumes = Current.volumes
    BY <2>1, MutateUpdateType
  <2>3. QED
    BY <1>2, <2>2, SameVolumesStep DEF UserEdit
<1>3. ASSUME UserDelete
      PROVE  IInv'
  <2> DEFINE copy == [Current EXCEPT !.deleting = TRUE]
  <2>1. copy \in LocalStorage /\ copy.volumes = Current.volumes
    BY <1>0, <1>3 DEF UserDelete, Exists, LocalStorage
  <2>2. QED
    BY <1>3, <2>1, SameVolumesStep DEF UserDelete
<1>4. QED
  BY <1>1, <1>2, <1>3 DEF UserNext

LEMMA LateArrivesStep == ASSUME IInv, LateArrives, UNCHANGED pluginVars PROVE IInv'
<1>1. PICK new \in late : Update(Len(log), new)
  BY DEF LateArrives
<1>2. new \in LocalStorage /\ CopySound(new)
  BY <1>1 DEF IInv, TypeOK, TypeOKApi, LateSound
<1>3. /\ Store(MutateUpdate(new))
      /\ MutateUpdate(new) \in LocalStorage
      /\ Held(MutateUpdate(new))
      /\ \A id : Recorded(MutateUpdate(new), id) <=> Recorded(new, id)
  BY <1>1, <1>2, UpdateEffect DEF IInv, TypeOK, CopySound
<1>4. CopySound(MutateUpdate(new))
  BY <1>2, <1>3, AdmittedCopySound
<1>5. op.pc = "create" => ~Recorded(MutateUpdate(new), op.id)
  BY <1>1, <1>3 DEF IInv, OpSound
<1>6. QED
  BY <1>3, <1>4, <1>5, ApiWriteStep

----------------------------------------------------------------------------
(* The theorems. *)

LEMMA InitIInv == Init => IInv
<1> SUFFICES ASSUME Init PROVE IInv
  OBVIOUS
<1>1. log = << NoObject >> /\ late = {} /\ dirs = {} /\ used = {} /\ op = Idle
      /\ pv = [v \in VolIDs |-> "none"]
  BY DEF Init, InitApi, InitPlugin
<1>2. Len(log) = 1 /\ Current = NoObject
  BY <1>1 DEF Current
<1>3. TypeOKApi
  BY <1>1, <1>2 DEF TypeOKApi
<1>4. TypeOKPlugin
  <2>1. up \in BOOLEAN /\ seen \in 1 .. Len(log) /\ notified \in 0 .. seen
    BY <1>2 DEF Init, InitPlugin
  <2>2. queue \in Queue
    BY RetriesAssumption DEF Init, InitPlugin, EmptyQueue, Queue
  <2>3. QED
    BY <1>1, <1>2, <2>1, <2>2, IdleType DEF TypeOKPlugin
<1>5. HistorySound
  <2>1. \A n \in 1 .. Len(log) : log[n] = NoObject
    BY <1>1, <1>2
  <2>2. QED
    BY <1>1, <2>1 DEF HistorySound, Recorded
<1>6. LateSound /\ VolumesHaveDirs /\ BoundVolumesKept /\ ReleasedVolumesGone
  BY <1>1, <1>2
     DEF LateSound, VolumesHaveDirs, BoundVolumesKept, ReleasedVolumesGone, Recorded
<1>7. OpSound
  BY <1>1 DEF OpSound, Writing, Idle
<1>8. QED
  BY <1>3, <1>4, <1>5, <1>6, <1>7 DEF IInv, TypeOK

LEMMA StepIInv == IInv /\ [Next]_vars => IInv'
<1> SUFFICES ASSUME IInv, [Next]_vars PROVE IInv'
  OBVIOUS
<1>1. CASE InformerNext
  BY <1>1, InformerStep
<1>2. CASE SyncNext
  BY <1>2, EndingStep, SyncBeginStep, SyncWrittenStep DEF SyncNext
<1>3. CASE VolumeNext
  BY <1>3, CreateBeginStep, PanicStep, DeleteBeginStep, CreateWrittenStep,
     DeleteWrittenStep, RemoveDirStep, EndingStep DEF VolumeNext
<1>4. CASE WriteRefused \/ Restart
  BY <1>4, EndingStep
<1>5. CASE WriteAbandoned
  BY <1>5, WriteAbandonedStep
<1>6. CASE Crash
  BY <1>6, CrashStep
<1>7. CASE ApiNext /\ UNCHANGED pluginVars
  BY <1>7, UserStep, LateArrivesStep DEF ApiNext
<1>8. CASE UNCHANGED vars
  <2>1. UNCHANGED << apiVars, up, seen, notified, queue, op, dirs, used, pv >>
    BY <1>8 DEF vars, pluginVars
  <2>2. /\ up \in BOOLEAN /\ seen \in 1 .. Len(log) /\ notified \in 0 .. seen
        /\ queue \in Queue
    BY DEF IInv, TypeOK, TypeOKPlugin
  <2>3. QED
    BY <2>1, <2>2, QuietStep
<1>9. QED
  BY <1>1, <1>2, <1>3, <1>4, <1>5, <1>6, <1>7, <1>8 DEF Next, PluginNext

(* The invariant holds in every reachable state, for any sets of volumes    *)
(* and sizes and any bounds.                                                *)
THEOREM PluginInvariant == Spec => []IInv
BY InitIInv, StepIInv, PTL DEF Spec

(* The state of the plugin and of the API server keeps its types: caches    *)
(* never run ahead of the log, retries never exceed maxRetries.             *)
THEOREM PluginTypeCorrect == Spec => []TypeOK
<1>1. IInv => TypeOK
  BY DEF IInv
<1>2. QED
  BY <1>1, PluginInvariant, PTL

(* CreateVolume and DeleteVolume keep a directory for every listed volume.  *)
THEOREM PluginVolumesHaveDirs == Spec => []VolumesHaveDirs
<1>1. IInv => VolumesHaveDirs
  BY DEF IInv
<1>2. QED
  BY <1>1, PluginInvariant, PTL

(* No write of the plugin, of a user or of a request given up on loses a    *)
(* volume that CreateVolume returned.                                       *)
THEOREM PluginBoundVolumesKept == Spec => []BoundVolumesKept
<1>1. IInv => BoundVolumesKept
  BY DEF IInv
<1>2. QED
  BY <1>1, PluginInvariant, PTL

(* What DeleteVolume reported deleted is gone from the disk and from the    *)
(* object for good, whatever request is still on its way.                   *)
THEOREM PluginReleasedVolumesGone == Spec => []ReleasedVolumesGone
<1>1. IInv => ReleasedVolumesGone
  BY DEF IInv
<1>2. QED
  BY <1>1, PluginInvariant, PTL
============================================================================
