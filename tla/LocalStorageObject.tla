------------------------ MODULE LocalStorageObject ------------------------
(***************************************************************************)
(* The LocalStorage custom resource: the one object per node that holds    *)
(* the node's storage backend, its capacity and the list of its volumes    *)
(* (pkg/apis/localstorage/v1/types.go), and the helpers every component    *)
(* uses to read and change a copy of it (pkg/util/controller_utils.go).    *)
(*                                                                         *)
(* Data that no property tells apart is abstracted: a backend is "set or   *)
(* not", the node-size annotation is a quantity, absent or unparsable, a   *)
(* volume is its ID and its size (its path is a function of its ID), and   *)
(* the volume list is a set, for its IDs are pairwise distinct.            *)
(***************************************************************************)
EXTENDS Integers

CONSTANTS
    VolIDs,         \* the UUIDs CreateVolume may draw
    Sizes,          \* the volume sizes a CreateVolumeRequest asks for
    NodeSizes,      \* the quantities the node-size annotation may hold
    DefaultSize,    \* defaultPathSize, the capacity without the annotation
    NoAnnotation,   \* the annotation is absent
    BadAnnotation,  \* the annotation is not a quantity
    NoQuantity,     \* a nil *resource.Quantity
    NoObject        \* there is no such object

ASSUME SizeAssumption ==
    /\ Sizes \subseteq Nat
    /\ NodeSizes \subseteq Nat
    /\ DefaultSize \in Nat

ASSUME NilAssumption ==
    /\ NoAnnotation \notin Nat
    /\ BadAnnotation \notin Nat
    /\ NoAnnotation # BadAnnotation
    /\ NoQuantity \notin Int

(* The phases some component writes; Extending, Maintaining and Unknown     *)
(* are declared in types.go and never used.                                 *)
Phases == {"Pending", "Initiating", "Ready", "Terminating"}

Volume == [id : VolIDs, size : Sizes]

Quantity == Int \cup {NoQuantity}

LocalStorage ==
    [ phase       : Phases,
      deleting    : BOOLEAN,      \* DeletionTimestamp is set
      finalizer   : BOOLEAN,      \* LsProtectionFinalizer is present
      path        : BOOLEAN,      \* Spec.Path is set
      lvm         : BOOLEAN,      \* Spec.Lvm is set
      nodeSize    : NodeSizes \cup {NoAnnotation, BadAnnotation},
      capacity    : Quantity,
      allocatable : Quantity,
      volumes     : SUBSET Volume ]

ASSUME ObjectAssumption == NoObject \notin LocalStorage

----------------------------------------------------------------------------
(* pkg/util/controller_utils.go *)

LocalStorageIsPending(l)     == l.phase = "Pending"
LocalStorageIsInitiating(l)  == l.phase = "Initiating"
LocalStorageIsTerminating(l) == l.phase = "Terminating"

(* Spec.Node is immutable and the only object considered is this node's.   *)
AssignedLocalstorage(l) == LocalStorageIsInitiating(l) \/ LocalStorageIsPending(l)

SetLocalStoragePhase(l, phase) == [l EXCEPT !.phase = phase]

VolumeIDs(l) == {v.id : v \in l.volumes}

ContainsVolume(l, id) == id \in VolumeIDs(l)

AddVolume(l, v) ==
    IF ContainsVolume(l, v.id) THEN l ELSE [l EXCEPT !.volumes = @ \cup {v}]

RemoveVolume(l, id) == [l EXCEPT !.volumes = {v \in @ : v.id # id}]

(* The VolSize of the volume RemoveVolume returns: that of the volume with *)
(* this ID, or of the zero Volume when there is none.                      *)
RemovedSize(l, id) ==
    IF ContainsVolume(l, id) THEN (CHOOSE v \in l.volumes : v.id = id).size
                             ELSE 0

----------------------------------------------------------------------------
(* The size the plugin gives a path backend: the annotation, or the default *)
(* (pkg/localstorage/localstorage.go).                                      *)
DeclaredSize(l) == IF l.nodeSize = NoAnnotation THEN DefaultSize ELSE l.nodeSize

(* Capacity and Allocatable are written together, so that an object either  *)
(* has both or has neither.                                                 *)
Initialized(l) == l.allocatable # NoQuantity
============================================================================
