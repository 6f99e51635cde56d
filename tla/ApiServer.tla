----------------------------- MODULE ApiServer -----------------------------
(***************************************************************************)
(* The Kubernetes API server as this driver uses it, for the LocalStorage  *)
(* object of one node.                                                     *)
(*                                                                         *)
(* The store is the sequence of versions the object has gone through, with *)
(* NoObject where it did not exist: a version's resourceVersion is its     *)
(* position in the log, and an informer is a position it has read up to.   *)
(* An Update carries the version its copy was read at and is refused when  *)
(* that is no longer the last one.  Every write goes through the driver's  *)
(* two admission webhooks (pkg/webhook), which are registered for CREATE   *)
(* and UPDATE.                                                             *)
(***************************************************************************)
EXTENDS LocalStorageObject, Sequences, FiniteSets

CONSTANTS
    MaxLog,     \* users write only while the log is shorter than this
    MaxLate     \* at most so many abandoned requests are on their way

ASSUME BoundAssumption == MaxLog \in Nat /\ MaxLate \in Nat

VARIABLES
    log,    \* the versions of the object
    late    \* the copies, read at the last version, of Updates whose caller
            \* has given up waiting: each may still be applied

apiVars == << log, late >>

Current == log[Len(log)]

Exists == Current # NoObject

TypeOKApi ==
    /\ log \in Seq(LocalStorage \cup {NoObject})
    /\ Len(log) > 0
    /\ late \subseteq LocalStorage

InitApi ==
    /\ log = << NoObject >>
    /\ late = {}

----------------------------------------------------------------------------
(* pkg/webhook/mutating.go *)

SetFinalizer(l) == [l EXCEPT !.finalizer = TRUE]

MutateUpdate(l) == IF l.deleting THEN l ELSE SetFinalizer(l)

(* Slip: the finalizer is added on UPDATE only. *)
MutateCreateBare(l) ==
    [l EXCEPT !.phase = IF @ = "" THEN "Pending" ELSE @, !.volumes = {}]

(* SetStatus and SetVolumes.  A submitted object may have an empty phase. *)
MutateCreate(l) ==
    [SetFinalizer(l) EXCEPT !.phase   = IF @ = "" THEN "Pending" ELSE @,
                            !.volumes = {}]

(* pkg/webhook/validating.go *)

ValidateBackend(l) == ~(l.path /\ l.lvm)

(* Slip: each backend is checked on its own only. *)
ValidateUpdateEach(old, new) ==
    /\ old.path => new.path
    /\ old.lvm  => new.lvm

(* A backend can be set later, but neither changed nor unset. *)
ValidateUpdate(old, new) ==
    /\ ValidateBackend(new)
    /\ old.path => new.path
    /\ old.lvm  => new.lvm

----------------------------------------------------------------------------
(* What the API server does with an admitted write. *)

(* An object that is being deleted goes away with its last finalizer. *)
AfterFinalizers(l) == IF l.deleting /\ ~l.finalizer THEN NoObject ELSE l

(* A write that changes nothing makes no new version; any other makes what  *)
(* was read before it stale, the abandoned requests included.               *)
Store(version) ==
    /\ log'  = IF version = Current THEN log ELSE Append(log, version)
    /\ late' = IF version = Current THEN late ELSE {}

(* Slip: an Update without resourceVersion, which overwrites what is there. *)
UpdateAnyVersion(rv, new) ==
    /\ Exists
    /\ ValidateUpdate(Current, new)
    /\ Store(AfterFinalizers(MutateUpdate(new)))

(* An Update by a component of a copy it read at version rv. *)
Update(rv, new) ==
    /\ rv = Len(log)
    /\ Exists
    /\ ValidateUpdate(Current, new)
    /\ Store(AfterFinalizers(MutateUpdate(new)))

(* The caller of an Update gives up (its context ends, the connection or    *)
(* the caller itself dies) before the reply: the request may still arrive.  *)
Abandon(rv, new) ==
    /\ rv = Len(log)
    /\ Cardinality(late) < MaxLate
    /\ late' = late \cup {new}
    /\ UNCHANGED log

LateArrives == \E new \in late : Update(Len(log), new)

----------------------------------------------------------------------------
(* Users, through kubectl.  The resource has no status subresource, so that *)
(* a manifest may bring a status along when it creates an object: that of   *)
(* an object not initialised yet, with any volumes.  Sizes they never       *)
(* write, nor the phases that come with them, nor a status in an edit.      *)

Submitted(path, lvm, nodeSize, phase, volumes) ==
    [ phase |-> phase, deleting |-> FALSE, finalizer |-> FALSE,
      path |-> path, lvm |-> lvm, nodeSize |-> nodeSize,
      capacity |-> NoQuantity, allocatable |-> NoQuantity, volumes |-> volumes ]

UserMayWrite == Len(log) < MaxLog

UserCreate(path, lvm, nodeSize) ==
    /\ UserMayWrite
    /\ ~Exists
    /\ \E phase \in {"", "Pending", "Initiating"}, volumes \in SUBSET Volume :
          LET new == MutateCreate(Submitted(path, lvm, nodeSize, phase, volumes)) IN
          ValidateBackend(new) /\ Store(new)

(* An edit of the backend, the annotation or the finalizers. *)
Edits(l) ==
    {[l EXCEPT !.path = b] : b \in BOOLEAN} \cup
    {[l EXCEPT !.lvm = b] : b \in BOOLEAN} \cup
    {[l EXCEPT !.nodeSize = s] : s \in NodeSizes \cup {NoAnnotation, BadAnnotation}} \cup
    {[l EXCEPT !.finalizer = FALSE]}

UserEdit(new) ==
    /\ UserMayWrite
    /\ ValidateUpdate(Current, new)
    /\ Store(AfterFinalizers(MutateUpdate(new)))

UserDelete ==
    /\ UserMayWrite
    /\ Exists
    /\ ~Current.deleting
    /\ Store(AfterFinalizers([Current EXCEPT !.deleting = TRUE]))

UserNext ==
    \/ \E path, lvm \in BOOLEAN, s \in NodeSizes \cup {NoAnnotation, BadAnnotation} :
          UserCreate(path, lvm, s)
    \/ Exists /\ \E new \in Edits(Current) : UserEdit(new)
    \/ UserDelete

ApiNext == UserNext \/ LateArrives
============================================================================
