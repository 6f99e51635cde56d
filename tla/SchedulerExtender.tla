------------------------- MODULE SchedulerExtender -------------------------
(***************************************************************************)
(* The scheduler extender (pkg/scheduler): which node a pod with local     *)
(* claims goes to, and what becomes of the nodes' free sizes.              *)
(*                                                                         *)
(* kube-scheduler takes one pod at a time through the extender's Filter    *)
(* and Score and assigns it a node; the node's plugin then creates the     *)
(* pod's volumes, in the background, when the next pod may already be      *)
(* filtered.  Filter and Score read the informers' caches: the storages    *)
(* as they were at an earlier position of the history, and the claims      *)
(* that have arrived.  CreateVolume itself checks no size (NodePlugin), so *)
(* that the extender is all that keeps a node from being overcommitted.    *)
(***************************************************************************)
EXTENDS Integers, Sequences, FiniteSets, VolumeSizes

CONSTANTS
    Nodes, Pods,
    Capacity,       \* Capacity[n], the size of the storage of node n
    Claims,         \* Claims[p], the claims of pod p in the order of its volumes
    Unstable,       \* the nodes whose object users delete and create again
    MaxLag,         \* how many versions the extender's informer is behind at most
    MaxRedeclared,  \* how often a leftover key has sync declare sizes again at most
    NoStorage,      \* the node has no LocalStorage object
    NoSizes         \* its object is not initialised: capacity and allocatable are nil

ASSUME RedeclaredAssumption == MaxRedeclared \in Nat

ASSUME CapacityAssumption == IsFiniteSet(Nodes) /\ Capacity \in [Nodes -> Nat \ {0}]

(* A claim has a size, and is local when its StorageClass is this driver's. *)
ASSUME ClaimsAssumption ==
    Claims \in [Pods -> Seq([size : Nat, local : BOOLEAN])]

VARIABLES
    history,    \* the storages of the nodes, as the extender's informer has
                \* them, and the later versions on their way to it
    arrived,    \* the pods whose claims the extender's informer has
    pod,        \* how far each pod has come
    volumes,    \* the volumes created for the pods, by their node
    removed,    \* the nodes whose object was removed; each is removed once
    redeclared, \* how often sizes were declared again
    given,      \* auxiliary: what the last such sync of a node's object gave away
    overtaken   \* auxiliary: the pods whose decision did not see all that was
                \* on its way, or had an object changed under it

audit == << given, overtaken >>
vars == << history, arrived, pod, volumes, removed, redeclared, audit >>

Storage == [ready : BOOLEAN, capacity : Nat \ {0}, allocatable : Int]

ASSUME StorageAssumption == {NoStorage, NoSizes} \cap Storage = {}

Schedule ==
    [ pc    : {"pending", "filtered", "scored", "assigned", "leaving", "gone"},
      nodes : SUBSET Nodes ]    \* the nodes it may still go to

Now == history[Len(history)]

LsMap == Head(history)      \* GetLocalStorageMap

LocalClaims(p) == {i \in DOMAIN Claims[p] : Claims[p][i].local}

PodVolumes(p) == {v \in volumes : v.pod = p}

Running(p) ==
    pod[p].pc = "assigned" /\ {v.claim : v \in PodVolumes(p)} = LocalClaims(p)

(* From Filter's answer until the last volume is made. *)
UnderWay(p) == pod[p].pc \in {"filtered", "scored", "assigned"} /\ ~Running(p)

OnTheWayTo(n) == {p \in Pods : UnderWay(p) /\ n \in pod[p].nodes}

(* A volume that its node's object lists, or listed before it was removed,  *)
(* with the size that the object records for it.                            *)
Volume == [pod : Pods, claim : Nat, node : Nodes, size : Nat, listed : BOOLEAN]

ListedVolumes(n) == {v \in volumes : v.node = n /\ v.listed}

(* A Ready object has sizes (ReadyHasSizes of NodePlugin). *)
Sized(storage) == storage \notin {NoStorage, NoSizes}

TypeOK ==
    /\ history \in Seq([Nodes -> Storage \cup {NoStorage, NoSizes}])
    /\ Len(history) > 0
    /\ arrived \subseteq Pods
    /\ pod \in [Pods -> Schedule]
    /\ \A p \in Pods :
          pod[p].nodes = {} <=> pod[p].pc \in {"pending", "leaving", "gone"}
    /\ volumes \subseteq Volume
    /\ removed \subseteq Unstable
    /\ redeclared \in Nat
    /\ given \in [Nodes -> Nat]
    /\ overtaken \subseteq Pods

Init ==
    /\ history = << [n \in Nodes |-> NoStorage] >>
    /\ arrived = {}
    /\ pod = [p \in Pods |-> [pc |-> "pending", nodes |-> {}]]
    /\ volumes = {}
    /\ removed = {}
    /\ redeclared = 0
    /\ given = [n \in Nodes |-> 0]
    /\ overtaken = {}

----------------------------------------------------------------------------
(* The nodes' storages, as the plugin and the controller write them, and    *)
(* the extender's informers.                                                *)

Writes(n, storage) ==
    /\ Len(history) <= MaxLag
    /\ history' = Append(history, [Now EXCEPT ![n] = storage])

(* The job, or a user, creates the object; the plugin initialises it.       *)
StorageCreated(n) ==
    /\ Now[n] = NoStorage
    /\ Writes(n, NoSizes)
    /\ UNCHANGED << arrived, pod, volumes, removed, redeclared, audit >>

AllOf(n) == [ready |-> TRUE, capacity |-> Capacity[n], allocatable |-> Capacity[n]]

StorageReady(n) ==
    /\ Now[n] = NoSizes
    /\ Writes(n, AllOf(n))
    /\ UNCHANGED << arrived, pod, volumes, removed, redeclared, audit >>

(* A key that is left in the plugin's queue is synced once more when the    *)
(* object has sizes, and perhaps volumes, already: sync does not ask, and   *)
(* the whole capacity is allocatable again.  A pod on its way that was let  *)
(* in by more than that has had the object changed under it.                *)
StorageRedeclared(n) ==
    /\ redeclared < MaxRedeclared
    /\ Sized(Now[n])
    /\ Writes(n, AllOf(n))
    /\ redeclared' = redeclared + 1
    /\ given' = [given EXCEPT ![n] = TotalSize(ListedVolumes(n))]
    /\ overtaken' = IF Now[n].allocatable > Capacity[n] THEN overtaken \cup OnTheWayTo(n)
                                                       ELSE overtaken
    /\ UNCHANGED << arrived, pod, volumes, removed >>

(* The object is deleted by a user: Terminating, it still has its sizes ... *)
StorageTerminates(n) ==
    /\ n \in Unstable
    /\ Sized(Now[n])
    /\ Now[n].ready
    /\ Writes(n, [Now[n] EXCEPT !.ready = FALSE])
    /\ UNCHANGED << arrived, pod, volumes, removed, redeclared, audit >>

(* ... until its finalizer is taken off.  The next object of the node knows *)
(* nothing of the volumes, nor of a pod that is on its way to it.           *)
StorageRemoved(n) ==
    /\ n \in Unstable \ removed
    /\ Sized(Now[n])
    /\ ~Now[n].ready
    /\ Writes(n, NoStorage)
    /\ volumes' = {[v EXCEPT !.listed = @ /\ v.node # n] : v \in volumes}
    /\ removed' = removed \cup {n}
    /\ given' = [given EXCEPT ![n] = 0]
    /\ overtaken' = overtaken \cup OnTheWayTo(n)
    /\ UNCHANGED << arrived, pod, redeclared >>

CacheAdvances ==
    /\ Len(history) > 1
    /\ history' = Tail(history)
    /\ UNCHANGED << arrived, pod, volumes, removed, redeclared, audit >>

ClaimArrives(p) ==
    /\ p \notin arrived
    /\ arrived' = arrived \cup {p}
    /\ UNCHANGED << history, pod, volumes, removed, redeclared, audit >>

----------------------------------------------------------------------------
(* pkg/util/storage, pkg/scheduler/extender *)

(* The request of the claim that Filter looks at, if any: that of the first *)
(* local one (GetLocalStoragePersistentVolumeClaimFromPod).                 *)
FirstClaims(p) == {i \in LocalClaims(p) : \A k \in LocalClaims(p) : i <= k}

Request(p) == {Claims[p][i].size : i \in FirstClaims(p)}

(* Slip: a request as large as what is left is refused. *)
FitsStrictly(n, request) ==
    /\ Sized(LsMap[n])
    /\ LsMap[n].ready
    /\ \A size \in request : size < LsMap[n].allocatable

(* Slip: against the whole capacity, not what is left of it. *)
FitsCapacity(n, request) ==
    /\ Sized(LsMap[n])
    /\ LsMap[n].ready
    /\ \A size \in request : size <= LsMap[n].capacity

Fits(n, request) ==
    /\ Sized(LsMap[n])
    /\ LsMap[n].ready
    /\ \A size \in request : size <= LsMap[n].allocatable

Feasible(p) ==
    IF Request(p) = {} THEN Nodes ELSE {n \in Nodes : Fits(n, Request(p))}

(* What Filter decides on is so: no pod waits for its volumes, and a node   *)
(* has what the cache says, or more.                                        *)
Settled ==
    /\ \A p \in Pods : ~UnderWay(p)
    /\ \A n \in Nodes :
          Sized(LsMap[n]) =>
              Sized(Now[n]) /\ LsMap[n].allocatable <= Now[n].allocatable

(* kube-scheduler's scheduling cycle is one pod at a time. *)
Cycling == \E p \in Pods : pod[p].pc \in {"filtered", "scored"}

(* Slip: an empty list of nodes is taken for an answer. *)
FilterEmpty(p) ==
    /\ ~Cycling
    /\ pod[p].pc = "pending"
    /\ p \in arrived
    /\ pod' = [pod EXCEPT ![p] = [pc |-> "filtered", nodes |-> Feasible(p)]]
    /\ overtaken' = IF Request(p) = {} \/ Settled THEN overtaken ELSE overtaken \cup {p}
    /\ UNCHANGED << history, arrived, volumes, removed, redeclared, given >>

(* A pod none of whose nodes passes, or whose claims do not arrive within   *)
(* the two seconds Filter waits, stays pending and is tried again.          *)
Filter(p) ==
    /\ ~Cycling
    /\ pod[p].pc = "pending"
    /\ p \in arrived
    /\ Feasible(p) # {}
    /\ pod' = [pod EXCEPT ![p] = [pc |-> "filtered", nodes |-> Feasible(p)]]
    /\ overtaken' = IF Request(p) = {} \/ Settled THEN overtaken ELSE overtaken \cup {p}
    /\ UNCHANGED << history, arrived, volumes, removed, redeclared, given >>

(* Slip: the fullest node first. *)
ScoreUsed(n) ==
    IF LsMap[n] = NoStorage THEN 0
    ELSE (100 * (LsMap[n].capacity - LsMap[n].allocatable)) \div LsMap[n].capacity

(* The free share of the node, in percent: 0 for a node without storage.    *)
(* int64() truncates towards zero, which for a negative share is up.        *)
Score(n) ==
    IF LsMap[n] = NoStorage THEN 0
    ELSE IF LsMap[n].allocatable >= 0
         THEN (100 * LsMap[n].allocatable) \div LsMap[n].capacity
         ELSE 0 - (100 * (0 - LsMap[n].allocatable)) \div LsMap[n].capacity

(* The node goes by the extender's score, or, when the call fails or the    *)
(* pod has no local claim, by kube-scheduler's own.  A node whose object is *)
(* a new one since Filter has no sizes, and Score panics.                   *)
Prioritize(p) ==
    /\ pod[p].pc = "filtered"
    /\ Request(p) # {} => \A n \in pod[p].nodes : LsMap[n] # NoSizes
    /\ LET nodes == pod[p].nodes
           best  == {n \in nodes : \A other \in nodes : Score(n) >= Score(other)}
       IN  pod' = [pod EXCEPT ![p].pc = "scored",
                              ![p].nodes = IF Request(p) = {} THEN @ ELSE best]
    /\ UNCHANGED << history, arrived, volumes, removed, redeclared, audit >>

PrioritizeFails(p) ==
    /\ pod[p].pc = "filtered"
    /\ pod' = [pod EXCEPT ![p].pc = "scored"]
    /\ UNCHANGED << history, arrived, volumes, removed, redeclared, audit >>

(* kube-scheduler picks one of the best nodes, and writes it to the claims. *)
Assign(p, n) ==
    /\ pod[p].pc = "scored"
    /\ n \in pod[p].nodes
    /\ pod' = [pod EXCEPT ![p] = [pc |-> "assigned", nodes |-> {n}]]
    /\ UNCHANGED << history, arrived, volumes, removed, redeclared, audit >>

----------------------------------------------------------------------------
(* The plugin of the node (NodePlugin), one volume at a time. *)

Provision(p, i, n) ==
    /\ pod[p].pc = "assigned"
    /\ n \in pod[p].nodes
    /\ i \in LocalClaims(p)
    /\ Sized(Now[n])
    /\ \A v \in PodVolumes(p) : v.claim # i
    /\ LET size == Claims[p][i].size
       IN  /\ volumes' = volumes \cup
                 {[pod |-> p, claim |-> i, node |-> n, size |-> size, listed |-> TRUE]}
           /\ Writes(n, [Now[n] EXCEPT !.allocatable = @ - size])
    /\ UNCHANGED << arrived, pod, removed, redeclared, audit >>

(* The pod ends and its claims are deleted. *)
Leave(p) ==
    /\ Running(p)
    /\ pod' = [pod EXCEPT ![p] = [pc |-> "leaving", nodes |-> {}]]
    /\ UNCHANGED << history, arrived, volumes, removed, redeclared, audit >>

(* Slip: the size of a volume the object does not list is given back too. *)
ReleaseAny(p, v) ==
    /\ pod[p].pc = "leaving"
    /\ v \in PodVolumes(p)
    /\ Sized(Now[v.node])
    /\ volumes' = volumes \ {v}
    /\ Writes(v.node, [Now[v.node] EXCEPT !.allocatable = @ + v.size])
    /\ UNCHANGED << arrived, pod, removed, redeclared, audit >>

(* Nothing is given back for a volume the object does not list. *)
Release(p, v) ==
    /\ pod[p].pc = "leaving"
    /\ v \in PodVolumes(p)
    /\ Sized(Now[v.node])
    /\ volumes' = volumes \ {v}
    /\ IF v.listed
       THEN Writes(v.node, [Now[v.node] EXCEPT !.allocatable = @ + v.size])
       ELSE UNCHANGED history
    /\ UNCHANGED << arrived, pod, removed, redeclared, audit >>

Left(p) ==
    /\ pod[p].pc = "leaving"
    /\ PodVolumes(p) = {}
    /\ pod' = [pod EXCEPT ![p].pc = "gone"]
    /\ UNCHANGED << history, arrived, volumes, removed, redeclared, audit >>

----------------------------------------------------------------------------
SchedulerNext ==
    \E p \in Pods :
        \/ Filter(p) \/ Prioritize(p) \/ PrioritizeFails(p)
        \/ \E n \in Nodes : Assign(p, n)

PluginNext ==
    \/ \E n \in Nodes : StorageCreated(n) \/ StorageReady(n)
    \/ \E p \in Pods, i \in UNION {DOMAIN Claims[q] : q \in Pods}, n \in Nodes : Provision(p, i, n)
    \/ \E p \in Pods : \E v \in PodVolumes(p) : Release(p, v)

UserNext ==
    \/ \E p \in Pods : Leave(p) \/ Left(p)
    \/ \E n \in Nodes : StorageTerminates(n) \/ StorageRemoved(n)

InformerNext == CacheAdvances \/ \E p \in Pods : ClaimArrives(p)

Next ==
    \/ SchedulerNext \/ PluginNext \/ UserNext \/ InformerNext
    \/ \E n \in Nodes : StorageRedeclared(n)

Spec == Init /\ [][Next]_vars

(* Every component makes its steps; a pod that fits is tried for good       *)
(* (kube-scheduler flushes its unschedulable pods) although the scheduling  *)
(* cycle, or another pod that fills the node, may keep it out for a while;  *)
(* and pods end.                                                            *)
Fairness ==
    /\ WF_vars(CacheAdvances)
    /\ WF_vars(PluginNext)
    /\ \A p \in Pods :
          /\ WF_vars(ClaimArrives(p))
          /\ SF_vars(Filter(p))
          /\ WF_vars(Prioritize(p) \/ PrioritizeFails(p))
          /\ WF_vars(\E n \in Nodes : Assign(p, n))
          /\ WF_vars(Leave(p) \/ Left(p))

FairSpec == Spec /\ Fairness

----------------------------------------------------------------------------
(* The volumes of a node that Filter has judged: those of the claims that  *)
(* it looks at, of pods whose decision was not overtaken.                   *)
Judged(n) == {v \in ListedVolumes(n) : v.pod \notin overtaken /\ v.claim \in FirstClaims(v.pod)}

(* What Filter has judged fits the node, and on a node whose sizes were     *)
(* declared again exceeds it by at most what that gave away: "localstorage  *)
(* allocatable size too small" is the one check between a claim and a full  *)
(* disk.  Overtaken decisions and second claims among the pods take nothing *)
(* from the others.                                                         *)
NoOvercommit ==
    \A n \in Nodes : Sized(Now[n]) => TotalSize(Judged(n)) <= Now[n].capacity + given[n]

(* Without the provisos, which a second pod, a second claim of one pod, and *)
(* a sync of a leftover key break (predicate.go:84, storage.go:175,         *)
(* localstorage.go:194).                                                    *)
NeverOvercommitted ==
    \A n \in Nodes : Sized(Now[n]) => TotalSize(ListedVolumes(n)) <= Now[n].capacity

(* What an object has left is what the volumes it lists leave, and what was *)
(* given away for good; through its removal and a new start, too: no node   *)
(* gains space by the end of a pod whose volumes went with an earlier       *)
(* object, and none loses any.                                              *)
SizesAddUp ==
    \A n \in Nodes : Sized(Now[n]) =>
        Now[n].allocatable + TotalSize(ListedVolumes(n)) = Now[n].capacity + given[n]

(* Scoring by the free share keeps equal nodes level: what two of them have *)
(* left differs by one claim at most, however the pods arrive.              *)
Spread ==
    \A n, other \in Nodes :
        Sized(Now[n]) /\ Sized(Now[other]) =>
        \E p \in Pods : \E i \in LocalClaims(p) :
            Now[n].allocatable - Now[other].allocatable <= Claims[p][i].size

(* A pod that fits on an empty node runs and leaves in the end: no refusal  *)
(* of Filter is final, a claim exactly as large as the storage fits, and    *)
(* what other pods held is found again in the cache.                        *)
EveryPodRuns == \A p \in Pods : <>(pod[p].pc = "gone")
============================================================================
