---------------------- MODULE SchedulerExtender_proofs ----------------------
(***************************************************************************)
(* Theorems about SchedulerExtender, for any nodes, capacities, pods and   *)
(* claims: every state is of its type, the sizes of a node add up, and     *)
(* what Filter has judged fits.                                            *)
(***************************************************************************)
EXTENDS SchedulerExtender, VolumeSizes_proofs

----------------------------------------------------------------------------
(* Among finitely many nodes one has the best score.                       *)
LEMMA BestExists ==
    ASSUME NEW S, IsFiniteSet(S), S # {}, NEW f \in [S -> Int]
    PROVE  \E n \in S : \A m \in S : f[n] >= f[m]
<1> DEFINE Better(n) == {m \in S : f[m] > f[n]}
           T == {Better(n) : n \in S}
<1>1. IsWellFoundedOn(StrictSubsetOrdering(S), SUBSET S)
  BY FS_StrictSubsetOrderingWellFounded, FS_FiniteSubsetsOfFinite
<1>2. T \subseteq SUBSET S /\ T # {}
  <2>1. PICK n \in S : TRUE
    OBVIOUS
  <2>2. Better(n) \in T
    BY <2>1
  <2>3. \A n1 \in S : Better(n1) \in SUBSET S
    OBVIOUS
  <2>q. QED  BY <2>2, <2>3
<1>3. PICK x \in T : \A y \in T : ~(<< y, x >> \in StrictSubsetOrdering(S))
  <2> HIDE DEF T
  <2>q. QED  BY <1>1, <1>2, WFMin
<1>4. PICK n \in S : x = Better(n)
  OBVIOUS
<1>5. ASSUME NEW m \in S, ~(f[n] >= f[m])
      PROVE  FALSE
  <2>1. Better(m) \subseteq Better(n) /\ m \in Better(n) /\ m \notin Better(m)
    BY <1>5
  <2>2. << Better(m), Better(n) >> \in StrictSubsetOrdering(S)
    BY <2>1 DEF StrictSubsetOrdering
  <2>q. QED  BY <1>3, <1>4, <2>2
<1>q. QED  BY <1>5

----------------------------------------------------------------------------
(* The history of the storages. *)

Objects == Storage \cup {NoStorage, NoSizes}

LEMMA NowType ==
    ASSUME TypeOK
    PROVE  Now \in [Nodes -> Objects] /\ LsMap \in [Nodes -> Objects]
BY DEF TypeOK, Now, LsMap, Objects

LEMMA SizedType ==
    ASSUME NEW s \in Objects
    PROVE  Sized(s) <=> s \in Storage
BY StorageAssumption DEF Objects, Sized

LEMMA WritesType ==
    ASSUME TypeOK, NEW n \in Nodes, NEW s \in Objects, Writes(n, s)
    PROVE  /\ history' \in Seq([Nodes -> Objects]) /\ Len(history') > 0
           /\ Now' = [Now EXCEPT ![n] = s]
<1>1. [Now EXCEPT ![n] = s] \in [Nodes -> Objects]
  BY NowType
<1>2. history \in Seq([Nodes -> Objects])
  BY DEF TypeOK, Objects
<1>3. history' = Append(history, [Now EXCEPT ![n] = s])
  BY DEF Writes
<1>q. QED  BY <1>1, <1>2, <1>3 DEF Now

(* A storage written with other contents is one.                           *)
LEMMA StorageUpdates ==
    ASSUME NEW s \in Storage
    PROVE  /\ [s EXCEPT !.ready = FALSE] \in Storage
           /\ [s EXCEPT !.ready = FALSE].allocatable = s.allocatable
           /\ [s EXCEPT !.ready = FALSE].capacity = s.capacity
           /\ \A a \in Int : /\ [s EXCEPT !.allocatable = a] \in Storage
                            /\ [s EXCEPT !.allocatable = a].allocatable = a
                            /\ [s EXCEPT !.allocatable = a].capacity = s.capacity
BY DEF Storage

(* Claims *)

LEMMA ClaimSize ==
    ASSUME NEW p \in Pods, NEW i \in LocalClaims(p)
    PROVE  i \in DOMAIN Claims[p] /\ i \in Nat /\ Claims[p][i].size \in Nat
<1>1. Claims[p] \in Seq([size : Nat, local : BOOLEAN])
  BY ClaimsAssumption
<1>2. i \in 1 .. Len(Claims[p]) /\ i \in DOMAIN Claims[p]
  BY <1>1 DEF LocalClaims
<1>3. Claims[p][i] \in [size : Nat, local : BOOLEAN]
  <2> DEFINE C == [size : Nat, local : BOOLEAN]
  <2>1. Claims[p] \in Seq(C)
    BY <1>1
  <2> HIDE DEF C
  <2>2. Claims[p][i] \in C
    BY <1>2, <2>1
  <2>q. QED  BY <2>2 DEF C
<1>q. QED  BY <1>2, <1>3

LEMMA ScoreType ==
    ASSUME TypeOK, NEW n \in Nodes, LsMap[n] # NoSizes
    PROVE  Score(n) \in Int
<1>1. LsMap[n] = NoStorage \/ LsMap[n] \in Storage
  BY NowType DEF Objects
<1>2. CASE LsMap[n] = NoStorage
  BY <1>2 DEF Score
<1>3. CASE LsMap[n] \in Storage /\ LsMap[n] # NoStorage
  <2> DEFINE a == LsMap[n].allocatable
             c == LsMap[n].capacity
  <2>1. a \in Int /\ c \in Nat /\ c # 0
    BY <1>3 DEF Storage
  <2>2. Score(n) = IF a >= 0 THEN (100 * a) \div c ELSE 0 - (100 * (0 - a)) \div c
    BY <1>3 DEF Score
  <2> HIDE DEF a, c
  <2>q. QED  BY <2>1, <2>2
<1>q. QED  BY <1>1, <1>2, <1>3

----------------------------------------------------------------------------
(* Types *)

(* A volume was made for a claim of its pod.                               *)
VolumesOfClaims == \A v \in volumes : v.claim \in LocalClaims(v.pod)

SchedulerInv == TypeOK /\ VolumesOfClaims /\ IsFiniteSet(volumes)

LEMMA ListedVolumesType ==
    ASSUME SchedulerInv, NEW n \in Nodes
    PROVE  /\ IsFiniteSet(ListedVolumes(n)) /\ \A v \in ListedVolumes(n) : v.size \in Nat
           /\ TotalSize(ListedVolumes(n)) \in Nat
<1>1. ListedVolumes(n) \subseteq volumes /\ volumes \subseteq Volume /\ IsFiniteSet(volumes)
  BY DEF ListedVolumes, SchedulerInv, TypeOK
<1>2. IsFiniteSet(ListedVolumes(n)) /\ \A v \in ListedVolumes(n) : v.size \in Nat
  BY <1>1, FS_Subset DEF Volume
<1>q. QED  BY <1>2, TotalSizeType

LEMMA AllOfType ==
    ASSUME NEW n \in Nodes
    PROVE  /\ Capacity[n] \in Nat /\ AllOf(n) \in Storage
           /\ AllOf(n).allocatable = Capacity[n] /\ AllOf(n).capacity = Capacity[n]
BY CapacityAssumption DEF AllOf, Storage

LEMMA InitSchedulerInv == Init => SchedulerInv
<1> SUFFICES ASSUME Init
             PROVE  SchedulerInv
  OBVIOUS
<1>1. [n \in Nodes |-> NoStorage] \in [Nodes -> Storage \cup {NoStorage, NoSizes}]
  OBVIOUS
<1>2. history \in Seq([Nodes -> Storage \cup {NoStorage, NoSizes}]) /\ Len(history) > 0
  BY <1>1 DEF Init
<1>3. IsFiniteSet(volumes)
  BY FS_EmptySet DEF Init
<1>q. QED  BY <1>2, <1>3 DEF Init, SchedulerInv, TypeOK, VolumesOfClaims, Schedule

StorageNext(n) ==
    \/ StorageCreated(n) \/ StorageReady(n) \/ StorageRedeclared(n)
    \/ StorageTerminates(n) \/ StorageRemoved(n)

(* With an object goes what it lists: its volumes stay, listed no more.    *)
LEMMA Unlists ==
    ASSUME SchedulerInv, NEW n \in Nodes, StorageRemoved(n)
    PROVE  /\ volumes' \subseteq Volume /\ VolumesOfClaims' /\ IsFiniteSet(volumes')
           /\ ListedVolumes(n)' = {}
           /\ \A m \in Nodes : m # n => ListedVolumes(m)' = ListedVolumes(m)
           /\ \A p \in Pods :
                 {v.claim : v \in PodVolumes(p)'} = {v.claim : v \in PodVolumes(p)}
<1> DEFINE Unlisted(v) == [v EXCEPT !.listed = v.listed /\ v.node # n]
<1>1. /\ volumes' = {Unlisted(v) : v \in volumes}
      /\ volumes \subseteq Volume /\ VolumesOfClaims /\ IsFiniteSet(volumes)
  BY DEF StorageRemoved, SchedulerInv, TypeOK
<1>2. ASSUME NEW v \in Volume
      PROVE  /\ Unlisted(v) \in Volume
             /\ Unlisted(v).claim = v.claim /\ Unlisted(v).pod = v.pod
             /\ Unlisted(v).node = v.node
             /\ Unlisted(v).listed <=> v.listed /\ v.node # n
             /\ v.node # n => Unlisted(v) = v
  BY DEF Volume
<1> HIDE DEF Unlisted
<1>3. volumes' \subseteq Volume /\ VolumesOfClaims'
  BY <1>1, <1>2 DEF VolumesOfClaims, LocalClaims
<1>4. IsFiniteSet(volumes')
  <2> DEFINE f == [v \in volumes |-> Unlisted(v)]
  <2>1. f \in Surjection(volumes, volumes')
    BY <1>1 DEF Surjection
  <2> HIDE DEF f
  <2>q. QED  BY <1>1, <2>1, FS_Surjection
<1>5. ListedVolumes(n)' = {}
  BY <1>1, <1>2 DEF ListedVolumes
<1>6. ASSUME NEW m \in Nodes, m # n
      PROVE  ListedVolumes(m)' = ListedVolumes(m)
  BY <1>1, <1>2, <1>6 DEF ListedVolumes
<1>7. ASSUME NEW p \in Pods
      PROVE  {v.claim : v \in PodVolumes(p)'} = {v.claim : v \in PodVolumes(p)}
  <2>1. PodVolumes(p)' = {Unlisted(v) : v \in PodVolumes(p)}
    BY <1>1, <1>2 DEF PodVolumes
  <2>2. \A v \in PodVolumes(p) : Unlisted(v).claim = v.claim
    BY <1>1, <1>2 DEF PodVolumes
  <2>q. QED  BY <2>1, <2>2
<1>q. QED  BY <1>3, <1>4, <1>5, <1>6, <1>7

LEMMA StorageSteps ==
    ASSUME SchedulerInv, NEW n \in Nodes, StorageNext(n)
    PROVE  SchedulerInv'
<1> USE DEF StorageNext
<1>1. PICK s \in Objects : Writes(n, s)
  <2>0. TypeOK
    BY DEF SchedulerInv
  <2>1. CASE StorageCreated(n)
    BY <2>1 DEF StorageCreated, Objects
  <2>2. CASE StorageReady(n) \/ StorageRedeclared(n)
    BY <2>2, AllOfType DEF StorageReady, StorageRedeclared, Objects
  <2>3. CASE StorageTerminates(n)
    <3>1. Now[n] \in Storage
      BY <2>0, <2>3, NowType, SizedType DEF StorageTerminates
    <3>2. [Now[n] EXCEPT !.ready = FALSE] \in Objects
      BY <3>1, StorageUpdates DEF Objects
    <3>q. QED  BY <2>3, <3>2 DEF StorageTerminates
  <2>4. CASE StorageRemoved(n)
    BY <2>4 DEF StorageRemoved, Objects
  <2>q. QED  BY <2>1, <2>2, <2>3, <2>4
<1>2. history' \in Seq([Nodes -> Storage \cup {NoStorage, NoSizes}]) /\ Len(history') > 0
  BY <1>1, WritesType DEF SchedulerInv, Objects
<1>3. UNCHANGED << arrived, pod >>
  BY DEF StorageCreated, StorageReady, StorageRedeclared, StorageTerminates, StorageRemoved
<1>4. removed' \subseteq Unstable /\ redeclared' \in Nat
  BY DEF StorageCreated, StorageReady, StorageRedeclared, StorageTerminates, StorageRemoved,
         SchedulerInv, TypeOK
<1>5. given' \in [Nodes -> Nat] /\ overtaken' \subseteq Pods
  <2>1. /\ given \in [Nodes -> Nat] /\ overtaken \subseteq Pods
        /\ OnTheWayTo(n) \subseteq Pods /\ TotalSize(ListedVolumes(n)) \in Nat
    BY ListedVolumesType DEF SchedulerInv, TypeOK, OnTheWayTo
  <2>2. CASE UNCHANGED audit
    BY <2>1, <2>2 DEF audit
  <2>3. CASE StorageRedeclared(n) \/ StorageRemoved(n)
    <3> HIDE DEF StorageNext
    <3>q. QED  BY <2>1, <2>3 DEF StorageRedeclared, StorageRemoved
  <2>q. QED  BY <2>2, <2>3 DEF StorageCreated, StorageReady, StorageTerminates
<1>6. volumes' \subseteq Volume /\ VolumesOfClaims' /\ IsFiniteSet(volumes')
  <2>1. CASE StorageRemoved(n)
    BY <2>1, Unlists
  <2>2. CASE UNCHANGED volumes
    BY <2>2 DEF SchedulerInv, TypeOK, VolumesOfClaims, LocalClaims
  <2>q. QED  BY <2>1, <2>2 DEF StorageCreated, StorageReady, StorageRedeclared, StorageTerminates
<1>q. QED  BY <1>2, <1>3, <1>4, <1>5, <1>6 DEF SchedulerInv, TypeOK

LEMMA InformerSteps ==
    ASSUME SchedulerInv, InformerNext
    PROVE  SchedulerInv' /\ Now' = Now
<1>1. UNCHANGED << pod, volumes, removed, redeclared, given, overtaken >>
  BY DEF InformerNext, CacheAdvances, ClaimArrives, audit
<1>2. arrived' \subseteq Pods
  BY DEF InformerNext, CacheAdvances, ClaimArrives, SchedulerInv, TypeOK
<1>3. /\ history' \in Seq([Nodes -> Storage \cup {NoStorage, NoSizes}]) /\ Len(history') > 0
      /\ Now' = Now
  <2> DEFINE H == [Nodes -> Storage \cup {NoStorage, NoSizes}]
  <2>1. history \in Seq(H) /\ Len(history) > 0
    BY DEF SchedulerInv, TypeOK
  <2>2. UNCHANGED history \/ (history' = Tail(history) /\ Len(history) > 1)
    BY DEF InformerNext, CacheAdvances, ClaimArrives
  <2> HIDE DEF H
  <2>3. history' \in Seq(H) /\ Len(history') > 0 /\ Now' = Now
    BY <2>1, <2>2 DEF Now
  <2>q. QED  BY <2>3 DEF H
<1>q. QED
  BY <1>1, <1>2, <1>3 DEF SchedulerInv, TypeOK, VolumesOfClaims, LocalClaims

LEMMA PodSteps ==
    ASSUME SchedulerInv, NEW p \in Pods,
           \/ Filter(p) \/ Prioritize(p) \/ PrioritizeFails(p)
           \/ \E n \in Nodes : Assign(p, n)
           \/ Leave(p) \/ Left(p)
    PROVE  SchedulerInv'
<1>1. /\ UNCHANGED << history, arrived, volumes, removed, redeclared, given >>
      /\ overtaken' \subseteq Pods
  BY DEF Filter, Prioritize, PrioritizeFails, Assign, Leave, Left, audit, SchedulerInv, TypeOK
<1> DEFINE Sound(s) == /\ s \in Schedule
                       /\ s.nodes = {} <=> s.pc \in {"pending", "leaving", "gone"}
<1>0. pod \in [Pods -> Schedule] /\ \A q \in Pods : Sound(pod[q])
  BY DEF SchedulerInv, TypeOK
<1>2. \E s : Sound(s) /\ pod' = [pod EXCEPT ![p] = s]
  <2>1. CASE Filter(p)
    <3>1. Feasible(p) \subseteq Nodes
      BY DEF Feasible
    <3>2. Sound([pc |-> "filtered", nodes |-> Feasible(p)])
      BY <2>1, <3>1 DEF Filter, Schedule
    <3>q. QED  BY <2>1, <3>2 DEF Filter
  <2>2. CASE Prioritize(p)
    <3> DEFINE nodes == pod[p].nodes
               best  == {n \in nodes : \A other \in nodes : Score(n) >= Score(other)}
               kept  == IF Request(p) = {} THEN nodes ELSE best
               s     == [pod[p] EXCEPT !.pc = "scored", !.nodes = kept]
    <3>1. pod' = [pod EXCEPT ![p] = s]
      BY <1>0, <2>2 DEF Prioritize
    <3>2. nodes \in SUBSET Nodes /\ nodes # {}
      BY <1>0, <2>2 DEF Prioritize, Schedule
    <3>3. kept \subseteq nodes /\ kept # {}
      <4>1. CASE Request(p) = {}
        BY <3>2, <4>1
      <4>2. CASE Request(p) # {}
        <5>1. \A n \in nodes : LsMap[n] # NoSizes
          BY <2>2, <4>2 DEF Prioritize
        <5>2. \A n \in nodes : Score(n) \in Int
          BY <3>2, <5>1, ScoreType DEF SchedulerInv
        <5> DEFINE f == [n \in nodes |-> Score(n)]
        <5>3. f \in [nodes -> Int] /\ IsFiniteSet(nodes)
          BY <3>2, <5>2, CapacityAssumption, FS_Subset
        <5>4. \E n \in nodes : \A m \in nodes : f[n] >= f[m]
          <6> HIDE DEF f, nodes
          <6>q. QED  BY <3>2, <5>3, BestExists
        <5>q. QED  BY <4>2, <5>4
      <4>q. QED  BY <4>1, <4>2
    <3>4. Sound(s)
      <4> HIDE DEF kept
      <4>q. QED  BY <1>0, <3>2, <3>3 DEF Schedule
    <3>q. QED  BY <3>1, <3>4
  <2>3. CASE PrioritizeFails(p)
    <3> DEFINE s == [pod[p] EXCEPT !.pc = "scored"]
    <3>1. Sound(s) /\ pod' = [pod EXCEPT ![p] = s]
      BY <1>0, <2>3 DEF PrioritizeFails, Schedule
    <3>q. QED  BY <3>1
  <2>4. ASSUME NEW n \in Nodes, Assign(p, n)
        PROVE  \E s : Sound(s) /\ pod' = [pod EXCEPT ![p] = s]
    <3>1. Sound([pc |-> "assigned", nodes |-> {n}])
      BY DEF Schedule
    <3>q. QED  BY <2>4, <3>1 DEF Assign
  <2>5. CASE Leave(p)
    <3>1. Sound([pc |-> "leaving", nodes |-> {}])
      BY DEF Schedule
    <3>q. QED  BY <2>5, <3>1 DEF Leave
  <2>6. CASE Left(p)
    <3> DEFINE s == [pod[p] EXCEPT !.pc = "gone"]
    <3>1. Sound(s) /\ pod' = [pod EXCEPT ![p] = s]
      BY <1>0, <2>6 DEF Left, Schedule
    <3>q. QED  BY <3>1
  <2>q. QED  BY <2>1, <2>2, <2>3, <2>4, <2>5, <2>6
<1>3. pod' \in [Pods -> Schedule] /\ \A q \in Pods : Sound(pod'[q])
  BY <1>0, <1>2
<1>q. QED
  BY <1>1, <1>3 DEF SchedulerInv, TypeOK, VolumesOfClaims, LocalClaims

LEMMA ProvisionStep ==
    ASSUME SchedulerInv, NEW p \in Pods, NEW i, NEW n \in Nodes, Provision(p, i, n)
    PROVE  /\ SchedulerInv'
           /\ Now[n] \in Storage
           /\ Now' = [Now EXCEPT ![n] =
                         [Now[n] EXCEPT !.allocatable = Now[n].allocatable - Claims[p][i].size]]
<1>1. i \in LocalClaims(p) /\ Now[n] \in Storage
  BY NowType, SizedType DEF Provision, SchedulerInv
<1>2. i \in Nat /\ Claims[p][i].size \in Nat
  BY <1>1, ClaimSize
<1> DEFINE a == Now[n].allocatable - Claims[p][i].size
<1>3. a \in Int /\ [Now[n] EXCEPT !.allocatable = a] \in Objects
  <2>1. a \in Int
    BY <1>1, <1>2 DEF Storage
  <2>q. QED  BY <1>1, <2>1, StorageUpdates DEF Objects
<1>4. /\ history' \in Seq([Nodes -> Storage \cup {NoStorage, NoSizes}]) /\ Len(history') > 0
      /\ Now' = [Now EXCEPT ![n] = [Now[n] EXCEPT !.allocatable = a]]
  BY <1>3, WritesType DEF Provision, SchedulerInv, Objects
<1>5. volumes' \subseteq Volume /\ VolumesOfClaims' /\ IsFiniteSet(volumes')
  <2> DEFINE v == [pod |-> p, claim |-> i, node |-> n, size |-> Claims[p][i].size, listed |-> TRUE]
  <2>1. v \in Volume /\ v.claim \in LocalClaims(v.pod)
    BY <1>1, <1>2 DEF Volume
  <2>2. volumes' = volumes \cup {v}
    BY DEF Provision
  <2>3. volumes' \subseteq Volume /\ VolumesOfClaims'
    BY <2>1, <2>2 DEF SchedulerInv, TypeOK, VolumesOfClaims, LocalClaims
  <2>4. IsFiniteSet(volumes')
    BY <2>2, FS_AddElement DEF SchedulerInv
  <2>q. QED  BY <2>3, <2>4
<1>q. QED  BY <1>1, <1>4, <1>5 DEF Provision, audit, SchedulerInv, TypeOK

LEMMA ReleaseStep ==
    ASSUME SchedulerInv, NEW p \in Pods, NEW v \in PodVolumes(p), Release(p, v)
    PROVE  /\ SchedulerInv'
           /\ v \in Volume /\ v.node \in Nodes /\ v.size \in Nat
           /\ Now[v.node] \in Storage
           /\ v.listed => Now' = [Now EXCEPT ![v.node] =
                   [Now[v.node] EXCEPT !.allocatable = Now[v.node].allocatable + v.size]]
           /\ ~v.listed => Now' = Now
<1>1. v \in Volume /\ v.node \in Nodes /\ v.size \in Nat
  BY DEF PodVolumes, SchedulerInv, TypeOK, Volume
<1>2. Now[v.node] \in Storage
  BY <1>1, NowType, SizedType DEF Release, SchedulerInv
<1> DEFINE a == Now[v.node].allocatable + v.size
<1>3. a \in Int /\ [Now[v.node] EXCEPT !.allocatable = a] \in Objects
  <2>1. a \in Int
    BY <1>1, <1>2 DEF Storage
  <2>q. QED  BY <1>2, <2>1, StorageUpdates DEF Objects
<1>4. /\ history' \in Seq([Nodes -> Storage \cup {NoStorage, NoSizes}]) /\ Len(history') > 0
      /\ v.listed => Now' = [Now EXCEPT ![v.node] = [Now[v.node] EXCEPT !.allocatable = a]]
      /\ ~v.listed => Now' = Now
  <2>1. CASE v.listed
    BY <1>1, <1>3, <2>1, WritesType DEF Release, SchedulerInv, Objects
  <2>2. CASE ~v.listed
    BY <2>2 DEF Release, SchedulerInv, TypeOK, Now
  <2>q. QED  BY <2>1, <2>2
<1>5. volumes' \subseteq Volume /\ VolumesOfClaims' /\ IsFiniteSet(volumes')
  BY FS_RemoveElement DEF Release, SchedulerInv, TypeOK, VolumesOfClaims, LocalClaims
<1>6. SchedulerInv'
  BY <1>4, <1>5 DEF Release, audit, SchedulerInv, TypeOK
<1>q. QED  BY <1>1, <1>2, <1>4, <1>6

LEMMA StepSchedulerInv ==
    ASSUME SchedulerInv, [Next]_vars
    PROVE  SchedulerInv'
<1>1. CASE SchedulerNext
  BY <1>1, PodSteps DEF SchedulerNext
<1>2. CASE PluginNext
  BY <1>2, StorageSteps, ProvisionStep, ReleaseStep DEF PluginNext, StorageNext
<1>3. CASE UserNext
  BY <1>3, PodSteps, StorageSteps DEF UserNext, StorageNext
<1>4. CASE InformerNext
  BY <1>4, InformerSteps
<1>5. CASE \E n \in Nodes : StorageRedeclared(n)
  BY <1>5, StorageSteps DEF StorageNext
<1>6. CASE UNCHANGED vars
  BY <1>6 DEF vars, audit, SchedulerInv, TypeOK, VolumesOfClaims, LocalClaims
<1>q. QED  BY <1>1, <1>2, <1>3, <1>4, <1>5, <1>6 DEF Next

(* Every state is of its type; so a pod that is between Filter and its end *)
(* always has a node to go to, Score never leaving it without one.         *)
THEOREM SchedulerTypes == Spec => []TypeOK
<1>1. SchedulerInv => TypeOK
  BY DEF SchedulerInv
<1>q. QED  BY InitSchedulerInv, StepSchedulerInv, <1>1, PTL DEF Spec

----------------------------------------------------------------------------
(* Sizes *)

ListedWhereSized ==
    \A n \in Nodes : ~Sized(Now[n]) => ListedVolumes(n) = {} /\ given[n] = 0

BooksInv == ListedWhereSized /\ SizesAddUp

(* What the object of a node may list: its disk, and what was given away.  *)
Limit(n) == Now[n].capacity + given[n]

BooksOf(n) ==
    /\ ~Sized(Now[n]) => ListedVolumes(n) = {} /\ given[n] = 0
    /\ Sized(Now[n]) => Now[n].allocatable + TotalSize(ListedVolumes(n)) = Limit(n)

LEMMA BooksBy ==
    ASSUME \A n \in Nodes : BooksOf(n)'
    PROVE  BooksInv'
BY DEF BooksInv, BooksOf, ListedWhereSized, SizesAddUp, Limit

(* The books of a node that a step does not write, nor move a volume of.   *)
LEMMA SameBooks ==
    ASSUME BooksInv, NEW n \in Nodes, ListedVolumes(n)' = ListedVolumes(n),
           given'[n] = given[n],
           Sized(Now'[n]) <=> Sized(Now[n]),
           Sized(Now[n]) => /\ Now'[n].allocatable = Now[n].allocatable
                            /\ Now'[n].capacity = Now[n].capacity
    PROVE  BooksOf(n)'
BY DEF BooksInv, BooksOf, ListedWhereSized, SizesAddUp, Limit, Sized

(* A step that leaves the objects and the volumes alone.                   *)
LEMMA IdleBooks ==
    ASSUME BooksInv, Now' = Now, volumes' = volumes, given' = given
    PROVE  BooksInv'
<1>1. \A n \in Nodes : ListedVolumes(n)' = ListedVolumes(n)
  BY DEF ListedVolumes
<1>2. \A n \in Nodes : BooksOf(n)'
  BY <1>1, SameBooks
<1>q. QED  BY <1>2, BooksBy

(* The object of one node gets along: created, made ready or terminating,  *)
(* or declared again, which is what `given` is for.                        *)
LEMMA StorageBooks ==
    ASSUME SchedulerInv, BooksInv, NEW n \in Nodes,
           \/ StorageCreated(n) \/ StorageReady(n)
           \/ StorageRedeclared(n) \/ StorageTerminates(n)
    PROVE  BooksInv'
<1>1. volumes' = volumes
  BY DEF StorageCreated, StorageReady, StorageRedeclared, StorageTerminates
<1>2. \A m \in Nodes : ListedVolumes(m)' = ListedVolumes(m)
  BY <1>1 DEF ListedVolumes
<1>3. Now \in [Nodes -> Objects] /\ given \in [Nodes -> Nat]
  BY NowType DEF SchedulerInv, TypeOK
<1>4. \A m \in Nodes : m # n => given'[m] = given[m]
  BY <1>3 DEF StorageCreated, StorageReady, StorageRedeclared, StorageTerminates, audit
<1>5. ASSUME NEW s \in Objects, Now' = [Now EXCEPT ![n] = s], BooksOf(n)'
      PROVE  BooksInv'
  <2>1. ASSUME NEW m \in Nodes, m # n
        PROVE  Now'[m] = Now[m]
    BY <1>3, <1>5, <2>1
  <2>2. \A m \in Nodes : m # n => BooksOf(m)'
    BY <1>2, <1>4, <2>1, SameBooks
  <2>3. \A m \in Nodes : BooksOf(m)'
    BY <1>5, <2>2
  <2>q. QED  BY <2>3, BooksBy
<1>6. CASE StorageCreated(n)
  <2>1. NoSizes \in Objects /\ Now' = [Now EXCEPT ![n] = NoSizes]
    BY <1>6, WritesType DEF StorageCreated, SchedulerInv, Objects
  <2>2. Now'[n] = NoSizes /\ ~Sized(Now[n]) /\ ~Sized(Now'[n])
    BY <1>3, <1>6, <2>1 DEF StorageCreated, Sized
  <2>3. BooksOf(n)'
    BY <1>2, <1>6, <2>2 DEF StorageCreated, audit, BooksInv, BooksOf, ListedWhereSized, Sized
  <2>q. QED  BY <1>5, <2>1, <2>3
<1>7. CASE StorageReady(n) \/ StorageRedeclared(n)
  <2> DEFINE all == AllOf(n)
  <2>1. /\ Capacity[n] \in Nat /\ all \in Objects
        /\ all.allocatable = Capacity[n] /\ all.capacity = Capacity[n] /\ Sized(all)
    BY AllOfType, SizedType DEF Objects
  <2>2. Writes(n, all)
    BY <1>7 DEF StorageReady, StorageRedeclared
  <2> HIDE DEF all
  <2>3. Now' = [Now EXCEPT ![n] = all] /\ Now'[n] = all
    BY <1>3, <2>1, <2>2, WritesType DEF SchedulerInv
  <2>4. TotalSize(ListedVolumes(n)) = given'[n]
    <3>1. CASE StorageRedeclared(n)
      BY <1>3, <3>1 DEF StorageRedeclared
    <3>2. CASE StorageReady(n)
      <4>1. ListedVolumes(n) = {} /\ given[n] = 0
        BY <3>2 DEF StorageReady, BooksInv, ListedWhereSized, Sized
      <4>q. QED  BY <3>2, <4>1, TotalSizeEmpty DEF StorageReady, audit
    <3>q. QED  BY <1>7, <3>1, <3>2
  <2>5. given'[n] \in Nat
    BY <2>4, ListedVolumesType
  <2>6. BooksOf(n)'
    BY <1>2, <2>1, <2>3, <2>4, <2>5 DEF BooksOf, Limit, Sized
  <2>q. QED  BY <1>5, <2>1, <2>3, <2>6
<1>8. CASE StorageTerminates(n)
  <2> DEFINE s == [Now[n] EXCEPT !.ready = FALSE]
  <2>1. Sized(Now[n]) /\ Now[n] \in Storage
    BY <1>3, <1>8, SizedType DEF StorageTerminates
  <2>2. /\ s \in Objects /\ Sized(s)
        /\ s.allocatable = Now[n].allocatable /\ s.capacity = Now[n].capacity
    BY <2>1, StorageUpdates, SizedType DEF Objects
  <2>3. Writes(n, s) /\ given' = given
    BY <1>8 DEF StorageTerminates, audit
  <2> HIDE DEF s
  <2>4. Now' = [Now EXCEPT ![n] = s] /\ Now'[n] = s
    BY <1>3, <2>2, <2>3, WritesType DEF SchedulerInv
  <2>5. BooksOf(n)'
    BY <1>2, <2>1, <2>2, <2>3, <2>4, SameBooks
  <2>q. QED  BY <1>5, <2>2, <2>4, <2>5
<1>q. QED  BY <1>6, <1>7, <1>8

(* With an object goes what it lists, and what it was given.               *)
LEMMA RemovalBooks ==
    ASSUME SchedulerInv, BooksInv, NEW n \in Nodes, StorageRemoved(n)
    PROVE  BooksInv'
<1>1. Now \in [Nodes -> Objects] /\ Now' = [Now EXCEPT ![n] = NoStorage]
  BY WritesType, NowType DEF StorageRemoved, SchedulerInv, Objects
<1>2. ~Sized(Now'[n]) /\ given' = [given EXCEPT ![n] = 0] /\ given \in [Nodes -> Nat]
  BY <1>1 DEF Sized, StorageRemoved, SchedulerInv, TypeOK
<1>3. \A m \in Nodes : m # n => Now'[m] = Now[m] /\ given'[m] = given[m]
  BY <1>1, <1>2
<1>4. BooksOf(n)'
  BY <1>2, Unlists DEF BooksOf, Sized
<1>5. \A m \in Nodes : m # n => BooksOf(m)'
  BY <1>3, Unlists, SameBooks
<1>q. QED  BY <1>4, <1>5, BooksBy

(* A volume is taken out of what is left, once: there was none of its      *)
(* claim.                                                                  *)
LEMMA ProvisionBooks ==
    ASSUME SchedulerInv, BooksInv, NEW p \in Pods, NEW i, NEW n \in Nodes, Provision(p, i, n)
    PROVE  BooksInv'
<1> DEFINE size == Claims[p][i].size
           v    == [pod |-> p, claim |-> i, node |-> n, size |-> size, listed |-> TRUE]
           a    == Now[n].allocatable - size
<1>1. volumes' = volumes \cup {v} /\ v \notin volumes /\ Sized(Now[n])
  BY DEF Provision, PodVolumes
<1>2. /\ Now[n] \in Storage /\ Now \in [Nodes -> Objects]
      /\ Now' = [Now EXCEPT ![n] = [Now[n] EXCEPT !.allocatable = a]]
  BY ProvisionStep, NowType DEF SchedulerInv
<1>3. size \in Nat
  BY ClaimSize DEF Provision
<1>4. v.node = n /\ v.listed /\ v.size = size
  OBVIOUS
<1> HIDE DEF size, v
<1>5. a \in Int /\ a + size = Now[n].allocatable
  BY <1>2, <1>3 DEF Storage
<1> HIDE DEF a
<1>6. /\ Now'[n].allocatable = a /\ Now'[n].capacity = Now[n].capacity /\ Sized(Now'[n])
      /\ \A m \in Nodes : m # n => Now'[m] = Now[m]
  BY <1>2, <1>5, StorageUpdates, SizedType DEF Objects
<1>7. /\ ListedVolumes(n)' = ListedVolumes(n) \cup {v} /\ v \notin ListedVolumes(n)
      /\ \A m \in Nodes : m # n => ListedVolumes(m)' = ListedVolumes(m)
  BY <1>1, <1>4 DEF ListedVolumes
<1>8. given' = given
  BY DEF Provision, audit
<1>9. TotalSize(ListedVolumes(n)') = size + TotalSize(ListedVolumes(n))
  BY <1>3, <1>4, <1>7, ListedVolumesType, TotalSizeAdd
<1>10. TotalSize(ListedVolumes(n)) \in Nat
  BY ListedVolumesType
<1>11. BooksOf(n)'
  <2>1. Now[n].allocatable + TotalSize(ListedVolumes(n)) = Now[n].capacity + given[n]
    BY <1>1 DEF BooksInv, SizesAddUp
  <2>2. Now'[n].allocatable + TotalSize(ListedVolumes(n)') = Now'[n].capacity + given'[n]
    BY <1>3, <1>5, <1>6, <1>8, <1>9, <1>10, <2>1
  <2>q. QED  BY <1>6, <2>2 DEF BooksOf, Limit, Sized
<1>12. \A m \in Nodes : m # n => BooksOf(m)'
  BY <1>6, <1>7, <1>8, SameBooks
<1>q. QED  BY <1>11, <1>12, BooksBy

(* What is given back is what was taken, and to the object that it was     *)
(* taken from.                                                             *)
LEMMA ReleaseBooks ==
    ASSUME SchedulerInv, BooksInv, NEW p \in Pods, NEW v \in PodVolumes(p), Release(p, v)
    PROVE  BooksInv'
<1>1. volumes' = volumes \ {v} /\ v \in volumes
  BY DEF Release, PodVolumes
<1>2. given' = given
  BY DEF Release, audit
<1>3. v.node \in Nodes /\ v.size \in Nat /\ Now[v.node] \in Storage
  BY ReleaseStep
<1>4. CASE ~v.listed
  <2>1. Now' = Now
    BY <1>4, ReleaseStep
  <2>2. \A m \in Nodes : ListedVolumes(m)' = ListedVolumes(m)
    BY <1>1, <1>4 DEF ListedVolumes
  <2>3. \A m \in Nodes : BooksOf(m)'
    BY <1>2, <2>1, <2>2, SameBooks
  <2>q. QED  BY <2>3, BooksBy
<1>5. CASE v.listed
  <2> DEFINE n == v.node
             a == Now[n].allocatable + v.size
  <2>1. Now \in [Nodes -> Objects] /\ Now' = [Now EXCEPT ![n] = [Now[n] EXCEPT !.allocatable = a]]
    BY <1>5, ReleaseStep, NowType DEF SchedulerInv
  <2>2. Sized(Now[n])
    BY <1>3, SizedType DEF Objects
  <2>3. v \in ListedVolumes(n) /\ ListedVolumes(n)' = ListedVolumes(n) \ {v}
    BY <1>1, <1>5 DEF ListedVolumes
  <2>4. \A m \in Nodes : m # n => ListedVolumes(m)' = ListedVolumes(m)
    BY <1>1 DEF ListedVolumes
  <2> HIDE DEF n
  <2>5. n \in Nodes /\ Now[n] \in Storage
    BY <1>3 DEF n
  <2>6. a \in Int /\ a = Now[n].allocatable + v.size
    BY <1>3, <2>5 DEF Storage
  <2> HIDE DEF a
  <2>7. /\ Now'[n].allocatable = a /\ Now'[n].capacity = Now[n].capacity /\ Sized(Now'[n])
        /\ \A m \in Nodes : m # n => Now'[m] = Now[m]
    BY <2>1, <2>5, <2>6, StorageUpdates, SizedType DEF Objects
  <2>8. TotalSize(ListedVolumes(n)) = v.size + TotalSize(ListedVolumes(n)')
    BY <2>3, <2>5, ListedVolumesType, TotalSizeRemove
  <2>9. TotalSize(ListedVolumes(n)') \in Nat
    BY <2>3, <2>5, ListedVolumesType, FS_RemoveElement, TotalSizeType
  <2>10. Now'[n].allocatable + TotalSize(ListedVolumes(n)') = Now'[n].capacity + given'[n]
    <3>1. Now[n].allocatable + TotalSize(ListedVolumes(n)) = Now[n].capacity + given[n]
      BY <2>2, <2>5 DEF BooksInv, SizesAddUp
    <3>2. Now[n].allocatable \in Int
      BY <2>5 DEF Storage
    <3>q. QED  BY <1>2, <1>3, <2>6, <2>7, <2>8, <2>9, <3>1, <3>2
  <2>11. BooksOf(n)'
    BY <2>7, <2>10 DEF BooksOf, Limit, Sized
  <2>12. \A m \in Nodes : m # n => BooksOf(m)'
    BY <1>2, <2>4, <2>7, SameBooks
  <2>q. QED  BY <2>11, <2>12, BooksBy
<1>q. QED  BY <1>4, <1>5

LEMMA StepBooks ==
    ASSUME SchedulerInv, BooksInv, [Next]_vars
    PROVE  BooksInv'
<1>1. CASE SchedulerNext
  BY <1>1, IdleBooks DEF SchedulerNext, Filter, Prioritize, PrioritizeFails, Assign, Now, audit
<1>2. CASE PluginNext
  BY <1>2, StorageBooks, ProvisionBooks, ReleaseBooks DEF PluginNext
<1>3. CASE UserNext
  <2>1. ASSUME NEW p \in Pods, Leave(p) \/ Left(p)
        PROVE  BooksInv'
    BY <2>1, IdleBooks DEF Leave, Left, Now, audit
  <2>q. QED  BY <1>3, <2>1, StorageBooks, RemovalBooks DEF UserNext
<1>4. CASE InformerNext
  <2>1. volumes' = volumes /\ given' = given
    BY <1>4 DEF InformerNext, CacheAdvances, ClaimArrives, audit
  <2>q. QED  BY <1>4, <2>1, InformerSteps, IdleBooks
<1>5. CASE \E n \in Nodes : StorageRedeclared(n)
  BY <1>5, StorageBooks
<1>6. CASE UNCHANGED vars
  BY <1>6, IdleBooks DEF vars, audit, Now
<1>q. QED  BY <1>1, <1>2, <1>3, <1>4, <1>5, <1>6 DEF Next

LEMMA InitBooks == Init => BooksInv
<1> SUFFICES ASSUME Init
             PROVE  BooksInv
  OBVIOUS
<1>1. \A n \in Nodes : ~Sized(Now[n]) /\ ListedVolumes(n) = {} /\ given[n] = 0
  BY DEF Init, Now, Sized, ListedVolumes
<1>q. QED  BY <1>1 DEF BooksInv, ListedWhereSized, SizesAddUp

(* What the object of a node has left, and the sizes of the volumes that   *)
(* it lists, are always its capacity and what the last sync of a leftover  *)
(* key gave away, with any number of claims in a pod and objects removed   *)
(* and created again under the volumes: CreateVolume and DeleteVolume take *)
(* and give back the one recorded size, and DeleteVolume nothing for a     *)
(* volume that the object does not list.  Without such a sync nothing is   *)
(* given away, and the sizes add up to the capacity.                       *)
THEOREM SchedulerSizesAddUp == Spec => []SizesAddUp
<1>1. SchedulerInv /\ BooksInv /\ [Next]_vars => (SchedulerInv /\ BooksInv)'
  BY StepSchedulerInv, StepBooks
<1>2. BooksInv => SizesAddUp
  BY DEF BooksInv
<1>q. QED  BY InitSchedulerInv, InitBooks, <1>1, <1>2, PTL DEF Spec
----------------------------------------------------------------------------
(* No overcommitment *)

Made(p) == {v.claim : v \in PodVolumes(p)}

(* A pod that is counted on: its decision stands, and it asks for room.    *)
Counted(p) == p \notin overtaken /\ UnderWay(p) /\ FirstClaims(p) # {}

(* There is one of them at a time ...                                      *)
OneUnderWay == \A p, q \in Pods : Counted(p) /\ Counted(q) => p = q

(* ... and until the volume of the claim that Filter has looked at is made, *)
(* there is room for it on each of the nodes that the pod may go to.        *)
RoomOn(n, size) == Sized(Now[n]) /\ TotalSize(Judged(n)) + size <= Limit(n)

RoomOnTheWay ==
    \A p \in Pods : Counted(p) =>
        \A i \in FirstClaims(p) \ Made(p), n \in pod[p].nodes : RoomOn(n, Claims[p][i].size)

CommitInv == OneUnderWay /\ RoomOnTheWay /\ NoOvercommit

LEMMA FirstClaim ==
    ASSUME NEW p \in Pods, NEW i \in FirstClaims(p)
    PROVE  i \in LocalClaims(p) /\ Claims[p][i].size \in Nat /\ FirstClaims(p) = {i}
<1>1. i \in LocalClaims(p)
  BY DEF FirstClaims
<1>2. \A k \in FirstClaims(p) : k = i
  <2>1. ASSUME NEW k \in FirstClaims(p)
        PROVE  k = i
    <3>1. k \in LocalClaims(p) /\ k <= i /\ i <= k
      BY <1>1 DEF FirstClaims
    <3>2. k \in Nat /\ i \in Nat
      BY <1>1, <3>1, ClaimSize
    <3>q. QED  BY <3>1, <3>2
  <2>q. QED  BY <2>1
<1>q. QED  BY <1>1, <1>2, ClaimSize

LEMMA LimitType ==
    ASSUME SchedulerInv, NEW n \in Nodes, Sized(Now[n])
    PROVE  Limit(n) \in Nat /\ Now[n].allocatable \in Int
<1>1. Now[n] \in Storage /\ given[n] \in Nat
  BY NowType, SizedType DEF SchedulerInv, TypeOK
<1>q. QED  BY <1>1 DEF Limit, Storage

LEMMA JudgedType ==
    ASSUME SchedulerInv, NEW n \in Nodes
    PROVE  /\ Judged(n) \subseteq ListedVolumes(n) /\ IsFiniteSet(Judged(n))
           /\ \A v \in Judged(n) : v.size \in Nat
           /\ TotalSize(Judged(n)) \in Nat
           /\ TotalSize(Judged(n)) <= TotalSize(ListedVolumes(n))
<1>1. Judged(n) \subseteq ListedVolumes(n)
  BY DEF Judged
<1>2. /\ IsFiniteSet(ListedVolumes(n)) /\ \A v \in ListedVolumes(n) : v.size \in Nat
  BY ListedVolumesType
<1>3. IsFiniteSet(Judged(n)) /\ \A v \in Judged(n) : v.size \in Nat
  BY <1>1, <1>2, FS_Subset
<1>q. QED  BY <1>1, <1>2, <1>3, TotalSizeType, TotalSizeSubset

(* What is judged does not grow by a step that makes no volume.            *)
LEMMA JudgedShrinks ==
    ASSUME SchedulerInv, NEW n \in Nodes,
           ListedVolumes(n)' \subseteq ListedVolumes(n), overtaken \subseteq overtaken'
    PROVE  TotalSize(Judged(n)') \in Nat /\ TotalSize(Judged(n)') <= TotalSize(Judged(n))
<1>1. Judged(n)' \subseteq Judged(n)
  BY DEF Judged, FirstClaims, LocalClaims
<1>2. IsFiniteSet(Judged(n)) /\ \A v \in Judged(n) : v.size \in Nat
  BY JudgedType
<1>3. IsFiniteSet(Judged(n)') /\ \A v \in Judged(n)' : v.size \in Nat
  BY <1>1, <1>2, FS_Subset
<1>q. QED  BY <1>1, <1>2, <1>3, TotalSizeType, TotalSizeSubset

(* A step that makes no volume, brings no pod on its way that is counted   *)
(* on, widens no such pod's choice, and takes no room from where it may go.*)
LEMMA EasyStep ==
    ASSUME SchedulerInv, CommitInv, overtaken \subseteq overtaken',
           \A n \in Nodes : ListedVolumes(n)' \subseteq ListedVolumes(n),
           \A p \in Pods : Counted(p)' =>
              /\ UnderWay(p)
              /\ pod'[p].nodes \subseteq pod[p].nodes
              /\ Made(p) \subseteq Made(p)'
              /\ \A n \in pod'[p].nodes : Sized(Now[n]) =>
                    Sized(Now'[n]) /\ Limit(n)' \in Nat /\ Limit(n) <= Limit(n)',
           \A n \in Nodes : Sized(Now'[n]) => TotalSize(Judged(n)') <= Limit(n)'
    PROVE  CommitInv'
<1>1. \A p \in Pods : Counted(p)' => Counted(p)
  BY DEF Counted, FirstClaims, LocalClaims
<1>2. OneUnderWay'
  BY <1>1 DEF CommitInv, OneUnderWay
<1>3. RoomOnTheWay'
  <2> SUFFICES ASSUME NEW p \in Pods, Counted(p)',
                      NEW i \in FirstClaims(p), i \notin Made(p)', NEW n \in pod'[p].nodes
               PROVE  RoomOn(n, Claims[p][i].size)'
    BY DEF RoomOnTheWay, FirstClaims, LocalClaims
  <2>1. Counted(p) /\ i \notin Made(p) /\ n \in pod[p].nodes /\ n \in Nodes
    BY <1>1 DEF SchedulerInv, TypeOK, Schedule
  <2>2. Sized(Now[n]) /\ TotalSize(Judged(n)) + Claims[p][i].size <= Limit(n)
    BY <2>1 DEF CommitInv, RoomOnTheWay, RoomOn
  <2>3. Sized(Now'[n]) /\ Limit(n)' \in Nat /\ Limit(n) <= Limit(n)'
    BY <2>2
  <2>4. TotalSize(Judged(n)') \in Nat /\ TotalSize(Judged(n)') <= TotalSize(Judged(n))
    BY <2>1, JudgedShrinks
  <2>5. Claims[p][i].size \in Nat /\ TotalSize(Judged(n)) \in Nat /\ Limit(n) \in Nat
    BY <2>1, <2>2, FirstClaim, JudgedType, LimitType
  <2>6. TotalSize(Judged(n)') + Claims[p][i].size <= Limit(n)'
    BY <2>2, <2>3, <2>4, <2>5
  <2>q. QED  BY <2>3, <2>6 DEF RoomOn, Sized
<1>4. NoOvercommit'
  BY DEF NoOvercommit, Limit, Sized
<1>q. QED  BY <1>2, <1>3, <1>4 DEF CommitInv

(* Such a step keeps what is judged within a limit that it does not lower. *)
LEMMA StillWithin ==
    ASSUME SchedulerInv, CommitInv, overtaken \subseteq overtaken', NEW n \in Nodes,
           ListedVolumes(n)' \subseteq ListedVolumes(n),
           Sized(Now[n]), Limit(n)' \in Nat, Limit(n) <= Limit(n)'
    PROVE  TotalSize(Judged(n)') <= Limit(n)'
<1>1. TotalSize(Judged(n)') \in Nat /\ TotalSize(Judged(n)') <= TotalSize(Judged(n))
  BY JudgedShrinks
<1>2. TotalSize(Judged(n)) <= Limit(n)
  BY DEF CommitInv, NoOvercommit, Limit
<1>3. TotalSize(Judged(n)) \in Nat /\ Limit(n) \in Nat
  BY JudgedType, LimitType
<1>q. QED  BY <1>1, <1>2, <1>3

(* A step of pods only. *)
LEMMA PodsEasyStep ==
    ASSUME SchedulerInv, CommitInv, overtaken \subseteq overtaken',
           volumes' = volumes, Now' = Now, given' = given,
           \A p \in Pods : Counted(p)' => UnderWay(p) /\ pod'[p].nodes \subseteq pod[p].nodes
    PROVE  CommitInv'
<1>1. /\ \A n \in Nodes : ListedVolumes(n)' = ListedVolumes(n)
      /\ \A p \in Pods : Made(p)' = Made(p)
  BY DEF ListedVolumes, Made, PodVolumes
<1>2. \A n \in Nodes : Sized(Now[n]) => Limit(n)' = Limit(n) /\ Limit(n) \in Nat
  BY LimitType DEF Limit
<1>3. \A n \in Nodes : Sized(Now'[n]) => TotalSize(Judged(n)') <= Limit(n)'
  BY <1>1, <1>2, StillWithin
<1>4. \A p \in Pods : Counted(p)' => pod'[p].nodes \subseteq Nodes
  BY DEF SchedulerInv, TypeOK, Schedule
<1>q. QED  BY <1>1, <1>2, <1>3, <1>4, EasyStep

LEMMA FilterCommits ==
    ASSUME SchedulerInv, BooksInv, CommitInv, NEW p \in Pods, Filter(p)
    PROVE  CommitInv'
<1>1. volumes' = volumes /\ Now' = Now /\ given' = given /\ overtaken \subseteq overtaken'
  BY DEF Filter, Now
<1>2. /\ pod'[p] = [pc |-> "filtered", nodes |-> Feasible(p)]
      /\ \A q \in Pods : q # p => pod'[q] = pod[q]
  BY DEF Filter, SchedulerInv, TypeOK
<1>3. \A q \in Pods : q # p => (UnderWay(q)' <=> UnderWay(q))
  BY <1>1, <1>2 DEF UnderWay, Running, PodVolumes, LocalClaims
<1>4. CASE FirstClaims(p) = {} \/ p \in overtaken'
  <2>1. \A q \in Pods : Counted(q)' => q # p
    BY <1>4 DEF Counted, FirstClaims, LocalClaims
  <2>2. \A q \in Pods : Counted(q)' => UnderWay(q) /\ pod'[q].nodes \subseteq pod[q].nodes
    BY <1>2, <1>3, <2>1 DEF Counted
  <2>q. QED  BY <1>1, <2>2, PodsEasyStep
<1>5. CASE FirstClaims(p) # {} /\ p \notin overtaken'
  <2>1. Request(p) # {} /\ Settled /\ overtaken' = overtaken
    BY <1>5 DEF Filter, Request
  <2>2. \A q \in Pods : Counted(q)' => q = p
    BY <1>3, <2>1 DEF Settled, Counted
  <2>3. OneUnderWay'
    BY <2>2 DEF OneUnderWay
  <2>4. \A n \in Nodes : TotalSize(Judged(n))' = TotalSize(Judged(n)) /\ Limit(n)' = Limit(n)
    BY <1>1, <2>1 DEF Judged, ListedVolumes, FirstClaims, LocalClaims, Limit
  <2>5. ASSUME NEW i \in FirstClaims(p), NEW n \in Feasible(p)
        PROVE  RoomOn(n, Claims[p][i].size)'
    <3>1. n \in Nodes /\ Fits(n, Request(p)) /\ Claims[p][i].size \in Request(p)
      BY <2>1, <2>5 DEF Feasible, Request
    <3>2. Sized(LsMap[n]) /\ Claims[p][i].size <= LsMap[n].allocatable
      BY <3>1 DEF Fits
    <3>3. Sized(Now[n]) /\ LsMap[n].allocatable <= Now[n].allocatable
      BY <2>1, <3>1, <3>2 DEF Settled
    <3>4. /\ Claims[p][i].size \in Nat /\ LsMap[n].allocatable \in Int
          /\ Now[n].allocatable \in Int /\ Limit(n) \in Nat
      BY <2>5, <3>1, <3>2, <3>3, FirstClaim, LimitType, NowType, SizedType
         DEF SchedulerInv, Storage
    <3>5. Now[n].allocatable + TotalSize(ListedVolumes(n)) = Limit(n)
      BY <3>1, <3>3 DEF BooksInv, SizesAddUp, Limit
    <3>6. /\ TotalSize(Judged(n)) \in Nat /\ TotalSize(ListedVolumes(n)) \in Nat
          /\ TotalSize(Judged(n)) <= TotalSize(ListedVolumes(n))
      BY <3>1, JudgedType, ListedVolumesType
    <3>7. TotalSize(Judged(n)) + Claims[p][i].size <= Limit(n)
      BY <3>2, <3>3, <3>4, <3>5, <3>6
    <3>q. QED  BY <1>1, <2>4, <3>1, <3>3, <3>7 DEF RoomOn, Sized
  <2>6. RoomOnTheWay'
    BY <1>2, <2>2, <2>5 DEF RoomOnTheWay, FirstClaims, LocalClaims
  <2>7. NoOvercommit'
    BY <1>1, <2>4 DEF CommitInv, NoOvercommit, Limit, Sized
  <2>q. QED  BY <2>3, <2>6, <2>7 DEF CommitInv
<1>q. QED  BY <1>4, <1>5

(* A pod's own step, but for Filter, leaves it with a part of its choice.  *)
LEMMA PodCommits ==
    ASSUME SchedulerInv, CommitInv, NEW p \in Pods,
           \/ Prioritize(p) \/ PrioritizeFails(p)
           \/ \E n \in Nodes : Assign(p, n)
           \/ Leave(p) \/ Left(p)
    PROVE  CommitInv'
<1>1. UNCHANGED << history, volumes, given, overtaken >> /\ Now' = Now
  BY DEF Prioritize, PrioritizeFails, Assign, Leave, Left, Now, audit
<1>2. pod \in [Pods -> Schedule]
  BY DEF SchedulerInv, TypeOK
<1>3. /\ \A q \in Pods : q # p => pod'[q] = pod[q]
      /\ pod'[p].nodes \subseteq pod[p].nodes
  BY <1>2 DEF Prioritize, PrioritizeFails, Assign, Leave, Left, Schedule
<1>4. UnderWay(p)' => UnderWay(p)
  BY <1>1, <1>2
     DEF Prioritize, PrioritizeFails, Assign, Leave, Left, Schedule, UnderWay, Running, PodVolumes,
         LocalClaims
<1>5. \A q \in Pods : UnderWay(q)' => UnderWay(q) /\ pod'[q].nodes \subseteq pod[q].nodes
  BY <1>1, <1>3, <1>4 DEF UnderWay, Running, PodVolumes, LocalClaims
<1>q. QED  BY <1>1, <1>5, PodsEasyStep DEF Counted

(* The steps of a node's object but its removal: none lowers its limit, but *)
(* for pods that have had it changed under them.                            *)
LEMMA StorageCommits ==
    ASSUME SchedulerInv, SchedulerInv', BooksInv, CommitInv, NEW n \in Nodes,
           \/ StorageCreated(n) \/ StorageReady(n)
           \/ StorageRedeclared(n) \/ StorageTerminates(n)
    PROVE  CommitInv'
<1>1. UNCHANGED << pod, volumes >> /\ overtaken \subseteq overtaken'
  BY DEF StorageCreated, StorageReady, StorageRedeclared, StorageTerminates, audit
<1>2. Now \in [Nodes -> Objects] /\ given \in [Nodes -> Nat]
  BY NowType DEF SchedulerInv, TypeOK
<1>3. /\ \A p \in Pods : (UnderWay(p)' <=> UnderWay(p)) /\ Made(p)' = Made(p)
      /\ \A m \in Nodes : ListedVolumes(m)' = ListedVolumes(m)
  BY <1>1 DEF UnderWay, Running, Made, PodVolumes, LocalClaims, ListedVolumes
<1> DEFINE Keeps(m) == Sized(Now'[m]) /\ Limit(m)' \in Nat /\ Limit(m) <= Limit(m)'
<1>4. \A m \in Nodes : Sized(Now'[m]) => Limit(m)' \in Nat
  <2>1. ASSUME NEW m \in Nodes, Sized(Now'[m])
        PROVE  Limit(m)' \in Nat
    <3>1. Now'[m] \in Objects /\ given'[m] \in Nat
      BY <2>1 DEF SchedulerInv, TypeOK, Now, Objects
    <3>2. Now'[m] \in Storage
      BY <2>1, <3>1, SizedType
    <3>q. QED  BY <3>1, <3>2 DEF Limit, Storage
  <2>q. QED  BY <2>1
<1>5. ASSUME NEW m \in Nodes, m # n
      PROVE  Now'[m] = Now[m] /\ given'[m] = given[m] /\ Limit(m)' = Limit(m)
  <2>1. \E s \in Objects : Writes(n, s)
    <3>1. CASE StorageCreated(n)
      BY <3>1 DEF StorageCreated, Objects
    <3>2. CASE StorageReady(n) \/ StorageRedeclared(n)
      BY <3>2, AllOfType DEF StorageReady, StorageRedeclared, Objects
    <3>3. CASE StorageTerminates(n)
      <4>1. Now[n] \in Storage
        BY <1>2, <3>3, SizedType DEF StorageTerminates
      <4>2. [Now[n] EXCEPT !.ready = FALSE] \in Objects
        BY <4>1, StorageUpdates DEF Objects
      <4>q. QED  BY <3>3, <4>2 DEF StorageTerminates
    <3>q. QED  BY <3>1, <3>2, <3>3
  <2>2. Now'[m] = Now[m]
    BY <1>2, <1>5, <2>1, WritesType DEF SchedulerInv
  <2>3. given'[m] = given[m]
    BY <1>2, <1>5
       DEF StorageCreated, StorageReady, StorageRedeclared, StorageTerminates, audit
  <2>q. QED  BY <2>2, <2>3 DEF Limit
<1>6. ASSUME NEW m \in Nodes, m # n, Sized(Now[m])
      PROVE  Keeps(m)
  <2>1. Limit(m) \in Nat
    BY <1>6, LimitType
  <2>q. QED  BY <1>5, <1>6, <2>1
<1>7. /\ Sized(Now[n]) => Sized(Now'[n])
      /\ Sized(Now[n]) => Keeps(n) \/ OnTheWayTo(n) \subseteq overtaken'
      /\ Sized(Now'[n]) => TotalSize(Judged(n)') <= Limit(n)'
  <2>1. CASE StorageCreated(n)
    <3>1. Now' = [Now EXCEPT ![n] = NoSizes]
      BY <2>1, WritesType DEF StorageCreated, SchedulerInv, Objects
    <3>q. QED  BY <1>2, <2>1, <3>1 DEF StorageCreated, Sized
  <2>2. CASE StorageReady(n) \/ StorageRedeclared(n)
    <3> DEFINE all == AllOf(n)
    <3>1. all \in Objects /\ Sized(all) /\ all.capacity = Capacity[n] /\ Capacity[n] \in Nat
      BY AllOfType, SizedType DEF Objects
    <3>2. Writes(n, all)
      BY <2>2 DEF StorageReady, StorageRedeclared
    <3> HIDE DEF all
    <3>3. Now'[n] = all
      BY <1>2, <3>1, <3>2, WritesType DEF SchedulerInv
    <3>4. Limit(n)' = Capacity[n] + TotalSize(ListedVolumes(n))
      <4>1. CASE StorageRedeclared(n)
        BY <1>2, <3>1, <3>3, <4>1 DEF StorageRedeclared, Limit
      <4>2. CASE StorageReady(n)
        <5>1. ListedVolumes(n) = {} /\ given[n] = 0 /\ given' = given
          BY <4>2 DEF StorageReady, BooksInv, ListedWhereSized, Sized, audit
        <5>q. QED  BY <3>1, <3>3, <5>1, TotalSizeEmpty DEF Limit
      <4>q. QED  BY <2>2, <4>1, <4>2
    <3>5. TotalSize(ListedVolumes(n)) \in Nat /\ TotalSize(Judged(n)) \in Nat
          /\ TotalSize(Judged(n)) <= TotalSize(ListedVolumes(n))
      BY ListedVolumesType, JudgedType
    <3>6. TotalSize(Judged(n)') \in Nat /\ TotalSize(Judged(n)') <= TotalSize(Judged(n))
      BY <1>1, <1>3, JudgedShrinks
    <3>7. TotalSize(Judged(n)') <= Limit(n)'
      BY <3>1, <3>4, <3>5, <3>6
    <3>8. ASSUME Sized(Now[n])
          PROVE  Keeps(n) \/ OnTheWayTo(n) \subseteq overtaken'
      <4>1. StorageRedeclared(n)
        BY <2>2, <3>8 DEF StorageReady, Sized
      <4>2. Now[n].allocatable + TotalSize(ListedVolumes(n)) = Limit(n)
            /\ Now[n].allocatable \in Int
        BY <3>8, LimitType DEF BooksInv, SizesAddUp, Limit
      <4>3. CASE Now[n].allocatable > Capacity[n]
        BY <4>1, <4>3 DEF StorageRedeclared
      <4>4. CASE Now[n].allocatable <= Capacity[n]
        BY <1>4, <3>1, <3>3, <3>4, <3>5, <4>2, <4>4
      <4>q. QED  BY <3>1, <4>2, <4>3, <4>4
    <3>q. QED  BY <3>1, <3>3, <3>7, <3>8
  <2>3. CASE StorageTerminates(n)
    <3> DEFINE s == [Now[n] EXCEPT !.ready = FALSE]
    <3>1. Sized(Now[n]) /\ Now[n] \in Storage
      BY <1>2, <2>3, SizedType DEF StorageTerminates
    <3>2. s \in Objects /\ Sized(s) /\ s.capacity = Now[n].capacity
      BY <3>1, StorageUpdates, SizedType DEF Objects
    <3>3. Writes(n, s) /\ given' = given
      BY <2>3 DEF StorageTerminates, audit
    <3> HIDE DEF s
    <3>4. Now'[n] = s
      BY <1>2, <3>2, <3>3, WritesType DEF SchedulerInv
    <3>5. Limit(n)' = Limit(n) /\ Limit(n) \in Nat
      BY <3>1, <3>2, <3>3, <3>4, LimitType DEF Limit
    <3>6. Keeps(n)
      BY <3>2, <3>4, <3>5
    <3>q. QED  BY <1>1, <1>3, <3>1, <3>2, <3>4, <3>5, <3>6, StillWithin
  <2>q. QED  BY <2>1, <2>2, <2>3
<1>8. ASSUME NEW p \in Pods, Counted(p)', NEW m \in pod'[p].nodes, Sized(Now[m])
      PROVE  Keeps(m)
  <2>1. UnderWay(p) /\ m \in pod[p].nodes /\ m \in Nodes /\ p \notin overtaken'
    BY <1>1, <1>3, <1>8 DEF Counted, SchedulerInv, TypeOK, Schedule
  <2>2. m = n => p \in OnTheWayTo(n)
    BY <2>1 DEF OnTheWayTo
  <2>q. QED  BY <1>6, <1>7, <1>8, <2>1, <2>2
<1>9. ASSUME NEW m \in Nodes, Sized(Now'[m])
      PROVE  TotalSize(Judged(m)') <= Limit(m)'
  <2>1. CASE m = n
    BY <1>7, <1>9, <2>1
  <2>2. CASE m # n
    <3>1. Sized(Now[m])
      BY <1>5, <1>9, <2>2
    <3>q. QED  BY <1>1, <1>3, <1>6, <2>2, <3>1, StillWithin
  <2>q. QED  BY <2>1, <2>2
<1>10. \A p \in Pods : Counted(p)' =>
          UnderWay(p) /\ pod'[p].nodes \subseteq pod[p].nodes /\ Made(p) \subseteq Made(p)'
  BY <1>1, <1>3 DEF Counted
<1>q. QED
  BY <1>1, <1>3, <1>8, <1>9, <1>10, EasyStep

(* An object that is removed is changed under the pods on their way to it. *)
LEMMA RemovalCommits ==
    ASSUME SchedulerInv, CommitInv, NEW n \in Nodes, StorageRemoved(n)
    PROVE  CommitInv'
<1>1. /\ pod' = pod /\ overtaken' = overtaken \cup OnTheWayTo(n)
      /\ given' = [given EXCEPT ![n] = 0] /\ given \in [Nodes -> Nat]
  BY DEF StorageRemoved, SchedulerInv, TypeOK
<1>2. Now' = [Now EXCEPT ![n] = NoStorage] /\ Now \in [Nodes -> Objects]
  BY WritesType, NowType DEF StorageRemoved, SchedulerInv, Objects
<1>3. /\ ~Sized(Now'[n])
      /\ \A m \in Nodes : m # n => Now'[m] = Now[m] /\ Limit(m)' = Limit(m)
  BY <1>1, <1>2 DEF Sized, Limit
<1>4. \A m \in Nodes : ListedVolumes(m)' \subseteq ListedVolumes(m)
  BY Unlists
<1>5. \A p \in Pods : Made(p)' = Made(p)
  BY Unlists DEF Made
<1>6. \A p \in Pods : UnderWay(p)' <=> UnderWay(p)
  BY <1>1, <1>5 DEF UnderWay, Running, Made, LocalClaims
<1>7. ASSUME NEW p \in Pods, Counted(p)'
      PROVE  UnderWay(p) /\ pod'[p].nodes \subseteq Nodes /\ n \notin pod'[p].nodes
  BY <1>1, <1>6, <1>7 DEF Counted, OnTheWayTo, SchedulerInv, TypeOK, Schedule
<1>8. \A m \in Nodes : Sized(Now[m]) => Limit(m) \in Nat
  BY LimitType
<1>9. \A m \in Nodes : Sized(Now'[m]) => TotalSize(Judged(m)') <= Limit(m)'
  BY <1>1, <1>3, <1>4, <1>8, StillWithin
<1>10. ASSUME NEW p \in Pods, Counted(p)'
       PROVE  /\ UnderWay(p) /\ pod'[p].nodes \subseteq pod[p].nodes /\ Made(p) \subseteq Made(p)'
              /\ \A m \in pod'[p].nodes : Sized(Now[m]) =>
                    Sized(Now'[m]) /\ Limit(m)' \in Nat /\ Limit(m) <= Limit(m)'
  BY <1>1, <1>3, <1>5, <1>7, <1>8, <1>10
<1>q. QED
  BY <1>1, <1>4, <1>9, <1>10, EasyStep

(* The volume of the one pod that is counted on takes what there is room   *)
(* for; the others are not judged.                                         *)
LEMMA ProvisionCommits ==
    ASSUME SchedulerInv, CommitInv, NEW p \in Pods, NEW i, NEW n \in Nodes, Provision(p, i, n)
    PROVE  CommitInv'
<1> DEFINE v == [pod |-> p, claim |-> i, node |-> n, size |-> Claims[p][i].size, listed |-> TRUE]
           a == Now[n].allocatable - Claims[p][i].size
<1>1. /\ UNCHANGED << pod, overtaken, given >> /\ volumes' = volumes \cup {v}
      /\ pod[p].pc = "assigned" /\ n \in pod[p].nodes /\ Sized(Now[n])
      /\ i \in LocalClaims(p) /\ i \notin Made(p)
  BY DEF Provision, audit, Made
<1>2. v.pod = p /\ v.claim = i /\ v.node = n /\ v.size = Claims[p][i].size /\ v.listed
  OBVIOUS
<1> HIDE DEF v
<1>3. UnderWay(p)
  BY <1>1 DEF UnderWay, Running, Made
<1>4. /\ Made(p)' = Made(p) \cup {i}
      /\ \A q \in Pods : q # p => Made(q)' = Made(q)
  BY <1>1, <1>2 DEF Made, PodVolumes
<1>5. \A q \in Pods : UnderWay(q)' => UnderWay(q)
  BY <1>1, <1>3, <1>4 DEF UnderWay, Running, Made, LocalClaims
<1>6. \A m \in Nodes : (Sized(Now'[m]) <=> Sized(Now[m]))
                       /\ (Sized(Now[m]) => Limit(m)' = Limit(m))
  <2>1. /\ Now[n] \in Storage /\ Now \in [Nodes -> Objects]
        /\ Now' = [Now EXCEPT ![n] = [Now[n] EXCEPT !.allocatable = a]]
    BY ProvisionStep, NowType DEF SchedulerInv
  <2>2. a \in Int
    BY <1>1, <2>1, ClaimSize DEF Storage
  <2> HIDE DEF a
  <2>3. /\ Now'[n].capacity = Now[n].capacity /\ Sized(Now'[n])
        /\ \A m \in Nodes : m # n => Now'[m] = Now[m]
    BY <2>1, <2>2, StorageUpdates, SizedType DEF Objects
  <2>q. QED  BY <1>1, <2>3 DEF Limit
<1>7. \A m \in Nodes : Judged(m)' =
         IF m = n /\ p \notin overtaken /\ i \in FirstClaims(p)
         THEN Judged(m) \cup {v} ELSE Judged(m)
  BY <1>1, <1>2 DEF Judged, ListedVolumes, FirstClaims, LocalClaims
<1>8. /\ \A q \in Pods : Counted(q)' => Counted(q)
      /\ \A q \in Pods : Made(q) \subseteq Made(q)'
  BY <1>1, <1>4, <1>5 DEF Counted, FirstClaims, LocalClaims
<1>9. OneUnderWay'
  BY <1>8 DEF CommitInv, OneUnderWay
<1>10. CASE ~(p \notin overtaken /\ i \in FirstClaims(p))
  <2>1. \A m \in Nodes : TotalSize(Judged(m)') = TotalSize(Judged(m))
    BY <1>7, <1>10
  <2>2. NoOvercommit'
    BY <1>6, <2>1 DEF CommitInv, NoOvercommit, Limit, Sized
  <2>3. RoomOnTheWay'
    <3> SUFFICES ASSUME NEW q \in Pods, Counted(q)',
                        NEW k \in FirstClaims(q), k \notin Made(q)', NEW m \in pod'[q].nodes
                 PROVE  RoomOn(m, Claims[q][k].size)'
      BY DEF RoomOnTheWay, FirstClaims, LocalClaims
    <3>1. Counted(q) /\ k \notin Made(q) /\ m \in pod[q].nodes /\ m \in Nodes
      BY <1>1, <1>8 DEF SchedulerInv, TypeOK, Schedule
    <3>2. RoomOn(m, Claims[q][k].size)
      BY <3>1 DEF CommitInv, RoomOnTheWay
    <3>q. QED  BY <1>6, <2>1, <3>1, <3>2 DEF RoomOn, Sized
  <2>q. QED  BY <1>9, <2>2, <2>3 DEF CommitInv
<1>11. CASE p \notin overtaken /\ i \in FirstClaims(p)
  <2>1. Counted(p)
    BY <1>3, <1>11 DEF Counted
  <2>2. TotalSize(Judged(n)) + Claims[p][i].size <= Limit(n)
    BY <1>1, <1>11, <2>1 DEF CommitInv, RoomOnTheWay, RoomOn
  <2>3. v \notin Judged(n) /\ Claims[p][i].size \in Nat
    BY <1>1, <1>2, <1>11, FirstClaim DEF Judged, ListedVolumes, Made, PodVolumes
  <2>4. TotalSize(Judged(n)') = Claims[p][i].size + TotalSize(Judged(n))
    BY <1>2, <1>7, <1>11, <2>3, JudgedType, TotalSizeAdd
  <2>5. TotalSize(Judged(n)) \in Nat /\ Limit(n) \in Nat
    BY <1>1, JudgedType, LimitType
  <2>6. TotalSize(Judged(n)') <= Limit(n)'
    BY <1>1, <1>6, <2>2, <2>3, <2>4, <2>5
  <2>7. NoOvercommit'
    <3>1. ASSUME NEW m \in Nodes, Sized(Now'[m])
          PROVE  TotalSize(Judged(m)') <= Limit(m)'
      BY <1>6, <1>7, <2>6, <3>1 DEF CommitInv, NoOvercommit, Limit
    <3>q. QED  BY <3>1 DEF NoOvercommit, Limit, Sized
  <2>8. RoomOnTheWay'
    <3>1. \A q \in Pods : Counted(q)' => q = p
      BY <1>8, <2>1 DEF CommitInv, OneUnderWay
    <3>2. FirstClaims(p) \subseteq Made(p)'
      BY <1>4, <1>11, FirstClaim
    <3>q. QED  BY <3>1, <3>2 DEF RoomOnTheWay, FirstClaims, LocalClaims
  <2>q. QED  BY <1>9, <2>7, <2>8 DEF CommitInv
<1>q. QED  BY <1>10, <1>11

LEMMA ReleaseCommits ==
    ASSUME SchedulerInv, CommitInv, NEW p \in Pods, NEW v \in PodVolumes(p), Release(p, v)
    PROVE  CommitInv'
<1>1. /\ UNCHANGED << pod, given, overtaken >> /\ pod[p].pc = "leaving"
      /\ volumes' = volumes \ {v} /\ v.pod = p
  BY DEF Release, audit, PodVolumes
<1>2. /\ \A m \in Nodes : ListedVolumes(m)' \subseteq ListedVolumes(m)
      /\ \A q \in Pods : q # p => PodVolumes(q)' = PodVolumes(q)
  BY <1>1 DEF ListedVolumes, PodVolumes
<1>3. ASSUME NEW q \in Pods, UnderWay(q)'
      PROVE  UnderWay(q) /\ Made(q)' = Made(q)
  BY <1>1, <1>2, <1>3 DEF UnderWay, Running, Made, LocalClaims
<1>4. \A m \in Nodes : (Sized(Now'[m]) <=> Sized(Now[m]))
                       /\ (Sized(Now[m]) => Limit(m)' = Limit(m))
  <2>1. CASE ~v.listed
    <3>1. Now' = Now
      BY <2>1, ReleaseStep
    <3>q. QED  BY <1>1, <3>1 DEF Limit
  <2>2. CASE v.listed
    <3> DEFINE n == v.node
               a == Now[n].allocatable + v.size
    <3>1. /\ n \in Nodes /\ Now[n] \in Storage /\ v.size \in Nat
          /\ Now' = [Now EXCEPT ![n] = [Now[n] EXCEPT !.allocatable = a]]
      BY <2>2, ReleaseStep
    <3>2. Now \in [Nodes -> Objects]
      BY NowType DEF SchedulerInv
    <3> HIDE DEF n
    <3>3. a \in Int
      BY <3>1 DEF Storage
    <3> HIDE DEF a
    <3>4. /\ Now'[n].capacity = Now[n].capacity /\ Sized(Now'[n]) /\ Sized(Now[n])
          /\ \A m \in Nodes : m # n => Now'[m] = Now[m]
      BY <3>1, <3>2, <3>3, StorageUpdates, SizedType DEF Objects
    <3>q. QED  BY <1>1, <3>4 DEF Limit
  <2>q. QED  BY <2>1, <2>2
<1>5. \A m \in Nodes : Sized(Now[m]) => Limit(m) \in Nat
  BY LimitType
<1>6. \A m \in Nodes : Sized(Now'[m]) => TotalSize(Judged(m)') <= Limit(m)'
  BY <1>1, <1>2, <1>4, <1>5, StillWithin
<1>7. ASSUME NEW q \in Pods, Counted(q)'
      PROVE  /\ UnderWay(q) /\ pod'[q].nodes \subseteq pod[q].nodes /\ Made(q) \subseteq Made(q)'
             /\ \A m \in pod'[q].nodes : Sized(Now[m]) =>
                   Sized(Now'[m]) /\ Limit(m)' \in Nat /\ Limit(m) <= Limit(m)'
  <2>1. pod'[q].nodes \subseteq Nodes
    BY <1>1 DEF SchedulerInv, TypeOK, Schedule
  <2>q. QED  BY <1>1, <1>3, <1>4, <1>5, <1>7, <2>1 DEF Counted
<1>q. QED  BY <1>1, <1>2, <1>6, <1>7, EasyStep

LEMMA IdleCommits ==
    ASSUME SchedulerInv, CommitInv,
           UNCHANGED << pod, volumes, given, overtaken >>, Now' = Now
    PROVE  CommitInv'
<1>1. \A p \in Pods : Counted(p)' => UnderWay(p)
  BY DEF Counted, UnderWay, Running, PodVolumes, LocalClaims
<1>q. QED  BY <1>1, PodsEasyStep

LEMMA StepCommitInv ==
    ASSUME SchedulerInv, BooksInv, CommitInv, [Next]_vars
    PROVE  CommitInv'
<1>0. SchedulerInv'
  BY StepSchedulerInv
<1>1. CASE SchedulerNext
  BY <1>1, FilterCommits, PodCommits DEF SchedulerNext
<1>2. CASE PluginNext
  BY <1>0, <1>2, StorageCommits, ProvisionCommits, ReleaseCommits DEF PluginNext
<1>3. CASE UserNext
  BY <1>0, <1>3, PodCommits, StorageCommits, RemovalCommits DEF UserNext
<1>4. CASE InformerNext
  <2>1. UNCHANGED << pod, volumes, given, overtaken >>
    BY <1>4 DEF InformerNext, CacheAdvances, ClaimArrives, audit
  <2>q. QED  BY <1>4, <2>1, InformerSteps, IdleCommits
<1>5. CASE \E n \in Nodes : StorageRedeclared(n)
  BY <1>0, <1>5, StorageCommits
<1>6. CASE UNCHANGED vars
  BY <1>6, IdleCommits DEF vars, audit, Now
<1>q. QED  BY <1>1, <1>2, <1>3, <1>4, <1>5, <1>6 DEF Next

(* What Filter has judged fits: of every node's volumes, those of the      *)
(* claims that Filter looks at, of pods whose decision was not overtaken   *)
(* by another pod's volumes or by the object's removal, take no more than  *)
(* the node has and what a sync of a leftover key has given away; however  *)
(* many pods were let in beside them by decisions that were overtaken, and *)
(* however many claims they have.  Filter alone sees to it: CreateVolume   *)
(* compares the size with nothing.                                         *)
THEOREM JudgedVolumesFit == Spec => []NoOvercommit
<1>1. Init => CommitInv
  <2> SUFFICES ASSUME Init
               PROVE  CommitInv
    OBVIOUS
  <2>1. \A p \in Pods : ~Counted(p)
    BY DEF Init, Counted, UnderWay
  <2>2. \A n \in Nodes : ~Sized(Now[n])
    BY DEF Init, Now, Sized
  <2>q. QED  BY <2>1, <2>2 DEF CommitInv, OneUnderWay, RoomOnTheWay, NoOvercommit
<1>2. SchedulerInv /\ BooksInv /\ CommitInv /\ [Next]_vars => (SchedulerInv /\ BooksInv /\ CommitInv)'
  BY StepSchedulerInv, StepBooks, StepCommitInv
<1>3. CommitInv => NoOvercommit
  BY DEF CommitInv
<1>q. QED  BY InitSchedulerInv, InitBooks, <1>1, <1>2, <1>3, PTL DEF Spec
============================================================================
