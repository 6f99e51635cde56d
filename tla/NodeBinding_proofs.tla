------------------------- MODULE NodeBinding_proofs -------------------------
(***************************************************************************)
(* Proofs that the job, alone, gives a node one object, and that a pod of  *)
(* it that ends well has left no labelled node without one: whatever the   *)
(* number of nodes, pods, restarts, refusals and killed pods.              *)
(***************************************************************************)
EXTENDS NodeBinding, TLAPS

LEMMA InitJobInv == Init => JobInv
<1> SUFFICES ASSUME Init PROVE JobInv
  OBVIOUS
<1>1. TypeOK
  BY DEF Init, TypeOK, Pod
<1>2. Objects = {}
  BY DEF Init, Objects
<1> QED
  BY <1>1, <1>2 DEF Init, JobInv, NamedByNode, OneRequestPerPod, RequestsFollowLoop,
     LoopLeavesBound, DoneMeansBound

(* An object once stored stays, as nobody deletes. *)
LEMMA StepsWithoutStore ==
  ASSUME JobInv, history' = history
  PROVE  /\ Objects' = Objects
         /\ \A n : Bound(n)' <=> Bound(n)
  BY DEF Objects, Bound

(* When a request of a pod has failed, or its pod has been killed, nothing  *)
(* of the pod is left but its count of restarts.                            *)
LEMMA PodRestarted ==
  ASSUME NEW pod \in Pod, NEW p \in {"start", "failed"}
  PROVE  /\ [pod EXCEPT !.pc = p, !.restarts = @ + 1] \in Pod
         /\ [pod EXCEPT !.pc = p, !.restarts = @ + 1].pc = p
<1> DEFINE k == pod.restarts + 1
<1>1. k \in Nat
  BY DEF Pod
<1> HIDE DEF k
<1>2. /\ [pod EXCEPT !.pc = p, !.restarts = k] \in Pod
      /\ [pod EXCEPT !.pc = p, !.restarts = k].pc = p
  BY <1>1 DEF Pod
<1> QED
  BY <1>2 DEF k

LEMMA PodMoved ==
  ASSUME NEW pod \in Pod, NEW i \in Nat
  PROVE  LET moved == [pod EXCEPT !.next = i]
         IN  /\ moved \in Pod
             /\ moved.next = i /\ moved.pc = pod.pc /\ moved.known = pod.known
  BY DEF Pod

LEMMA PodFailsType ==
  ASSUME job \in [Jobs -> Pod], NEW j \in Jobs, PodFails(j)
  PROVE  /\ job' \in [Jobs -> Pod]
         /\ job'[j].pc \in {"start", "failed"}
         /\ \A k \in Jobs \ {j} : job'[k] = job[k]
<1>1. PICK p \in {"start", "failed"} :
          job' = [job EXCEPT ![j] = [job[j] EXCEPT !.pc = p, !.restarts = @ + 1]]
  BY DEF PodFails
<1> QED
  BY <1>1, PodRestarted

(* A step that takes away requests and fails the pods that sent them.       *)
LEMMA FailedRequests ==
  ASSUME JobInv, history' = history, listed' = listed, troubles' \in Nat,
         requests' \subseteq Request,
         job' \in [Jobs -> Pod],
         \A r \in requests' : r.by \in Jobs => r \in requests /\ job'[r.by] = job[r.by],
         \A r \in requests' : r.object.name = JobName(r.object.node),
         \A j \in Jobs : job'[j] = job[j] \/ job'[j].pc \in {"start", "failed"}
  PROVE  JobInv'
<1>1. TypeOK'
  BY DEF JobInv, TypeOK
<1>2. NamedByNode'
  BY DEF JobInv, NamedByNode, Objects
<1>3. OneRequestPerPod'
  BY DEF JobInv, OneRequestPerPod
<1>4. RequestsFollowLoop'
  BY DEF JobInv, RequestsFollowLoop
<1>5. LoopLeavesBound'
  BY StepsWithoutStore DEF JobInv, LoopLeavesBound
<1>6. DoneMeansBound'
  BY StepsWithoutStore DEF JobInv, DoneMeansBound
<1> QED
  BY <1>1, <1>2, <1>3, <1>4, <1>5, <1>6 DEF JobInv

LEMMA JobListsInv ==
  ASSUME JobInv, NEW j \in Jobs, JobLists(j)
  PROVE  JobInv'
<1>1. job[j] \in Pod /\ \A k \in Jobs : job[k] \in Pod
  BY DEF JobInv, TypeOK
<1> DEFINE pod == [job[j] EXCEPT !.pc = "creating",
                                 !.known = {o.node : o \in Objects},
                                 !.next = 1]
<1>2. job' = [job EXCEPT ![j] = pod]
  BY <1>1 DEF JobLists
<1>3. Objects \subseteq Object
  BY DEF JobInv, TypeOK, Objects
<1>4. {o.node : o \in Objects} \subseteq Nodes
  BY <1>3 DEF Object
<1>5. pod \in Pod /\ pod.pc = "creating" /\ pod.next = 1
      /\ pod.known = {o.node : o \in Objects}
  BY <1>1, <1>4 DEF Pod
<1>6. job' \in [Jobs -> Pod] /\ job'[j] = pod /\ \A k \in Jobs \ {j} : job'[k] = job[k]
  BY <1>2, <1>5 DEF JobInv, TypeOK
<1> HIDE DEF pod
<1>7. TypeOK'
  BY <1>6 DEF JobLists, JobInv, TypeOK
<1>8. NamedByNode' /\ OneRequestPerPod'
  BY DEF JobLists, JobInv, NamedByNode, OneRequestPerPod, Objects
<1>9. RequestsFollowLoop'
  BY <1>6 DEF JobLists, JobInv, RequestsFollowLoop
<1>10. LoopLeavesBound'
  <2>1. \A n \in pod.known : Bound(n)
    BY <1>5 DEF Bound
  <2>2. \A i \in 1 .. Len(NodeList) : ~(i < 1)
    OBVIOUS
  <2> QED
    <3>1. job'[j].next = 1 /\ job'[j].known = pod.known
      BY <1>5, <1>6
    <3>2. history' = history
      BY DEF JobLists
    <3>3. \A n : Bound(n)' <=> Bound(n)
      BY <3>2, StepsWithoutStore
    <3>4. \A i \in 1 .. Len(NodeList) : i < job'[j].next => Bound(NodeList[i])'
      BY <2>2, <3>1
    <3> QED
      BY <1>6, <2>1, <3>1, <3>3, <3>4 DEF JobInv, LoopLeavesBound
<1>11. DoneMeansBound'
  BY <1>5, <1>6, StepsWithoutStore DEF JobLists, JobInv, DoneMeansBound
<1> QED
  BY <1>7, <1>8, <1>9, <1>10, <1>11 DEF JobInv

LEMMA JobCreatesInv ==
  ASSUME JobInv, NEW j \in Jobs, JobCreates(j)
  PROVE  JobInv'
<1> USE NodeAssumption
<1>1. PICK i \in ToCreate(j) :
          /\ \A k \in ToCreate(j) : i <= k
          /\ requests' = requests \cup
                {[object |-> JobObject(j, NodeList[i]), admitted |-> FALSE, by |-> j]}
          /\ job' = [job EXCEPT ![j].next = i]
  BY DEF JobCreates
<1> DEFINE request == [object |-> JobObject(j, NodeList[i]), admitted |-> FALSE, by |-> j]
<1>2. job \in [Jobs -> Pod] /\ job[j] \in Pod
  BY DEF JobInv, TypeOK
<1>3. job[j].next \in Nat /\ Len(NodeList) \in Nat
  BY <1>2 DEF Pod
<1>4. i \in 1 .. Len(NodeList)
  BY <1>3 DEF ToCreate, JobCreates, JobInv, LoopLeavesBound
<1>5. NodeList[i] \in Nodes
  BY <1>4
<1>6. request \in Request /\ request.by = j
      /\ request.object.node = NodeList[i] /\ request.object.name = JobName(NodeList[i])
  BY <1>5 DEF JobObject, Request, Object, Names, Clients
<1>7. /\ job' \in [Jobs -> Pod]
      /\ job'[j].next = i
      /\ job'[j].pc = job[j].pc
      /\ job'[j].known = job[j].known
      /\ \A k \in Jobs \ {j} : job'[k] = job[k]
  <2>1. i \in Nat /\ job' = [job EXCEPT ![j] = [job[j] EXCEPT !.next = i]]
    BY <1>1, <1>2, <1>4 DEF Pod
  <2> QED
    BY <1>2, <2>1, PodMoved
<1>8. requests' = requests \cup {request} /\ job[j].pc = "creating" /\ ~Waiting(j)
  BY <1>1 DEF JobCreates
<1> HIDE DEF request
<1>9. TypeOK'
  BY <1>6, <1>7, <1>8 DEF JobCreates, JobInv, TypeOK
<1>10. NamedByNode'
  BY <1>6, <1>8 DEF JobCreates, JobInv, NamedByNode, Objects
<1>11. OneRequestPerPod'
  BY <1>6, <1>8 DEF JobInv, OneRequestPerPod, Waiting
<1>12. RequestsFollowLoop'
  <2> SUFFICES ASSUME NEW r \in requests', r.by \in Jobs
               PROVE  /\ job'[r.by].pc = "creating"
                      /\ job'[r.by].next \in 1 .. Len(NodeList)
                      /\ r.object.node = NodeList[job'[r.by].next]
    BY DEF RequestsFollowLoop
  <2>1. CASE r = request
    BY <1>4, <1>6, <1>7, <1>8, <2>1
  <2>2. CASE r \in requests
    <3>1. r.by # j
      BY <1>8, <2>2 DEF Waiting
    <3> QED
      BY <1>7, <2>2, <3>1 DEF JobInv, RequestsFollowLoop
  <2> QED
    BY <1>8, <2>1, <2>2
<1>13. LoopLeavesBound'
  <2>1. ASSUME NEW k \in 1 .. Len(NodeList), k < i PROVE Bound(NodeList[k])
    <3>1. CASE k < job[j].next
      BY <1>8, <3>1 DEF JobInv, LoopLeavesBound
    <3>2. CASE ~(k < job[j].next)
      <4>1. k \notin ToCreate(j)
        BY <1>1, <1>4, <2>1
      <4>2. NodeList[k] \in job[j].known
        BY <1>3, <3>2, <4>1 DEF ToCreate
      <4> QED
        BY <1>8, <4>2 DEF JobInv, LoopLeavesBound
    <3> QED
      BY <3>1, <3>2
  <2>2. i > 0
    BY <1>4
  <2> QED
    BY <1>7, <1>8, <2>1, <2>2, StepsWithoutStore DEF JobCreates, JobInv, LoopLeavesBound
<1>14. DoneMeansBound'
  BY <1>7, <1>8, StepsWithoutStore DEF JobCreates, JobInv, DoneMeansBound
<1> QED
  BY <1>9, <1>10, <1>11, <1>12, <1>13, <1>14 DEF JobInv

LEMMA JobCompletesInv ==
  ASSUME JobInv, NEW j \in Jobs, JobCompletes(j)
  PROVE  JobInv'
<1> USE NodeAssumption
<1>1. job \in [Jobs -> Pod] /\ job[j] \in Pod /\ Len(NodeList) \in Nat
  BY DEF JobInv, TypeOK
<1>2. /\ job' \in [Jobs -> Pod]
      /\ job'[j].pc = "done"
      /\ job'[j].next = job[j].next
      /\ job'[j].known = job[j].known
      /\ \A k \in Jobs \ {j} : job'[k] = job[k]
  BY <1>1 DEF JobCompletes, Pod
<1>3. \A i \in 1 .. Len(NodeList) : Bound(NodeList[i])
  <2> TAKE i \in 1 .. Len(NodeList)
  <2>1. job[j].next \in Nat /\ job[j].pc = "creating" /\ ToCreate(j) = {}
    BY <1>1 DEF JobCompletes, Pod
  <2>2. CASE i < job[j].next
    BY <2>1, <2>2 DEF JobInv, LoopLeavesBound
  <2>3. CASE ~(i < job[j].next)
    <3>1. NodeList[i] \in job[j].known
      BY <2>1, <2>3 DEF ToCreate
    <3> QED
      BY <2>1, <3>1 DEF JobInv, LoopLeavesBound
  <2> QED
    BY <2>2, <2>3
<1>4. TypeOK' /\ NamedByNode' /\ OneRequestPerPod'
  BY <1>2 DEF JobCompletes, JobInv, TypeOK, NamedByNode, OneRequestPerPod, Objects
<1>5. RequestsFollowLoop'
  BY <1>2 DEF JobCompletes, JobInv, RequestsFollowLoop, Waiting
<1>6. LoopLeavesBound'
  BY <1>2, StepsWithoutStore DEF JobCompletes, JobInv, LoopLeavesBound
<1>7. DoneMeansBound'
  BY <1>2, <1>3, StepsWithoutStore DEF JobCompletes, JobInv, DoneMeansBound
<1> QED
  BY <1>4, <1>5, <1>6, <1>7 DEF JobInv

LEMMA JobKilledInv ==
  ASSUME JobInv, NEW j \in Jobs, JobKilled(j)
  PROVE  JobInv'
<1> USE ClientAssumption
<1>1. /\ job' \in [Jobs -> Pod]
      /\ job'[j].pc \in {"start", "failed"}
      /\ \A k \in Jobs \ {j} : job'[k] = job[k]
  BY PodFailsType DEF JobKilled, JobInv, TypeOK
<1>2. troubles' \in Nat /\ history' = history /\ listed' = listed
  BY DEF JobKilled, JobInv, TypeOK
<1>3. ASSUME NEW r \in requests'
      PROVE  /\ r \in Request
             /\ r.object.name = JobName(r.object.node)
             /\ r.by \in Jobs => r \in requests /\ r.by # j
  <2>1. PICK old \in requests :
            r = IF old.by = j THEN [old EXCEPT !.by = NoClient] ELSE old
    BY DEF JobKilled
  <2>2. old \in Request /\ old.object.name = JobName(old.object.node)
    BY DEF JobInv, TypeOK, NamedByNode
  <2> QED
    BY <2>1, <2>2 DEF Request
<1> QED
  BY <1>1, <1>2, <1>3, FailedRequests

LEMMA FailsWithType ==
  ASSUME JobInv, NEW r \in requests, FailsWith(r.by), requests' = requests \ {r}
  PROVE  /\ job' \in [Jobs -> Pod]
         /\ \A j \in Jobs : job'[j] = job[j] \/ job'[j].pc \in {"start", "failed"}
         /\ \A other \in requests' : other.by \in Jobs => job'[other.by] = job[other.by]
<1>1. CASE r.by \in Jobs
  <2>1. /\ job' \in [Jobs -> Pod]
        /\ job'[r.by].pc \in {"start", "failed"}
        /\ \A k \in Jobs \ {r.by} : job'[k] = job[k]
    BY <1>1, PodFailsType DEF FailsWith, JobInv, TypeOK
  <2>2. \A other \in requests' : other.by # r.by
    BY <1>1 DEF JobInv, OneRequestPerPod
  <2> QED
    BY <2>1, <2>2
<1>2. CASE r.by \notin Jobs
  BY <1>2 DEF FailsWith, JobInv, TypeOK
<1> QED
  BY <1>1, <1>2

LEMMA FailedAnswersInv ==
  ASSUME JobInv, NEW r \in requests, Deny(r) \/ Refuse(r) \/ AlreadyExists(r)
  PROVE  JobInv'
<1>1. /\ FailsWith(r.by) /\ requests' = requests \ {r}
      /\ history' = history /\ listed' = listed /\ troubles' \in Nat
  BY DEF Deny, Refuse, AlreadyExists, JobInv, TypeOK
<1>2. \A other \in requests' : other \in requests /\ other \in Request
                               /\ other.object.name = JobName(other.object.node)
  BY <1>1 DEF JobInv, TypeOK, NamedByNode
<1> QED
  BY <1>1, <1>2, FailsWithType, FailedRequests

LEMMA AdmitInv ==
  ASSUME JobInv, NEW r \in requests, Admit(r)
  PROVE  JobInv'
<1> DEFINE admitted == [r EXCEPT !.admitted = TRUE]
<1>1. /\ r \in Request
      /\ admitted \in Request /\ admitted.by = r.by /\ admitted.object = r.object
  BY DEF JobInv, TypeOK, Request
<1>2. /\ requests' = (requests \ {r}) \cup {admitted}
      /\ UNCHANGED << history, listed, job, troubles >>
  BY DEF Admit
<1> HIDE DEF admitted
<1>3. TypeOK' /\ NamedByNode'
  BY <1>1, <1>2 DEF JobInv, TypeOK, NamedByNode, Objects
<1>4. OneRequestPerPod'
  BY <1>1, <1>2 DEF JobInv, OneRequestPerPod
<1>5. RequestsFollowLoop'
  BY <1>1, <1>2 DEF JobInv, RequestsFollowLoop
<1>6. LoopLeavesBound' /\ DoneMeansBound'
  BY <1>2, StepsWithoutStore DEF JobInv, LoopLeavesBound, DoneMeansBound
<1> QED
  BY <1>3, <1>4, <1>5, <1>6 DEF JobInv

LEMMA StoreInv ==
  ASSUME JobInv, NEW r \in requests, Store(r)
  PROVE  JobInv'
<1>1. /\ history' = Append(history, Objects \cup {r.object})
      /\ requests' = requests \ {r}
      /\ Succeeds(r.by)
      /\ listed' = listed /\ troubles' = troubles
  BY DEF Store
<1>2. r \in Request /\ r.object \in Object
  BY DEF JobInv, TypeOK, Request
<1>3. Objects \subseteq Object /\ history \in Seq(SUBSET Object) /\ Len(history) > 0
  BY DEF JobInv, TypeOK, Objects
<1>4. /\ history' \in Seq(SUBSET Object)
      /\ Len(history') = Len(history) + 1
      /\ Objects' = Objects \cup {r.object}
  BY <1>1, <1>2, <1>3 DEF Objects
<1>5. \A n : Bound(n) => Bound(n)'
  BY <1>4 DEF Bound
<1>6. Bound(r.object.node)'
  BY <1>4 DEF Bound
<1>7. /\ job' \in [Jobs -> Pod]
      /\ \A j \in Jobs :
            /\ job'[j].pc = job[j].pc
            /\ job'[j].known = job[j].known
            /\ job'[j].next = IF j = r.by THEN job[j].next + 1 ELSE job[j].next
  <2>1. job \in [Jobs -> Pod]
    BY DEF JobInv, TypeOK
  <2>2. CASE r.by \in Jobs
    <3>1. job[r.by] \in Pod /\ job[r.by].next + 1 \in Nat
      BY <2>1, <2>2 DEF Pod
    <3>2. job' = [job EXCEPT ![r.by] = [job[r.by] EXCEPT !.next = job[r.by].next + 1]]
      BY <1>1, <2>1, <2>2, <3>1 DEF Succeeds, Pod
    <3> QED
      BY <2>1, <2>2, <3>1, <3>2, PodMoved
  <2>3. CASE r.by \notin Jobs
    BY <1>1, <2>1, <2>3 DEF Succeeds
  <2> QED
    BY <2>2, <2>3
<1>8. TypeOK'
  BY <1>1, <1>4, <1>7 DEF JobInv, TypeOK
<1>9. NamedByNode'
  BY <1>1, <1>4 DEF JobInv, NamedByNode
<1>10. OneRequestPerPod'
  BY <1>1 DEF JobInv, OneRequestPerPod
<1>11. RequestsFollowLoop'
  <2>1. \A other \in requests' : other.by \in Jobs => other.by # r.by
    BY <1>1 DEF JobInv, OneRequestPerPod
  <2> QED
    BY <1>1, <1>7, <2>1 DEF JobInv, RequestsFollowLoop
<1>12. LoopLeavesBound'
  <2> SUFFICES ASSUME NEW j \in Jobs, job[j].pc \in {"creating", "done"}
               PROVE  /\ job'[j].next > 0
                      /\ \A n \in job'[j].known : Bound(n)'
                      /\ \A i \in 1 .. Len(NodeList) : i < job'[j].next => Bound(NodeList[i])'
    BY <1>7 DEF LoopLeavesBound
  <2>1. job[j].next \in Nat
    BY DEF JobInv, TypeOK, Pod
  <2>2. CASE j # r.by
    BY <1>5, <1>7, <2>2 DEF JobInv, LoopLeavesBound
  <2>3. CASE j = r.by
    <3>1. job'[j].next = job[j].next + 1 /\ r.object.node = NodeList[job[j].next]
      BY <1>7, <2>3 DEF JobInv, RequestsFollowLoop
    <3>2. \E o \in Objects' : o.node = NodeList[job[j].next]
      BY <1>4, <3>1
    <3>3. \A i \in 1 .. Len(NodeList) :
             i < job'[j].next => i < job[j].next \/ i = job[j].next
      BY <2>1, <3>1
    <3>4. ASSUME NEW i \in 1 .. Len(NodeList), i < job'[j].next
          PROVE  Bound(NodeList[i])'
      <4>1. CASE i < job[j].next
        <5>1. Bound(NodeList[i])
          BY <4>1 DEF JobInv, LoopLeavesBound
        <5> QED
          BY <1>5, <5>1
      <4>2. CASE i = job[j].next
        BY <3>2, <4>2 DEF Bound
      <4> QED
        BY <3>3, <3>4, <4>1, <4>2
    <3>5. \A n \in job'[j].known : Bound(n)'
      BY <1>5, <1>7 DEF JobInv, LoopLeavesBound
    <3> QED
      BY <2>1, <3>1, <3>4, <3>5
  <2> QED
    BY <2>2, <2>3
<1>13. DoneMeansBound'
  BY <1>5, <1>7 DEF JobInv, DoneMeansBound
<1> QED
  BY <1>8, <1>9, <1>10, <1>11, <1>12, <1>13 DEF JobInv

LEMMA CacheAdvancesInv ==
  ASSUME JobInv, CacheAdvances
  PROVE  JobInv'
<1>1. TypeOK'
  BY DEF CacheAdvances, JobInv, TypeOK
<1>2. LoopLeavesBound' /\ DoneMeansBound'
  BY StepsWithoutStore DEF CacheAdvances, JobInv, LoopLeavesBound, DoneMeansBound
<1> QED
  BY <1>1, <1>2 DEF CacheAdvances, JobInv, NamedByNode, OneRequestPerPod,
     RequestsFollowLoop, Objects

LEMMA StutterInv ==
  ASSUME JobInv, UNCHANGED vars
  PROVE  JobInv'
<1>1. LoopLeavesBound' /\ DoneMeansBound'
  BY StepsWithoutStore DEF vars, JobInv, LoopLeavesBound, DoneMeansBound
<1> QED
  BY <1>1 DEF vars, JobInv, TypeOK, NamedByNode, OneRequestPerPod, RequestsFollowLoop, Objects

(* The invariant of the pods of the job, for every number of nodes, pods,   *)
(* restarts and troubles (CreateLocalStorages).                             *)
THEOREM JobInvariant == JobSpec => []JobInv
<1>1. JobInv /\ [JobNext]_vars => JobInv'
  <2> SUFFICES ASSUME JobInv, [JobNext]_vars PROVE JobInv'
    OBVIOUS
  <2>1. ASSUME NEW j \in Jobs, JobStep(j) PROVE JobInv'
    BY <2>1, JobListsInv, JobCreatesInv, JobCompletesInv, JobKilledInv DEF JobStep
  <2>2. ASSUME NEW r \in requests, Answer(r) PROVE JobInv'
    BY <2>2, AdmitInv, StoreInv, FailedAnswersInv DEF Answer
  <2>3. CASE CacheAdvances
    BY <2>3, CacheAdvancesInv
  <2>4. CASE UNCHANGED vars
    BY <2>4, StutterInv
  <2> QED
    BY <2>1, <2>2, <2>3, <2>4 DEF JobNext
<1> QED
  BY InitJobInv, <1>1, PTL DEF JobSpec

(* A pod that ends well has left every labelled node with an object.        *)
THEOREM JobDoneMeansBound == JobSpec => []DoneMeansBound
<1>1. JobInv => DoneMeansBound
  BY DEF JobInv
<1> QED
  BY JobInvariant, <1>1, PTL

(* Two pods of the job at once, the requests of killed ones and a webhook   *)
(* whose cache is behind never give a node two objects, for the name of the *)
(* object follows from the node.                                            *)
THEOREM JobOneObjectPerNode == JobSpec => []OneObjectPerNode
<1>1. ASSUME JobInv, NEW o \in Objects, NEW other \in Objects, o.node = other.node
      PROVE  o = other
  <2>1. o \in Object /\ other \in Object
    BY <1>1 DEF JobInv, TypeOK, Objects
  <2>2. o.name = other.name
    BY <1>1 DEF JobInv, NamedByNode
  <2> QED
    BY <1>1, <2>1, <2>2 DEF Object
<1>2. JobInv => OneObjectPerNode
  BY <1>1 DEF OneObjectPerNode
<1> QED
  BY JobInvariant, <1>2, PTL

----------------------------------------------------------------------------
(* Types, with the users: the loop of a pod starts at the first node, so    *)
(* that it never indexes its list out of range.                             *)

LoopInRange == \A j \in Jobs : job[j].next > 0

PodsTyped == job \in [Jobs -> Pod] /\ LoopInRange

LEMMA PodFailsTyped == ASSUME PodsTyped, NEW j \in Jobs, PodFails(j) PROVE PodsTyped'
<1>1. PICK p \in {"start", "failed"} :
          job' = [job EXCEPT ![j] = [job[j] EXCEPT !.pc = p, !.restarts = @ + 1]]
  BY DEF PodFails
<1>2. job' \in [Jobs -> Pod] /\ \A k \in Jobs \ {j} : job'[k] = job[k]
  BY PodFailsType DEF PodsTyped
<1>3. job'[j].next = job[j].next
  BY <1>1 DEF PodsTyped, Pod
<1> QED
  BY <1>2, <1>3 DEF PodsTyped, LoopInRange

LEMMA JobStepTyped ==
  ASSUME TypeOK, LoopInRange, NEW j \in Jobs, JobStep(j)
  PROVE  TypeOK' /\ LoopInRange'
<1>0. job[j] \in Pod /\ job \in [Jobs -> Pod] /\ PodsTyped
  BY DEF TypeOK, PodsTyped
<1>1. CASE JobLists(j)
  <2> DEFINE pod == [job[j] EXCEPT !.pc = "creating",
                                   !.known = {o.node : o \in Objects},
                                   !.next = 1]
  <2>1. job' = [job EXCEPT ![j] = pod]
    BY <1>0, <1>1 DEF JobLists
  <2>2. {o.node : o \in Objects} \subseteq Nodes
    BY DEF TypeOK, Objects, Object
  <2>3. pod \in Pod /\ pod.next = 1
    BY <1>0, <2>2 DEF Pod
  <2> HIDE DEF pod
  <2>4. job' \in [Jobs -> Pod] /\ LoopInRange'
    BY <1>0, <2>1, <2>3 DEF LoopInRange
  <2> QED
    BY <1>1, <2>4 DEF JobLists, TypeOK
<1>2. CASE JobCreates(j)
  <2>1. PICK i \in ToCreate(j) :
            /\ requests' = requests \cup
                  {[object |-> JobObject(j, NodeList[i]), admitted |-> FALSE, by |-> j]}
            /\ job' = [job EXCEPT ![j].next = i]
    BY <1>2 DEF JobCreates
  <2>2. job[j].next \in Nat /\ job[j].next > 0 /\ Len(NodeList) \in Nat
    BY <1>0, NodeAssumption DEF Pod, LoopInRange
  <2>3. i \in 1 .. Len(NodeList) /\ i \in Nat /\ i > 0
    BY <2>2 DEF ToCreate
  <2>4. NodeList[i] \in Nodes
    BY <2>3, NodeAssumption
  <2>5. [object |-> JobObject(j, NodeList[i]), admitted |-> FALSE, by |-> j] \in Request
    BY <2>4 DEF JobObject, Request, Object, Names, Clients
  <2>6. job' = [job EXCEPT ![j] = [job[j] EXCEPT !.next = i]]
    BY <1>0, <2>1
  <2>7. [job[j] EXCEPT !.next = i] \in Pod /\ [job[j] EXCEPT !.next = i].next = i
    BY <1>0, <2>3, PodMoved
  <2>8. job' \in [Jobs -> Pod] /\ LoopInRange'
    BY <1>0, <2>3, <2>6, <2>7 DEF LoopInRange
  <2> QED
    BY <1>2, <2>1, <2>5, <2>8 DEF JobCreates, TypeOK
<1>3. CASE JobCompletes(j)
  <2>1. job' \in [Jobs -> Pod] /\ \A k \in Jobs : job'[k].next = job[k].next
    BY <1>0, <1>3 DEF JobCompletes, Pod
  <2> QED
    BY <1>3, <2>1 DEF JobCompletes, TypeOK, LoopInRange
<1>4. CASE JobKilled(j)
  <2>1. PodsTyped'
    BY <1>0, <1>4, PodFailsTyped DEF JobKilled
  <2>2. requests' \subseteq Request
    <3> SUFFICES ASSUME NEW r \in requests' PROVE r \in Request
      OBVIOUS
    <3>1. PICK old \in requests :
              r = IF old.by = j THEN [old EXCEPT !.by = NoClient] ELSE old
      BY <1>4 DEF JobKilled
    <3> QED
      BY <3>1 DEF TypeOK, Request
  <2> QED
    BY <1>4, <2>1, <2>2 DEF JobKilled, TypeOK, PodsTyped
<1> QED
  BY <1>1, <1>2, <1>3, <1>4 DEF JobStep

LEMMA AnswerTyped ==
  ASSUME TypeOK, LoopInRange, NEW r \in requests, Answer(r)
  PROVE  TypeOK' /\ LoopInRange'
<1>0. PodsTyped /\ r \in Request
  BY DEF TypeOK, PodsTyped
<1>1. CASE Admit(r)
  <2>1. [r EXCEPT !.admitted = TRUE] \in Request
    BY <1>0 DEF Request
  <2> QED
    BY <1>1, <2>1 DEF Admit, TypeOK, LoopInRange
<1>2. CASE Deny(r) \/ Refuse(r) \/ AlreadyExists(r)
  <2>1. FailsWith(r.by)
    BY <1>2 DEF Deny, Refuse, AlreadyExists
  <2>2. PodsTyped'
    BY <1>0, <2>1, PodFailsTyped DEF FailsWith, PodsTyped, LoopInRange
  <2> QED
    BY <1>2, <2>2 DEF Deny, Refuse, AlreadyExists, TypeOK, PodsTyped
<1>3. CASE Store(r)
  <2>1. /\ history' \in Seq(SUBSET Object)
        /\ Len(history') = Len(history) + 1
        /\ Len(history) \in Nat
    BY <1>0, <1>3 DEF Store, TypeOK, Objects, Request
  <2>2. PodsTyped'
    <3>1. CASE r.by \in Jobs
      <4>1. job[r.by] \in Pod /\ job[r.by].next \in Nat /\ job[r.by].next > 0
        BY <1>0, <3>1 DEF PodsTyped, LoopInRange, Pod
      <4> DEFINE k == job[r.by].next + 1
      <4>2. k \in Nat /\ k > 0
        BY <4>1
      <4>3. job' = [job EXCEPT ![r.by] = [job[r.by] EXCEPT !.next = k]]
        BY <1>0, <1>3, <3>1 DEF Store, Succeeds, PodsTyped
      <4> HIDE DEF k
      <4>4. [job[r.by] EXCEPT !.next = k] \in Pod /\ [job[r.by] EXCEPT !.next = k].next = k
        BY <4>1, <4>2, PodMoved
      <4> QED
        BY <1>0, <3>1, <4>2, <4>3, <4>4 DEF PodsTyped, LoopInRange
    <3>2. CASE r.by \notin Jobs
      BY <1>0, <1>3, <3>2 DEF Store, Succeeds, PodsTyped, LoopInRange
    <3> QED
      BY <3>1, <3>2
  <2>3. listed' \in 1 .. Len(history') /\ Len(history') > 0
    BY <1>3, <2>1 DEF Store, TypeOK
  <2> QED
    BY <1>3, <2>1, <2>2, <2>3 DEF Store, TypeOK, PodsTyped
<1> QED
  BY <1>1, <1>2, <1>3 DEF Answer

LEMMA UserTyped ==
  ASSUME TypeOK, LoopInRange, UserNext
  PROVE  TypeOK' /\ LoopInRange'
<1>1. ASSUME NEW u \in Users, NEW name \in Names, NEW n \in Nodes, UserCreates(u, name, n)
      PROVE  TypeOK' /\ LoopInRange'
  <2>1. [object |-> [name |-> name, node |-> n], admitted |-> FALSE, by |-> u] \in Request
    BY DEF Request, Object, Clients
  <2> QED
    BY <1>1, <2>1 DEF UserCreates, TypeOK, LoopInRange
<1>2. ASSUME NEW o \in Objects, UserDeletes(o)
      PROVE  TypeOK' /\ LoopInRange'
  <2>1. /\ history' \in Seq(SUBSET Object)
        /\ Len(history') = Len(history) + 1
        /\ Len(history) \in Nat
    BY <1>2 DEF UserDeletes, TypeOK, Objects
  <2>2. listed' \in 1 .. Len(history') /\ Len(history') > 0
    BY <1>2, <2>1 DEF UserDeletes, TypeOK
  <2> QED
    BY <1>2, <2>1, <2>2 DEF UserDeletes, TypeOK, LoopInRange
<1> QED
  BY <1>1, <1>2 DEF UserNext

(* Whoever creates and deletes, the webhook's cache is never ahead of the   *)
(* API server, and every request on its way is one of a client, or of a     *)
(* pod that was killed.                                                     *)
THEOREM BindingTypes == Spec => []TypeOK
<1>1. Init => TypeOK /\ LoopInRange
  BY DEF Init, TypeOK, Pod, LoopInRange
<1>2. TypeOK /\ LoopInRange /\ [Next]_vars => TypeOK' /\ LoopInRange'
  <2> SUFFICES ASSUME TypeOK, LoopInRange, [Next]_vars PROVE TypeOK' /\ LoopInRange'
    OBVIOUS
  <2>1. CASE CacheAdvances \/ UNCHANGED vars
    BY <2>1 DEF CacheAdvances, vars, TypeOK, LoopInRange
  <2> QED
    BY <2>1, JobStepTyped, AnswerTyped, UserTyped DEF Next, JobNext
<1> QED
  BY <1>1, <1>2, PTL DEF Spec
=============================================================================
