---------------------------- MODULE NodeBinding ----------------------------
(***************************************************************************)
(* How nodes get their LocalStorage objects: the job that creates one for  *)
(* each labelled node (cmd/localstorage-job, pkg/util/storage), users who  *)
(* create and delete them by hand, and the validating webhook, which binds *)
(* a node to one object only (pkg/webhook/validating.go).                  *)
(*                                                                         *)
(* A create request is first admitted by the webhook, which looks for the  *)
(* node in its own, lagging cache, and then stored; the API server itself  *)
(* refuses nothing but a name already taken.  The job reads the API server *)
(* directly, and stops at the first error for its pod to be restarted.     *)
(***************************************************************************)
EXTENDS Naturals, Sequences, FiniteSets

CONSTANTS
    Nodes,          \* the node names a request may hold
    Cluster,        \* the nodes Kubernetes has
    NodeList,       \* the labelled nodes, in the order the job lists them
    LongNodes,      \* the nodes whose name leaves no room for "ls-"
    OtherNames,     \* object names users choose on their own
    Jobs,           \* pods of the job (the Job controller may start two)
    Users,          \* clients that create objects by hand
    NoClient,       \* the client that sent a request is gone
    MaxRestarts,    \* backoffLimit, for each pod
    MaxTroubles,    \* at most so many refused requests and killed pods
    MaxHistory      \* users write only while the history is shorter

ASSUME NodeAssumption ==
    /\ Cluster \subseteq Nodes
    /\ NodeList \in Seq(Cluster)

ASSUME ClientAssumption ==
    /\ Jobs \cap Users = {}
    /\ NoClient \notin Jobs \cup Users

VARIABLES
    history,    \* the sets of objects the API server has held
    listed,     \* the position in the history of the webhook's cache
    requests,   \* the create requests on their way
    job,        \* the pods of the job
    troubles    \* refused requests and killed pods so far

vars == << history, listed, requests, job, troubles >>

Clients == Jobs \cup Users

(* "ls-" + nodeName *)
JobName(n) == << "ls", n >>

Names == {JobName(n) : n \in Nodes} \cup OtherNames

Object == [name : Names, node : Nodes]

Request == [object : Object, admitted : BOOLEAN, by : Clients \cup {NoClient}]

Pod ==
    [ pc       : {"start", "creating", "done", "failed"},
      known    : SUBSET Nodes,      \* lsNodeNames
      next     : Nat,               \* the loop's position in nodeNames
      restarts : Nat ]

Objects == history[Len(history)]

Bound(n) == \E o \in Objects : o.node = n

Waiting(c) == \E r \in requests : r.by = c

TypeOK ==
    /\ history \in Seq(SUBSET Object)
    /\ Len(history) > 0
    /\ listed \in 1 .. Len(history)
    /\ requests \subseteq Request
    /\ job \in [Jobs -> Pod]
    /\ troubles \in Nat

Init ==
    /\ history = << {} >>
    /\ listed = 1
    /\ requests = {}
    /\ job = [j \in Jobs |-> [pc |-> "start", known |-> {}, next |-> 1, restarts |-> 0]]
    /\ troubles = 0

----------------------------------------------------------------------------
(* The job. *)

(* Slip: an error of one request ends the program as if it had finished. *)
PodIgnoresError(j) == job' = [job EXCEPT ![j].pc = "done"]

(* klog.Fatalf, or the pod is killed: the kubelet starts it again, until    *)
(* the backoff limit.                                                       *)
PodFails(j) ==
    job' = [job EXCEPT ![j].pc = IF job[j].restarts < MaxRestarts THEN "start" ELSE "failed",
                       ![j].restarts = @ + 1]

(* The nodes that have an object, from the API server itself. *)
JobLists(j) ==
    /\ job[j].pc = "start"
    /\ job' = [job EXCEPT ![j].pc = "creating",
                          ![j].known = {o.node : o \in Objects},
                          ![j].next = 1]
    /\ UNCHANGED << history, listed, requests, troubles >>

(* The positions the loop will not skip. *)
ToCreate(j) == {i \in job[j].next .. Len(NodeList) : NodeList[i] \notin job[j].known}

(* Slip: the name is drawn for each run, as generateName would. *)
GeneratedObject(j, n) == [name |-> << j, n >>, node |-> n]

JobObject(j, n) == [name |-> JobName(n), node |-> n]

JobCreates(j) ==
    /\ job[j].pc = "creating"
    /\ ~Waiting(j)
    /\ \E i \in ToCreate(j) :
          /\ \A k \in ToCreate(j) : i <= k
          /\ requests' = requests \cup
                {[object |-> JobObject(j, NodeList[i]), admitted |-> FALSE, by |-> j]}
          /\ job' = [job EXCEPT ![j].next = i]
    /\ UNCHANGED << history, listed, troubles >>

JobCompletes(j) ==
    /\ job[j].pc = "creating"
    /\ ~Waiting(j)
    /\ ToCreate(j) = {}
    /\ job' = [job EXCEPT ![j].pc = "done"]
    /\ UNCHANGED << history, listed, requests, troubles >>

(* The pod is killed; a request it has sent goes on without it. *)
JobKilled(j) ==
    /\ troubles < MaxTroubles
    /\ job[j].pc = "creating"
    /\ PodFails(j)
    /\ requests' = {IF r.by = j THEN [r EXCEPT !.by = NoClient] ELSE r : r \in requests}
    /\ troubles' = troubles + 1
    /\ UNCHANGED << history, listed >>

----------------------------------------------------------------------------
(* Users. *)

UserCreates(u, name, n) ==
    /\ Len(history) < MaxHistory
    /\ ~Waiting(u)
    /\ requests' = requests \cup
          {[object |-> [name |-> name, node |-> n], admitted |-> FALSE, by |-> u]}
    /\ UNCHANGED << history, listed, job, troubles >>

(* The object is gone: deleted, and its finalizer removed by hand.          *)
UserDeletes(o) ==
    /\ Len(history) < MaxHistory
    /\ o \in Objects
    /\ history' = Append(history, Objects \ {o})
    /\ UNCHANGED << listed, requests, job, troubles >>

----------------------------------------------------------------------------
(* The webhook. *)

ValidateName(o) == \A n \in LongNodes : o.name # JobName(n)

(* Slip: only an object of the same name counts. *)
ValidateSameName(o) ==
    /\ o.node \in Cluster
    /\ \A other \in history[listed] : ~(other.node = o.node /\ other.name = o.name)

(* The node exists and no object in the cache is bound to it. *)
ValidateKubeNode(o) ==
    /\ o.node \in Cluster
    /\ \A other \in history[listed] : other.node # o.node

ValidateCreate(o) == ValidateName(o) /\ ValidateKubeNode(o)

(* The reply reaches the client, when it still waits for it. *)
Succeeds(c) ==
    IF c \in Jobs THEN job' = [job EXCEPT ![c].next = @ + 1] ELSE UNCHANGED job

FailsWith(c) == IF c \in Jobs THEN PodFails(c) ELSE UNCHANGED job

Admit(r) ==
    /\ r \in requests
    /\ ~r.admitted
    /\ ValidateCreate(r.object)
    /\ requests' = (requests \ {r}) \cup {[r EXCEPT !.admitted = TRUE]}
    /\ UNCHANGED << history, listed, job, troubles >>

Deny(r) ==
    /\ r \in requests
    /\ ~r.admitted
    /\ ~ValidateCreate(r.object)
    /\ requests' = requests \ {r}
    /\ FailsWith(r.by)
    /\ UNCHANGED << history, listed, troubles >>

(* No webhook answers, and failurePolicy is Fail. *)
Refuse(r) ==
    /\ troubles < MaxTroubles
    /\ r \in requests
    /\ ~r.admitted
    /\ requests' = requests \ {r}
    /\ FailsWith(r.by)
    /\ troubles' = troubles + 1
    /\ UNCHANGED << history, listed >>

----------------------------------------------------------------------------
(* The API server, and the watch that feeds the webhook's cache. *)

NameTaken(o) == \E other \in Objects : other.name = o.name

Store(r) ==
    /\ r \in requests
    /\ r.admitted
    /\ ~NameTaken(r.object)
    /\ history' = Append(history, Objects \cup {r.object})
    /\ requests' = requests \ {r}
    /\ Succeeds(r.by)
    /\ UNCHANGED << listed, troubles >>

AlreadyExists(r) ==
    /\ r \in requests
    /\ r.admitted
    /\ NameTaken(r.object)
    /\ requests' = requests \ {r}
    /\ FailsWith(r.by)
    /\ UNCHANGED << history, listed, troubles >>

CacheAdvances ==
    /\ listed < Len(history)
    /\ listed' = listed + 1
    /\ UNCHANGED << history, requests, job, troubles >>

----------------------------------------------------------------------------
Answer(r) == Admit(r) \/ Deny(r) \/ Refuse(r) \/ Store(r) \/ AlreadyExists(r)

JobStep(j) == JobLists(j) \/ JobCreates(j) \/ JobCompletes(j) \/ JobKilled(j)

JobNext ==
    \/ \E j \in Jobs : JobStep(j)
    \/ \E r \in requests : Answer(r)
    \/ CacheAdvances

UserNext ==
    \/ \E u \in Users, name \in Names, n \in Nodes : UserCreates(u, name, n)
    \/ \E o \in Objects : UserDeletes(o)

Next == JobNext \/ UserNext

Spec == Init /\ [][Next]_vars

(* The objects are created by the job alone. *)
JobSpec == Init /\ [][JobNext]_vars

(* The pods run, and the API server answers every request. *)
JobFairness ==
    /\ \A j \in Jobs : WF_vars(JobLists(j) \/ JobCreates(j) \/ JobCompletes(j))
    /\ WF_vars(\E r \in requests : Answer(r))

JobFairSpec == JobSpec /\ JobFairness

----------------------------------------------------------------------------
(* A node has at most one object (validateKubeNode: "only the one node to   *)
(* binding to").  With two, GetLocalStorageByNode and GetLocalStorageMap    *)
(* take either, so that the node's volumes and its free size are split      *)
(* between them.                                                            *)
OneObjectPerNode ==
    \A o, other \in Objects : o.node = other.node => o = other

(* A pod that ends well leaves no labelled node without an object, whatever *)
(* failed before it: a node the loop passes over was bound when it was      *)
(* listed or has been bound by the loop.                                    *)
DoneMeansBound ==
    \A j \in Jobs : job[j].pc = "done" =>
        \A i \in 1 .. Len(NodeList) : Bound(NodeList[i])

(* Why both hold when the job creates the objects alone: an object's name   *)
(* follows from its node, and the loop of a pod has left behind bound nodes *)
(* only, for each of its requests is for the node it stands at.             *)
NamedByNode ==
    /\ \A o \in Objects : o.name = JobName(o.node)
    /\ \A r \in requests : r.object.name = JobName(r.object.node)

OneRequestPerPod ==
    \A r, other \in requests : r.by \in Jobs /\ r.by = other.by => r = other

RequestsFollowLoop ==
    \A r \in requests : r.by \in Jobs =>
        /\ job[r.by].pc = "creating"
        /\ job[r.by].next \in 1 .. Len(NodeList)
        /\ r.object.node = NodeList[job[r.by].next]

LoopLeavesBound ==
    \A j \in Jobs : job[j].pc \in {"creating", "done"} =>
        /\ job[j].next > 0
        /\ \A n \in job[j].known : Bound(n)
        /\ \A i \in 1 .. Len(NodeList) : i < job[j].next => Bound(NodeList[i])

JobInv ==
    /\ TypeOK
    /\ NamedByNode
    /\ OneRequestPerPod
    /\ RequestsFollowLoop
    /\ LoopLeavesBound
    /\ DoneMeansBound

(* CreateLocalStorages creates the object of a node when there is none: in  *)
(* the end every labelled node whose object may bear the name has one.      *)
EventuallyBound ==
    \A n \in Cluster \ LongNodes :
        (\E i \in 1 .. Len(NodeList) : NodeList[i] = n) => <>Bound(n)
============================================================================
