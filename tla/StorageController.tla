------------------------- MODULE StorageController -------------------------
(***************************************************************************)
(* The storage controller (pkg/controller/storage), run by the controller  *)
(* manager: it marks a LocalStorage object that is being deleted as        *)
(* Terminating and a Pending one as Initiating.  It has an informer and a  *)
(* work queue of its own; the five workers never hold one key twice.       *)
(***************************************************************************)
EXTENDS ApiServer, WorkQueue

VARIABLES
    ctlUp,        \* the manager process runs and leads
    ctlSeen,      \* the log position of the informer's cache
    ctlNotified,  \* the log position the event handlers have been called up to
    ctlQueue,     \* the object's key in the work queue
    ctlOp         \* the Update of the worker that holds the key, if any

ctlVars == << ctlUp, ctlSeen, ctlNotified, ctlQueue, ctlOp >>

NoUpdate == [rv |-> 0, new |-> NoObject]

TypeOKController ==
    /\ ctlUp \in BOOLEAN
    /\ ctlSeen \in 1 .. Len(log)
    /\ ctlNotified \in 0 .. ctlSeen
    /\ ctlQueue \in Queue
    /\ ctlOp \in [rv : 0 .. Len(log), new : LocalStorage \cup {NoObject}]

InitController ==
    /\ ctlUp = TRUE
    /\ ctlSeen = Len(log)
    /\ ctlNotified = Len(log)
    /\ ctlQueue = EmptyQueue
    /\ ctlOp = NoUpdate

CtlCached == log[ctlSeen]

CtlDeliver ==
    /\ ctlUp
    /\ ctlSeen < Len(log)
    /\ ctlSeen' = ctlSeen + 1
    /\ UNCHANGED << apiVars, ctlUp, ctlNotified, ctlQueue, ctlOp >>

(* Slip: the plugin's filter, in front of the controller's handlers. *)
CtlNotifyAssigned ==
    /\ ctlUp
    /\ ctlNotified < ctlSeen
    /\ ctlNotified' = ctlNotified + 1
    /\ LET version == log[ctlNotified']
       IN  ctlQueue' = IF version # NoObject /\ AssignedLocalstorage(version)
                       THEN Add(ctlQueue) ELSE ctlQueue
    /\ UNCHANGED << apiVars, ctlUp, ctlSeen, ctlOp >>

(* addStorage, updateStorage and deleteStorage all enqueue. *)
CtlNotify ==
    /\ ctlUp
    /\ ctlNotified < ctlSeen
    /\ ctlNotified' = ctlNotified + 1
    /\ ctlQueue' = Add(ctlQueue)
    /\ UNCHANGED << apiVars, ctlUp, ctlSeen, ctlOp >>

CtlResync ==
    /\ ctlUp
    /\ ctlNotified = ctlSeen
    /\ CtlCached # NoObject
    /\ ctlQueue' = Add(ctlQueue)
    /\ UNCHANGED << apiVars, ctlUp, ctlSeen, ctlNotified, ctlOp >>

CtlRetryTimer ==
    /\ ctlUp
    /\ ctlQueue.waiting
    /\ ctlQueue' = TimerFires(ctlQueue)
    /\ UNCHANGED << apiVars, ctlUp, ctlSeen, ctlNotified, ctlOp >>

CtlFinish(ok) ==
    /\ ctlOp' = NoUpdate
    /\ ctlQueue' = HandleErr(ctlQueue, ok)

(* Slip: only an object still being set up is torn down. *)
WantedPhaseAssigned(l) ==
    IF l.deleting /\ AssignedLocalstorage(l) THEN "Terminating"
    ELSE IF LocalStorageIsPending(l) THEN "Initiating"
    ELSE l.phase

(* The phase syncStorage wants the object to have. *)
WantedPhase(l) ==
    IF l.deleting THEN "Terminating"
    ELSE IF LocalStorageIsPending(l) THEN "Initiating"
    ELSE l.phase

(* A worker takes the key and reads the cache: nothing to do ... *)
CtlSyncNothing ==
    /\ ctlUp
    /\ CanGet(ctlQueue)
    /\ CtlCached # NoObject => WantedPhase(CtlCached) = CtlCached.phase
    /\ ctlQueue' = HandleErr(Get(ctlQueue), TRUE)
    /\ UNCHANGED << apiVars, ctlUp, ctlSeen, ctlNotified, ctlOp >>

(* ... or a phase to write. *)
CtlSyncBegin ==
    /\ ctlUp
    /\ CanGet(ctlQueue)
    /\ CtlCached # NoObject
    /\ WantedPhase(CtlCached) # CtlCached.phase
    /\ ctlQueue' = Get(ctlQueue)
    /\ ctlOp' = [ rv  |-> ctlSeen,
                  new |-> SetLocalStoragePhase(CtlCached, WantedPhase(CtlCached)) ]
    /\ UNCHANGED << apiVars, ctlUp, ctlSeen, ctlNotified >>

CtlWriting == ctlUp /\ ctlOp # NoUpdate

(* Slip: the copy is written over whatever version is there. *)
CtlWrittenOver ==
    /\ CtlWriting
    /\ Update(Len(log), ctlOp.new)
    /\ CtlFinish(TRUE)
    /\ UNCHANGED << ctlUp, ctlSeen, ctlNotified >>

CtlWritten ==
    /\ CtlWriting
    /\ Update(ctlOp.rv, ctlOp.new)
    /\ CtlFinish(TRUE)
    /\ UNCHANGED << ctlUp, ctlSeen, ctlNotified >>

CtlRefused ==
    /\ CtlWriting
    /\ CtlFinish(FALSE)
    /\ UNCHANGED << apiVars, ctlUp, ctlSeen, ctlNotified >>

CtlAbandoned ==
    /\ CtlWriting
    /\ Abandon(ctlOp.rv, ctlOp.new)
    /\ CtlFinish(FALSE)
    /\ UNCHANGED << ctlUp, ctlSeen, ctlNotified >>

(* The manager dies or loses its lease, and it or another one leads again.  *)
CtlCrash ==
    /\ ctlUp
    /\ ctlUp' = FALSE
    /\ ctlSeen' = 1
    /\ ctlNotified' = 0
    /\ ctlQueue' = EmptyQueue
    /\ ctlOp' = NoUpdate
    /\ \/ UNCHANGED apiVars
       \/ CtlWriting /\ Abandon(ctlOp.rv, ctlOp.new)

CtlRestart ==
    /\ ~ctlUp
    /\ ctlUp' = TRUE
    /\ ctlSeen' = Len(log)
    /\ ctlNotified' = Len(log) - 1
    /\ UNCHANGED << apiVars, ctlQueue, ctlOp >>

ControllerNext ==
    \/ CtlDeliver \/ CtlNotify \/ CtlResync \/ CtlRetryTimer
    \/ CtlSyncNothing \/ CtlSyncBegin
    \/ CtlWritten \/ CtlRefused \/ CtlAbandoned
    \/ CtlCrash \/ CtlRestart

----------------------------------------------------------------------------
(* The last version wants a phase, the handlers have been told of it, and   *)
(* nothing is left in the queue that leads to a sync of it.                 *)
CtlForgotten ==
    /\ ctlUp
    /\ Exists
    /\ WantedPhase(Current) # Current.phase
    /\ ctlNotified = Len(log)
    /\ ~ctlQueue.dirty /\ ~ctlQueue.processing /\ ~ctlQueue.waiting

(* A deletion that the plugin's Ready overtook, or that was requested while *)
(* a worker wrote another phase, is not lost: only handleErr, after         *)
(* maxRetries failures in a row, gives the key of such an object up.        *)
CtlSyncsNotForgotten ==
    [][CtlForgotten' =>
          \/ CtlForgotten
          \/ /\ ctlQueue.processing
             /\ ctlQueue.requeues = MaxRetries
             /\ UNCHANGED log]_<< apiVars, ctlVars >>
============================================================================
