----------------------------- MODULE WorkQueue -----------------------------
(***************************************************************************)
(* One key of a client-go rate-limiting work queue, as the plugin and the  *)
(* controller use it: the key is dirty when a sync of it is owed, being    *)
(* processed while a worker holds it (an Add meanwhile is kept and the key *)
(* handed out again after Done), waiting while a rate-limited retry is in  *)
(* the delaying queue, and it has been requeued so many times since Forget.*)
(* The delay of a retry is abstracted: its timer may fire at any moment.   *)
(***************************************************************************)
EXTENDS Naturals

CONSTANT MaxRetries   \* maxRetries, 15 in both components

ASSUME RetriesAssumption == MaxRetries \in Nat

Queue == [ dirty      : BOOLEAN,
           processing : BOOLEAN,
           waiting    : BOOLEAN,
           requeues   : 0 .. MaxRetries ]

EmptyQueue ==
    [dirty |-> FALSE, processing |-> FALSE, waiting |-> FALSE, requeues |-> 0]

Add(q) == [q EXCEPT !.dirty = TRUE]

(* Get hands a key out to one worker at a time. *)
CanGet(q) == q.dirty /\ ~q.processing

Get(q) == [q EXCEPT !.dirty = FALSE, !.processing = TRUE]

Done(q) == [q EXCEPT !.processing = FALSE]

TimerFires(q) == [q EXCEPT !.waiting = FALSE, !.dirty = TRUE]

Forget(q) == [q EXCEPT !.requeues = 0]

AddRateLimited(q) == [q EXCEPT !.waiting = TRUE, !.requeues = @ + 1]

(* Slip: one retry more than the limit. *)
HandleErrOneMore(q, ok) ==
    IF ok \/ q.requeues > MaxRetries THEN Done(Forget(q))
                                     ELSE Done(AddRateLimited(q))

(* handleErr, with the deferred Done of processNextWorkItem: forget the key *)
(* on success, retry it later on an error, and drop it after MaxRetries.    *)
HandleErr(q, ok) ==
    IF ok \/ q.requeues >= MaxRetries THEN Done(Forget(q))
                                      ELSE Done(AddRateLimited(q))
============================================================================
