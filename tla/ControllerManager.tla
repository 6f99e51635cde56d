------------------------- MODULE ControllerManager -------------------------
(***************************************************************************)
(* The processes of the controller (cmd/localstorage-controller): each     *)
(* serves the webhooks, and the leader among them runs the storage         *)
(* controller.  There is one by the manifests; there are two while it is   *)
(* rolled out, or when it is scaled up.                                    *)
(*                                                                         *)
(* Time is in ticks, as long as LeaseDuration, RenewDeadline and           *)
(* RetryPeriod are given in (seconds); the election itself is client-go's. *)
(* A leader's deadline runs from the reply it has heard, everyone else's   *)
(* respect of the lease from the write that the reply answers: how long    *)
(* two controllers may run side by side depends on how late a reply comes. *)
(***************************************************************************)
EXTENDS Naturals

CONSTANTS
    Processes,
    Nobody,         \* the lease has never been held
    Former,         \* ... was last written by a process that is gone
    LeaseDuration,  \* how long others respect a lease that is not renewed
    RenewDeadline,  \* how long a leader tries to renew it
    RetryPeriod,    \* the pause between renewals
    MaxDelay,       \* a reply comes so many ticks after the write at most, or never
    MaxTroubles     \* at most so many crashes and signals

(* What NewLeaderElector checks of the periods, whose JitterFactor is 1.2.  *)
ASSUME LeaseAssumption ==
    /\ LeaseDuration \in Nat \ {0}
    /\ RenewDeadline \in Nat \ {0}
    /\ RetryPeriod \in Nat \ {0}
    /\ LeaseDuration > RenewDeadline
    /\ 5 * RenewDeadline > 6 * RetryPeriod

ASSUME DelayAssumption == MaxDelay \in Nat

ASSUME ProcessAssumption == Nobody \notin Processes /\ Former \notin Processes

(* How long a controller may run after its process has last written the     *)
(* lease: until the reply, and what the process gives itself from there.    *)
LongestRun == MaxDelay + RenewDeadline + RetryPeriod

VARIABLES
    pc,         \* "down", "up", or "stopping" after the first signal
    working,    \* the processes whose storage controller runs
    left,       \* ticks until such a process must have heard of a renewal
    waiting,    \* the processes whose write is stored, the reply to come
    delay,      \* ... and the ticks since that write
    holder,     \* the lease: who wrote it last,
    age,        \* ... ticks since (all beyond LeaseDuration are one),
    taken,      \* ... ticks since its holder changed (beyond LongestRun: one)
    drifting,   \* whether a write of a process that is gone is on its way
    troubles

lease == << holder, age, taken, drifting >>
vars == << pc, working, left, waiting, delay, lease, troubles >>

TypeOK ==
    /\ pc \in [Processes -> {"down", "up", "stopping"}]
    /\ working \subseteq Processes
    /\ left \in [Processes -> 0 .. RenewDeadline + RetryPeriod]
    /\ waiting \subseteq Processes
    /\ delay \in [Processes -> 0 .. MaxDelay]
    /\ holder \in Processes \cup {Nobody, Former}
    /\ age \in 0 .. LeaseDuration
    /\ taken \in 0 .. LongestRun
    /\ drifting \in BOOLEAN
    /\ troubles \in Nat

Init ==
    /\ pc = [p \in Processes |-> "down"]
    /\ working = {}
    /\ left = [p \in Processes |-> 0]
    /\ waiting = {}
    /\ delay = [p \in Processes |-> 0]
    /\ holder = Nobody
    /\ age = LeaseDuration
    /\ taken = LongestRun
    /\ drifting = FALSE
    /\ troubles = 0

----------------------------------------------------------------------------
Start(p) ==
    /\ pc[p] = "down"
    /\ pc' = [pc EXCEPT ![p] = "up"]
    /\ UNCHANGED << working, left, waiting, delay, lease, troubles >>

(* The webhooks are served until the first signal. *)
Serves(p) == pc[p] = "up"

(* Slip: every process has the same identity. *)
HoldsAny(p) == holder # Nobody

(* The identity is unique, also to the process that had the name before.    *)
Holds(p) == holder = p

(* Slip: only a lease nobody has ever held is taken. *)
LeaseFree == holder = Nobody

LeaseOut == holder = Nobody \/ age >= LeaseDuration

(* A write of the lease is stored: conditional on the version its writer    *)
(* has read, it makes all others that are on their way fail.  RetryPeriod   *)
(* goes by between the reply to a renewal and the next one.  The election   *)
(* does not hear of the signal: its context is context.TODO().              *)
LeaseWritten(p) ==
    /\ pc[p] # "down"
    /\ p \notin waiting
    /\ IF p \in working THEN Holds(p) /\ left[p] <= RenewDeadline
                        ELSE Holds(p) \/ LeaseOut
    /\ holder' = p
    /\ age' = 0
    /\ taken' = IF holder = p THEN taken ELSE 0
    /\ drifting' = FALSE
    /\ waiting' = waiting \cup {p}
    /\ delay' = [delay EXCEPT ![p] = 0]
    /\ UNCHANGED << pc, working, left, troubles >>

(* The reply: OnStartedLeading for a process that was no leader, and its    *)
(* first renewal is due within RenewDeadline; RetryPeriod later for one     *)
(* that was.                                                                *)
ReplyHeard(p) ==
    /\ p \in waiting
    /\ working' = working \cup {p}
    /\ left' = [left EXCEPT ![p] = IF p \in working THEN RenewDeadline + RetryPeriod
                                                    ELSE RenewDeadline]
    /\ waiting' = waiting \ {p}
    /\ delay' = [delay EXCEPT ![p] = 0]
    /\ UNCHANGED << pc, lease, troubles >>

(* The reply is lost; the process tries again. *)
ReplyLost(p) ==
    /\ p \in waiting
    /\ waiting' = waiting \ {p}
    /\ delay' = [delay EXCEPT ![p] = 0]
    /\ UNCHANGED << pc, working, left, lease, troubles >>

(* The process is gone, its controller and webhooks with it; a write it has *)
(* sent may still arrive.                                                   *)
Gone(p) ==
    /\ pc' = [pc EXCEPT ![p] = "down"]
    /\ working' = working \ {p}
    /\ waiting' = waiting \ {p}
    /\ left' = [left EXCEPT ![p] = 0]
    /\ delay' = [delay EXCEPT ![p] = 0]
    /\ holder' = IF holder = p THEN Former ELSE holder
    /\ drifting' \in {drifting, drifting \/ (p \notin waiting /\ (holder = p \/ LeaseOut))}
    /\ UNCHANGED << age, taken >>

DriftingArrives ==
    /\ drifting
    /\ drifting' = FALSE
    /\ holder' = Former
    /\ age' = 0
    /\ taken' = IF holder = Former THEN taken ELSE 0
    /\ UNCHANGED << pc, working, left, waiting, delay, troubles >>

(* Slip: a process that has lost the election says so and goes on; run      *)
(* never returns.                                                           *)
LoseLeadershipLogs(p) ==
    /\ p \in working
    /\ left[p] = 0
    /\ left' = [left EXCEPT ![p] = RenewDeadline + RetryPeriod]
    /\ UNCHANGED << pc, working, waiting, delay, lease, troubles >>

(* OnStoppedLeading: klog.Fatalf. *)
LoseLeadership(p) ==
    /\ p \in working
    /\ left[p] = 0
    /\ Gone(p)
    /\ UNCHANGED troubles

Crash(p) ==
    /\ troubles < MaxTroubles
    /\ pc[p] # "down"
    /\ Gone(p)
    /\ troubles' = troubles + 1

(* SIGTERM: the context of the signal handler is cancelled and the webhook  *)
(* server stops.  Nothing else of the process has that context.             *)
Signal(p) ==
    /\ troubles < MaxTroubles
    /\ Serves(p)
    /\ pc' = [pc EXCEPT ![p] = "stopping"]
    /\ troubles' = troubles + 1
    /\ UNCHANGED << working, left, waiting, delay, lease >>

(* A second signal, or the kubelet's SIGKILL when the grace period is over. *)
Killed(p) ==
    /\ pc[p] = "stopping"
    /\ Gone(p)
    /\ UNCHANGED troubles

(* A leader gives up as soon as its deadline has come; a reply that is      *)
(* MaxDelay late is heard or lost.                                          *)
Tick ==
    /\ \A p \in working : left[p] > 0
    /\ \A p \in waiting : delay[p] < MaxDelay
    /\ left' = [p \in Processes |-> IF p \in working THEN left[p] - 1 ELSE left[p]]
    /\ delay' = [p \in Processes |-> IF p \in waiting THEN delay[p] + 1 ELSE delay[p]]
    /\ age' = IF age < LeaseDuration THEN age + 1 ELSE age
    /\ taken' = IF taken < LongestRun THEN taken + 1 ELSE taken
    /\ UNCHANGED << pc, working, waiting, holder, drifting, troubles >>

----------------------------------------------------------------------------
ProcessNext(p) ==
    \/ Start(p)
    \/ LeaseWritten(p) \/ ReplyHeard(p) \/ ReplyLost(p) \/ LoseLeadership(p)
    \/ Crash(p) \/ Signal(p)

Next ==
    \/ \E p \in Processes : ProcessNext(p) \/ Killed(p)
    \/ DriftingArrives
    \/ Tick

Spec == Init /\ [][Next]_vars

(* Processes are started again, contend for the lease, and are killed after *)
(* their grace period; a leader that cannot renew exits; time goes on.      *)
(* Renewals need not succeed, but one who writes the lease again and again  *)
(* hears of it in the end.                                                  *)
Fairness ==
    /\ WF_vars(Tick)
    /\ \A p \in Processes :
          /\ WF_vars(Start(p))
          /\ WF_vars(p \notin working /\ LeaseWritten(p))
          /\ SF_vars(p \notin working /\ ReplyHeard(p))
          /\ WF_vars(LoseLeadership(p))
          /\ WF_vars(Killed(p))

FairSpec == Spec /\ Fairness

----------------------------------------------------------------------------
(* A storage controller whose process has lost the lease to another one     *)
(* ends at most LongestRun - LeaseDuration later, however processes come    *)
(* and go, replies are late or lost and the periods are set: the new leader *)
(* has waited for LeaseDuration since the old one's last write.             *)
OverlapBounded ==
    \A p \in working : holder # p => LeaseDuration + taken <= LongestRun

(* Two storage controllers never run at once.  True only where replies are  *)
(* prompt: LongestRun < LeaseDuration.                                      *)
AtMostOneController == \A p, q \in working : p = q

(* The deadline of a controller that runs keeps it within LongestRun of the *)
(* last write of its process; before that write another one waits for       *)
(* LeaseDuration.                                                           *)
WorkingInTime ==
    \A p \in working :
        /\ holder = p => age + left[p] <= LongestRun
        /\ holder # p => LeaseDuration + taken + left[p] <= LongestRun

(* A reply to come is the reply to the lease's last write, or the lease has *)
(* run out and been taken since.                                            *)
WaitingInTime ==
    \A p \in waiting :
        /\ holder = p => age <= delay[p]
        /\ holder # p => LeaseDuration + taken <= delay[p]

(* What a process that is gone may still write: the lease that it had, or   *)
(* one that had run out.                                                    *)
DriftsAllowed == drifting => holder = Former \/ LeaseOut

(* The invariant of the election.                                           *)
LeaseInv == TypeOK /\ WorkingInTime /\ WaitingInTime /\ DriftsAllowed

(* However leaders come and go, there is always a controller again.         *)
AlwaysAgainController == []<>(working # {})

(* "set up signals so we handle the shutdown signal gracefully": a process  *)
(* that has got the signal ends by itself.                                  *)
ShutdownCompletes ==
    \A p \in Processes : pc[p] = "stopping" ~> pc[p] # "stopping"
============================================================================
