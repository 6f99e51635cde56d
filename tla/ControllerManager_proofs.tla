---------------------- MODULE ControllerManager_proofs ----------------------
(***************************************************************************)
(* Proof of how long two storage controllers may run side by side, for any *)
(* number of processes, all periods client-go admits and any MaxDelay; and *)
(* that they never do where replies are prompt.                            *)
(***************************************************************************)
EXTENDS ControllerManager, TLAPS

USE LeaseAssumption, DelayAssumption, ProcessAssumption

LEMMA ClockBounds ==
  /\ LongestRun \in Nat
  /\ 0 \in 0 .. RenewDeadline + RetryPeriod
  /\ RenewDeadline \in 0 .. RenewDeadline + RetryPeriod
  /\ RenewDeadline + RetryPeriod \in 0 .. RenewDeadline + RetryPeriod
  /\ 0 \in 0 .. MaxDelay
  /\ 0 \in 0 .. LeaseDuration
  /\ LeaseDuration \in 0 .. LeaseDuration
  /\ 0 \in 0 .. LongestRun
  /\ LongestRun \in 0 .. LongestRun
<1>1. LongestRun \in Nat
  BY DEF LongestRun
<1>2. RenewDeadline + RetryPeriod \in Nat
  OBVIOUS
<1> QED
  BY <1>1, <1>2

LEMMA InitLeaseInv == Init => LeaseInv
<1> SUFFICES ASSUME Init PROVE LeaseInv
  OBVIOUS
<1>1. TypeOK
  BY ClockBounds DEF Init, TypeOK
<1> QED
  BY <1>1 DEF Init, LeaseInv, WorkingInTime, WaitingInTime, DriftsAllowed

(* The clocks of one process, as numbers. *)
LEMMA Clocks ==
  ASSUME TypeOK, NEW p \in Processes
  PROVE  left[p] \in Nat /\ delay[p] \in Nat /\ delay[p] <= MaxDelay
         /\ age \in Nat /\ age <= LeaseDuration /\ taken \in Nat
  BY ClockBounds DEF TypeOK

(* The lease is taken when its holder has not written it for LeaseDuration: *)
(* whoever still takes it for his own has little time left.                 *)
LEMMA LeaseWrittenInv ==
  ASSUME LeaseInv, NEW p \in Processes, LeaseWritten(p)
  PROVE  LeaseInv'
<1>1. TypeOK'
  <2>1. delay' \in [Processes -> 0 .. MaxDelay]
    BY ClockBounds DEF LeaseWritten, LeaseInv, TypeOK
  <2>2. age' \in 0 .. LeaseDuration /\ taken' \in 0 .. LongestRun
    BY ClockBounds DEF LeaseWritten, LeaseInv, TypeOK
  <2> QED
    BY <2>1, <2>2 DEF LeaseWritten, LeaseInv, TypeOK
<1>2. WorkingInTime'
  <2> SUFFICES ASSUME NEW q \in working'
               PROVE  /\ holder' = q => age' + left'[q] <= LongestRun
                      /\ holder' # q => LeaseDuration + taken' + left'[q] <= LongestRun
    BY DEF WorkingInTime
  <2>1. q \in working /\ q \in Processes /\ left'[q] = left[q]
    BY DEF LeaseWritten, LeaseInv, TypeOK
  <2>2. left[q] \in Nat /\ age \in Nat /\ age <= LeaseDuration /\ taken \in Nat
    BY <2>1, Clocks DEF LeaseInv
  <2>3. /\ holder = q => age + left[q] <= LongestRun
        /\ holder # q => LeaseDuration + taken + left[q] <= LongestRun
    BY <2>1 DEF LeaseInv, WorkingInTime
  <2>4. LongestRun \in Nat
    BY ClockBounds
  <2>5. CASE holder = p
    BY <2>1, <2>2, <2>3, <2>4, <2>5 DEF LeaseWritten
  <2>6. CASE holder # p
    <3>1. LeaseOut
      BY <2>6 DEF LeaseWritten, Holds
    <3>2. holder = q => LeaseDuration <= age
      BY <2>1, <3>1 DEF LeaseOut
    <3>3. holder' = p /\ age' = 0 /\ taken' = 0
      BY <2>6 DEF LeaseWritten
    <3> QED
      BY <2>1, <2>2, <2>3, <2>4, <3>2, <3>3
  <2> QED
    BY <2>5, <2>6
<1>3. WaitingInTime'
  <2> SUFFICES ASSUME NEW q \in waiting'
               PROVE  /\ holder' = q => age' <= delay'[q]
                      /\ holder' # q => LeaseDuration + taken' <= delay'[q]
    BY DEF WaitingInTime
  <2>1. q \in Processes
    BY DEF LeaseWritten, LeaseInv, TypeOK
  <2>2. CASE q = p
    BY <2>1, <2>2 DEF LeaseWritten, LeaseInv, TypeOK
  <2>3. CASE q # p
    <3>1. q \in waiting /\ delay'[q] = delay[q]
      BY <2>1, <2>3 DEF LeaseWritten, LeaseInv, TypeOK
    <3>2. delay[q] \in Nat /\ age \in Nat /\ age <= LeaseDuration /\ taken \in Nat
      BY <2>1, Clocks DEF LeaseInv
    <3>3. /\ holder = q => age <= delay[q]
          /\ holder # q => LeaseDuration + taken <= delay[q]
      BY <3>1 DEF LeaseInv, WaitingInTime
    <3>4. CASE holder = p
      BY <2>3, <3>1, <3>2, <3>3, <3>4 DEF LeaseWritten
    <3>5. CASE holder # p
      <4>1. holder = q => LeaseDuration <= age
        BY <2>1, <3>5 DEF LeaseWritten, Holds, LeaseOut
      <4>2. holder' = p /\ age' = 0 /\ taken' = 0
        BY <3>5 DEF LeaseWritten
      <4> QED
        BY <2>3, <3>1, <3>2, <3>3, <4>1, <4>2
    <3> QED
      BY <3>4, <3>5
  <2> QED
    BY <2>2, <2>3
<1>4. DriftsAllowed'
  BY DEF LeaseWritten, DriftsAllowed
<1> QED
  BY <1>1, <1>2, <1>3, <1>4 DEF LeaseInv

(* A reply is MaxDelay late at most, and gives RenewDeadline and            *)
(* RetryPeriod at most.                                                     *)
LEMMA ReplyHeardInv ==
  ASSUME LeaseInv, NEW p \in Processes, ReplyHeard(p)
  PROVE  LeaseInv'
<1>1. TypeOK'
  BY ClockBounds DEF ReplyHeard, lease, LeaseInv, TypeOK
<1>2. WorkingInTime'
  <2> SUFFICES ASSUME NEW q \in working'
               PROVE  /\ holder' = q => age' + left'[q] <= LongestRun
                      /\ holder' # q => LeaseDuration + taken' + left'[q] <= LongestRun
    BY DEF WorkingInTime
  <2>1. holder' = holder /\ age' = age /\ taken' = taken
    BY DEF ReplyHeard, lease
  <2>2. CASE q = p
    <3>1. left'[p] \in Nat /\ left'[p] <= RenewDeadline + RetryPeriod
      BY DEF ReplyHeard, LeaseInv, TypeOK
    <3>2. delay[p] \in Nat /\ delay[p] <= MaxDelay /\ age \in Nat /\ taken \in Nat
      BY Clocks DEF LeaseInv
    <3>3. /\ holder = p => age <= delay[p]
          /\ holder # p => LeaseDuration + taken <= delay[p]
      BY DEF ReplyHeard, LeaseInv, WaitingInTime
    <3> QED
      BY <2>1, <2>2, <3>1, <3>2, <3>3 DEF LongestRun
  <2>3. CASE q # p
    <3>1. q \in working /\ left'[q] = left[q]
      BY <2>3 DEF ReplyHeard, LeaseInv, TypeOK
    <3> QED
      BY <2>1, <3>1 DEF LeaseInv, WorkingInTime
  <2> QED
    BY <2>2, <2>3
<1>3. WaitingInTime'
  <2>1. \A q \in waiting' : q \in waiting /\ delay'[q] = delay[q]
    BY DEF ReplyHeard, LeaseInv, TypeOK
  <2> QED
    BY <2>1 DEF ReplyHeard, lease, LeaseInv, WaitingInTime
<1>4. DriftsAllowed'
  BY DEF ReplyHeard, lease, LeaseInv, DriftsAllowed, LeaseOut
<1> QED
  BY <1>1, <1>2, <1>3, <1>4 DEF LeaseInv

LEMMA ReplyLostInv ==
  ASSUME LeaseInv, NEW p \in Processes, ReplyLost(p)
  PROVE  LeaseInv'
<1>1. TypeOK'
  BY ClockBounds DEF ReplyLost, lease, LeaseInv, TypeOK
<1>2. \A q \in waiting' : q \in waiting /\ delay'[q] = delay[q]
  BY DEF ReplyLost, LeaseInv, TypeOK
<1>3. WaitingInTime'
  BY <1>2 DEF ReplyLost, lease, LeaseInv, WaitingInTime
<1> QED
  BY <1>1, <1>3 DEF ReplyLost, lease, LeaseInv, WorkingInTime, DriftsAllowed, LeaseOut

(* A process that goes takes its controller with it. *)
LEMMA GoneInv ==
  ASSUME LeaseInv, NEW p \in Processes, Gone(p), troubles' \in Nat
  PROVE  LeaseInv'
<1>1. TypeOK'
  <2>1. drifting' \in BOOLEAN
    BY DEF Gone, LeaseInv, TypeOK
  <2>2. pc' \in [Processes -> {"down", "up", "stopping"}]
    BY DEF Gone, LeaseInv, TypeOK
  <2> QED
    BY <2>1, <2>2, ClockBounds DEF Gone, LeaseInv, TypeOK
<1>2. \A q \in Processes \ {p} : (holder' = q <=> holder = q)
  BY DEF Gone
<1>3. /\ \A q \in working' : q \in Processes \ {p} /\ q \in working /\ left'[q] = left[q]
      /\ \A q \in waiting' : q \in Processes \ {p} /\ q \in waiting /\ delay'[q] = delay[q]
      /\ age' = age /\ taken' = taken
  BY DEF Gone, LeaseInv, TypeOK
<1>4. WorkingInTime' /\ WaitingInTime'
  BY <1>2, <1>3 DEF LeaseInv, WorkingInTime, WaitingInTime
<1>5. DriftsAllowed'
  <2> SUFFICES ASSUME drifting' PROVE holder' = Former \/ LeaseOut'
    BY DEF DriftsAllowed
  <2>1. drifting \/ holder = p \/ LeaseOut
    BY DEF Gone, LeaseInv, TypeOK
  <2>2. holder = Former \/ holder = p \/ LeaseOut
    BY <2>1 DEF LeaseInv, DriftsAllowed
  <2> QED
    BY <2>2 DEF Gone, LeaseOut
<1> QED
  BY <1>1, <1>4, <1>5 DEF LeaseInv

LEMMA DriftingArrivesInv ==
  ASSUME LeaseInv, DriftingArrives
  PROVE  LeaseInv'
<1>1. TypeOK'
  BY ClockBounds DEF DriftingArrives, LeaseInv, TypeOK
<1>2. ASSUME NEW q \in Processes
      PROVE  /\ holder' # q
             /\ q \in working => LeaseDuration + taken' + left[q] <= LongestRun
             /\ q \in waiting => LeaseDuration + taken' <= delay[q]
  <2>1. holder' = Former /\ Former # q
    BY DEF DriftingArrives
  <2>2. /\ left[q] \in Nat /\ delay[q] \in Nat
        /\ age \in Nat /\ age <= LeaseDuration /\ taken \in Nat
    BY Clocks DEF LeaseInv
  <2>3. /\ q \in working => /\ holder = q => age + left[q] <= LongestRun
                            /\ holder # q => LeaseDuration + taken + left[q] <= LongestRun
        /\ q \in waiting => /\ holder = q => age <= delay[q]
                            /\ holder # q => LeaseDuration + taken <= delay[q]
    BY DEF LeaseInv, WorkingInTime, WaitingInTime
  <2>4. LongestRun \in Nat
    BY ClockBounds
  <2>5. CASE holder = Former
    BY <2>1, <2>2, <2>3, <2>5 DEF DriftingArrives
  <2>6. CASE holder # Former
    <3>1. holder = q => LeaseDuration <= age
      BY <2>6 DEF DriftingArrives, LeaseInv, DriftsAllowed, LeaseOut
    <3>2. taken' = 0
      BY <2>6 DEF DriftingArrives
    <3> QED
      BY <2>1, <2>2, <2>3, <2>4, <3>1, <3>2
  <2> QED
    BY <2>5, <2>6
<1>3. WorkingInTime' /\ WaitingInTime'
  BY <1>2 DEF DriftingArrives, LeaseInv, TypeOK, WorkingInTime, WaitingInTime
<1>4. DriftsAllowed'
  BY DEF DriftingArrives, DriftsAllowed
<1> QED
  BY <1>1, <1>3, <1>4 DEF LeaseInv

LEMMA TickInv == LeaseInv /\ Tick => LeaseInv'
<1> SUFFICES ASSUME LeaseInv, Tick PROVE LeaseInv'
  OBVIOUS
<1>1. age' \in 0 .. LeaseDuration /\ taken' \in 0 .. LongestRun
  BY ClockBounds DEF Tick, LeaseInv, TypeOK
<1>2. age' <= age + 1 /\ taken' <= taken + 1 /\ age' \in Nat /\ taken' \in Nat
      /\ age \in Nat /\ taken \in Nat
  BY ClockBounds, <1>1 DEF Tick, LeaseInv, TypeOK
<1>3. ASSUME NEW p \in working
      PROVE  left[p] \in Nat /\ left'[p] = left[p] - 1 /\ left[p] > 0
  BY DEF Tick, LeaseInv, TypeOK
<1>4. ASSUME NEW p \in waiting
      PROVE  delay[p] \in Nat /\ delay'[p] = delay[p] + 1 /\ delay[p] < MaxDelay
  BY DEF Tick, LeaseInv, TypeOK
<1>5. TypeOK'
  <2>1. ASSUME NEW p \in Processes
        PROVE  left'[p] \in 0 .. RenewDeadline + RetryPeriod
    <3>1. left[p] \in 0 .. RenewDeadline + RetryPeriod
      BY DEF LeaseInv, TypeOK
    <3>2. p \notin working => left'[p] = left[p]
      BY DEF Tick
    <3> QED
      BY <1>3, <3>1, <3>2
  <2>2. ASSUME NEW p \in Processes PROVE delay'[p] \in 0 .. MaxDelay
    <3>1. delay[p] \in 0 .. MaxDelay
      BY DEF LeaseInv, TypeOK
    <3>2. p \notin waiting => delay'[p] = delay[p]
      BY DEF Tick
    <3> QED
      BY <1>4, <3>1, <3>2
  <2>3. /\ left' \in [Processes -> 0 .. RenewDeadline + RetryPeriod]
        /\ delay' \in [Processes -> 0 .. MaxDelay]
    BY <2>1, <2>2 DEF Tick
  <2> QED
    BY <1>1, <2>3 DEF Tick, LeaseInv, TypeOK
<1>6. WorkingInTime'
  <2> SUFFICES ASSUME NEW p \in working
               PROVE  /\ holder = p => age' + left'[p] <= LongestRun
                      /\ holder # p => LeaseDuration + taken' + left'[p] <= LongestRun
    BY DEF Tick, WorkingInTime
  <2>1. /\ holder = p => age + left[p] <= LongestRun
        /\ holder # p => LeaseDuration + taken + left[p] <= LongestRun
    BY DEF LeaseInv, WorkingInTime
  <2> QED
    BY <1>2, <1>3, <2>1, ClockBounds
<1>7. WaitingInTime'
  <2> SUFFICES ASSUME NEW p \in waiting
               PROVE  /\ holder = p => age' <= delay'[p]
                      /\ holder # p => LeaseDuration + taken' <= delay'[p]
    BY DEF Tick, WaitingInTime
  <2>1. /\ holder = p => age <= delay[p]
        /\ holder # p => LeaseDuration + taken <= delay[p]
    BY DEF LeaseInv, WaitingInTime
  <2> QED
    BY <1>2, <1>4, <2>1
<1>8. DriftsAllowed'
  BY DEF Tick, LeaseInv, TypeOK, DriftsAllowed, LeaseOut
<1> QED
  BY <1>5, <1>6, <1>7, <1>8 DEF LeaseInv

LEMMA OtherStepsInv ==
  ASSUME LeaseInv, (\E p \in Processes : Start(p) \/ Signal(p)) \/ UNCHANGED vars
  PROVE  LeaseInv'
<1>1. UNCHANGED << working, left, waiting, delay, holder, age, taken, drifting >>
  BY DEF Start, Signal, vars, lease
<1>2. TypeOK'
  BY <1>1 DEF Start, Signal, vars, lease, LeaseInv, TypeOK
<1> QED
  BY <1>1, <1>2 DEF LeaseInv, WorkingInTime, WaitingInTime, DriftsAllowed, LeaseOut

(* The invariant of the election (leaderelection.RunOrDie and the callbacks *)
(* of the command).                                                         *)
THEOREM LeaseInvariant == Spec => []LeaseInv
<1>1. LeaseInv /\ [Next]_vars => LeaseInv'
  <2> SUFFICES ASSUME LeaseInv, [Next]_vars PROVE LeaseInv'
    OBVIOUS
  <2>1. ASSUME NEW p \in Processes, LoseLeadership(p) \/ Crash(p) \/ Killed(p)
        PROVE  LeaseInv'
    <3>1. Gone(p) /\ troubles' \in Nat
      BY <2>1 DEF LoseLeadership, Crash, Killed, LeaseInv, TypeOK
    <3> QED
      BY <3>1, GoneInv
  <2>2. ASSUME NEW p \in Processes, ProcessNext(p) \/ Killed(p)
        PROVE  LeaseInv'
    BY <2>1, <2>2, LeaseWrittenInv, ReplyHeardInv, ReplyLostInv, OtherStepsInv
       DEF ProcessNext
  <2> QED
    BY <2>2, DriftingArrivesInv, TickInv, OtherStepsInv DEF Next
<1> QED
  BY InitLeaseInv, <1>1, PTL DEF Spec

(* A controller whose process has lost the lease ends within what LongestRun *)
(* is longer than LeaseDuration, whatever the periods and the delays.        *)
THEOREM ManagerOverlapBounded == Spec => []OverlapBounded
<1>1. LeaseInv => OverlapBounded
  <2> SUFFICES ASSUME LeaseInv, NEW p \in working, holder # p
               PROVE  LeaseDuration + taken <= LongestRun
    BY DEF OverlapBounded
  <2>1. left[p] \in Nat /\ taken \in Nat /\ LongestRun \in Nat
    BY Clocks, ClockBounds DEF LeaseInv, TypeOK
  <2>2. LeaseDuration + taken + left[p] <= LongestRun
    BY DEF LeaseInv, WorkingInTime
  <2> QED
    BY <2>1, <2>2
<1> QED
  BY LeaseInvariant, <1>1, PTL

(* Where replies are prompt, two storage controllers never run at once: of  *)
(* two that ran, one would not hold the lease.                              *)
THEOREM ManagerAtMostOneController ==
  ASSUME MaxDelay + RenewDeadline + RetryPeriod < LeaseDuration
  PROVE  Spec => []AtMostOneController
<1>1. TypeOK /\ OverlapBounded => AtMostOneController
  <2> SUFFICES ASSUME TypeOK, OverlapBounded, NEW p \in working, NEW q \in working, p # q
               PROVE  FALSE
    BY DEF AtMostOneController
  <2>1. holder # p \/ holder # q
    OBVIOUS
  <2>2. LeaseDuration + taken <= LongestRun
    BY <2>1 DEF OverlapBounded
  <2>3. taken \in Nat
    BY ClockBounds DEF TypeOK
  <2> QED
    BY <2>2, <2>3 DEF LongestRun
<1>2. LeaseInv => TypeOK
  BY DEF LeaseInv
<1> QED
  BY LeaseInvariant, ManagerOverlapBounded, <1>1, <1>2, PTL
=============================================================================
