------------------------ MODULE MCControllerManager ------------------------
(* ControllerManager on small instances. *)
EXTENDS ControllerManager

(* A process that is left to itself after the signal, and whose renewals    *)
(* succeed.                                                                 *)
UndisturbedNext ==
    \/ \E p \in Processes : Start(p) \/ LeaseWritten(p) \/ ReplyHeard(p) \/ Signal(p)
    \/ Tick

UndisturbedSpec ==
    /\ Init /\ [][UndisturbedNext]_vars
    /\ WF_vars(Tick)
    /\ \A p \in Processes :
          WF_vars(Start(p)) /\ SF_vars(LeaseWritten(p)) /\ SF_vars(ReplyHeard(p))
============================================================================
