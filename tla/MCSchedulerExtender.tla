------------------------ MODULE MCSchedulerExtender ------------------------
(* SchedulerExtender on small instances. *)
EXTENDS SchedulerExtender

CONSTANTS n1, n2, p1, p2, p3

Local(size)  == [size |-> size, local |-> TRUE]
Remote(size) == [size |-> size, local |-> FALSE]

EqualNodes   == [n \in Nodes |-> 4]
UnequalNodes == [n \in Nodes |-> IF n = n1 THEN 4 ELSE 3]

(* p1's first claim is not local; p3 fits on n1 only, and fills it. *)
OneClaimEach ==
    [p \in Pods |-> CASE p = p1 -> << Remote(9), Local(2) >>
                      [] p = p2 -> << Local(3) >>
                      [] OTHER  -> << Local(4) >>]

(* p1's first claim is not local, and Filter looks at one of the other two;  *)
(* p2 fits on n1 only, and fills it.                                         *)
TwoPods ==
    [p \in Pods |-> IF p = p1 THEN << Remote(9), Local(2), Local(1) >> ELSE << Local(4) >>]

SmallClaims == [p \in Pods |-> IF p = p1 THEN << Local(2) >> ELSE << Local(1) >>]

TwoClaims == [p \in Pods |-> << Local(1), Local(4) >>]

(* Pods that come to stay, one by one, on nodes that are ready and known to *)
(* be, and an extender that always answers.                                 *)
ReadyInit ==
    /\ history = << [n \in Nodes |-> [ready |-> TRUE, capacity |-> Capacity[n],
                                      allocatable |-> Capacity[n]]] >>
    /\ arrived = {}
    /\ pod = [p \in Pods |-> [pc |-> "pending", nodes |-> {}]]
    /\ volumes = {}
    /\ removed = {}
    /\ redeclared = 0
    /\ given = [n \in Nodes |-> 0]
    /\ overtaken = {}

SpreadNext ==
    \/ \E p \in Pods : Filter(p) \/ Prioritize(p) \/ \E n \in Nodes : Assign(p, n)
    \/ PluginNext
    \/ InformerNext

SpreadSpec == ReadyInit /\ [][SpreadNext /\ overtaken' = {}]_vars
============================================================================
