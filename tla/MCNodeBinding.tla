--------------------------- MODULE MCNodeBinding ---------------------------
(* NodeBinding on small instances. *)
EXTENDS NodeBinding

CONSTANTS n1, n2

TwoNodes == << n1, n2 >>

(* One request at a time, and a cache that catches up before anything else  *)
(* happens: what is left of Next without the races.                         *)
SerialNext ==
    /\ Next
    /\ Cardinality(requests') <= 1
    /\ listed < Len(history) => listed' = listed + 1

SerialSpec == Init /\ [][SerialNext]_vars
============================================================================
