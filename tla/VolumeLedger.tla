--------------------------- MODULE VolumeLedger ---------------------------
(***************************************************************************)
(* What the LocalStorage object of a node promises as a ledger of volumes, *)
(* without caches, queues, retries or crashes: a volume is entered once,   *)
(* taken out once and never entered again, and the free space moves with   *)
(* every entry, by exactly its size, in the same step.                     *)
(*                                                                         *)
(* Initialisation states the capacity and declares all of it free, what-   *)
(* ever is entered at that moment: the plugin's sync has no guard on it.   *)
(***************************************************************************)
EXTENDS Integers

CONSTANTS VolIDs, Sizes, NoQuantity

VARIABLES
    entries,    \* the volumes in the ledger, [id, size]
    past,       \* the IDs of volumes that have been in it and are not now
    free        \* the free space, NoQuantity before initialisation

ledger == << entries, past, free >>

IDs == {v.id : v \in entries}

Init ==
    /\ entries = {}
    /\ past = {}
    /\ free = NoQuantity

Initialize ==
    /\ free' \in Nat
    /\ UNCHANGED << entries, past >>

Enter(id, size) ==
    /\ free # NoQuantity
    /\ id \notin IDs \cup past
    /\ entries' = entries \cup {[id |-> id, size |-> size]}
    /\ free' = free - size
    /\ UNCHANGED past

TakeOut(v) ==
    /\ entries' = entries \ {v}
    /\ past' = past \cup {v.id}
    /\ free' = free + v.size

(* The object is removed, and with it all its entries. *)
Close ==
    /\ entries' = {}
    /\ past' = past \cup IDs
    /\ free' = NoQuantity

Next ==
    \/ Initialize
    \/ \E id \in VolIDs, size \in Sizes : Enter(id, size)
    \/ \E v \in entries : TakeOut(v)
    \/ Close

Spec == Init /\ [][Next]_ledger
============================================================================
