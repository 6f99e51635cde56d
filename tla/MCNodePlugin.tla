--------------------------- MODULE MCNodePlugin ---------------------------
(* NodePlugin on small instances. *)
EXTENDS NodePlugin, TLC

Symmetry == Permutations(VolIDs)

CONSTANT MaxEdits   \* users edit more than the finalizers up to this version

(* The life of an object, from creation to removal and to a second one of   *)
(* the same name: first users write all they may, later they only delete,   *)
(* take the finalizer off and create.                                       *)
LifecycleUser ==
    \/ Len(log) < MaxEdits /\ UserNext
    \/ UserCreate(TRUE, FALSE, NoAnnotation)
    \/ UserDelete
    \/ Exists /\ UserEdit([Current EXCEPT !.finalizer = FALSE])
    \/ LateArrives

LifecycleSpec ==
    Init /\ [][PluginNext \/ (LifecycleUser /\ UNCHANGED pluginVars)]_vars
============================================================================
