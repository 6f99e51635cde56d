----------------------- MODULE MCLocalStorageSystem -----------------------
(* LocalStorageSystem on small instances: with the users that each run      *)
(* needs, for the interleavings of two components with caches and queues of *)
(* their own leave no room for all users do.                                *)
EXTENDS LocalStorageSystem, TLC

CONSTANT MaxLag     \* no running component is more versions behind than this

BoundedLag ==
    /\ up => Len(log) - notified <= MaxLag
    /\ ctlUp => Len(log) - ctlNotified <= MaxLag

With(user) ==
    \/ PluginNext /\ UNCHANGED ctlVars
    \/ ControllerNext /\ UNCHANGED pluginVars
    \/ (user \/ LateArrives) /\ UNCHANGED << pluginVars, ctlVars >>

(* Creates the object with a path and deletes it. *)
Deleter == UserCreate(TRUE, FALSE, NoAnnotation) \/ UserDelete

(* Creates the object without a backend, or with a path, adds the path      *)
(* later, and deletes it.                                                   *)
Editor ==
    \/ \E path \in BOOLEAN : UserCreate(path, FALSE, NoAnnotation)
    \/ Exists /\ UserEdit([Current EXCEPT !.path = TRUE])
    \/ UserDelete

DeleterSafety == SysInit /\ [][With(Deleter)]_sysVars

EditorSpec ==
    SysInit /\ [][With(Editor)]_sysVars /\ PluginFairness /\ ControllerFairness
============================================================================
