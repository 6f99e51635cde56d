------------------------ MODULE LocalStorageSystem ------------------------
(***************************************************************************)
(* The node plugin and the storage controller on one LocalStorage object:  *)
(* both read it through a cache of their own, both move a Pending object to *)
(* Initiating, and they meet nowhere but in the API server.                *)
(***************************************************************************)
EXTENDS NodePlugin, StorageController

sysVars == << vars, ctlVars >>

SysInit == Init /\ InitController

SysNext ==
    \/ PluginNext /\ UNCHANGED ctlVars
    \/ ControllerNext /\ UNCHANGED pluginVars
    \/ ApiNext /\ UNCHANGED << pluginVars, ctlVars >>

SysSafety == SysInit /\ [][SysNext]_sysVars

SysTypeOK == TypeOK /\ TypeOKController

----------------------------------------------------------------------------
(* Fairness.  Both processes are in the end up for good (the kubelet starts *)
(* them again, and they do not crash without end); the informers deliver    *)
(* every version and the 300 s resync comes round; a worker goes on, its    *)
(* calls return, and a call that can be made again and again succeeds at    *)
(* last, for the queue, the resync and their back-off keep making it.  The  *)
(* firing of retry timers is not needed: the resync makes up for them.      *)

PluginFairness ==
    /\ <>[]up
    /\ WF_sysVars((Deliver \/ Notify) /\ UNCHANGED ctlVars)
    /\ WF_sysVars(Resync /\ UNCHANGED ctlVars)
    /\ WF_sysVars((SyncNext \/ WriteRefused) /\ UNCHANGED ctlVars)
    /\ SF_sysVars(SyncInitialize /\ UNCHANGED ctlVars)
    /\ SF_sysVars(SyncWritten /\ UNCHANGED ctlVars)

ControllerFairness ==
    /\ <>[]ctlUp
    /\ WF_sysVars((CtlDeliver \/ CtlNotify) /\ UNCHANGED pluginVars)
    /\ WF_sysVars(CtlResync /\ UNCHANGED pluginVars)
    /\ WF_sysVars((CtlSyncNothing \/ CtlSyncBegin \/ CtlWritten \/ CtlRefused)
                      /\ UNCHANGED pluginVars)
    /\ SF_sysVars(CtlWritten /\ UNCHANGED pluginVars)

SysSpec == SysSafety /\ PluginFairness /\ ControllerFairness

----------------------------------------------------------------------------
(* Liveness. *)

(* Nothing keeps the plugin from making the object Ready: it has a path     *)
(* backend, a capacity that parses, and is not on its way out.              *)
Initializable ==
    /\ Exists
    /\ Current.path
    /\ Current.nodeSize # BadAnnotation
    /\ ~Current.deleting

(* An object that can be initialised becomes Ready, or else is edited so    *)
(* that it cannot be, or deleted: whatever was lost or failed on the way, a  *)
(* retry or a resync comes back to it.                                      *)
EventuallyReady ==
    Initializable ~> (Initializable => Initialized(Current))

(* Once users are quiet an object that is being deleted is Terminating for  *)
(* good, even though a late sync of the plugin may turn it Ready again      *)
(* after the controller has marked it.                                      *)
SettlesTerminating ==
    <>[](Exists /\ Current.deleting => LocalStorageIsTerminating(Current))
============================================================================
