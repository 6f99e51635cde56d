--------------------------- MODULE ServerProcess ---------------------------
(***************************************************************************)
(* The life of a server process: the commands localstorageplugin,          *)
(* scheduler-extender and localstorage-controller (without election, see   *)
(* ControllerManager) from main to exit, and again.                        *)
(*                                                                         *)
(* Each makes informers in shared factories, starts them, and does its     *)
(* work when their caches hold what the API server listed; each has the    *)
(* context of pkg/signals, and makes a different use of it.  The order of  *)
(* the calls in main is data (Program), for it is what the properties are  *)
(* about.  One behavior is the life of one command.                        *)
(***************************************************************************)
EXTENDS Naturals, Sequences

CONSTANT MaxTroubles    \* at most so many crashes, signals and outages

ASSUME TroublesAssumption == MaxTroubles \in Nat

Plugin     == "localstorageplugin"
Extender   == "scheduler-extender"
Controller == "localstorage-controller"

Commands == {Plugin, Extender, Controller}

VARIABLES
    cmd,        \* the command
    main,       \* the call of its main that is next; 0 if there is no process
    run,        \* where the server's Run is
    informer,   \* the informers and how far they are,
    synced,     \* ... and those whose HasSynced is true
    signal,     \* the signal handler and what it got
    socket,     \* the address the process listens on: a file for the plugin
    reachable,  \* the API server answers
    troubles

vars == << cmd, main, run, informer, synced, signal, socket, reachable, troubles >>

----------------------------------------------------------------------------
Kinds == {"LocalStorage", "PersistentVolumeClaim", "StorageClass"}

(* What the command's listers read, and the factory that makes the informer.*)
Informers == IF cmd = Extender THEN Kinds ELSE {"LocalStorage"}

Factory(kind) == IF kind = "LocalStorage" THEN "shared" ELSE "kube"

(* Slip: the plugin's factory is started before anything asks it for an     *)
(* informer.                                                                *)
StartedFirst ==
    << "SetupSignalHandler", "StartShared", "New", "Run", "WaitShared", "AwaitSignal" >>

(* Slip: the plugin's Run is called, where it is started as a goroutine.    *)
RunCalled ==
    << "SetupSignalHandler", "New", "StartShared", "WaitShared", "Run", "Forever" >>

(* The calls of main, in their order. *)
PluginMain ==
    << "SetupSignalHandler", "New", "Run", "StartShared", "WaitShared", "AwaitSignal" >>

(* The extender's Run is called by main and does not return. *)
ExtenderMain ==
    << "New", "SetupSignalHandler", "StartKube", "StartShared", "WaitShared", "WaitKube",
       "Run", "Forever" >>

(* The controller's ends with select {}. *)
ControllerMain ==
    << "SetupSignalHandler", "New", "Run", "StartShared", "WaitShared", "Forever" >>

Program ==
    CASE cmd = Plugin     -> PluginMain
      [] cmd = Extender   -> ExtenderMain
      [] cmd = Controller -> ControllerMain

Up == main # 0

CtxDone == signal.taken > 0

AllSynced == Informers \subseteq synced

(* The plugin's worker and gRPC server, the extender's HTTP server, or the  *)
(* controller's workers.                                                    *)
Working == run \in {"unlinking", "binding", "serving"}

NoSignal == [armed |-> FALSE, pending |-> 0, taken |-> 0, received |-> 0]

TypeOK ==
    /\ cmd \in Commands
    /\ main \in 0 .. Len(Program)
    /\ run \in {"none", "waiting", "unlinking", "binding", "serving", "ended"}
    /\ informer \in [Kinds -> {"absent", "made", "running", "stopped"}]
    /\ synced \subseteq Informers
    /\ signal \in [armed : BOOLEAN, pending : 0 .. 2, taken : 0 .. 2, received : Nat]
    /\ socket \in {"free", "bound", "left"}
    /\ reachable \in BOOLEAN
    /\ troubles \in 0 .. MaxTroubles
    /\ signal.pending + signal.taken <= signal.received
    /\ ~Up => run = "none" /\ signal = NoSignal /\ socket # "bound"
    /\ cmd # Controller => (run = "serving" <=> socket = "bound")

Init ==
    /\ cmd \in Commands
    /\ main = 0
    /\ run = "none"
    /\ informer = [kind \in Kinds |-> "absent"]
    /\ synced = {}
    /\ signal = NoSignal
    /\ socket = "free"
    /\ reachable = TRUE
    /\ troubles = 0

----------------------------------------------------------------------------
(* The process is started, and ends.  A socket file outlives it.            *)
Boot ==
    /\ ~Up
    /\ main' = 1
    /\ UNCHANGED << cmd, run, informer, synced, signal, socket, reachable, troubles >>

Exit ==
    /\ main' = 0
    /\ run' = "none"
    /\ informer' = [kind \in Kinds |-> "absent"]
    /\ synced' = {}
    /\ signal' = NoSignal
    /\ socket' = IF socket = "free" \/ cmd # Plugin THEN "free" ELSE "left"
    /\ UNCHANGED << cmd, reachable >>

----------------------------------------------------------------------------
(* main *)

At(call) == Up /\ Program[main] = call

Proceed == main' = main + 1

SetupSignalHandler ==
    /\ At("SetupSignalHandler")
    /\ signal' = [signal EXCEPT !.armed = TRUE]
    /\ Proceed
    /\ UNCHANGED << cmd, run, informer, synced, socket, reachable, troubles >>

(* NewLocalStorage, NewScheduleExtender, NewStorageController: what asks    *)
(* the factories for informers.                                             *)
New ==
    /\ At("New")
    /\ informer' = [kind \in Kinds |-> IF kind \in Informers THEN "made" ELSE "absent"]
    /\ Proceed
    /\ UNCHANGED << cmd, run, synced, signal, socket, reachable, troubles >>

(* sharedInformerFactory.Start runs the informers it has been asked for.    *)
Start(factory) ==
    /\ informer' = [kind \in Kinds |->
                      IF informer[kind] = "made" /\ Factory(kind) = factory
                      THEN "running" ELSE informer[kind]]
    /\ Proceed
    /\ UNCHANGED << cmd, run, synced, signal, socket, reachable, troubles >>

StartFactory ==
    \/ At("StartShared") /\ Start("shared")
    \/ At("StartKube") /\ Start("kube")

(* WaitForCacheSync: for the informers that were started, or the signal.    *)
Wait(factory) ==
    /\ \/ CtxDone
       \/ \A kind \in Kinds :
             Factory(kind) = factory /\ informer[kind] \in {"running", "stopped"}
                => kind \in synced
    /\ Proceed
    /\ UNCHANGED << cmd, run, informer, synced, signal, socket, reachable, troubles >>

WaitFactory ==
    \/ At("WaitShared") /\ Wait("shared")
    \/ At("WaitKube") /\ Wait("kube")

CallRun ==
    /\ At("Run")
    /\ run' = "waiting"
    /\ Proceed
    /\ UNCHANGED << cmd, informer, synced, signal, socket, reachable, troubles >>

MainReturns ==
    /\ At("AwaitSignal")
    /\ CtxDone
    /\ Exit
    /\ UNCHANGED troubles

MainNext ==
    \/ SetupSignalHandler \/ New \/ StartFactory \/ WaitFactory
    \/ CallRun \/ MainReturns

----------------------------------------------------------------------------
(* Run *)

(* Slip: what WaitForNamedCacheSync returns is not looked at. *)
RunAnyhow ==
    /\ run = "waiting"
    /\ AllSynced \/ CtxDone
    /\ run' = IF cmd = Plugin THEN "unlinking" ELSE "serving"
    /\ socket' = IF cmd = Extender THEN "bound" ELSE socket
    /\ UNCHANGED << cmd, main, informer, synced, signal, reachable, troubles >>

(* WaitForNamedCacheSync: the caches are looked at before the context, so   *)
(* that a Run that comes late goes on when they are synced.                 *)
RunSynced ==
    /\ run = "waiting"
    /\ AllSynced
    /\ run' = IF cmd = Plugin THEN "unlinking" ELSE "serving"
    /\ socket' = IF cmd = Extender THEN "bound" ELSE socket
    /\ UNCHANGED << cmd, main, informer, synced, signal, reachable, troubles >>

(* The context ends the wait: plugin and extender exit by klog.Fatalf, the  *)
(* controller's Run returns.                                                *)
RunRefused ==
    /\ run = "waiting"
    /\ CtxDone
    /\ ~AllSynced
    /\ IF cmd = Controller
       THEN /\ run' = "ended"
            /\ UNCHANGED << cmd, main, informer, synced, signal, socket, reachable >>
       ELSE Exit
    /\ UNCHANGED troubles

(* Slip: the file of the process before is left where it is. *)
UnlinkNothing ==
    /\ run = "unlinking"
    /\ run' = "binding"
    /\ UNCHANGED << cmd, main, informer, synced, signal, socket, reachable, troubles >>

(* nonBlockingGRPCServer.serve: os.Remove, ... *)
Unlink ==
    /\ run = "unlinking"
    /\ run' = "binding"
    /\ socket' = "free"
    /\ UNCHANGED << cmd, main, informer, synced, signal, reachable, troubles >>

(* ... net.Listen, which is fatal when the address is in use, and Serve.    *)
Listen ==
    /\ run = "binding"
    /\ IF socket = "free"
       THEN /\ run' = "serving"
            /\ socket' = "bound"
            /\ UNCHANGED << cmd, main, informer, synced, signal, reachable >>
       ELSE Exit
    /\ UNCHANGED troubles

(* The controller's Run waits for the signal and shuts its queue down; the  *)
(* plugin's waits for a gRPC server that does not stop, the extender's does *)
(* not look at the context any more.                                        *)
RunEnds ==
    /\ cmd = Controller
    /\ run = "serving"
    /\ CtxDone
    /\ run' = "ended"
    /\ UNCHANGED << cmd, main, informer, synced, signal, socket, reachable, troubles >>

RunNext == RunSynced \/ RunRefused \/ Unlink \/ Listen \/ RunEnds

----------------------------------------------------------------------------
(* The informers: an initial list, and the end of their context.            *)

Sync(kind) ==
    /\ informer[kind] = "running"
    /\ kind \notin synced
    /\ reachable
    /\ synced' = synced \cup {kind}
    /\ UNCHANGED << cmd, main, run, informer, signal, socket, reachable, troubles >>

Stop(kind) ==
    /\ informer[kind] = "running"
    /\ CtxDone
    /\ informer' = [informer EXCEPT ![kind] = "stopped"]
    /\ UNCHANGED << cmd, main, run, synced, signal, socket, reachable, troubles >>

----------------------------------------------------------------------------
(* Signals *)

Trouble ==
    /\ troubles < MaxTroubles
    /\ troubles' = troubles + 1

(* Slip: a channel for one signal; Notify does not wait for room in it.     *)
SignalUnbuffered ==
    /\ Trouble
    /\ Up
    /\ IF signal.armed
       THEN /\ signal' = [signal EXCEPT !.pending = 1, !.received = @ + 1]
            /\ UNCHANGED << cmd, main, run, informer, synced, socket, reachable >>
       ELSE Exit

(* A signal ends a process that has no handler yet; another one goes into a *)
(* channel for two, if there is room in it.                                 *)
Signal ==
    /\ Trouble
    /\ Up
    /\ IF signal.armed
       THEN /\ signal' = [signal EXCEPT !.pending  = IF @ < 2 THEN @ + 1 ELSE @,
                                        !.received = @ + 1]
            /\ UNCHANGED << cmd, main, run, informer, synced, socket, reachable >>
       ELSE Exit

(* Slip: the channel is closed then, and the next receive returns at once.  *)
CancelCloses ==
    /\ signal.pending > 0
    /\ signal.taken = 0
    /\ signal' = [signal EXCEPT !.taken = 1]
    /\ UNCHANGED << cmd, main, run, informer, synced, socket, reachable, troubles >>

(* The first signal cancels the context ... *)
Cancel ==
    /\ signal.pending > 0
    /\ signal.taken = 0
    /\ signal' = [signal EXCEPT !.pending = @ - 1, !.taken = 1]
    /\ UNCHANGED << cmd, main, run, informer, synced, socket, reachable, troubles >>

(* ... and the second one is os.Exit(1). *)
ExitDirectly ==
    /\ signal.pending > 0
    /\ signal.taken = 1
    /\ Exit
    /\ UNCHANGED troubles

HandlerNext == Cancel \/ ExitDirectly

(* A crash, or a fatal error of any call.                                   *)
Crash ==
    /\ Trouble
    /\ Up
    /\ Exit

(* The kubelet's SIGKILL, when the grace period after the signal is over.   *)
Kill ==
    /\ signal.received > 0
    /\ Exit
    /\ UNCHANGED troubles

Outage ==
    /\ Trouble
    /\ reachable
    /\ reachable' = FALSE
    /\ UNCHANGED << cmd, main, run, informer, synced, signal, socket >>

OutageEnds ==
    /\ ~reachable
    /\ reachable' = TRUE
    /\ UNCHANGED << cmd, main, run, informer, synced, signal, socket, troubles >>

----------------------------------------------------------------------------
Next ==
    \/ Boot \/ MainNext \/ RunNext \/ HandlerNext
    \/ \E kind \in Kinds : Sync(kind) \/ Stop(kind)
    \/ Signal \/ Crash \/ Kill \/ Outage \/ OutageEnds

Spec == Init /\ [][Next]_vars

(* The goroutines run, a process that ended is started again, and an outage *)
(* ends ...                                                                 *)
ProcessFairness ==
    /\ WF_vars(Boot)
    /\ WF_vars(MainNext)
    /\ WF_vars(RunNext)
    /\ WF_vars(HandlerNext)
    /\ WF_vars(OutageEnds)
    /\ \A kind \in Kinds : WF_vars(Sync(kind)) /\ WF_vars(Stop(kind))

PatientSpec == Spec /\ ProcessFairness

(* ... and SIGKILL comes for certain where one signal leaves a process      *)
(* behind: not to the plugin, nor after a second signal.                    *)
FairSpec == PatientSpec /\ WF_vars(cmd # Plugin /\ signal.received = 1 /\ Kill)

----------------------------------------------------------------------------
(* No request is answered and no key is synced from a cache that does not   *)
(* hold the list of the API server: not even by a process that a signal     *)
(* overtook while it waited for it.                                         *)
WorksOnSyncedCaches == Working => AllSynced

(* Where main waits for the caches, or has waited, every informer that the  *)
(* listers read was started: Start runs the informers made by then, and     *)
(* WaitForCacheSync waits for those that were started, so that one made     *)
(* later would neither run nor be waited for.                               *)
InformersStarted ==
    \A i \in DOMAIN Program :
        Program[i] \in {"WaitShared", "WaitKube"} /\ main >= i =>
        \A kind \in Informers : informer[kind] \in {"running", "stopped"}

(* In the end the process serves, on caches that move: its informers are    *)
(* known to the factory when that is started, a signal or an outage during  *)
(* the start is got over, and the socket file of a process that crashed is  *)
(* not in the way of the next one.                                          *)
EventuallyServes ==
    <>[](run = "serving" /\ AllSynced /\ \A kind \in Informers : informer[kind] = "running")

(* One signal ends the plugin, without SIGKILL, wherever it is. *)
PluginShutsDown == cmd = Plugin /\ CtxDone ~> ~Up

(* "If a second signal is caught, the program is terminated": two signals   *)
(* end any of the processes, however soon one follows the other, and        *)
(* wherever the process is.                                                 *)
SecondSignalEnds == signal.received > 1 ~> signal.received = 0

(* "set up signals so we handle the shutdown signal gracefully": the signal *)
(* ends the process, without another one or SIGKILL.  So it does for the    *)
(* plugin only.                                                             *)
ShutsDownBySignal == CtxDone ~> signal.received # 1
============================================================================
