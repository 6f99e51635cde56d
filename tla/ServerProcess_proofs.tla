----------------------- MODULE ServerProcess_proofs -----------------------
(***************************************************************************)
(* Theorems about ServerProcess: no command works on a cache that does not *)
(* hold the list of the API server, or leaves an informer unstarted, for   *)
(* any number of crashes, signals and outages.                             *)
(***************************************************************************)
EXTENDS ServerProcess, TLAPS

(* Run is called once: until main has come to the call there is no Run.    *)
RunCalledOnce ==
    \A i \in DOMAIN Program : Program[i] = "Run" /\ main <= i => run = "none"

(* The factories know the informers they were asked for, and no others.    *)
OnlyAsked == \A kind \in Kinds : informer[kind] # "absent" => kind \in Informers

ProcessInv == TypeOK /\ RunCalledOnce /\ OnlyAsked /\ WorksOnSyncedCaches

----------------------------------------------------------------------------
(* What depends on the command only stays as it is.                        *)
LEMMA SameCommand ==
    ASSUME UNCHANGED cmd
    PROVE  Program' = Program /\ Informers' = Informers
BY DEF Program, Informers

(* The program of each command.                                            *)
LEMMA ProgramOf ==
    /\ cmd = Plugin => Program = PluginMain
    /\ cmd = Extender => Program = ExtenderMain
    /\ cmd = Controller => Program = ControllerMain
BY DEF Program, Plugin, Extender, Controller

(* Each main is a sequence of calls with one Run in it.                    *)
LEMMA PluginMainShape ==
    /\ Len(PluginMain) = 6 /\ DOMAIN PluginMain = 1 .. 6
    /\ PluginMain[6] = "AwaitSignal"
    /\ \A i \in 1 .. 6 : PluginMain[i] = "Run" => i = 3
<1>1. Len(PluginMain) = 6
  BY DEF PluginMain
<1>2. DOMAIN PluginMain = 1 .. 6
  BY DEF PluginMain
<1>3. PluginMain[6] = "AwaitSignal"
  BY DEF PluginMain
<1>4. \A i \in 1 .. 6 : PluginMain[i] = "Run" => i = 3
  BY DEF PluginMain
<1>q. QED  BY <1>1, <1>2, <1>3, <1>4

LEMMA ExtenderMainShape ==
    /\ Len(ExtenderMain) = 8 /\ DOMAIN ExtenderMain = 1 .. 8
    /\ ExtenderMain[8] = "Forever"
    /\ \A i \in 1 .. 8 : ExtenderMain[i] = "Run" => i = 7
<1>1. Len(ExtenderMain) = 8
  BY DEF ExtenderMain
<1>2. DOMAIN ExtenderMain = 1 .. 8
  BY DEF ExtenderMain
<1>3. ExtenderMain[8] = "Forever"
  BY DEF ExtenderMain
<1>4. \A i \in 1 .. 8 : ExtenderMain[i] = "Run" => i = 7
  BY DEF ExtenderMain
<1>q. QED  BY <1>1, <1>2, <1>3, <1>4

LEMMA ControllerMainShape ==
    /\ Len(ControllerMain) = 6 /\ DOMAIN ControllerMain = 1 .. 6
    /\ ControllerMain[6] = "Forever"
    /\ \A i \in 1 .. 6 : ControllerMain[i] = "Run" => i = 3
<1>1. Len(ControllerMain) = 6
  BY DEF ControllerMain
<1>2. DOMAIN ControllerMain = 1 .. 6
  BY DEF ControllerMain
<1>3. ControllerMain[6] = "Forever"
  BY DEF ControllerMain
<1>4. \A i \in 1 .. 6 : ControllerMain[i] = "Run" => i = 3
  BY DEF ControllerMain
<1>q. QED  BY <1>1, <1>2, <1>3, <1>4

LEMMA ProgramShape ==
    ASSUME cmd \in Commands
    PROVE  \E n, r \in 1 .. 8 :
              /\ Len(Program) = n /\ DOMAIN Program = 1 .. n
              /\ Program[n] \in {"AwaitSignal", "Forever"}
              /\ \A i \in 1 .. n : Program[i] = "Run" => i = r
<1>1. CASE cmd = Plugin
  BY <1>1, ProgramOf, PluginMainShape
<1>2. CASE cmd = Extender
  BY <1>2, ProgramOf, ExtenderMainShape
<1>3. CASE cmd = Controller
  BY <1>3, ProgramOf, ControllerMainShape
<1>q. QED  BY <1>1, <1>2, <1>3 DEF Commands

LEMMA ProgramCalls ==
    ASSUME cmd \in Commands
    PROVE  /\ Len(Program) \in Nat /\ 1 \in 0 .. Len(Program)
           /\ DOMAIN Program = 1 .. Len(Program)
           /\ \A i, j \in DOMAIN Program :
                 Program[i] = "Run" /\ Program[j] = "Run" => i = j
<1>1. PICK n, r \in 1 .. 8 :
         /\ Len(Program) = n /\ DOMAIN Program = 1 .. n
         /\ \A i \in 1 .. n : Program[i] = "Run" => i = r
  BY ProgramShape
<1>q. QED  BY <1>1

(* A call of main is followed by another one, but for the last.            *)
LEMMA NextCall ==
    ASSUME TypeOK, NEW call, At(call), call \notin {"AwaitSignal", "Forever"}
    PROVE  main \in DOMAIN Program /\ main + 1 \in 1 .. Len(Program)
<1>1. PICK n \in 1 .. 8 :
         /\ Len(Program) = n /\ DOMAIN Program = 1 .. n
         /\ Program[n] \in {"AwaitSignal", "Forever"}
  BY ProgramShape DEF TypeOK
<1>2. main \in 1 .. n /\ main # n
  BY <1>1 DEF TypeOK, At, Up
<1>q. QED  BY <1>1, <1>2

(* What the signal handler becomes is of its type.                         *)
HandlerStates ==
    [armed : BOOLEAN, pending : 0 .. 2, taken : 0 .. 2, received : Nat]

LEMMA HandlerArmed ==
    ASSUME NEW s \in HandlerStates
    PROVE  /\ [s EXCEPT !.armed = TRUE] \in HandlerStates
           /\ [s EXCEPT !.armed = TRUE].pending = s.pending
           /\ [s EXCEPT !.armed = TRUE].taken = s.taken
           /\ [s EXCEPT !.armed = TRUE].received = s.received
BY DEF HandlerStates

----------------------------------------------------------------------------
LEMMA InitProcessInv ==
    ASSUME Init
    PROVE  ProcessInv
BY ProgramCalls, TroublesAssumption DEF Init, ProcessInv, TypeOK, RunCalledOnce, OnlyAsked, WorksOnSyncedCaches,
     Up, Working, NoSignal, Kinds, Informers, AllSynced

(* The end of the process, by whatever way.                                *)
LEMMA ExitProcessInv ==
    ASSUME ProcessInv, Exit, troubles' \in 0 .. MaxTroubles
    PROVE  ProcessInv'
<1>1. Program' = Program /\ Informers' = Informers
  BY SameCommand DEF Exit
<1>q. QED
  BY <1>1, ProgramCalls DEF ProcessInv, Exit, TypeOK, RunCalledOnce, OnlyAsked, WorksOnSyncedCaches,
       Up, Working, NoSignal, Kinds, AllSynced

(* What main does next is one call further.                                *)
LEMMA MainProcessInv ==
    ASSUME ProcessInv, SetupSignalHandler \/ New \/ StartFactory \/ WaitFactory \/ CallRun
    PROVE  ProcessInv'
<1>1. Program' = Program /\ Informers' = Informers
  BY SameCommand
     DEF SetupSignalHandler, New, StartFactory, Start, WaitFactory, Wait, CallRun
<1>2. main \in DOMAIN Program /\ main' = main + 1 /\ main' \in 1 .. Len(Program)
  BY NextCall
     DEF ProcessInv, SetupSignalHandler, New, StartFactory, Start, WaitFactory, Wait,
         CallRun, Proceed
<1>3. cmd \in Commands /\ DOMAIN Program = 1 .. Len(Program)
  BY ProgramCalls DEF ProcessInv, TypeOK
<1> USE DEF ProcessInv, TypeOK, RunCalledOnce, OnlyAsked, WorksOnSyncedCaches, Up, Working,
            Kinds, AllSynced
<1>4. CASE SetupSignalHandler
  <2>1. /\ signal' \in HandlerStates
        /\ signal'.pending = signal.pending /\ signal'.taken = signal.taken
        /\ signal'.received = signal.received
    BY <1>4, HandlerArmed DEF SetupSignalHandler, HandlerStates
  <2>q. QED  BY <1>1, <1>2, <1>3, <1>4, <2>1 DEF SetupSignalHandler, HandlerStates
<1>5. CASE New
  BY <1>1, <1>2, <1>3, <1>5 DEF New, Informers
<1>6. CASE StartFactory
  BY <1>1, <1>2, <1>3, <1>6 DEF StartFactory, Start
<1>7. CASE WaitFactory
  BY <1>1, <1>2, <1>3, <1>7 DEF WaitFactory, Wait
<1>8. CASE CallRun
  <2>1. run = "none" /\ \A i \in DOMAIN Program : Program[i] = "Run" => i = main
    BY <1>2, <1>3, <1>8, ProgramCalls DEF CallRun, At
  <2>q. QED  BY <1>1, <1>2, <1>3, <1>8, <2>1 DEF CallRun
<1>q. QED  BY <1>4, <1>5, <1>6, <1>7, <1>8

(* Run does its work where it found the caches synced.                     *)
LEMMA RunProcessInv ==
    ASSUME ProcessInv, RunNext
    PROVE  ProcessInv'
<1>1. CASE Exit /\ UNCHANGED troubles
  BY <1>1, ExitProcessInv DEF ProcessInv, TypeOK
<1>2. ASSUME ~Exit
      PROVE  ProcessInv'
  <2>1. UNCHANGED << cmd, main, informer, synced, signal, reachable, troubles >> /\ run # "none"
    BY <1>2 DEF RunNext, RunSynced, RunRefused, Unlink, Listen, RunEnds
  <2>2. Program' = Program /\ Informers' = Informers
    BY <2>1, SameCommand
  <2>3. RunCalledOnce' /\ OnlyAsked'
    BY <2>1, <2>2 DEF ProcessInv, RunCalledOnce, OnlyAsked
  <2>4. TypeOK'
    BY <1>2, <2>1, <2>2
       DEF ProcessInv, TypeOK, Up, Plugin, Extender, Controller, Commands,
           RunNext, RunSynced, RunRefused, Unlink, Listen, RunEnds
  <2>5. WorksOnSyncedCaches'
    BY <1>2, <2>1, <2>2
       DEF ProcessInv, WorksOnSyncedCaches, Working, AllSynced,
           RunNext, RunSynced, RunRefused, Unlink, Listen, RunEnds
  <2>q. QED  BY <2>3, <2>4, <2>5 DEF ProcessInv
<1>q. QED
  BY <1>1, <1>2 DEF RunNext, RunSynced, RunRefused, Unlink, Listen, RunEnds

(* What happens to the informers, the signal handler and the API server.   *)
LEMMA EnvironmentProcessInv ==
    ASSUME ProcessInv,
           \/ \E kind \in Kinds : Sync(kind) \/ Stop(kind)
           \/ Signal \/ Cancel \/ Outage \/ OutageEnds,
           ~Exit
    PROVE  ProcessInv'
<1>1. UNCHANGED << cmd, main, run, socket >>
  BY DEF Sync, Stop, Signal, Cancel, Outage, OutageEnds
<1>2. Program' = Program /\ Informers' = Informers
  BY <1>1, SameCommand
<1>3. RunCalledOnce'
  BY <1>1, <1>2 DEF ProcessInv, RunCalledOnce
<1>4. OnlyAsked' /\ synced \subseteq synced' /\ synced' \subseteq Informers
  BY <1>2 DEF ProcessInv, TypeOK, OnlyAsked, Kinds, Sync, Stop, Signal, Cancel, Outage, OutageEnds
<1>5. WorksOnSyncedCaches'
  BY <1>1, <1>2, <1>4 DEF ProcessInv, WorksOnSyncedCaches, Working, AllSynced
<1>6. TypeOK'
  <2>1. /\ informer' \in [Kinds -> {"absent", "made", "running", "stopped"}]
        /\ reachable' \in BOOLEAN
        /\ troubles' \in 0 .. MaxTroubles
    <3>1. ASSUME NEW kind \in Kinds, Sync(kind) \/ Stop(kind)
          PROVE  /\ informer' \in [Kinds -> {"absent", "made", "running", "stopped"}]
                 /\ reachable' \in BOOLEAN
                 /\ troubles' \in 0 .. MaxTroubles
      <4>1. \/ UNCHANGED informer
            \/ informer' = [informer EXCEPT ![kind] = "stopped"]
        BY <3>1 DEF Sync, Stop
      <4>2. UNCHANGED << reachable, troubles >>
        BY <3>1 DEF Sync, Stop
      <4>q. QED  BY <4>1, <4>2 DEF ProcessInv, TypeOK
    <3>2. CASE Signal \/ Cancel
      <4>1. UNCHANGED << informer, reachable >> /\ (UNCHANGED troubles \/ Trouble)
        BY <3>2 DEF Signal, Cancel
      <4>q. QED  BY <4>1, TroublesAssumption DEF ProcessInv, TypeOK, Trouble
    <3>3. CASE Outage \/ OutageEnds
      <4>1. UNCHANGED informer /\ reachable' \in BOOLEAN /\ (UNCHANGED troubles \/ Trouble)
        BY <3>3 DEF Outage, OutageEnds
      <4>q. QED  BY <4>1, TroublesAssumption DEF ProcessInv, TypeOK, Trouble
    <3>q. QED  BY <3>1, <3>2, <3>3
  <2>2. /\ signal' \in HandlerStates
        /\ signal'.pending + signal'.taken <= signal'.received
    <3>0. signal \in HandlerStates /\ signal.pending + signal.taken <= signal.received
      BY DEF ProcessInv, TypeOK, HandlerStates
    <3>1. CASE Signal
      <4> DEFINE n == IF signal.pending < 2 THEN signal.pending + 1 ELSE signal.pending
      <4>1. signal' = [signal EXCEPT !.pending = n, !.received = signal.received + 1]
        BY <3>1 DEF Signal
      <4>2. n \in 0 .. 2 /\ n <= signal.pending + 1 /\ signal.received + 1 \in Nat
        BY <3>0 DEF HandlerStates
      <4> HIDE DEF n
      <4>3. /\ signal' \in HandlerStates /\ signal'.pending = n
            /\ signal'.taken = signal.taken /\ signal'.received = signal.received + 1
        BY <3>0, <4>1, <4>2 DEF HandlerStates
      <4>q. QED  BY <3>0, <4>2, <4>3 DEF HandlerStates
    <3>2. CASE Cancel
      <4> DEFINE n == signal.pending - 1
                 one == 1
      <4>1. signal' = [signal EXCEPT !.pending = n, !.taken = one]
        BY <3>2 DEF Cancel
      <4>2. n \in 0 .. 2 /\ one \in 0 .. 2 /\ n + one <= signal.received
        BY <3>0, <3>2 DEF Cancel, HandlerStates
      <4> HIDE DEF n, one
      <4>3. /\ signal' \in HandlerStates /\ signal'.pending = n
            /\ signal'.taken = one /\ signal'.received = signal.received
        BY <3>0, <4>1, <4>2 DEF HandlerStates
      <4>q. QED  BY <4>2, <4>3 DEF HandlerStates
    <3>3. CASE UNCHANGED signal
      BY <3>0, <3>3
    <3>q. QED  BY <3>1, <3>2, <3>3 DEF Sync, Stop, Outage, OutageEnds
  <2>3. ~Up => signal' = signal
    BY DEF Up, Sync, Stop, Signal, Cancel, Outage, OutageEnds, ProcessInv, TypeOK, NoSignal
  <2>q. QED
    BY <1>1, <1>2, <1>4, <2>1, <2>2, <2>3 DEF ProcessInv, TypeOK, Up, HandlerStates
<1>q. QED  BY <1>3, <1>4, <1>5, <1>6 DEF ProcessInv

LEMMA StepProcessInv ==
    ASSUME ProcessInv, [Next]_vars
    PROVE  ProcessInv'
<1>1. CASE Boot
  <2>1. Program' = Program /\ Informers' = Informers
    BY <1>1, SameCommand DEF Boot
  <2>2. 1 \in 0 .. Len(Program)
    BY ProgramCalls DEF ProcessInv, TypeOK
  <2>q. QED
    BY <1>1, <2>1, <2>2
       DEF ProcessInv, TypeOK, RunCalledOnce, OnlyAsked, WorksOnSyncedCaches, Boot, Up, Working,
           AllSynced
<1>2. CASE Next /\ Exit
  <2>1. UNCHANGED troubles \/ Trouble
    BY <1>2
       DEF Next, Boot, MainNext, SetupSignalHandler, New, StartFactory, Start, WaitFactory, Wait,
           CallRun, MainReturns, RunNext, RunSynced, RunRefused, Unlink, Listen,
           RunEnds, HandlerNext, Cancel, ExitDirectly, Sync, Stop, Signal, Crash, Kill, Outage,
           OutageEnds
  <2>q. QED  BY <1>2, <2>1, TroublesAssumption, ExitProcessInv DEF ProcessInv, TypeOK, Trouble
<1>3. CASE Next /\ ~Exit
  <2>1. CASE MainNext
    BY <1>3, <2>1, MainProcessInv DEF MainNext, MainReturns
  <2>2. CASE RunNext
    BY <2>2, RunProcessInv
  <2>3. CASE HandlerNext \/ Signal \/ Crash \/ Kill
    BY <1>3, <2>3, EnvironmentProcessInv DEF HandlerNext, ExitDirectly, Crash, Kill
  <2>4. CASE (\E kind \in Kinds : Sync(kind) \/ Stop(kind)) \/ Outage \/ OutageEnds
    BY <1>3, <2>4, EnvironmentProcessInv
  <2>q. QED  BY <1>1, <1>3, <2>1, <2>2, <2>3, <2>4 DEF Next
<1>4. CASE UNCHANGED vars
  <2>1. Program' = Program /\ Informers' = Informers
    BY <1>4, SameCommand DEF vars
  <2>q. QED
    BY <1>4, <2>1
       DEF vars, ProcessInv, TypeOK, RunCalledOnce, OnlyAsked, WorksOnSyncedCaches, Up, Working,
           AllSynced
<1>q. QED  BY <1>1, <1>2, <1>3, <1>4

THEOREM ProcessInvariant == Spec => []ProcessInv
<1>1. Init => ProcessInv
  BY InitProcessInv
<1>2. ProcessInv /\ [Next]_vars => ProcessInv'
  BY StepProcessInv
<1>q. QED  BY <1>1, <1>2, PTL DEF Spec

(* Every state is of its type: in particular a process that has ended keeps *)
(* nothing but its socket file, and the handler takes no signal that the    *)
(* process did not get, nor a third one.                                    *)
THEOREM ServerTypes == Spec => []TypeOK
<1>1. ProcessInv => TypeOK
  BY DEF ProcessInv
<1>q. QED  BY <1>1, ProcessInvariant, PTL

(* No request is answered and no key synced from a cache that does not hold *)
(* the list of the API server: main may call Run before or after the        *)
(* informers are started, and a signal may come in between.                 *)
THEOREM ServerWorksOnSyncedCaches == Spec => []WorksOnSyncedCaches
<1>1. ProcessInv => WorksOnSyncedCaches
  BY DEF ProcessInv
<1>q. QED  BY <1>1, ProcessInvariant, PTL

----------------------------------------------------------------------------
(* The informers that main asks for and starts. *)

StartOf(kind) == IF Factory(kind) = "shared" THEN "StartShared" ELSE "StartKube"

Asked ==
    \A i \in DOMAIN Program : Program[i] = "New" /\ main > i =>
        \A kind \in Informers : informer[kind] # "absent"

Started ==
    \A i \in DOMAIN Program : \A kind \in Informers :
        Program[i] = StartOf(kind) /\ main > i => informer[kind] \in {"running", "stopped"}

InformersInv == Asked /\ Started

(* Each main makes its informers before it starts a factory, and starts     *)
(* their factories before it waits for any.                                 *)
OrderedCalls(program, kinds) ==
    /\ \E j \in DOMAIN program : program[j] = "New"
    /\ \A i, j \in DOMAIN program :
          program[j] = "New" /\ program[i] \in {"StartShared", "StartKube"} => j < i
    /\ \A i \in DOMAIN program : \A kind \in kinds :
          program[i] \in {"WaitShared", "WaitKube"} =>
              \E k \in DOMAIN program : k < i /\ program[k] = StartOf(kind)

LEMMA OneKind == StartOf("LocalStorage") = "StartShared"
BY DEF StartOf, Factory

LEMMA PluginMainOrdered == OrderedCalls(PluginMain, {"LocalStorage"})
<1> DEFINE p == PluginMain
<1>1. DOMAIN p = 1 .. 6
  BY PluginMainShape
<1>2. /\ p[1] = "SetupSignalHandler" /\ p[2] = "New" /\ p[3] = "Run"
      /\ p[4] = "StartShared" /\ p[5] = "WaitShared" /\ p[6] = "AwaitSignal"
  BY DEF PluginMain
<1>3. \A i \in DOMAIN p : i \in {1, 2, 3, 4, 5, 6}
  BY <1>1
<1> HIDE DEF p
<1>q. QED  BY <1>1, <1>2, <1>3, OneKind DEF OrderedCalls, p

LEMMA ControllerMainOrdered == OrderedCalls(ControllerMain, {"LocalStorage"})
<1> DEFINE p == ControllerMain
<1>1. DOMAIN p = 1 .. 6
  BY ControllerMainShape
<1>2. /\ p[1] = "SetupSignalHandler" /\ p[2] = "New" /\ p[3] = "Run"
      /\ p[4] = "StartShared" /\ p[5] = "WaitShared" /\ p[6] = "Forever"
  BY DEF ControllerMain
<1>3. \A i \in DOMAIN p : i \in {1, 2, 3, 4, 5, 6}
  BY <1>1
<1> HIDE DEF p
<1>q. QED  BY <1>1, <1>2, <1>3, OneKind DEF OrderedCalls, p

LEMMA ExtenderMainOrdered == OrderedCalls(ExtenderMain, Kinds)
<1> DEFINE p == ExtenderMain
<1>1. DOMAIN p = 1 .. 8
  BY ExtenderMainShape
<1>2. /\ p[1] = "New" /\ p[2] = "SetupSignalHandler" /\ p[3] = "StartKube"
      /\ p[4] = "StartShared" /\ p[5] = "WaitShared" /\ p[6] = "WaitKube"
      /\ p[7] = "Run" /\ p[8] = "Forever"
  BY DEF ExtenderMain
<1>3. \A i \in DOMAIN p : i \in {1, 2, 3, 4, 5, 6, 7, 8}
  BY <1>1
<1>4. \A kind \in Kinds : StartOf(kind) \in {"StartShared", "StartKube"}
  BY DEF StartOf
<1> HIDE DEF p
<1>q. QED  BY <1>1, <1>2, <1>3, <1>4 DEF OrderedCalls, p

LEMMA ProgramOrdered ==
    ASSUME cmd \in Commands
    PROVE  OrderedCalls(Program, Informers) /\ Informers \subseteq Kinds
<1>1. CASE cmd = Plugin
  BY <1>1, ProgramOf, PluginMainOrdered DEF Informers, Plugin, Extender, Kinds
<1>2. CASE cmd = Extender
  BY <1>2, ProgramOf, ExtenderMainOrdered DEF Informers
<1>3. CASE cmd = Controller
  BY <1>3, ProgramOf, ControllerMainOrdered DEF Informers, Controller, Extender, Kinds
<1>q. QED  BY <1>1, <1>2, <1>3 DEF Commands

(* What main has not come to, or an informer that merely stops, is nothing  *)
(* to it.                                                                   *)
LEMMA InformersGoOn ==
    ASSUME ProcessInv, InformersInv, UNCHANGED cmd,
           \/ main' \in {0, 1}
           \/ /\ main' = main
              /\ \A kind \in Kinds :
                    \/ informer'[kind] = informer[kind]
                    \/ informer[kind] = "running" /\ informer'[kind] = "stopped"
    PROVE  InformersInv'
<1>1. Program' = Program /\ Informers' = Informers
  BY SameCommand
<1>2. /\ Informers \subseteq Kinds /\ DOMAIN Program = 1 .. Len(Program)
      /\ Len(Program) \in Nat
  BY ProgramOrdered, ProgramCalls DEF ProcessInv, TypeOK
<1>3. CASE main' \in {0, 1}
  <2>1. \A i \in DOMAIN Program : ~(main' > i)
    BY <1>2, <1>3
  <2>q. QED  BY <1>1, <2>1 DEF InformersInv, Asked, Started
<1>4. CASE main' \notin {0, 1}
  BY <1>1, <1>2, <1>4 DEF InformersInv, Asked, Started, StartOf, Factory
<1>q. QED  BY <1>3, <1>4

(* The calls of main, one by one.                                           *)
LEMMA MainInformers ==
    ASSUME ProcessInv, InformersInv,
           SetupSignalHandler \/ New \/ StartFactory \/ WaitFactory \/ CallRun
    PROVE  InformersInv'
<1>1. Program' = Program /\ Informers' = Informers
  BY SameCommand
     DEF SetupSignalHandler, New, StartFactory, Start, WaitFactory, Wait, CallRun
<1>2. main \in DOMAIN Program /\ main' = main + 1
  BY NextCall
     DEF ProcessInv, SetupSignalHandler, New, StartFactory, Start, WaitFactory, Wait,
         CallRun, Proceed
<1>3. /\ Informers \subseteq Kinds /\ OrderedCalls(Program, Informers)
      /\ DOMAIN Program = 1 .. Len(Program) /\ Len(Program) \in Nat
  BY ProgramOrdered, ProgramCalls DEF ProcessInv, TypeOK
<1>4. \A i \in DOMAIN Program : main' > i => i = main \/ main > i
  BY <1>2, <1>3
<1>5. CASE SetupSignalHandler \/ WaitFactory \/ CallRun
  <2>1. informer' = informer
    BY <1>5 DEF SetupSignalHandler, WaitFactory, Wait, CallRun
  <2>2. Program[main] \notin {"New", "StartShared", "StartKube"}
    BY <1>5 DEF SetupSignalHandler, WaitFactory, CallRun, At
  <2>q. QED  BY <1>1, <1>4, <2>1, <2>2 DEF InformersInv, Asked, Started, StartOf
<1>6. CASE New
  <2>1. \A kind \in Informers : informer'[kind] = "made"
    BY <1>3, <1>6 DEF New
  <2>2. ASSUME NEW i \in DOMAIN Program, Program[i] \in {"StartShared", "StartKube"}
        PROVE  ~(main' > i)
    <3>1. main < i
      BY <1>2, <1>3, <1>6, <2>2 DEF OrderedCalls, New, At
    <3>q. QED  BY <1>2, <1>3, <3>1
  <2>q. QED  BY <1>1, <2>1, <2>2 DEF InformersInv, Asked, Started, StartOf
<1>7. CASE StartFactory
  <2>1. PICK factory \in {"shared", "kube"} :
           /\ Program[main] = IF factory = "shared" THEN "StartShared" ELSE "StartKube"
           /\ Start(factory)
    BY <1>7 DEF StartFactory, At
  <2>2. \A kind \in Informers : informer[kind] # "absent"
    <3>1. PICK j \in DOMAIN Program : Program[j] = "New"
      BY <1>3 DEF OrderedCalls
    <3>2. j < main
      BY <1>2, <1>3, <2>1, <3>1 DEF OrderedCalls
    <3>q. QED  BY <1>2, <1>3, <3>1, <3>2 DEF InformersInv, Asked
  <2>3. ASSUME NEW kind \in Informers
        PROVE  /\ informer'[kind] # "absent"
               /\ informer[kind] \in {"running", "stopped"} => informer'[kind] = informer[kind]
               /\ Factory(kind) = factory => informer'[kind] \in {"running", "stopped"}
    <3>1. informer'[kind] = IF informer[kind] = "made" /\ Factory(kind) = factory
                            THEN "running" ELSE informer[kind]
      BY <1>3, <2>1 DEF Start
    <3>2. informer[kind] \in {"made", "running", "stopped"}
      BY <1>3, <2>2 DEF ProcessInv, TypeOK
    <3>q. QED  BY <3>1, <3>2
  <2>4. Asked'
    BY <1>1, <2>3 DEF Asked
  <2>5. ASSUME NEW i \in DOMAIN Program, NEW kind \in Informers, Program[i] = StartOf(kind),
               main' > i
        PROVE  informer'[kind] \in {"running", "stopped"}
    <3>1. CASE main > i
      BY <2>3, <2>5, <3>1 DEF InformersInv, Started
    <3>2. CASE i = main
      <4>1. Factory(kind) = factory
        BY <2>1, <2>5, <3>2 DEF StartOf, Factory
      <4>q. QED  BY <2>3, <4>1
    <3>q. QED  BY <1>4, <2>5, <3>1, <3>2
  <2>6. Started'
    BY <1>1, <2>5 DEF Started, StartOf, Factory
  <2>q. QED  BY <2>4, <2>6 DEF InformersInv
<1>q. QED  BY <1>5, <1>6, <1>7

LEMMA StepInformersInv ==
    ASSUME ProcessInv, InformersInv, [Next]_vars
    PROVE  InformersInv'
<1>1. CASE Exit \/ Boot
  BY <1>1, InformersGoOn DEF Exit, Boot
<1>2. CASE ~Exit /\ (RunNext \/ HandlerNext \/ Signal \/ Crash \/ Kill \/ Outage \/ OutageEnds)
  <2>1. UNCHANGED << cmd, main, informer >>
    BY <1>2 DEF RunNext, RunSynced, RunRefused, Unlink, Listen, RunEnds, HandlerNext, Cancel,
                ExitDirectly, Signal, Crash, Kill, Outage, OutageEnds
  <2>q. QED  BY <2>1, InformersGoOn
<1>3. CASE ~Exit /\ MainNext
  BY <1>3, MainInformers DEF MainNext, MainReturns
<1>4. ASSUME NEW kind \in Kinds, Sync(kind) \/ Stop(kind)
      PROVE  InformersInv'
  <2>1. /\ UNCHANGED << cmd, main >>
        /\ \A k \in Kinds :
              \/ informer'[k] = informer[k]
              \/ informer[k] = "running" /\ informer'[k] = "stopped"
    BY <1>4 DEF Sync, Stop, ProcessInv, TypeOK
  <2>q. QED  BY <2>1, InformersGoOn
<1>5. CASE UNCHANGED vars
  BY <1>5, InformersGoOn DEF vars
<1>q. QED  BY <1>1, <1>2, <1>3, <1>4, <1>5 DEF Next

(* None of the commands comes to wait for its caches with an informer that  *)
(* its listers read not started: in each main the constructors ask the      *)
(* factories first, and both factories are started where both are used.     *)
THEOREM ServerInformersStarted == Spec => []InformersStarted
<1>1. Init => InformersInv
  <2>1. ASSUME Init
        PROVE  InformersInv
    <3>1. DOMAIN Program = 1 .. Len(Program) /\ Len(Program) \in Nat /\ main = 0
      BY <2>1, ProgramCalls DEF Init
    <3>2. \A i \in DOMAIN Program : ~(main > i)
      BY <3>1
    <3>q. QED  BY <3>2 DEF InformersInv, Asked, Started
  <2>q. QED  BY <2>1
<1>2. ProcessInv /\ InformersInv /\ [Next]_vars => InformersInv'
  BY StepInformersInv
<1>3. ProcessInv /\ InformersInv => InformersStarted
  <2> SUFFICES ASSUME ProcessInv, InformersInv, NEW i \in DOMAIN Program,
                      Program[i] \in {"WaitShared", "WaitKube"}, main >= i,
                      NEW kind \in Informers
               PROVE  informer[kind] \in {"running", "stopped"}
    BY DEF InformersStarted
  <2>1. /\ OrderedCalls(Program, Informers)
        /\ DOMAIN Program = 1 .. Len(Program) /\ Len(Program) \in Nat
    BY ProgramOrdered, ProgramCalls DEF ProcessInv, TypeOK
  <2>2. PICK k \in DOMAIN Program : k < i /\ Program[k] = StartOf(kind)
    BY <2>1 DEF OrderedCalls
  <2>3. main > k
    BY <2>1, <2>2 DEF ProcessInv, TypeOK
  <2>q. QED  BY <2>2, <2>3 DEF InformersInv, Started
<1>q. QED  BY <1>1, <1>2, <1>3, ProcessInvariant, PTL DEF Spec
=============================================================================
