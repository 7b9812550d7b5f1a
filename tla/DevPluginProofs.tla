-------------------------- MODULE DevPluginProofs ---------------------------
(***************************************************************************)
(* Proofs about DevPlugin: what module_start starts is what the mode in    *)
(* the file promises, a clean exit is followed by a production boot, the   *)
(* power LED policy is not given up by mistake, a board without the        *)
(* indicator is left alone and the loader's screen tells the truth.  They  *)
(* hold for any modes written by hand and any number of tries.             *)
(***************************************************************************)
EXTENDS DevPlugin, TLAPS

(* The file holds what module_start found, and cannot change under it.      *)
Settled == mounted /\ file = found /\ found # Unreadable

(* Where module_start runs beside the trace thread. *)
Choosing == {"rereading", "commands", "dolce", "gpio", "hooks"}

(* The hooks a mode asks for, and those that are still to be chosen. *)
HooksOf(m) ==
  (IF CommandHooks(m) THEN {"commands"} ELSE {})
    \cup (IF DolceHook(m) THEN {"dolce"} ELSE {})
    \cup (IF m = GpioTrace THEN {"gpio"} ELSE {})

Ahead(p) ==
  CASE p \in {"rereading", "commands"} -> Hooks
    [] p = "dolce" -> {"dolce", "gpio"}
    [] p = "gpio"  -> {"gpio"}
    [] OTHER       -> {}

(* How far module_start is tells what it knows, and nobody writes the file  *)
(* while it runs: the loader waits for it, or has not been launched.        *)
StartInv ==
  /\ plugin \notin {"absent", "up"} => loader \in {"closed", "starting"}
  /\ loader = "starting" => plugin # "absent"
  /\ plugin \in {"absent", "reading", "dispatch"} => services = {} /\ ~tracing
  /\ plugin \in {"absent", "reading"} => ~loaded
  /\ plugin # "up" => policy = "none"
  /\ plugin = "dispatch" =>
       IF loaded THEN Settled /\ mode = found ELSE found = Unreadable
  /\ plugin \in Choosing =>
       /\ Settled /\ SysconExperiment(found)
       /\ mode \in {found, Pass} /\ (~missed => mode = found)
       /\ services \subseteq {"trace"} \cup HooksOf(found)
       /\ ~missed => HooksOf(found) \subseteq services \cup Ahead(plugin)

(* A file written on the way out holds the production mode, and nobody can  *)
(* write another one before the next boot has started the plugin.           *)
ExitInv ==
  /\ author = "exit" => file = PowerLedOff
  /\ loader = "booting" => plugin = "absent" /\ (kept => file = PowerLedOff)
  /\ kept /\ origin = "boot" =>
       /\ plugin \in {"reading", "dispatch", "up"}
       /\ plugin # "up" => file = PowerLedOff /\ loader = "closed"
       /\ services \subseteq {"guard", "policy"}

(* Mode 0 in the file has been asked for. *)
PolicyInv ==
  /\ file = Pass => asked
  /\ PolicyNotLost

(* On a board without the indicator the policy never gets into its loop.    *)
BoardInv ==
  ~supported => led = "stock" /\ ~running /\ policy \in {"none", "waiting"}

(* From a write of the mode that worked to the plugin being up, nobody      *)
(* changes the file or the mode on the screen.                              *)
ScreenInv ==
  /\ loader \notin {"booting", "closed"} => mounted
  /\ loader # "screen" /\ loader # "exiting" => ~owned
  /\ owned => plugin = "up"
  /\ loader = "committing" => ~committed
  /\ committed /\ loader \in {"loading", "starting"} => file = chosen
  /\ committed /\ loader = "starting" /\ plugin \notin {"absent", "reading"}
       => found \in {chosen, Unreadable}
  /\ ScreenShowsRunningMode

-----------------------------------------------------------------------------
(* What the parts of the system leave alone. *)
LEMMA StartAside ==
  ModuleStart =>
    /\ plugin \notin {"absent", "up"} /\ plugin' # "absent"
    /\ UNCHANGED <<fileVars, worldVars, loaderVars, origin, led, checks>>
BY DEF ModuleStart, ReadConfig, StartAtBoot, StartSampler, StartProbe, StartPolicy,
  StartTrace, RereadConfig, SkipTrace, ChooseCommands, ChooseDolce, ChooseGpio, Choose,
  InstallHooks, StartedAndUp, policyVars

LEMMA ThreadAside ==
  PolicyThread \/ TraceThread =>
    /\ UNCHANGED <<fileVars, worldVars, loaderVars, plugin, origin, found, services>>
    /\ plugin = "up" => UNCHANGED missed
BY DEF PolicyThread, TraceThread, TraceRefresh, TraceEnds, BootThreadRuns, LeaveLoop,
  CheckConfig, CheckNoMore, Release, ApplyOrHold, EndDelay, startVars

(* Reading the file again changes what is known of the mode, and no more.   *)
LEMMA ReadingAside ==
  /\ TraceThread => UNCHANGED <<fileVars, policyVars>>
  /\ RereadConfig =>
       /\ UNCHANGED <<fileVars, worldVars, loaderVars, origin, services>>
       /\ plugin = "rereading" /\ plugin' = "commands"
BY DEF TraceThread, TraceRefresh, TraceEnds, RereadConfig

LEMMA LoaderAside ==
  Loader =>
    /\ UNCHANGED <<worldVars, found, missed, services, mode, loaded, tracing, policyVars>>
    /\ ~LoadPlugin => UNCHANGED <<plugin, origin>>
    /\ loader \in {"screen", "committing", "loading", "starting", "exiting"} \/ Launch
BY DEF Loader, Launch, ChooseMode, PressCross, Commit, LoadPlugin, PluginLoaded,
  LoadFails, PressStart, FinishExit, AtScreen, BeginStart, startVars

(* What a write leaves in the file's history. *)
LEMMA WriteHistory ==
  ASSUME NEW c, NEW a, Write(c, a)
  PROVE  /\ file' = c
         /\ author' = a
         /\ asked => asked'
         /\ c = Pass => asked'
         /\ committed' => a = "session"
BY DEF Write

LEMMA RebootHistory ==
  Reboot => (kept' => author = "exit") /\ (file = Pass => asked') /\ ~committed' /\ ~running'
BY DEF Reboot

LEMMA RaisedFlag ==
  /\ StartPolicy => (running' => policy' = "top" /\ supported)
  /\ BootThreadRuns => (running' => supported \/ running)
BY DEF StartPolicy, BootThreadRuns

-----------------------------------------------------------------------------
(* The mode is what module_start found, whatever runs beside it.            *)
LEMMA StartInvariant == StartInv /\ [Next]_devVars => StartInv'
<1> SUFFICES ASSUME StartInv, [Next]_devVars PROVE StartInv'
  OBVIOUS
<1> USE DEF StartInv, Settled, Choosing, fileVars, worldVars, loaderVars, startVars,
  policyVars
<1>1. CASE ReadConfig
  BY <1>1 DEF ReadConfig, Refresh, Seen, Choosing
<1>2. CASE StartAtBoot \/ StartSampler \/ StartProbe \/ StartPolicy
  BY <1>2 DEF StartAtBoot, StartSampler, StartProbe, StartPolicy, StartedAndUp, Choosing
<1>3. CASE StartTrace
  <2>1. services' \subseteq {"trace"}
    BY <1>3 DEF StartTrace, Threaded
  <2>2. HooksOf(found') \subseteq Ahead(plugin')
    BY <1>3 DEF StartTrace, HooksOf, Ahead, Hooks
  <2> QED
    BY <1>3, <2>1, <2>2 DEF StartTrace, Choosing
<1>4. CASE RereadConfig
  <2>1. Ahead(plugin') = Ahead(plugin)
    BY <1>4 DEF RereadConfig, Ahead
  <2> QED
    BY <1>4, <2>1 DEF RereadConfig, Refresh, Seen, Choosing
<1>5. CASE SkipTrace
  BY <1>5 DEF SkipTrace, StartedAndUp, Choosing
<1>6. CASE InstallHooks
  BY <1>6 DEF InstallHooks, StartedAndUp, Choosing
<1>14. CASE ChooseCommands \/ ChooseDolce \/ ChooseGpio
  <2>1. /\ UNCHANGED <<fileVars, worldVars, loaderVars, origin, found, missed, mode, loaded,
                      tracing, policyVars>>
        /\ plugin \in Choosing /\ plugin' \in Choosing /\ plugin' # "rereading"
    BY <1>14 DEF ChooseCommands, ChooseDolce, ChooseGpio, Choose, Choosing
  <2>2. services' \subseteq {"trace"} \cup HooksOf(found)
    BY <1>14, <2>1 DEF ChooseCommands, ChooseDolce, ChooseGpio, Choose, HooksOf, CommandHooks,
      SysconExperiment, DolceHook, Pass, GpioTrace
  <2>3. ~missed => HooksOf(found) \subseteq services' \cup Ahead(plugin')
    BY <1>14, <2>1 DEF ChooseCommands, ChooseDolce, ChooseGpio, Choose, HooksOf, Ahead, Hooks
  <2> QED
    BY <2>1, <2>2, <2>3 DEF Choosing
<1>7. CASE TraceThread
  BY <1>7 DEF TraceThread, TraceRefresh, TraceEnds, Refresh, Seen, Choosing
<1>8. CASE PolicyThread
  BY <1>8, ThreadAside DEF PolicyThread, BootThreadRuns, LeaveLoop, CheckConfig,
    CheckNoMore, Release, ApplyOrHold, EndDelay
<1>9. CASE Launch \/ ChooseMode \/ PressCross \/ Commit
  BY <1>9 DEF Launch, ChooseMode, PressCross, Commit, BeginWrite, FinishWrite, Write,
    AtScreen
<1>10. CASE LoadPlugin \/ PluginLoaded \/ LoadFails
  BY <1>10 DEF LoadPlugin, BeginStart, PluginLoaded, LoadFails
<1>11. CASE PressStart \/ FinishExit
  BY <1>11 DEF PressStart, FinishExit, BeginWrite, FinishWrite, Write, AtScreen
<1>12. CASE World
  BY <1>12 DEF World, ModuleStop, LoadAtBoot, BeginStart, BootWithoutPlugin, Mount,
    CloseLoader, WriteByHand, Reboot, AtScreen
<1>13. CASE UNCHANGED devVars
  BY <1>13 DEF devVars
<1> QED
  BY <1>1, <1>2, <1>3, <1>4, <1>5, <1>6, <1>7, <1>8, <1>9, <1>10, <1>11, <1>12, <1>13,
    <1>14
  DEF Next, ModuleStart, Loader

LEMMA StartsInOrder == Spec => []StartInv
<1>1. Init => StartInv
  BY DEF Init, StartInv, Choosing
<1> QED
  BY <1>1, StartInvariant, PTL DEF Spec

(* module_start is over: what was found and what was started stays.         *)
LEMMA UpStays ==
  ASSUME [Next]_devVars, plugin = "up", plugin' = "up"
  PROVE  UNCHANGED <<services, found, missed, supported, origin, kept>>
<1>1. CASE Loader
  BY <1>1, LoaderAside DEF LoadPlugin, BeginStart, worldVars
<1>2. CASE World
  BY <1>2 DEF World, ModuleStop, LoadAtBoot, BeginStart, BootWithoutPlugin, Mount,
    CloseLoader, WriteByHand, Reboot, startVars, worldVars
<1> QED
  BY <1>1, <1>2, StartAside, ThreadAside DEF Next, devVars, startVars, worldVars

(* The table, row by row, for the state module_start leaves behind.         *)
LEMMA PromisedTable ==
  /\ found' = Unreadable  => Promised' = {"guard", "policy"}
  /\ found' = PowerLedOff =>
       Promised' = {"guard"} \cup IF supported' THEN {"policy"} ELSE {}
  /\ found' = Probe       => Promised' = {"guard", "probe"}
  /\ found' = Sampler     => Promised' = {"sampler"}
  /\ found' \in {Pass, Port3Block} => Promised' = {"guard"}
<1> USE DEF Pass, Port3Block, PowerLedOff, Probe, Sampler, TraceOnly, TraceProbe, GpioTrace
<1>1. Unreadable \notin {Pass, Port3Block, PowerLedOff, Probe, Sampler, TraceOnly,
                        TraceProbe, GpioTrace, 4, 7, 11}
  BY DevAssumption DEF DevAssumption, Modes
<1> QED
  BY <1>1 DEF Promised

(* A mode with a trace is promised its hooks, and mode 15 the probe.        *)
LEMMA PromisedTraces ==
  ASSUME found' # Unreadable, SysconExperiment(found')
  PROVE  Promised' = {"guard", "trace"} \cup HooksOf(found')
                       \cup IF found' = TraceProbe THEN {"probe"} ELSE {}
<1>1. found' \notin {Pass, Port3Block, Sampler, Probe, PowerLedOff}
  BY DEF SysconExperiment
<1>2. HooksOf(found') =
        (IF found' = TraceOnly THEN {} ELSE {"commands"})
          \cup (IF found' \in {4, 7, 11} THEN {"dolce"} ELSE {})
          \cup (IF found' = GpioTrace THEN {"gpio"} ELSE {})
  BY DEF HooksOf, CommandHooks, DolceHook
<1>3. CASE found' \in {4, 7, 11}
  BY <1>1, <1>2, <1>3 DEF Promised, TraceOnly, GpioTrace, TraceProbe
<1>4. CASE found' \in {TraceOnly, GpioTrace, TraceProbe}
  BY <1>1, <1>2, <1>4 DEF Promised, TraceOnly, GpioTrace, TraceProbe
<1>5. CASE found' \notin {4, 7, 11, TraceOnly, GpioTrace, TraceProbe}
  BY <1>1, <1>2, <1>5 DEF Promised
<1> QED
  BY <1>3, <1>4, <1>5

(* What a trace mode has once module_start is over. *)
LEMMA HooksStarted ==
  ASSUME StartInv, InstallHooks
  PROVE  /\ (services \subseteq Promised)'
         /\ (Promised \ services)' \subseteq Threads \cup IF missed' THEN Hooks ELSE {}
<1>1. /\ found' = found /\ missed' = missed
      /\ found # Unreadable /\ SysconExperiment(found)
      /\ mode \in {found, Pass}
      /\ services \subseteq {"trace"} \cup HooksOf(found)
      /\ ~missed => HooksOf(found) \subseteq services
  BY DEF InstallHooks, StartedAndUp, StartInv, Settled, Choosing, Ahead
<1>2. PICK S \in Threaded("probe") :
        services' = services \cup {"guard"} \cup IF mode = TraceProbe THEN S ELSE {}
  BY DEF InstallHooks, StartedAndUp
<1>3. mode = TraceProbe => found = TraceProbe
  BY <1>1 DEF Pass, TraceProbe
<1>4. Promised' = {"guard", "trace"} \cup HooksOf(found)
                    \cup IF found = TraceProbe THEN {"probe"} ELSE {}
  BY <1>1, PromisedTraces
<1>5. S \subseteq {"probe"}
  BY <1>2 DEF Threaded
<1>6. HooksOf(found) \subseteq Hooks
  BY DEF HooksOf, Hooks
<1>7. services' \subseteq Promised'
  BY <1>1, <1>2, <1>3, <1>4, <1>5
<1>8. services \cup {"guard"} \subseteq services'
  BY <1>2
<1>9. ~missed => Promised' \ services' \subseteq {"trace", "probe"}
  BY <1>1, <1>4, <1>8
<1>10. Promised' \ services' \subseteq {"trace", "probe"} \cup Hooks
  BY <1>4, <1>6, <1>8
<1> QED
  BY <1>1, <1>7, <1>9, <1>10 DEF Threads

(* The plugin has started nothing but what the mode it found promises, and  *)
(* all of it unless a thread was refused or a later read failed, over all   *)
(* the returns of module_start (dev/main.c 1972-2123).                      *)
THEOREM ModeDecidesServices == Spec => []EachModeGetsItsServices
<1>1. Init => EachModeGetsItsServices
  BY DEF Init, EachModeGetsItsServices
<1>2. StartInv /\ EachModeGetsItsServices /\ [Next]_devVars => EachModeGetsItsServices'
  <2> DEFINE AsPromised ==
        /\ services \subseteq Promised
        /\ Promised \ services \subseteq Threads \cup IF missed THEN Hooks ELSE {}
  <2> SUFFICES ASSUME StartInv, EachModeGetsItsServices, [Next]_devVars, plugin' = "up"
               PROVE  AsPromised'
    BY DEF EachModeGetsItsServices
  <2>1. CASE plugin = "up"
    <3>1. AsPromised
      BY <2>1 DEF EachModeGetsItsServices
    <3> QED
      BY <2>1, <3>1, UpStays DEF Promised
  <2>2. CASE StartAtBoot
    <3>1. found' = Unreadable /\ services' \in {{"guard", "policy"}, {"guard"}}
      BY <2>2 DEF StartAtBoot, StartedAndUp, Threaded, StartInv
    <3> QED
      BY <3>1, PromisedTable DEF Threads
  <2>3. CASE StartSampler
    <3>1. found' = Sampler /\ services' \in {{"sampler"}, {}}
      BY <2>3 DEF StartSampler, StartedAndUp, Threaded, StartInv
    <3> QED
      BY <3>1, PromisedTable DEF Threads
  <2>4. CASE StartProbe
    <3>1. found' = Probe /\ services' \in {{"guard", "probe"}, {"guard"}}
      BY <2>4 DEF StartProbe, StartedAndUp, Threaded, StartInv
    <3> QED
      BY <3>1, PromisedTable DEF Threads
  <2>5. CASE StartPolicy
    <3>1. /\ found' = PowerLedOff
          /\ services' = {"guard"} \/ (supported' /\ services' = {"guard", "policy"})
      BY <2>5 DEF StartPolicy, StartedAndUp, Threaded, StartInv, worldVars
    <3> QED
      BY <3>1, PromisedTable DEF Threads
  <2>6. CASE InstallHooks
    BY <2>6, HooksStarted
  <2>8. CASE SkipTrace
    <3>1. found' \in {Pass, Port3Block} /\ services' = {"guard"}
      BY <2>8 DEF SkipTrace, StartedAndUp, StartInv
    <3> QED
      BY <3>1, PromisedTable
  <2>7. CASE plugin # "up"
    <3>1. ModuleStart
      BY <2>7, ThreadAside, LoaderAside DEF Next, devVars, startVars, World, ModuleStop,
        LoadAtBoot, LoadPlugin, BeginStart, BootWithoutPlugin, Mount, CloseLoader,
        WriteByHand, Reboot
    <3>2. StartAtBoot \/ StartSampler \/ StartProbe \/ StartPolicy \/ SkipTrace \/ InstallHooks
      BY <3>1 DEF ModuleStart, ReadConfig, StartTrace, RereadConfig, ChooseCommands,
        ChooseDolce, ChooseGpio, Choose
    <3> QED
      BY <3>2, <2>2, <2>3, <2>4, <2>5, <2>6, <2>8
  <2> QED
    BY <2>1, <2>7
<1> QED
  BY <1>1, <1>2, StartsInOrder, PTL DEF Spec

-----------------------------------------------------------------------------
LEMMA ExitStep == StartInv /\ ExitInv /\ [Next]_devVars => ExitInv'
<1> SUFFICES ASSUME StartInv, ExitInv, [Next]_devVars PROVE ExitInv'
  OBVIOUS
<1> USE DEF ExitInv, fileVars, worldVars, loaderVars, startVars
<1>1. CASE ReadConfig
  BY <1>1 DEF ReadConfig, StartInv
<1>2. CASE StartAtBoot \/ StartPolicy
  BY <1>2 DEF StartAtBoot, StartPolicy, StartedAndUp, Threaded
<1>3. CASE StartSampler \/ StartProbe \/ StartTrace \/ SkipTrace
  <2>1. ~(kept /\ origin = "boot")
    <3>1. plugin = "dispatch" /\ loaded /\ mode # PowerLedOff
      BY <1>3 DEF StartSampler, StartProbe, StartTrace, SkipTrace, SysconExperiment, Pass,
        Port3Block, Sampler, Probe, PowerLedOff
    <3> QED
      BY <3>1 DEF StartInv, Settled
  <2> QED
    BY <1>3, <2>1 DEF StartSampler, StartProbe, StartTrace, SkipTrace, StartedAndUp,
      StartInv
<1>4. CASE ChooseCommands \/ ChooseDolce \/ ChooseGpio \/ InstallHooks
  BY <1>4 DEF ChooseCommands, ChooseDolce, ChooseGpio, Choose, InstallHooks,
    StartedAndUp, StartInv, Choosing
<1>13. CASE RereadConfig
  BY <1>13, ReadingAside
<1>5. CASE PolicyThread \/ TraceThread
  BY <1>5, ThreadAside
<1>6. CASE Launch \/ ChooseMode \/ PressCross \/ Commit
  BY <1>6 DEF Launch, ChooseMode, PressCross, Commit, BeginWrite, FinishWrite, Write,
    AtScreen
<1>7. CASE LoadPlugin \/ PluginLoaded \/ LoadFails
  BY <1>7 DEF LoadPlugin, BeginStart, PluginLoaded, LoadFails
<1>8. CASE PressStart \/ FinishExit
  BY <1>8 DEF PressStart, FinishExit, BeginWrite, FinishWrite, Write, AtScreen
<1>9. CASE LoadAtBoot \/ BootWithoutPlugin \/ ModuleStop \/ Mount
  BY <1>9 DEF LoadAtBoot, BeginStart, BootWithoutPlugin, ModuleStop, Mount, StartInv
<1>10. CASE CloseLoader \/ WriteByHand
  BY <1>10, WriteHistory DEF CloseLoader, WriteByHand, AtScreen
<1>12. CASE Reboot
  BY <1>12, RebootHistory DEF Reboot
<1>11. CASE UNCHANGED devVars
  BY <1>11 DEF devVars
<1> QED
  BY <1>1, <1>2, <1>3, <1>4, <1>5, <1>6, <1>7, <1>8, <1>9, <1>10, <1>11, <1>12, <1>13
  DEF Next, ModuleStart, Loader, World

(* The boot after a clean exit starts no diagnostic service, unless         *)
(* somebody has written the file since (the loader's Start, module_start).  *)
THEOREM CleanExitIsFinal == Spec => []CleanExitBootsProduction
<1>1. Init => ExitInv
  BY DEF Init, ExitInv
<1>2. ExitInv => CleanExitBootsProduction
  BY DEF ExitInv, CleanExitBootsProduction
<1> QED
  BY <1>1, <1>2, ExitStep, StartsInOrder, PTL DEF Spec

-----------------------------------------------------------------------------
LEMMA PolicyStep == StartInv /\ PolicyInv /\ [Next]_devVars => PolicyInv'
<1> SUFFICES ASSUME StartInv, PolicyInv, [Next]_devVars PROVE PolicyInv'
  OBVIOUS
<1> USE DEF PolicyInv, PolicyNotLost, fileVars, policyVars
<1>1. CASE ModuleStart
  BY <1>1, StartAside DEF ModuleStart, ReadConfig, StartAtBoot, StartSampler, StartProbe,
    StartPolicy, StartTrace, RereadConfig, SkipTrace, ChooseCommands, ChooseDolce,
    ChooseGpio, Choose, InstallHooks, StartInv
<1>2. CASE CheckConfig
  <2>1. policy' = "release" => file = Pass
    BY <1>2 DEF CheckConfig, Refresh, Seen
  <2> QED
    BY <1>2, <2>1 DEF CheckConfig
<1>3. CASE \/ BootThreadRuns \/ LeaveLoop \/ CheckNoMore \/ Release \/ ApplyOrHold
           \/ EndDelay
  BY <1>3 DEF BootThreadRuns, LeaveLoop, CheckNoMore, Release, ApplyOrHold, EndDelay
<1>4. CASE TraceThread
  BY <1>4, ReadingAside
<1>5. CASE Loader
  <2>1. policy' = policy /\ running' = running
    BY <1>5, LoaderAside
  <2>2. (file' = Pass => asked') /\ (asked => asked')
    BY <1>5, WriteHistory DEF Loader, Launch, ChooseMode, PressCross, Commit, LoadPlugin,
      PluginLoaded, LoadFails, PressStart, FinishExit, BeginWrite, FinishWrite
  <2> QED
    BY <2>1, <2>2
<1>6. CASE World
  BY <1>6, WriteHistory, RebootHistory DEF World, ModuleStop, LoadAtBoot,
    BootWithoutPlugin, Mount, CloseLoader, WriteByHand, Reboot
<1>7. CASE UNCHANGED devVars
  BY <1>7 DEF devVars
<1> QED
  BY <1>1, <1>2, <1>3, <1>4, <1>5, <1>6, <1>7 DEF Next, PolicyThread

(* Only a file with mode 0, or a stop, ends the power LED policy: a file    *)
(* that cannot be read does not (power_led_off_policy_thread of             *)
(* dev/main.c).                                                             *)
THEOREM PolicyIsNotLost == Spec => []PolicyNotLost
<1>1. Init => PolicyInv
  BY DEF Init, PolicyInv, PolicyNotLost
<1>2. PolicyInv => PolicyNotLost
  BY DEF PolicyInv
<1> QED
  BY <1>1, <1>2, PolicyStep, StartsInOrder, PTL DEF Spec

-----------------------------------------------------------------------------
LEMMA BoardStep == BoardInv /\ [Next]_devVars => BoardInv'
<1> SUFFICES ASSUME BoardInv, [Next]_devVars PROVE BoardInv'
  OBVIOUS
<1> USE DEF BoardInv, worldVars, policyVars
<1>1. CASE ModuleStart
  <2>1. supported' = supported /\ led' = led
    BY <1>1, StartAside
  <2>2. CASE StartPolicy
    <3>1. ~supported => policy' = "none" /\ ~running'
      BY <2>2, RaisedFlag DEF StartPolicy
    <3> QED
      BY <2>1, <3>1
  <2>3. CASE ModuleStart /\ ~StartPolicy
    BY <2>1, <2>3 DEF ModuleStart, ReadConfig, StartAtBoot, StartSampler, StartProbe,
      StartTrace, RereadConfig, SkipTrace, ChooseCommands, ChooseDolce, ChooseGpio, Choose,
      InstallHooks
  <2> QED
    BY <1>1, <2>2, <2>3
<1>2. CASE PolicyThread \/ TraceThread
  BY <1>2, ThreadAside, RaisedFlag DEF PolicyThread, BootThreadRuns, LeaveLoop,
    CheckConfig, CheckNoMore, Release, ApplyOrHold, EndDelay, TraceThread, TraceRefresh,
    TraceEnds
<1>3. CASE Loader
  BY <1>3, LoaderAside
<1>4. CASE World
  BY <1>4 DEF World, ModuleStop, LoadAtBoot, BootWithoutPlugin, Mount, CloseLoader,
    WriteByHand, Reboot
<1>5. CASE UNCHANGED devVars
  BY <1>5 DEF devVars
<1> QED
  BY <1>1, <1>2, <1>3, <1>4, <1>5 DEF Next

(* Whichever way the policy is started, it leaves an old board alone        *)
(* (power_led_off_policy_thread, boot_policy_thread).                       *)
THEOREM OldBoardsAreLeftAlone == Spec => []OldBoardsKeepStock
<1>1. Init => BoardInv
  BY DEF Init, BoardInv
<1>2. BoardInv => OldBoardsKeepStock
  BY DEF BoardInv, OldBoardsKeepStock
<1> QED
  BY <1>1, <1>2, BoardStep, PTL DEF Spec

-----------------------------------------------------------------------------
LEMMA ScreenStep == StartInv /\ ScreenInv /\ [Next]_devVars => ScreenInv'
<1> SUFFICES ASSUME StartInv, ScreenInv, [Next]_devVars PROVE ScreenInv'
  OBVIOUS
<1> USE DEF ScreenInv, ScreenShowsRunningMode, AtScreen, fileVars, worldVars, loaderVars,
  startVars
<1>1. CASE ReadConfig
  BY <1>1, StartAside DEF ReadConfig, Refresh, Seen, StartInv
<1>2. CASE ModuleStart /\ ~ReadConfig
  <2>1. found' = found /\ plugin # "reading"
    BY <1>2 DEF ModuleStart, StartAtBoot, StartSampler, StartProbe, StartPolicy,
      StartTrace, RereadConfig, SkipTrace, ChooseCommands, ChooseDolce, ChooseGpio, Choose,
      InstallHooks, StartedAndUp
  <2> QED
    BY <1>2, <2>1, StartAside
<1>3. CASE PolicyThread \/ TraceThread
  BY <1>3, ThreadAside
<1>4. CASE Launch \/ ChooseMode
  BY <1>4 DEF Launch, LoaderAfresh, ChooseMode
<1>5. CASE PressCross \/ Commit
  BY <1>5, WriteHistory DEF PressCross, BeginWrite, Commit, FinishWrite
<1>6. CASE LoadPlugin \/ PluginLoaded \/ LoadFails
  BY <1>6 DEF LoadPlugin, BeginStart, PluginLoaded, LoadFails
<1>7. CASE PressStart \/ FinishExit
  BY <1>7, WriteHistory DEF PressStart, BeginWrite, FinishExit, FinishWrite, LoaderAfresh
<1>8. CASE World
  BY <1>8, WriteHistory, RebootHistory DEF World, ModuleStop, LoadAtBoot, BeginStart,
    BootWithoutPlugin, Mount, CloseLoader, LoaderAfresh, WriteByHand, Reboot
<1>9. CASE UNCHANGED devVars
  BY <1>9 DEF devVars
<1> QED
  BY <1>1, <1>2, <1>3, <1>4, <1>5, <1>6, <1>7, <1>8, <1>9 DEF Next, Loader

(* No other mode runs than the one on the loader's screen, if its write     *)
(* worked and the loader has loaded the plugin (write_candidate_config and  *)
(* the keys of main in dev/loader/main.c).                                  *)
THEOREM ScreenTellsTheTruth == Spec => []ScreenShowsRunningMode
<1>1. Init => ScreenInv
  BY DEF Init, ScreenInv, ScreenShowsRunningMode
<1>2. ScreenInv => ScreenShowsRunningMode
  BY DEF ScreenInv
<1> QED
  BY <1>1, <1>2, ScreenStep, StartsInOrder, PTL DEF Spec
=============================================================================
