----------------------------- MODULE DevPlugin -----------------------------
(***************************************************************************)
(* Which services the diagnostic plugin starts, and who decides it.  The   *)
(* loader application (dev/loader/main.c) writes the mode of a session to  *)
(* led_candidate.bin, loads the plugin and, on the way out, writes the     *)
(* production mode.  The plugin (dev/main.c: module_start) reads the file  *)
(* and starts what the mode asks for; started before ux0 is mounted, it    *)
(* cannot read the file and starts the power LED policy on a boot thread,  *)
(* which looks for the file again for a while.                             *)
(*                                                                         *)
(* What the policy commands, and when, is the subject of LedPolicy: here   *)
(* it commands anything.  The probe and the tracer are RuntimeProbe and    *)
(* TraceRing: here they are started or not.                                *)
(***************************************************************************)
EXTENDS Naturals, FiniteSets

CONSTANTS
  Unreadable, \* what a reader finds in no file, or in half a file
  HandModes,  \* the modes a user writes to the file without the loader
  Tries       \* NOLED_BOOT_CONFIG_WAIT_TRIES

Pass         == 0
TraceOnly    == 5
GpioTrace    == 8
Port3Block   == 9
Sampler      == 10
CallerMap    == 12
Probe        == 13
PowerLedOff  == 14
TraceProbe   == 15

Modes == 0..15

ASSUME DevAssumption ==
  /\ Unreadable \notin Modes
  /\ HandModes \subseteq Modes
  /\ Tries \in Nat

VARIABLES
  file,      \* led_candidate.bin: a mode, or Unreadable
  author,    \* history: who wrote it: "hand", "session", "exit" or "torn"
  committed, \* history: the mode on the screen has been written to it
  mounted,   \* ux0 is mounted
  supported, \* the board has the bicolor indicator
  led,       \* "stock" policy or "dark"
  loader,    \* where the loader is
  chosen,    \* candidate_mode
  owned,     \* modid >= 0: this launch loaded the plugin
  attempted, \* probe_load_attempted
  plugin,    \* where module_start is
  origin,    \* history: what started the plugin: "boot", "loader" or "none"
  found,     \* history: what module_start found in the file
  missed,    \* history: a later read of it failed before module_start was over
  mode,      \* led_candidate_mode
  loaded,    \* led_candidate_config_loaded
  services,  \* what module_start has started; a hook, when it was asked for
  tracing,   \* syscon_trace_running
  policy,    \* where the thread of the power LED policy is
  running,   \* power_led_policy_running
  checks,    \* config_checks
  asked,     \* history: the file has held mode 0 since the reboot
  kept       \* history: the file was as Start left it when the console booted

loaderVars == <<loader, chosen, owned, attempted>>
fileVars   == <<file, author, asked, committed>>
policyVars == <<policy, running, checks, led>>
startVars  == <<plugin, origin, found, missed, services>>
worldVars  == <<mounted, supported, kept>>
devVars    == <<fileVars, worldVars, loaderVars, startVars, mode, loaded, tracing,
                policyVars>>

-----------------------------------------------------------------------------
(* What a mode turns on: syscon_experiment_policy.h, gpio_trace_policy.h.   *)

SysconExperiment(m) == m \notin {Pass, Port3Block, Sampler, Probe, PowerLedOff}

(* Mutant: the caller map trace is taken for a trace without hooks.         *)
HooksWithoutCallerMap(m) == SysconExperiment(m) /\ m \notin {TraceOnly, CallerMap}

CommandHooks(m) == SysconExperiment(m) /\ m # TraceOnly

DolceHook(m) == m \in {4, 7, 11}

-----------------------------------------------------------------------------
(* Reading the file: read_led_candidate_mode, refresh_led_candidate_config. *)

(* What a reader may see: opening or reading a good file may fail as well.  *)
Seen == {Unreadable} \cup (IF mounted THEN {file} ELSE {})

Refresh(seen) ==
  /\ mode' = IF seen = Unreadable THEN Pass ELSE seen
  /\ loaded' = (loaded \/ seen # Unreadable)

(* The file's content is now c, written by a.                               *)
Write(c, a) ==
  /\ file' = c
  /\ author' = a
  /\ asked' = (asked \/ c = Pass)
  /\ committed' = (a = "session")

-----------------------------------------------------------------------------
Init ==
  /\ file \in HandModes \cup {PowerLedOff, Unreadable}
  /\ author = "hand"
  /\ asked = (file = Pass)
  /\ committed = FALSE
  /\ mounted = FALSE
  /\ supported \in BOOLEAN
  /\ led = "stock"
  /\ loader = "booting"
  /\ chosen = Probe
  /\ owned = FALSE
  /\ attempted = FALSE
  /\ plugin = "absent"
  /\ origin = "none"
  /\ found = Unreadable
  /\ missed = FALSE
  /\ mode = Pass
  /\ loaded = FALSE
  /\ services = {}
  /\ tracing = FALSE
  /\ policy = "none"
  /\ running = FALSE
  /\ checks = Tries
  /\ kept = FALSE

-----------------------------------------------------------------------------
(* module_start.                                                            *)

BeginStart(o) ==
  /\ plugin = "absent"
  /\ plugin' = "reading"
  /\ origin' = o
  /\ UNCHANGED <<found, missed, services>>

(* The first statement of module_start.                                     *)
ReadConfig ==
  /\ plugin = "reading"
  /\ plugin' = "dispatch"
  /\ \E seen \in Seen : Refresh(seen) /\ found' = seen
  /\ UNCHANGED <<fileVars, worldVars, loaderVars, origin, missed, services, tracing,
                 policyVars>>

(* module_start has started the services S and returns.                     *)
StartedAndUp(S) ==
  /\ plugin' = "up"
  /\ services' = services \cup S
  /\ UNCHANGED <<fileVars, worldVars, loaderVars, origin, found, missed, mode, loaded>>

(* A service that needs a thread: it is missing when the kernel has none.   *)
Threaded(s) == {{s}, {}}

(* No file to be read: the boot thread waits for syscon.                    *)
StartAtBoot ==
  /\ plugin = "dispatch"
  /\ ~loaded
  /\ \E S \in Threaded("policy") :
       /\ policy' = IF S = {} THEN "none" ELSE "waiting"
       /\ StartedAndUp({"guard"} \cup S)
  /\ UNCHANGED <<running, checks, led, tracing>>

StartSampler ==
  /\ plugin = "dispatch"
  /\ loaded
  /\ mode = Sampler
  /\ \E S \in Threaded("sampler") : StartedAndUp(S)
  /\ UNCHANGED <<policyVars, tracing>>

StartProbe ==
  /\ plugin = "dispatch"
  /\ loaded
  /\ mode = Probe
  /\ \E S \in Threaded("probe") : StartedAndUp({"guard"} \cup S)
  /\ UNCHANGED <<policyVars, tracing>>

(* Mutant: the model check was left to the boot thread.                     *)
StartPolicyAnyBoard ==
  /\ plugin = "dispatch"
  /\ loaded
  /\ mode = PowerLedOff
  /\ \E S \in Threaded("policy") :
       /\ policy' = IF S = {} THEN "none" ELSE "top"
       /\ running' = (S # {})
       /\ StartedAndUp({"guard"} \cup S)
  /\ UNCHANGED <<checks, led, tracing>>

StartPolicy ==
  /\ plugin = "dispatch"
  /\ loaded
  /\ mode = PowerLedOff
  /\ \E S \in IF supported THEN Threaded("policy") ELSE {{}} :
       /\ policy' = IF S = {} THEN "none" ELSE "top"
       /\ running' = (S # {})
       /\ StartedAndUp({"guard"} \cup S)
  /\ UNCHANGED <<checks, led, tracing>>

(* start_syscon_trace, which the trace modes go through first.              *)
StartTrace ==
  /\ plugin = "dispatch"
  /\ loaded
  /\ SysconExperiment(mode)
  /\ plugin' = "rereading"
  /\ \E S \in Threaded("trace") :
       /\ services' = services \cup S
       /\ tracing' = (S # {})
  /\ UNCHANGED <<fileVars, worldVars, loaderVars, origin, found, missed, mode, loaded,
                 policyVars>>

(* The file is read once more before the hooks are chosen, this time beside *)
(* the trace thread.                                                        *)
RereadConfig ==
  /\ plugin = "rereading"
  /\ plugin' = "commands"
  /\ \E seen \in Seen :
       /\ Refresh(seen)
       /\ missed' = IF seen = Unreadable THEN TRUE ELSE missed
  /\ UNCHANGED <<fileVars, worldVars, loaderVars, origin, found, services, tracing,
                 policyVars>>

(* No thread that could change the mode: none of the hooks is wanted.       *)
SkipTrace ==
  /\ plugin = "dispatch"
  /\ loaded
  /\ mode \in {Pass, Port3Block}
  /\ StartedAndUp({"guard"})
  /\ UNCHANGED <<policyVars, tracing>>

(* Each kind of hooks is chosen by a look of its own at led_candidate_mode. *)
Choose(kind, then, wanted) ==
  /\ plugin = kind
  /\ plugin' = then
  /\ services' = services \cup (IF wanted THEN {kind} ELSE {})
  /\ UNCHANGED <<fileVars, worldVars, loaderVars, origin, found, missed, mode, loaded,
                 tracing, policyVars>>

ChooseCommands == Choose("commands", "dolce", CommandHooks(mode))
ChooseDolce    == Choose("dolce", "gpio", DolceHook(mode))
ChooseGpio     == Choose("gpio", "hooks", mode = GpioTrace)

(* They are installed, and mode 15 starts the probe.                        *)
InstallHooks ==
  /\ plugin = "hooks"
  /\ \E S \in Threaded("probe") :
       StartedAndUp({"guard"} \cup IF mode = TraceProbe THEN S ELSE {})
  /\ UNCHANGED <<policyVars, tracing>>

(* module_stop: the plugin stays resident, its loops are asked to end.      *)
ModuleStop ==
  /\ plugin = "up"
  /\ tracing' = FALSE
  /\ running' = FALSE
  /\ UNCHANGED <<fileVars, worldVars, loaderVars, startVars, mode, loaded, policy, checks,
                 led>>

-----------------------------------------------------------------------------
(* The trace thread reads the file in every pass, and ends by itself.       *)

TraceRefresh ==
  /\ tracing
  /\ \E seen \in Seen :
       /\ Refresh(seen)
       /\ missed' = IF plugin # "up" /\ seen = Unreadable THEN TRUE ELSE missed
  /\ UNCHANGED <<fileVars, worldVars, loaderVars, plugin, origin, found, services, tracing,
                 policyVars>>

TraceEnds ==
  /\ tracing
  /\ tracing' = FALSE
  /\ UNCHANGED <<fileVars, worldVars, loaderVars, startVars, mode, loaded, policyVars>>

-----------------------------------------------------------------------------
(* The power LED policy: boot_policy_thread, power_led_off_policy_thread.   *)

BootThreadRuns ==
  /\ policy = "waiting"
  /\ policy' = IF supported THEN "top" ELSE "none"
  /\ running' = (supported \/ running)
  /\ UNCHANGED <<fileVars, worldVars, loaderVars, startVars, mode, loaded, tracing, checks,
                 led>>

LeaveLoop ==
  /\ policy = "top"
  /\ ~running
  /\ policy' = "ended"
  /\ UNCHANGED <<fileVars, worldVars, loaderVars, startVars, mode, loaded, tracing, running,
                 checks, led>>

(* Mutant: no file at all is taken for an explicit mode 0.                  *)
CheckTakesAnyPass ==
  /\ policy = "top"
  /\ running
  /\ ~loaded
  /\ checks > 0
  /\ checks' = checks - 1
  /\ \E seen \in Seen : Refresh(seen)
  /\ policy' = IF mode' = Pass THEN "release" ELSE "apply"
  /\ UNCHANGED <<fileVars, worldVars, loaderVars, startVars, tracing, running, led>>

(* Mutant: the answer is looked at before the file is read.                 *)
CheckBeforeRefresh ==
  /\ policy = "top"
  /\ running
  /\ ~loaded
  /\ checks > 0
  /\ checks' = checks - 1
  /\ \E seen \in Seen : Refresh(seen)
  /\ policy' = IF loaded /\ mode = Pass THEN "release" ELSE "apply"
  /\ UNCHANGED <<fileVars, worldVars, loaderVars, startVars, tracing, running, led>>

(* A late file that asks for mode 0 ends the policy.                        *)
CheckConfig ==
  /\ policy = "top"
  /\ running
  /\ ~loaded
  /\ checks > 0
  /\ checks' = checks - 1
  /\ \E seen \in Seen : Refresh(seen)
  /\ policy' = IF loaded' /\ mode' = Pass THEN "release" ELSE "apply"
  /\ UNCHANGED <<fileVars, worldVars, loaderVars, startVars, tracing, running, led>>

(* Mutant of CheckNoMore: the flag is tested while the file is looked for.   *)
CheckNoMoreWhateverFlag ==
  /\ policy = "top"
  /\ loaded \/ checks = 0
  /\ policy' = "apply"
  /\ UNCHANGED <<fileVars, worldVars, loaderVars, startVars, mode, loaded, tracing, running,
                 checks, led>>

CheckNoMore ==
  /\ policy = "top"
  /\ running
  /\ loaded \/ checks = 0
  /\ policy' = "apply"
  /\ UNCHANGED <<fileVars, worldVars, loaderVars, startVars, mode, loaded, tracing, running,
                 checks, led>>

(* The last command: its result is not looked at, and the loop is left.     *)
Release ==
  /\ policy = "release"
  /\ led' \in {"stock", led}
  /\ policy' = "ended"
  /\ UNCHANGED <<fileVars, worldVars, loaderVars, startVars, mode, loaded, tracing, running,
                 checks>>

(* The rest of the loop: the LED is made dark, released or left alone.      *)
ApplyOrHold ==
  /\ policy = "apply"
  /\ led' \in {"dark", "stock"}
  /\ policy' = "delay"
  /\ UNCHANGED <<fileVars, worldVars, loaderVars, startVars, mode, loaded, tracing, running,
                 checks>>

EndDelay ==
  /\ policy = "delay"
  /\ policy' = "top"
  /\ UNCHANGED <<fileVars, worldVars, loaderVars, startVars, mode, loaded, tracing, running,
                 checks, led>>

-----------------------------------------------------------------------------
(* The loader application.                                                  *)

(* The probe's screen: Left and Right choose a candidate, Cross sends it.   *)
ProbeUi == chosen \in {Probe, TraceProbe} /\ (owned \/ attempted)

AtScreen == loader = "screen"

(* The process and its variables are gone, or as they are when it starts.   *)
LoaderAfresh ==
  /\ chosen' = Probe
  /\ owned' = FALSE
  /\ attempted' = FALSE

(* Programs run once the kernel's plugins have been started.                *)
Launch ==
  /\ loader = "closed"
  /\ plugin \in {"absent", "up"}
  /\ mounted
  /\ loader' = "screen"
  /\ LoaderAfresh
  /\ UNCHANGED <<fileVars, worldVars, startVars, mode, loaded, tracing, policyVars>>

(* diag_mode_for_index; Left goes the same way as Right.                    *)
NextMode ==
  [m \in {Probe, PowerLedOff, TraceProbe, CallerMap, Sampler} |->
     CASE m = Probe -> PowerLedOff
       [] m = PowerLedOff -> TraceProbe
       [] m = TraceProbe -> CallerMap
       [] m = CallerMap -> Sampler
       [] m = Sampler -> Probe]

(* Mutant of ChooseMode: the keys go on working with the plugin loaded.     *)
ChooseModeAnyTime ==
  /\ AtScreen
  /\ ~ProbeUi
  /\ chosen' = NextMode[chosen]
  /\ UNCHANGED <<fileVars, worldVars, loader, owned, attempted, startVars, mode, loaded,
                 tracing, policyVars>>

ChooseMode ==
  /\ AtScreen
  /\ ~owned
  /\ ~ProbeUi
  /\ chosen' = NextMode[chosen]
  /\ UNCHANGED <<fileVars, worldVars, loader, owned, attempted, startVars, mode, loaded,
                 tracing, policyVars>>

(* write_candidate_config, the first half: the file is truncated, or cannot *)
(* be opened and stays; neither stops the caller.                           *)
BeginWrite(torn, skipped) ==
  \/ /\ loader' = torn
     /\ Write(Unreadable, "torn")
  \/ /\ loader' = skipped
     /\ committed' = FALSE
     /\ UNCHANGED <<file, author, asked>>

(* The second half: the mode is written, or writing fails.                  *)
FinishWrite(m, a) == Write(m, a) \/ UNCHANGED fileVars

PressCross ==
  /\ AtScreen
  /\ ~owned
  /\ ~ProbeUi
  /\ BeginWrite("committing", "loading")
  /\ UNCHANGED <<worldVars, chosen, owned, attempted, startVars, mode, loaded, tracing,
                 policyVars>>

Commit ==
  /\ loader = "committing"
  /\ FinishWrite(chosen, "session")
  /\ loader' = "loading"
  /\ UNCHANGED <<worldVars, chosen, owned, attempted, startVars, mode, loaded, tracing,
                 policyVars>>

(* copy_plugin worked, and the module is not resident yet.                  *)
LoadPlugin ==
  /\ loader = "loading"
  /\ BeginStart("loader")
  /\ loader' = "starting"
  /\ UNCHANGED <<fileVars, worldVars, chosen, owned, attempted, mode, loaded, tracing,
                 policyVars>>

(* taiLoadStartKernelModule returns when module_start has.                  *)
PluginLoaded ==
  /\ loader = "starting"
  /\ plugin = "up"
  /\ loader' = "screen"
  /\ owned' = TRUE
  /\ attempted' = TRUE
  /\ UNCHANGED <<fileVars, worldVars, chosen, startVars, mode, loaded, tracing, policyVars>>

(* The copy failed, or the module is resident already.                      *)
LoadFails ==
  /\ loader = "loading"
  /\ loader' = "screen"
  /\ attempted' = TRUE
  /\ UNCHANGED <<fileVars, worldVars, chosen, owned, startVars, mode, loaded, tracing,
                 policyVars>>

PressStart ==
  /\ AtScreen
  /\ BeginWrite("exiting", "closed")
  /\ IF loader' = "closed" THEN LoaderAfresh ELSE UNCHANGED <<chosen, owned, attempted>>
  /\ UNCHANGED <<worldVars, startVars, mode, loaded, tracing, policyVars>>

(* Mutant: the session's mode is written on the way out, too.               *)
ExitKeepsMode ==
  /\ loader = "exiting"
  /\ FinishWrite(chosen, "exit")
  /\ loader' = "closed"
  /\ LoaderAfresh
  /\ UNCHANGED <<worldVars, startVars, mode, loaded, tracing, policyVars>>

FinishExit ==
  /\ loader = "exiting"
  /\ FinishWrite(PowerLedOff, "exit")
  /\ loader' = "closed"
  /\ LoaderAfresh
  /\ UNCHANGED <<worldVars, startVars, mode, loaded, tracing, policyVars>>

-----------------------------------------------------------------------------
(* The console and its user.                                                *)

(* The kernel starts the plugin from taiHEN's config, before any program... *)
LoadAtBoot ==
  /\ loader = "booting"
  /\ BeginStart("boot")
  /\ loader' = "closed"
  /\ UNCHANGED <<fileVars, worldVars, chosen, owned, attempted, mode, loaded, tracing,
                 policyVars>>

(* ... or the plugin is not installed there.                                *)
BootWithoutPlugin ==
  /\ loader = "booting"
  /\ loader' = "closed"
  /\ UNCHANGED <<fileVars, worldVars, chosen, owned, attempted, startVars, mode, loaded,
                 tracing, policyVars>>

Mount ==
  /\ ~mounted
  /\ mounted' = TRUE
  /\ UNCHANGED <<fileVars, supported, kept, loaderVars, startVars, mode, loaded, tracing,
                 policyVars>>

(* The user closes the loader from the system menu.                         *)
CloseLoader ==
  /\ AtScreen
  /\ loader' = "closed"
  /\ LoaderAfresh
  /\ committed' = FALSE
  /\ UNCHANGED <<file, author, asked, worldVars, startVars, mode, loaded, tracing,
                 policyVars>>

(* The file is written or deleted in a file manager.                        *)
WriteByHand ==
  /\ loader = "closed"
  /\ mounted
  /\ plugin \in {"absent", "up"}
  /\ \E m \in HandModes \cup {Unreadable} : Write(m, "hand")
  /\ UNCHANGED <<worldVars, loaderVars, startVars, mode, loaded, tracing, policyVars>>

(* A restart, asked for or after a freeze: only the file survives it.       *)
Reboot ==
  /\ asked' = (file = Pass)
  /\ committed' = FALSE
  /\ kept' = (author = "exit")
  /\ mounted' = FALSE
  /\ led' = "stock"
  /\ loader' = "booting"
  /\ LoaderAfresh
  /\ plugin' = "absent"
  /\ origin' = "none"
  /\ found' = Unreadable
  /\ missed' = FALSE
  /\ mode' = Pass
  /\ loaded' = FALSE
  /\ services' = {}
  /\ tracing' = FALSE
  /\ policy' = "none"
  /\ running' = FALSE
  /\ checks' = Tries
  /\ UNCHANGED <<file, author, supported>>

ModuleStart ==
  \/ ReadConfig
  \/ StartAtBoot
  \/ StartSampler
  \/ StartProbe
  \/ StartPolicy
  \/ StartTrace
  \/ RereadConfig
  \/ SkipTrace
  \/ ChooseCommands
  \/ ChooseDolce
  \/ ChooseGpio
  \/ InstallHooks

PolicyThread ==
  \/ BootThreadRuns
  \/ LeaveLoop
  \/ CheckConfig
  \/ CheckNoMore
  \/ Release
  \/ ApplyOrHold
  \/ EndDelay

TraceThread == TraceRefresh \/ TraceEnds

Loader ==
  \/ Launch
  \/ ChooseMode
  \/ PressCross
  \/ Commit
  \/ LoadPlugin
  \/ PluginLoaded
  \/ LoadFails
  \/ PressStart
  \/ FinishExit

World ==
  \/ ModuleStop
  \/ LoadAtBoot
  \/ BootWithoutPlugin
  \/ Mount
  \/ CloseLoader
  \/ WriteByHand
  \/ Reboot

Next == ModuleStart \/ PolicyThread \/ TraceThread \/ Loader \/ World

Spec == Init /\ [][Next]_devVars

(* The kernel runs every thread that is ready; nobody has to press a button. *)
FairSpec == Spec /\ WF_devVars(PolicyThread)

-----------------------------------------------------------------------------
TypeOK ==
  /\ file \in Modes \cup {Unreadable}
  /\ author \in {"hand", "session", "exit", "torn"}
  /\ mounted \in BOOLEAN
  /\ supported \in BOOLEAN
  /\ led \in {"stock", "dark"}
  /\ loader \in {"booting", "closed", "screen", "committing", "loading", "starting",
                 "exiting"}
  /\ chosen \in Modes
  /\ owned \in BOOLEAN
  /\ attempted \in BOOLEAN
  /\ plugin \in {"absent", "reading", "dispatch", "rereading", "commands", "dolce",
                 "gpio", "hooks", "up"}
  /\ origin \in {"none", "boot", "loader"}
  /\ found \in Modes \cup {Unreadable}
  /\ missed \in BOOLEAN
  /\ mode \in Modes
  /\ loaded \in BOOLEAN
  /\ services \subseteq {"guard", "policy", "sampler", "probe", "trace", "commands",
                         "dolce", "gpio"}
  /\ tracing \in BOOLEAN
  /\ policy \in {"none", "waiting", "top", "release", "apply", "delay", "ended"}
  /\ running \in BOOLEAN
  /\ checks \in 0..Tries
  /\ asked \in BOOLEAN
  /\ committed \in BOOLEAN
  /\ kept \in BOOLEAN

Threads == {"policy", "sampler", "probe", "trace"}
Hooks   == {"commands", "dolce", "gpio"}

(* The table of modes in dev/README.md, the older modes that are written by *)
(* hand, and what an unreadable file gets.                                  *)
Promised ==
  CASE found = Unreadable           -> {"guard", "policy"}
    [] found = PowerLedOff          -> {"guard"} \cup IF supported THEN {"policy"} ELSE {}
    [] found = Probe                -> {"guard", "probe"}
    [] found = Sampler              -> {"sampler"}
    [] found \in {Pass, Port3Block} -> {"guard"}
    [] found = TraceOnly            -> {"guard", "trace"}
    [] found = TraceProbe           -> {"guard", "trace", "commands", "probe"}
    [] found = GpioTrace            -> {"guard", "trace", "commands", "gpio"}
    [] found \in {4, 7, 11}         -> {"guard", "trace", "commands", "dolce"}
    [] OTHER                        -> {"guard", "trace", "commands"}

(* However module_start was reached, and whatever the trace thread makes of *)
(* the mode while it runs: the plugin starts nothing but what the mode it   *)
(* found promises, so the services of two modes never mix.  It starts all   *)
(* of it, up to threads the kernel refused; hooks are missing only when a   *)
(* read of the file failed after the first one (module_start).              *)
EachModeGetsItsServices ==
  plugin = "up" => /\ services \subseteq Promised
                   /\ Promised \ services \subseteq
                        Threads \cup IF missed THEN Hooks ELSE {}

(* After a session that was left with Start, and whose last write worked,   *)
(* no diagnostic service comes with the next boot, however often the loader *)
(* failed or the plugin was resident before (the Start branch of main, the  *)
(* early returns of module_start).                                          *)
CleanExitBootsProduction ==
  plugin = "up" /\ origin = "boot" /\ kept
    => services \cap {"sampler", "probe", "trace", "commands"} = {}

(* The power LED policy gives the LED back for good only when it was stopped *)
(* or the file has held mode 0: a missing file, a file the loader is just    *)
(* writing or an unmounted ux0 is never taken for a mode 0.                  *)
PolicyNotLost == policy \in {"release", "ended"} => asked \/ ~running

(* A board without the indicator never gets a power LED command from the    *)
(* policy, whichever of the two ways started it (both call                  *)
(* power_led_indicator_supported).                                          *)
OldBoardsKeepStock == ~supported => led = "stock" /\ ~running

(* A module_stop that finds the policy in its loop ends it, wherever the    *)
(* thread is, and nothing raises the flag again.  One that comes before the *)
(* boot thread has raised it does not (the loop condition of                *)
(* power_led_off_policy_thread, boot_policy_thread).                        *)
StoppedPolicyEnds ==
  policy \in {"top", "release", "apply", "delay"} /\ ~running
    ~> policy \in {"ended", "none"}

(* What the loader's screen says is what runs: once it has loaded the plugin *)
(* and its write of the mode worked, module_start has found no other mode    *)
(* than the one on the screen, which decides what the keys do, whatever      *)
(* loads failed before; at worst it could not read the file (the two         *)
(* branches for Cross, Left and Right in the loader's main).                 *)
ScreenShowsRunningMode ==
  owned /\ AtScreen /\ committed => found \in {chosen, Unreadable}

(* The policy still looks for the file.                                     *)
Looking ==
  /\ policy \in {"top", "apply", "delay"}
  /\ running
  /\ ~loaded
  /\ checks > 0

ClassicOnlyFile == mounted /\ file = Pass /\ running

LooksAllFailed == checks = 0 /\ ~loaded

(* A file that asks for mode 0 and appears while the policy still looks for *)
(* one ends the policy, unless every look that is left fails (the config    *)
(* check of power_led_off_policy_thread).                                   *)
LateConfigHonoured ==
  [](Looking /\ []ClassicOnlyFile => <>(policy = "ended" \/ LooksAllFailed))

(* docs/current-next-steps.md:38-40, dev/README.md:58, 66: a mode that the  *)
(* loader wrote never leaks into the next boot.  Refuted: only Start        *)
(* rewrites the file, and a failed rewrite is ignored.                      *)
NoModeLeaks ==
  loader = "booting" /\ author = "session" => file = PowerLedOff
=============================================================================
