----------------------------- MODULE LedPolicy ------------------------------
(***************************************************************************)
(* The power LED policy of the release plugin (src/main.c): the policy     *)
(* thread, the system event handler that tells it about resumes, and what  *)
(* they share with the operating system and the syscon controller.         *)
(*                                                                         *)
(* Time is explicit.  Tick advances the clock while the console is awake;  *)
(* ksceKernelDelayThread is a timer that Tick counts down.  A thread that  *)
(* can run does so before the clock advances: the model takes a pass of    *)
(* the loop to be short against the unit of time, half of the loop's       *)
(* 500 ms delay in the instances that are checked.                         *)
(***************************************************************************)
EXTENDS PowerLed

CONSTANTS
  HardwareInfos,  \* values ksceSysconGetHardwareInfo may return
  Delay,          \* NOLED_POLICY_DELAY_US, in ticks
  Settle,         \* NOLED_POLICY_RESUME_SETTLE_US, in ticks
  Heartbeat,      \* NOLED_POLICY_HEARTBEAT_LOOPS
  Restore         \* how long the OS resume path takes at most, in ticks

ASSUME HardwareAssumption == HardwareInfos \subseteq Nat
ASSUME TimeAssumption ==
  /\ Delay \in Nat \ {0}
  /\ Settle \in Nat \ {0}
  /\ Heartbeat \in Nat \ {0}
  /\ Restore \in Nat

VARIABLES
  hw,          \* the board's hardware info
  charging,    \* what kscePowerIsBatteryCharging() > 0 would answer now
  console,     \* "on", "standby", or a phase of the resume path
  grace,       \* ticks the resume path may still take
  slot,        \* the syscon pattern slot
  running,     \* power_led_policy_running
  resumed,     \* power_led_policy_resumed
  registered,  \* the system event handler is registered
  pc,          \* where the policy thread is
  timer,       \* what is left of its ksceKernelDelayThread
  stable,      \* stable_charging
  last,        \* last_sample
  applied,     \* applied_state
  loops        \* loops_since_apply

osVars     == <<hw, charging, console, grace>>
sharedVars == <<slot, running, resumed, registered>>
threadVars == <<pc, timer, stable, last, applied, loops>>
vars       == <<osVars, sharedVars, threadVars>>

Asleep  == console = "standby"
Resuming == console \in {"waking", "restoring"}

(* The board has the indicator. *)
Supported == IndicatorSupported(hw)

(* What the owner sees now, and what the plugin promises to show. *)
LedNow == Led(slot, Asleep, charging)
RightLed == LedNow = IF charging = 1 THEN "orange" ELSE "dark"

(* The thread exists and will come back to its loop. *)
Alive == pc \notin {"absent", "exited"} /\ running

FlagsOK ==
  /\ running \in BOOLEAN
  /\ resumed \in BOOLEAN
  /\ registered \in BOOLEAN

TypeOK ==
  /\ hw \in HardwareInfos
  /\ charging \in {0, 1}
  /\ console \in {"on", "standby", "waking", "restoring"}
  /\ grace \in 0..Restore
  /\ slot \in {EmptySlot, {OffPattern}, {ReleasePattern}}
  /\ FlagsOK
  /\ pc \in {"absent", "waitInit", "register", "first", "top", "check",
             "settle", "decide", "delay", "exited"}
  /\ timer \in 0..(Delay + Settle)
  /\ stable \in {0, 1}
  /\ last \in {0, 1}
  /\ applied \in {-1, 0, 1}
  /\ loops \in Nat

Init ==
  /\ hw \in HardwareInfos
  /\ charging \in {0, 1}
  /\ console = "on"
  /\ grace = 0
  /\ slot = EmptySlot
  /\ running = FALSE
  /\ resumed = FALSE
  /\ registered = FALSE
  /\ pc = "absent"
  /\ timer = 0
  /\ stable = 0
  /\ last = 0
  /\ applied = -1
  /\ loops = 0

-----------------------------------------------------------------------------
(* The module: module_start hands over a started thread, module_stop only  *)
(* lowers the flag.                                                        *)

Start ==
  /\ pc = "absent"
  /\ console = "on"
  /\ running' = TRUE
  /\ pc' = "waitInit"
  /\ UNCHANGED <<osVars, slot, resumed, registered, timer, stable, last,
                 applied, loops>>

Stop ==
  /\ pc # "absent"
  /\ console = "on"
  /\ running' = FALSE
  /\ UNCHANGED <<osVars, slot, resumed, registered, threadVars>>

-----------------------------------------------------------------------------
(* The policy thread. *)

(* ksceSysconWaitInitialized, then the model gate. *)
WaitInitialized ==
  /\ pc = "waitInit"
  /\ ~Asleep
  /\ pc' = IF Supported THEN "register" ELSE "exited"
  /\ UNCHANGED <<osVars, sharedVars, timer, stable, last, applied, loops>>

RegisterHandler ==
  /\ pc = "register"
  /\ ~Asleep
  /\ registered' = TRUE
  /\ pc' = "first"
  /\ UNCHANGED <<osVars, slot, running, resumed, timer, stable, last,
                 applied, loops>>

FirstSample ==
  /\ pc = "first"
  /\ ~Asleep
  /\ stable' = charging
  /\ last' = charging
  /\ pc' = "top"
  /\ UNCHANGED <<osVars, sharedVars, timer, applied, loops>>

(* Mutant of Debounced: no debounce. *)
FollowsEverySample(sample) == sample

(* stable_charging follows the sample only when it repeats the last one. *)
Debounced(sample) == IF sample = last THEN sample ELSE stable

(* Mutant of Sample: the loop does not look at running. *)
SampleWhateverFlag ==
  /\ pc = "top"
  /\ ~Asleep
  /\ stable' = Debounced(charging)
  /\ last' = charging
  /\ pc' = "check"
  /\ UNCHANGED <<osVars, sharedVars, timer, applied, loops>>

(* The loop's condition and the sample it begins with. *)
Sample ==
  /\ pc = "top"
  /\ ~Asleep
  /\ running
  /\ stable' = Debounced(charging)
  /\ last' = charging
  /\ pc' = "check"
  /\ UNCHANGED <<osVars, sharedVars, timer, applied, loops>>

LeaveLoop ==
  /\ pc = "top"
  /\ ~Asleep
  /\ ~running
  /\ pc' = "exited"
  /\ UNCHANGED <<osVars, sharedVars, timer, stable, last, applied, loops>>

(* Mutant of CheckResumed: no settle delay. *)
CheckWithoutSettle ==
  /\ pc = "check"
  /\ ~Asleep
  /\ pc' = IF resumed THEN "settle" ELSE "decide"
  /\ UNCHANGED <<osVars, sharedVars, timer, stable, last, applied, loops>>

CheckResumed ==
  /\ pc = "check"
  /\ ~Asleep
  /\ IF resumed
       THEN pc' = "settle" /\ timer' = Settle
       ELSE pc' = "decide" /\ UNCHANGED timer
  /\ UNCHANGED <<osVars, sharedVars, stable, last, applied, loops>>

(* Mutant of ForgetResume: the flag is not lowered. *)
ForgetKeepsFlag ==
  /\ pc = "settle"
  /\ timer = 0
  /\ ~Asleep
  /\ applied' = -1
  /\ pc' = "decide"
  /\ UNCHANGED <<osVars, sharedVars, timer, stable, last, loops>>

(* Mutant of ForgetResume: applied_state is not reset. *)
ForgetKeepsBelief ==
  /\ pc = "settle"
  /\ timer = 0
  /\ ~Asleep
  /\ resumed' = FALSE
  /\ pc' = "decide"
  /\ UNCHANGED <<osVars, slot, running, registered, timer, stable, last,
                 applied, loops>>

(* The settle delay is over: the flag is lowered, whoever raised it. *)
ForgetResume ==
  /\ pc = "settle"
  /\ timer = 0
  /\ ~Asleep
  /\ resumed' = FALSE
  /\ applied' = -1
  /\ pc' = "decide"
  /\ UNCHANGED <<osVars, slot, running, registered, timer, stable, last, loops>>

(* Mutants of CommandDue: no heartbeat, and one that is off by one. *)
DueWithoutHeartbeat == applied # stable
DueOneLate          == applied # stable \/ loops > Heartbeat

CommandDue == applied # stable \/ loops >= Heartbeat

(* The thread takes the decision for done whatever apply returned. *)
AfterCommand ==
  /\ applied' = stable
  /\ loops' = 0
  /\ pc' = "delay"
  /\ timer' = Delay

(* power_led_policy_apply reaches the syscon controller ... *)
CommandOk ==
  /\ pc = "decide"
  /\ ~Asleep
  /\ CommandDue
  /\ slot' = Claim(slot, PatternFor(stable))
  /\ AfterCommand
  /\ UNCHANGED <<osVars, running, resumed, registered, stable, last>>

(* ... or fails: the export is not resolved, or syscon answers an error. *)
CommandFails ==
  /\ pc = "decide"
  /\ ~Asleep
  /\ CommandDue
  /\ AfterCommand
  /\ UNCHANGED <<osVars, sharedVars, stable, last>>

KeepPattern ==
  /\ pc = "decide"
  /\ ~Asleep
  /\ ~CommandDue
  /\ pc' = "delay"
  /\ timer' = Delay
  /\ UNCHANGED <<osVars, sharedVars, stable, last, applied, loops>>

EndDelay ==
  /\ pc = "delay"
  /\ timer = 0
  /\ ~Asleep
  /\ loops' = loops + 1
  /\ pc' = "top"
  /\ UNCHANGED <<osVars, sharedVars, timer, stable, last, applied>>

PolicyThread ==
  \/ WaitInitialized \/ RegisterHandler \/ FirstSample
  \/ Sample \/ LeaveLoop \/ CheckResumed \/ ForgetResume
  \/ CommandOk \/ CommandFails \/ KeepPattern \/ EndDelay

-----------------------------------------------------------------------------
(* The operating system, the owner and the syscon controller. *)

Charger ==
  /\ charging' = 1 - charging
  /\ UNCHANGED <<hw, console, grace, sharedVars, threadVars>>

(* Every thread freezes where it is.  The handler is called with resume = 0 *)
(* and does nothing, and the pattern stays in its slot.                     *)
Suspend ==
  /\ console = "on"
  /\ console' = "standby"
  /\ UNCHANGED <<hw, charging, grace, sharedVars, threadVars>>

(* The slot has been cleared.  Whether the clock behind a sleeping thread's *)
(* timer ran on in standby is left open.                                    *)
Wake ==
  /\ Asleep
  /\ console' = "waking"
  /\ grace' = Restore
  /\ slot' = EmptySlot
  /\ timer' \in 0..timer
  /\ UNCHANGED <<hw, charging, running, resumed, registered, pc, stable, last,
                 applied, loops>>

(* power_led_off_sysevent_handler(resume # 0): the resume path may call it *)
(* several times.                                                          *)
ResumeEvent ==
  /\ Resuming
  /\ console' = "restoring"
  /\ resumed' = (resumed \/ registered)
  /\ UNCHANGED <<hw, charging, grace, slot, running, registered, threadVars>>

(* The end of the resume path: the OS has put the stock LED state back. *)
RestoreStock ==
  /\ console = "restoring"
  /\ console' = "on"
  /\ grace' = 0
  /\ slot' = EmptySlot
  /\ UNCHANGED <<hw, charging, running, resumed, registered, threadVars>>

Environment == Charger \/ Suspend \/ Wake \/ ResumeEvent \/ RestoreStock

(* The thread is neither blocked nor in a delay. *)
Runnable ==
  /\ pc \notin {"absent", "waitInit", "exited"}
  /\ pc \in {"settle", "delay"} => timer = 0

Countdown(n) == IF n = 0 THEN 0 ELSE n - 1

Tick ==
  /\ ~Asleep
  /\ ~Runnable
  /\ Resuming => grace > 0
  /\ timer' = Countdown(timer)
  /\ grace' = Countdown(grace)
  /\ UNCHANGED <<hw, charging, console, sharedVars, pc, stable, last, applied,
                 loops>>

Step == Start \/ Stop \/ PolicyThread \/ Environment

Next == Step \/ Tick

Spec == Init /\ [][Next]_vars

(* The scheduler runs a runnable thread, the clock goes on, a resume path  *)
(* that has begun is finished.  A command may fail any number of times but *)
(* not for ever.  Nothing is assumed of the owner.                         *)
Fairness ==
  /\ WF_vars(PolicyThread)
  /\ SF_vars(CommandOk)
  /\ WF_vars(Tick)
  /\ WF_vars(ResumeEvent /\ console = "waking")
  /\ WF_vars(RestoreStock)

FairSpec == Spec /\ Fairness

-----------------------------------------------------------------------------
(* The model gate (main.c 97-102, power_led.h 35-41): a board whose revision *)
(* byte is below 0x40, whatever its other bits, never gets a handler or a   *)
(* pattern, whatever the policy's flags and the resume path do.             *)
OldBoardsUntouched ==
  (hw \div 65536) % 256 < 64 => ~registered /\ ~resumed /\ slot = EmptySlot

(* The heartbeat counter never runs past its limit (main.c 129-139): a pass *)
(* of the loop that finds it there sends a command and resets it.           *)
LoopsBounded == loops <= Heartbeat

(* Every resume the handler announces is handled: the flag is lowered after *)
(* a settle delay, unless the policy is told to stop or the console goes to *)
(* sleep again (main.c 81-83, 121-127).                                     *)
ResumeIsHandled ==
  resumed ~> ~resumed \/ Asleep \/ ~running

LeftAlone(c) == charging = c /\ console = "on" /\ Alive /\ Supported

(* Once the charger and the console are left alone the LED ends up right    *)
(* for good, whatever went wrong before: dark when idle, orange while       *)
(* charging.                                                                *)
LedSettles == \A c \in {0, 1} : <>[]LeftAlone(c) => <>[]RightLed

(* module_stop only lowers a flag; the thread sees it and leaves, unless    *)
(* the console goes to sleep for good.                                      *)
StopEndsThread ==
  pc # "absent" /\ ~running ~> pc = "exited" \/ Asleep

(* What README.md:13 says: the charging indication also shows in standby.   *)
(* Refuted for a charger attached in standby: the off pattern is still in   *)
(* the slot and no thread runs to release it.                               *)
AttachShowsInStandby ==
  [][Asleep /\ Asleep' /\ charging' > charging => LedNow' = "orange"]_vars
=============================================================================
