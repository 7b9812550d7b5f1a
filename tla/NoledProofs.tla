---------------------------- MODULE NoledProofs -----------------------------
(***************************************************************************)
(* Proofs about the release plugin as a whole: however module_start ends,  *)
(* it drives the power LED policy only the ways LedPolicy allows, and the  *)
(* policy thread does not leave by itself.                                 *)
(***************************************************************************)
EXTENDS Noled, TLAPS

(* Until module_start has returned there is no thread, and a thread is only *)
(* started with the flag up.                                                *)
StartInv ==
  /\ start # "returned" => pc = "absent"
  /\ start \in {"create", "start"} => running = TRUE

LEMMA StartOrder == Spec => []StartInv
<1>1. Init => StartInv
  BY DEF Init, Led!Init, StartInv
<1>2. StartInv /\ [Next]_noledVars => StartInv'
  <2> SUFFICES ASSUME StartInv, [Next]_noledVars PROVE StartInv'
    OBVIOUS
  <2> USE DEF StartInv, Booting
  <2>1. CASE GpioSteps \/ CreateThread \/ LineSteps
    BY <2>1 DEF GpioSteps, CreateThread, LineSteps, policyVars, threadVars
  <2>2. CASE RaiseFlag \/ StartThread \/ NoThread \/ ModuleStop
    BY <2>2 DEF RaiseFlag, StartThread, NoThread, ModuleStop, threadVars
  <2>3. CASE PolicySteps
    BY <2>3 DEF PolicySteps, Led!PolicyThread, Led!WaitInitialized,
      Led!RegisterHandler, Led!FirstSample, Led!Sample, Led!LeaveLoop,
      Led!CheckResumed, Led!ForgetResume, Led!CommandOk, Led!CommandFails,
      Led!KeepPattern, Led!EndDelay, Led!Environment, Led!Charger, Led!Suspend,
      Led!Wake, Led!ResumeEvent, Led!RestoreStock, Led!Tick, Led!sharedVars,
      Led!threadVars
  <2>4. CASE UNCHANGED noledVars
    BY <2>4 DEF noledVars, policyVars, threadVars
  <2> QED
    BY <2>1, <2>2, <2>3, <2>4 DEF Next
<1> QED
  BY <1>1, <1>2, PTL DEF Spec

-----------------------------------------------------------------------------
(* A step of the policy thread is the same step seen through flag. *)
LEMMA ThreadStepsRefine ==
  ASSUME Led!PolicyThread PROVE View!PolicyThread
<1> USE DEF flag
<1>1. CASE Led!WaitInitialized
  BY <1>1 DEF Led!WaitInitialized, View!WaitInitialized, View!PolicyThread,
    Led!osVars, View!osVars, Led!sharedVars, View!sharedVars, Led!Asleep,
    View!Asleep, Led!Supported, View!Supported, Led!IndicatorSupported,
    View!IndicatorSupported, Led!BoardBits, View!BoardBits
<1>2. CASE Led!RegisterHandler \/ Led!FirstSample
  BY <1>2 DEF Led!RegisterHandler, View!RegisterHandler, Led!FirstSample,
    View!FirstSample, View!PolicyThread, Led!osVars, View!osVars,
    Led!sharedVars, View!sharedVars, Led!Asleep, View!Asleep
<1>3. CASE Led!Sample \/ Led!LeaveLoop
  BY <1>3 DEF Led!Sample, View!Sample, Led!LeaveLoop, View!LeaveLoop,
    View!PolicyThread, Led!Debounced, View!Debounced, Led!osVars, View!osVars,
    Led!sharedVars, View!sharedVars, Led!Asleep, View!Asleep
<1>4. CASE Led!CheckResumed \/ Led!ForgetResume
  BY <1>4 DEF Led!CheckResumed, View!CheckResumed, Led!ForgetResume,
    View!ForgetResume, View!PolicyThread, Led!osVars, View!osVars,
    Led!sharedVars, View!sharedVars, Led!Asleep, View!Asleep
<1>5. CASE Led!CommandOk \/ Led!CommandFails
  BY <1>5 DEF Led!CommandOk, View!CommandOk, Led!CommandFails,
    View!CommandFails, View!PolicyThread, Led!AfterCommand, View!AfterCommand,
    Led!CommandDue, View!CommandDue, Led!Claim, View!Claim, Led!PatternFor,
    View!PatternFor, Led!OffPattern, View!OffPattern, Led!ReleasePattern,
    View!ReleasePattern, Led!Pattern, View!Pattern, Led!osVars, View!osVars,
    Led!sharedVars, View!sharedVars, Led!Asleep, View!Asleep
<1>6. CASE Led!KeepPattern \/ Led!EndDelay
  BY <1>6 DEF Led!KeepPattern, View!KeepPattern, Led!EndDelay, View!EndDelay,
    View!PolicyThread, Led!CommandDue, View!CommandDue, Led!osVars, View!osVars,
    Led!sharedVars, View!sharedVars, Led!Asleep, View!Asleep
<1> QED
  BY <1>1, <1>2, <1>3, <1>4, <1>5, <1>6 DEF Led!PolicyThread

(* So is a step of the world around it. *)
LEMMA WorldStepsRefine ==
  ASSUME Led!Environment \/ Led!Tick PROVE View!Environment \/ View!Tick
<1> USE DEF flag
<1>1. CASE Led!Charger \/ Led!Suspend
  BY <1>1 DEF Led!Charger, View!Charger, Led!Suspend, View!Suspend,
    View!Environment, Led!sharedVars, View!sharedVars, Led!threadVars,
    View!threadVars
<1>2. CASE Led!Wake
  BY <1>2 DEF Led!Wake, View!Wake, View!Environment, Led!Asleep, View!Asleep,
    Led!EmptySlot, View!EmptySlot
<1>3. CASE Led!ResumeEvent \/ Led!RestoreStock
  BY <1>3 DEF Led!ResumeEvent, View!ResumeEvent, Led!RestoreStock,
    View!RestoreStock, View!Environment, Led!Resuming, View!Resuming,
    Led!threadVars, View!threadVars, Led!EmptySlot, View!EmptySlot
<1>4. CASE Led!Tick
  BY <1>4 DEF Led!Tick, View!Tick, Led!Asleep, View!Asleep, Led!Runnable,
    View!Runnable, Led!Resuming, View!Resuming, Led!Countdown, View!Countdown,
    Led!sharedVars, View!sharedVars
<1> QED
  BY <1>1, <1>2, <1>3, <1>4 DEF Led!Environment

(* The plugin implements the policy. *)
THEOREM PluginImplementsPolicy == Spec => ImplementsPolicy
<1>1. Init => View!Init
  BY DEF Init, Led!Init, View!Init, flag, Led!EmptySlot, View!EmptySlot
<1>2. StartInv /\ StartInv' /\ [Next]_noledVars => [View!Next]_(View!vars)
  <2> SUFFICES ASSUME StartInv, StartInv', [Next]_noledVars
               PROVE  View!Next \/ UNCHANGED View!vars
    OBVIOUS
  <2> USE DEF StartInv, Booting, flag
  <2>1. CASE \/ GpioSteps \/ CreateThread \/ LineSteps \/ UNCHANGED noledVars
    BY <2>1 DEF GpioSteps, CreateThread, LineSteps, noledVars, policyVars,
      osVars, threadVars, View!vars, View!osVars, View!sharedVars,
      View!threadVars
  <2>2. CASE RaiseFlag \/ NoThread
    BY <2>2 DEF RaiseFlag, NoThread, osVars, threadVars, View!vars, View!osVars,
      View!sharedVars, View!threadVars
  <2>3. CASE StartThread
    <3>1. View!Start
      BY <2>3 DEF StartThread, View!Start, osVars, View!osVars
    <3> QED
      BY <3>1 DEF View!Next, View!Step
  <2>4. CASE ModuleStop
    <3>1. CASE pc = "absent"
      BY <2>4, <3>1 DEF ModuleStop, osVars, threadVars, View!vars, View!osVars,
        View!sharedVars, View!threadVars
    <3>2. CASE pc # "absent"
      BY <2>4, <3>2 DEF ModuleStop, View!Stop, View!Next, View!Step, osVars,
        threadVars, View!osVars, View!threadVars
    <3> QED
      BY <3>1, <3>2
  <2>5. CASE PolicySteps
    BY <2>5, ThreadStepsRefine, WorldStepsRefine
    DEF PolicySteps, View!Next, View!Step
  <2> QED
    BY <2>1, <2>2, <2>3, <2>4, <2>5 DEF Next
<1> QED
  BY <1>1, <1>2, StartOrder, PTL DEF Spec, ImplementsPolicy, View!Spec

-----------------------------------------------------------------------------
(* A thread that finds the flag down was told to stop. *)
ExitInv ==
  /\ NoSpuriousExit
  /\ pc # "absent" /\ ~running => stopped

(* The policy thread only ends on a board without the indicator or after    *)
(* module_stop, however its start and the module's are interleaved.         *)
THEOREM ThreadKeepsRunning == Spec => []NoSpuriousExit
<1>1. Init => ExitInv
  BY DEF Init, Led!Init, ExitInv, NoSpuriousExit
<1>2. StartInv /\ ExitInv /\ [Next]_noledVars => ExitInv'
  <2> SUFFICES ASSUME StartInv, ExitInv, [Next]_noledVars PROVE ExitInv'
    OBVIOUS
  <2> USE DEF ExitInv, NoSpuriousExit, StartInv, Booting, Led!Supported
  <2>1. CASE GpioSteps \/ CreateThread \/ LineSteps \/ UNCHANGED noledVars
    BY <2>1 DEF GpioSteps, CreateThread, LineSteps, noledVars, policyVars, osVars,
      threadVars
  <2>2. CASE RaiseFlag \/ StartThread \/ NoThread \/ ModuleStop
    BY <2>2 DEF RaiseFlag, StartThread, NoThread, ModuleStop, osVars, threadVars
  <2>3. CASE PolicySteps
    <3>1. CASE Led!WaitInitialized \/ Led!LeaveLoop
      BY <2>3, <3>1 DEF PolicySteps, Led!WaitInitialized, Led!LeaveLoop,
        Led!osVars, Led!sharedVars
    <3>2. CASE \/ Led!RegisterHandler \/ Led!FirstSample \/ Led!Sample
               \/ Led!CheckResumed \/ Led!ForgetResume \/ Led!CommandOk
               \/ Led!CommandFails \/ Led!KeepPattern \/ Led!EndDelay
      BY <2>3, <3>2 DEF PolicySteps, Led!RegisterHandler, Led!FirstSample,
        Led!Sample, Led!CheckResumed, Led!ForgetResume, Led!CommandOk,
        Led!CommandFails, Led!KeepPattern, Led!EndDelay, Led!AfterCommand,
        Led!osVars, Led!sharedVars
    <3>3. CASE Led!Environment \/ Led!Tick
      BY <2>3, <3>3 DEF PolicySteps, Led!Environment, Led!Charger, Led!Suspend,
        Led!Wake, Led!ResumeEvent, Led!RestoreStock, Led!Tick, Led!sharedVars,
        Led!threadVars
    <3> QED
      BY <2>3, <3>1, <3>2, <3>3 DEF PolicySteps, Led!PolicyThread
  <2> QED
    BY <2>1, <2>2, <2>3 DEF Next
<1>3. ExitInv => NoSpuriousExit
  BY DEF ExitInv
<1> QED
  BY <1>1, <1>2, <1>3, StartOrder, PTL DEF Spec

-----------------------------------------------------------------------------
(* What a failed start must not leave behind, and why it does not: only the *)
(* thread registers and commands, and the flag of a start that failed is    *)
(* lowered by the step that fails.                                          *)
FailedStartInv ==
  /\ start # "gpio" => guard = "done"
  /\ pc = "absent" => ~registered /\ slot = {}
  /\ start \in {"gpio", "returned"} /\ pc = "absent" => ~running

(* A start without a thread leaves no flag up, no handler and no pattern,   *)
(* and has cleared the lines, whatever the OS did meanwhile.                *)
THEOREM FailedStartIsClean == Spec => []FailedStartLeavesNothing
<1>1. Init => FailedStartInv
  BY DEF Init, Led!Init, Led!EmptySlot, FailedStartInv
<1>2. StartInv /\ FailedStartInv /\ [Next]_noledVars => FailedStartInv'
  <2> SUFFICES ASSUME StartInv, FailedStartInv, [Next]_noledVars
               PROVE  FailedStartInv'
    OBVIOUS
  <2> USE DEF FailedStartInv, StartInv, Booting
  <2>1. CASE GpioSteps
    BY <2>1 DEF GpioSteps, policyVars, threadVars
  <2>2. CASE LineSteps
    BY <2>2 DEF LineSteps, policyVars, threadVars, Gpio!OperatingSystem,
      Gpio!CallPortSet, Gpio!Blocked, Gpio!Continued, Gpio!RaiseLine,
      Gpio!ClearLine
  <2>3. CASE RaiseFlag \/ CreateThread \/ StartThread
    BY <2>3 DEF RaiseFlag, CreateThread, StartThread, policyVars, threadVars,
      gpioVars
  <2>4. CASE NoThread \/ ModuleStop
    BY <2>4 DEF NoThread, ModuleStop, threadVars, gpioVars
  <2>5. CASE PolicySteps
    <3>1. CASE Led!PolicyThread
      BY <2>5, <3>1 DEF PolicySteps, Led!PolicyThread, Led!WaitInitialized,
        Led!RegisterHandler, Led!FirstSample, Led!Sample, Led!LeaveLoop,
        Led!CheckResumed, Led!ForgetResume, Led!CommandOk, Led!CommandFails,
        Led!KeepPattern, Led!EndDelay, Led!AfterCommand, gpioVars
    <3>2. CASE Led!Environment \/ Led!Tick
      BY <2>5, <3>2 DEF PolicySteps, Led!Environment, Led!Charger, Led!Suspend,
        Led!Wake, Led!ResumeEvent, Led!RestoreStock, Led!Tick, Led!sharedVars,
        Led!threadVars, Led!EmptySlot, gpioVars
    <3> QED
      BY <2>5, <3>1, <3>2 DEF PolicySteps
  <2>6. CASE UNCHANGED noledVars
    BY <2>6 DEF noledVars, policyVars, gpioVars, threadVars
  <2> QED
    BY <2>1, <2>2, <2>3, <2>4, <2>5, <2>6 DEF Next
<1>3. FailedStartInv => FailedStartLeavesNothing
  BY DEF FailedStartInv, FailedStartLeavesNothing
<1> QED
  BY <1>1, <1>2, <1>3, StartOrder, PTL DEF Spec
=============================================================================
