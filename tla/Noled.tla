------------------------------- MODULE Noled --------------------------------
(***************************************************************************)
(* The release plugin as a whole (src/main.c): module_start and            *)
(* module_stop around the GPIO guard and the power LED policy.  The two    *)
(* components keep their own variables; this module adds the steps of      *)
(* module_start that create and start the policy thread, in their order,   *)
(* and shows that what results is the policy of LedPolicy and the guard of *)
(* GpioGuard.                                                              *)
(***************************************************************************)
EXTENDS Integers

CONSTANTS HardwareInfos, Delay, Settle, Heartbeat, Restore, Lines, Callers

VARIABLES
  hw, charging, console, grace, slot, running, resumed, registered,
  pc, timer, stable, last, applied, loops,      \* of LedPolicy
  guard, hooked, lit, at, line,                 \* of GpioGuard
  start,     \* how far module_start is after the GPIO lines
  stopped    \* history: module_stop has been called

Led  == INSTANCE LedPolicy
Gpio == INSTANCE GpioGuard

osVars     == <<hw, charging, console, grace>>
threadVars == <<pc, timer, stable, last, applied, loops>>
policyVars == <<osVars, slot, running, resumed, registered, threadVars>>
gpioVars   == <<guard, hooked, lit, at, line>>
noledVars  == <<policyVars, gpioVars, start, stopped>>

Init ==
  /\ Led!Init
  /\ Gpio!Init
  /\ start = "gpio"
  /\ stopped = FALSE

-----------------------------------------------------------------------------
(* module_start.  It runs while the console is on. *)

Booting(s) == start = s /\ console = "on"

GpioSteps ==
  /\ Booting("gpio")
  /\ Gpio!ModuleStart
  /\ UNCHANGED <<policyVars, start, stopped>>

(* Mutant of RaiseFlag: running is never set. *)
RaiseFlagForgotten ==
  /\ Booting("gpio")
  /\ guard = "done"
  /\ start' = "create"
  /\ UNCHANGED <<policyVars, gpioVars, stopped>>

(* The flag goes up before there is a thread to read it. *)
RaiseFlag ==
  /\ Booting("gpio")
  /\ guard = "done"
  /\ running' = TRUE
  /\ start' = "create"
  /\ UNCHANGED <<osVars, slot, resumed, registered, threadVars,
                 gpioVars, stopped>>

CreateThread ==
  /\ Booting("create")
  /\ start' = "start"
  /\ UNCHANGED <<policyVars, gpioVars, stopped>>

(* The new thread may run before module_start returns. *)
StartThread ==
  /\ Booting("start")
  /\ pc' = "waitInit"
  /\ start' = "returned"
  /\ UNCHANGED <<osVars, slot, running, resumed, registered, timer, stable,
                 last, applied, loops, gpioVars, stopped>>

(* Mutant of NoThread: running is left set. *)
NoThreadFlagUp ==
  /\ Booting("create") \/ Booting("start")
  /\ start' = "returned"
  /\ UNCHANGED <<policyVars, gpioVars, stopped>>

(* No thread: it is not created, or not started and deleted again.  Either *)
(* way the flag goes down and module_start still reports success.          *)
NoThread ==
  /\ Booting("create") \/ Booting("start")
  /\ running' = FALSE
  /\ start' = "returned"
  /\ UNCHANGED <<osVars, slot, resumed, registered, threadVars,
                 gpioVars, stopped>>

(* Mutant of ModuleStop: it ends the thread itself. *)
ModuleStopKillsThread ==
  /\ Booting("returned")
  /\ running' = FALSE
  /\ pc' = "exited"
  /\ stopped' = TRUE
  /\ UNCHANGED <<osVars, slot, resumed, registered, timer, stable, last,
                 applied, loops, gpioVars, start>>

ModuleStop ==
  /\ Booting("returned")
  /\ running' = FALSE
  /\ stopped' = TRUE
  /\ UNCHANGED <<osVars, slot, resumed, registered, threadVars,
                 gpioVars, start>>

-----------------------------------------------------------------------------

PolicySteps ==
  /\ Led!PolicyThread \/ Led!Environment \/ Led!Tick
  /\ UNCHANGED <<gpioVars, start, stopped>>

LineSteps ==
  /\ ~Led!Asleep
  /\ Gpio!OperatingSystem
  /\ UNCHANGED <<policyVars, start, stopped>>

Next ==
  \/ GpioSteps \/ RaiseFlag \/ CreateThread \/ StartThread \/ NoThread
  \/ ModuleStop \/ PolicySteps \/ LineSteps

Spec == Init /\ [][Next]_noledVars

-----------------------------------------------------------------------------
(* The flag as the policy sees it: nobody reads it before there is a thread. *)
flag == running /\ pc # "absent"

View == INSTANCE LedPolicy WITH running <- flag

(* module_start, however it ends, and module_stop drive the policy only the *)
(* ways LedPolicy allows: every step of the plugin is a step of the policy  *)
(* or none (main.c 145-193).                                                *)
ImplementsPolicy == View!Spec

(* The thread never leaves by itself: only on a board without the indicator *)
(* or after module_stop.  A flag raised after the thread had started would  *)
(* let it leave at once (main.c 161-177).                                   *)
NoSpuriousExit ==
  pc = "exited" => ~Led!Supported \/ stopped

(* module_start that ends without a thread leaves no flag up, no handler    *)
(* and no pattern behind, and has still cleared the lines it had to         *)
(* (main.c 164-178).                                                        *)
FailedStartLeavesNothing ==
  start = "returned" /\ pc = "absent"
    => ~running /\ ~registered /\ slot = {} /\ guard = "done"
=============================================================================
