------------------------------ MODULE LedFlaps -------------------------------
(***************************************************************************)
(* LedPolicy with a history of the charger, and what the debounce of the   *)
(* loop (main.c 112-119) makes of a charger that flaps.  The history only  *)
(* watches; every step of LedPolicy is kept.                               *)
(***************************************************************************)
EXTENDS LedPolicy

VARIABLES
  held,    \* ticks since the charger moved, a wake or the start of the
           \* policy; stops counting above two passes
  steady   \* the charge state that has held for two passes of the loop, but
           \* for brief flaps since; None when there is no such state

flapVars    == <<held, steady>>
watchedVars == <<vars, flapVars>>

None == -1

(* The longest pass of the loop, from one sample to the next. *)
Pass == Settle + Delay

Looping == pc \in {"top", "check", "settle", "decide", "delay"}

(* The charger is away from its steady state. *)
Away == steady \notin {None, charging}

FInit ==
  /\ Init
  /\ held = 0
  /\ steady = None

(* A flap is no longer brief once it has lasted a loop delay. *)
FTick ==
  /\ Tick
  /\ held' = IF held > 2 * Pass THEN held ELSE held + 1
  /\ steady' = IF Away /\ held' >= Delay THEN None
               ELSE IF ~Away /\ Looping /\ held' > 2 * Pass THEN charging
               ELSE steady

(* Nor may the next one follow within a pass. *)
FCharger ==
  /\ Charger
  /\ held' = 0
  /\ steady' = IF ~Away /\ held <= Pass THEN None ELSE steady

(* Standby stops the loop, a wake shortens its delay. *)
FBreak ==
  /\ WaitInitialized \/ Suspend \/ Wake
  /\ held' = 0
  /\ steady' = None

FOther ==
  /\ \/ Start \/ Stop \/ RegisterHandler \/ FirstSample \/ Sample \/ LeaveLoop
     \/ CheckResumed \/ ForgetResume \/ CommandOk \/ CommandFails
     \/ KeepPattern \/ EndDelay \/ ResumeEvent \/ RestoreStock
  /\ UNCHANGED flapVars

FNext == FTick \/ FCharger \/ FBreak \/ FOther

FSpec == FInit /\ [][FNext]_watchedVars

-----------------------------------------------------------------------------
(* The debounce (main.c 112-119): a charger that leaves its steady state    *)
(* for less than a loop delay, and not again within a pass, never moves the *)
(* LED; whatever the thread sends meanwhile, for a resume or a heartbeat,   *)
(* is the pattern of the steady state.                                      *)
BriefFlapsIgnored ==
  [][steady # None /\ slot' \notin {slot, EmptySlot}
       => slot' = {PatternFor(steady)}]_watchedVars
=============================================================================
