----------------------------- MODULE LedHistory -----------------------------
(***************************************************************************)
(* LedPolicy with history variables, and the properties that need them:    *)
(* how long the LED may be wrong, and when applied_state may be trusted.   *)
(* The history variables only watch; every step of LedPolicy is kept.      *)
(***************************************************************************)
EXTENDS LedPolicy

VARIABLES
  quiet,    \* ticks since the charger moved, a wake, the start of the policy
            \* or a failed command; stops counting above HeartbeatBound
  fault,    \* why the pattern may be lost without the thread knowing
  rewoken   \* the settle delay under way was interrupted by a wake

historyVars == <<quiet, fault, rewoken>>
allVars     == <<vars, historyVars>>

(* A change takes two loop delays to be sampled twice, and a resume path   *)
(* can put the settle delay between them after it was announced late.      *)
(* With the values of main.c 18-19 this stays under 2 s.                   *)
PromptBound == 2 * Delay + Settle + Restore

(* Otherwise the heartbeat puts the pattern back: 10.5 s at most in main.c. *)
HeartbeatBound == Heartbeat * Delay + Restore

(* The safety net is the slower of the two, as in main.c. *)
ASSUME HeartbeatAssumption == 2 * Delay + Settle <= Heartbeat * Delay

(* What the comment at main.c 122-123 counts on: the OS is done with the    *)
(* stock LED state before a settle delay begun with the resume is over.     *)
ASSUME RestoreAssumption == Restore < Settle

HInit ==
  /\ Init
  /\ quiet = 0
  /\ fault = "none"
  /\ rewoken = FALSE

HTick ==
  /\ Tick
  /\ quiet' = IF quiet > HeartbeatBound THEN quiet ELSE quiet + 1
  /\ UNCHANGED <<fault, rewoken>>

HDisturb ==
  /\ Start \/ Charger \/ WaitInitialized
  /\ quiet' = 0
  /\ UNCHANGED <<fault, rewoken>>

HWake ==
  /\ Wake
  /\ quiet' = 0
  /\ rewoken' = (rewoken \/ pc = "settle")
  /\ UNCHANGED fault

(* A resume path already under way is not announced to a new handler. *)
HRegister ==
  /\ RegisterHandler
  /\ fault' = IF console = "restoring" THEN "unheard" ELSE fault
  /\ UNCHANGED <<quiet, rewoken>>

HSample ==
  /\ FirstSample \/ Sample
  /\ UNCHANGED historyVars

HCheck ==
  /\ CheckResumed
  /\ rewoken' = FALSE
  /\ UNCHANGED <<quiet, fault>>

(* The flag of a resume path that is still restoring is lowered. *)
HForget ==
  /\ ForgetResume
  /\ fault' = IF console = "restoring" /\ fault = "none" THEN "swallowed" ELSE fault
  /\ UNCHANGED <<quiet, rewoken>>

HCommandOk ==
  /\ CommandOk
  /\ fault' = IF console = "on" THEN "none" ELSE fault
  /\ UNCHANGED <<quiet, rewoken>>

HCommandFails ==
  /\ CommandFails
  /\ fault' = "failed"
  /\ quiet' = 0
  /\ UNCHANGED rewoken

HOther ==
  /\ \/ Stop \/ LeaveLoop \/ KeepPattern \/ EndDelay
     \/ Suspend \/ ResumeEvent \/ RestoreStock
  /\ UNCHANGED historyVars

HNext ==
  \/ HTick \/ HDisturb \/ HWake \/ HRegister \/ HSample \/ HCheck \/ HForget
  \/ HCommandOk \/ HCommandFails \/ HOther

HSpec == HInit /\ [][HNext]_allVars

-----------------------------------------------------------------------------
(* The policy is up: on a board it supports, in its loop, not told to stop. *)
InLoop == Alive /\ pc # "waitInit" /\ Supported

(* The thread's cached state is the truth: outside the resume path, with no *)
(* resume still to be handled and nothing lost, the slot holds the pattern  *)
(* of applied_state (main.c 125-136).                                       *)
BeliefSound ==
  console = "on" /\ fault = "none" /\ ~resumed /\ applied # -1
    => slot = {PatternFor(applied)}

(* The settle delay does what its comment says (main.c 122-126): unless the *)
(* console was put to sleep and woken during the delay, the OS has finished *)
(* restoring the stock LED state when the flag is lowered.                  *)
SettleCoversRestore ==
  pc = "settle" /\ timer = 0 /\ console = "restoring" => rewoken

(* Prompt answer: after a wake or a charger change the LED is right within  *)
(* PromptBound ticks, unless a command failed or a resume was swallowed.    *)
AnsweredPromptly ==
  InLoop /\ fault = "none" /\ console = "on" /\ quiet > PromptBound => RightLed

(* The safety net (main.c 129-136): whatever was lost, the LED is right     *)
(* again within HeartbeatBound ticks of the last disturbance.               *)
HeartbeatHeals ==
  InLoop /\ console = "on" /\ quiet > HeartbeatBound => RightLed

(* What README.md:14 says of every wake: the LED is right again soon after. *)
(* Refuted: a wake during the settle delay is swallowed with the flag.      *)
EveryWakeReasserts ==
  InLoop /\ fault \in {"none", "swallowed"} /\ console = "on" /\ quiet > PromptBound
    => RightLed
=============================================================================
