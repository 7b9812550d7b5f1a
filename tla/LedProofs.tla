------------------------------ MODULE LedProofs ------------------------------
(***************************************************************************)
(* Proofs about the power LED policy, for every value of its constants:    *)
(* the policy itself (LedPolicy), and what its history says about it       *)
(* (LedHistory): when the thread's cached applied_state is the truth about *)
(* the syscon slot, what the settle delay covers, and how long the LED may *)
(* be wrong.                                                               *)
(***************************************************************************)
EXTENDS LedHistory, LedFlaps, TLAPS

(* Both patterns the plugin sends are for a device that claims the slot, so *)
(* a command leaves exactly its own pattern there (power_led.h 21-33).      *)
LEMMA CommandTakesSlot ==
  ASSUME NEW slots, NEW release
  PROVE  /\ Claim(slots, PatternFor(release)) = {PatternFor(release)}
         /\ PatternFor(release) \in {OffPattern, ReleasePattern}
  BY DEF Claim, PatternFor, OffPattern, ReleasePattern, Pattern

(* A timer that counts down stays in its range (main.c 124, 138). *)
LEMMA CountdownRange ==
  ASSUME NEW m \in Nat, NEW n \in 0..m
  PROVE  Countdown(n) \in 0..m
  BY DEF Countdown

(* The three flags hold nothing but TRUE and FALSE (main.c 33-34, 104).     *)
LEMMA FlagsStayBoolean == FlagsOK /\ [Next]_vars => FlagsOK'
<1> SUFFICES ASSUME FlagsOK, [Next]_vars PROVE FlagsOK'
  OBVIOUS
<1> USE DEF FlagsOK
<1>1. CASE Start \/ Stop
  BY <1>1 DEF Start, Stop
<1>2. CASE PolicyThread
  BY <1>2 DEF PolicyThread, WaitInitialized, RegisterHandler, FirstSample,
              Sample, LeaveLoop, CheckResumed, ForgetResume, CommandOk,
              CommandFails, KeepPattern, EndDelay, sharedVars
<1>3. CASE Environment \/ Tick
  BY <1>3 DEF Environment, Charger, Suspend, Wake, ResumeEvent, RestoreStock,
              Tick, sharedVars
<1>4. CASE UNCHANGED vars
  BY <1>4 DEF vars, sharedVars
<1> QED
  BY <1>1, <1>2, <1>3, <1>4 DEF Next, Step

-----------------------------------------------------------------------------
(* Every step keeps every variable in its range. *)
THEOREM TypeCorrect == Spec => []TypeOK
<1>1. Init => TypeOK
  <2>1. Init => FlagsOK
    BY DEF Init, FlagsOK
  <2> QED
    BY <2>1, TimeAssumption DEF TimeAssumption, Init, TypeOK
<1>2. TypeOK /\ [Next]_vars => TypeOK'
  <2> SUFFICES ASSUME TypeOK, [Next]_vars PROVE TypeOK'
    OBVIOUS
  <2>0. FlagsOK'
    BY FlagsStayBoolean DEF TypeOK
  <2> USE TimeAssumption DEF TimeAssumption
  <2>1. CASE Start \/ Stop
    BY <2>0, <2>1 DEF Start, Stop, TypeOK, osVars, threadVars
  <2>2. CASE WaitInitialized \/ RegisterHandler \/ FirstSample
    BY <2>0, <2>2 DEF WaitInitialized, RegisterHandler, FirstSample, TypeOK, osVars,
                sharedVars
  <2>3. CASE Sample \/ LeaveLoop
    BY <2>0, <2>3 DEF Sample, LeaveLoop, Debounced, TypeOK, osVars, sharedVars
  <2>4. CASE CheckResumed \/ ForgetResume
    BY <2>0, <2>4 DEF CheckResumed, ForgetResume, TypeOK, osVars, sharedVars
  <2>5. CASE CommandOk
    <3>1. slot' \in {{OffPattern}, {ReleasePattern}}
      BY <2>5, CommandTakesSlot DEF CommandOk
    <3> QED
      BY <2>0, <2>5, <3>1 DEF CommandOk, AfterCommand, TypeOK, osVars
  <2>6. CASE CommandFails \/ KeepPattern \/ EndDelay
    BY <2>0, <2>6 DEF CommandFails, AfterCommand, KeepPattern, EndDelay, TypeOK,
                osVars, sharedVars
  <2>7. CASE Charger \/ Suspend \/ ResumeEvent \/ RestoreStock
    BY <2>0, <2>7 DEF Charger, Suspend, ResumeEvent, RestoreStock, TypeOK,
                sharedVars, threadVars
  <2>8. CASE Wake
    BY <2>0, <2>8 DEF Wake, TypeOK
  <2>9. CASE Tick
    <3>1. timer' \in 0..(Delay + Settle) /\ grace' \in 0..Restore
      BY <2>9, CountdownRange DEF Tick, TypeOK
    <3> QED
      BY <2>0, <2>9, <3>1 DEF Tick, TypeOK, sharedVars
  <2>10. CASE UNCHANGED vars
    BY <2>0, <2>10 DEF vars, osVars, sharedVars, threadVars, TypeOK
  <2> QED
    BY <2>1, <2>2, <2>3, <2>4, <2>5, <2>6, <2>7, <2>8, <2>9, <2>10
    DEF Next, Step, PolicyThread, Environment
<1> QED
  BY <1>1, <1>2, PTL DEF Spec

-----------------------------------------------------------------------------
(* The counter is below its limit wherever a decision has been taken: that  *)
(* is what the increment after the delay relies on.                         *)
LoopsInv ==
  /\ LoopsBounded
  /\ pc = "delay" => loops < Heartbeat

LEMMA AlwaysLoops == Spec => []LoopsInv
<1>1. Init => LoopsInv
  BY TimeAssumption DEF TimeAssumption, Init, LoopsInv, LoopsBounded
<1>2. TypeOK /\ LoopsInv /\ [Next]_vars => LoopsInv'
  <2> SUFFICES ASSUME TypeOK, LoopsInv, [Next]_vars PROVE LoopsInv'
    OBVIOUS
  <2> USE TimeAssumption DEF TimeAssumption, LoopsInv, LoopsBounded, TypeOK
  <2>1. CASE CommandOk \/ CommandFails
    BY <2>1 DEF CommandOk, CommandFails, AfterCommand
  <2>2. CASE KeepPattern
    BY <2>2 DEF KeepPattern, CommandDue
  <2>3. CASE EndDelay
    BY <2>3 DEF EndDelay
  <2>4. CASE Start \/ WaitInitialized \/ RegisterHandler \/ FirstSample \/ Sample
             \/ LeaveLoop \/ CheckResumed \/ ForgetResume
    BY <2>4 DEF Start, WaitInitialized, RegisterHandler, FirstSample, Sample,
                LeaveLoop, CheckResumed, ForgetResume
  <2>5. CASE Stop \/ Environment \/ Tick
    BY <2>5 DEF Stop, Environment, Charger, Suspend, Wake, ResumeEvent,
                RestoreStock, Tick, threadVars
  <2>6. CASE UNCHANGED vars
    BY <2>6 DEF vars, threadVars
  <2> QED
    BY <2>1, <2>2, <2>3, <2>4, <2>5, <2>6 DEF Next, Step, PolicyThread
<1> QED
  BY <1>1, <1>2, TypeCorrect, PTL DEF Spec

(* The heartbeat counter never runs past NOLED_POLICY_HEARTBEAT_LOOPS. *)
THEOREM HeartbeatCounterBounded == Spec => []LoopsBounded
<1>1. LoopsInv => LoopsBounded
  BY DEF LoopsInv
<1> QED
  BY <1>1, AlwaysLoops, PTL

-----------------------------------------------------------------------------
(* On a board without the indicator the thread never gets past the gate. *)
GateInv ==
  ~Supported => /\ pc \in {"absent", "waitInit", "exited"}
                /\ ~registered /\ ~resumed /\ slot = EmptySlot

(* The gate lets through exactly the boards whose revision byte is at least *)
(* 0x40 (power_led.h 41).                                                   *)
LEMMA GateReadsRevision ==
  ASSUME NEW info \in Nat
  PROVE  IndicatorSupported(info) <=> (info \div 65536) % 256 >= 64
  BY DEF IndicatorSupported, BoardBits

(* Such a board is never sent a pattern and never gets a handler. *)
THEOREM OldBoardsStayUntouched == Spec => []OldBoardsUntouched
<1>1. Init => GateInv
  BY DEF Init, GateInv
<1>2. GateInv /\ [Next]_vars => GateInv'
  <2> SUFFICES ASSUME GateInv, [Next]_vars, ~Supported' PROVE GateInv'
    BY DEF GateInv
  <2>1. hw' = hw /\ ~Supported
    BY DEF Supported, Next, Step, Start, Stop, PolicyThread, WaitInitialized,
           RegisterHandler, FirstSample, Sample, LeaveLoop, CheckResumed,
           ForgetResume, CommandOk, CommandFails, KeepPattern, EndDelay,
           Environment, Charger, Suspend, Wake, ResumeEvent, RestoreStock, Tick,
           vars, osVars
  <2>2. /\ pc \in {"absent", "waitInit", "exited"}
        /\ ~registered /\ ~resumed /\ slot = EmptySlot
    BY <2>1 DEF GateInv
  <2> USE <2>1, <2>2 DEF GateInv
  <2>3. CASE Start \/ Stop
    BY <2>3 DEF Start, Stop, threadVars
  <2>4. CASE PolicyThread
    BY <2>4 DEF PolicyThread, WaitInitialized, RegisterHandler, FirstSample,
                Sample, LeaveLoop, CheckResumed, ForgetResume, CommandOk,
                CommandFails, KeepPattern, EndDelay, sharedVars
  <2>5. CASE ResumeEvent
    <3>1. ~resumed'
      BY <2>5, <2>2 DEF ResumeEvent
    <3> QED
      BY <2>5, <3>1 DEF ResumeEvent, threadVars
  <2>6. CASE Charger \/ Suspend \/ Wake \/ RestoreStock \/ Tick
    BY <2>6 DEF Charger, Suspend, Wake, RestoreStock, Tick, sharedVars, threadVars
  <2>7. CASE UNCHANGED vars
    BY <2>7 DEF vars, sharedVars, threadVars
  <2> QED
    BY <2>3, <2>4, <2>5, <2>6, <2>7 DEF Next, Step, Environment
<1>3. TypeOK /\ GateInv => OldBoardsUntouched
  <2> SUFFICES ASSUME TypeOK, GateInv, (hw \div 65536) % 256 < 64
               PROVE  ~registered /\ ~resumed /\ slot = EmptySlot
    BY DEF OldBoardsUntouched
  <2>1. hw \in Nat
    BY HardwareAssumption DEF HardwareAssumption, TypeOK
  <2>2. (hw \div 65536) % 256 \in Int
    BY <2>1
  <2>3. ~Supported
    BY <2>1, <2>2, GateReadsRevision DEF Supported
  <2> QED
    BY <2>3 DEF GateInv
<1> QED
  BY <1>1, <1>2, <1>3, TypeCorrect, PTL DEF Spec

-----------------------------------------------------------------------------
(* The history variables only watch: a step with them is a step of the      *)
(* policy (main.c 75-143).                                                  *)
LEMMA HistoryOnlyWatches == [HNext]_allVars => [Next]_vars
  BY DEF HNext, HTick, HDisturb, HWake, HRegister, HSample, HCheck, HForget,
         HCommandOk, HCommandFails, HOther, Next, Step, PolicyThread,
         Environment, allVars

(* Hence what holds of the policy's types holds with the history too. *)
LEMMA HistoryTypes == HSpec => []TypeOK
<1>1. HSpec => Spec
  BY HistoryOnlyWatches, PTL DEF HSpec, HInit, Spec
<1> QED
  BY <1>1, TypeCorrect, PTL

-----------------------------------------------------------------------------
(* While the resume path restores, the flag is up unless the loss is on     *)
(* record; and there is no belief before there is a handler.                *)
BeliefInv ==
  /\ BeliefSound
  /\ console = "restoring" /\ registered /\ fault = "none" => resumed
  /\ ~registered => applied = -1
  /\ pc \notin {"absent", "waitInit", "register", "exited"} => registered

(* Outside the resume path, with nothing recorded as lost and no resume     *)
(* waiting, applied_state names the pattern that is in the slot.            *)
THEOREM BeliefIsSound == HSpec => []BeliefSound
<1>1. HInit => BeliefInv
  BY DEF HInit, Init, BeliefInv, BeliefSound
<1>2. BeliefInv /\ [HNext]_allVars => BeliefInv'
  <2> SUFFICES ASSUME BeliefInv, [HNext]_allVars PROVE BeliefInv'
    OBVIOUS
  <2> USE DEF BeliefInv, BeliefSound
  <2>1. CASE HTick
    BY <2>1 DEF HTick, Tick, sharedVars
  <2>2. CASE HDisturb
    BY <2>2 DEF HDisturb, Start, Charger, WaitInitialized, osVars, sharedVars,
                threadVars
  <2>3. CASE HWake
    BY <2>3 DEF HWake, Wake
  <2>4. CASE HRegister
    BY <2>4 DEF HRegister, RegisterHandler, osVars
  <2>5. CASE HSample
    BY <2>5 DEF HSample, historyVars, FirstSample, Sample, osVars, sharedVars
  <2>6. CASE HCheck
    BY <2>6 DEF HCheck, CheckResumed, osVars, sharedVars
  <2>7. CASE HForget
    BY <2>7 DEF HForget, ForgetResume, osVars
  <2>8. CASE HCommandOk
    <3>1. slot' = {PatternFor(applied')}
      BY <2>8, CommandTakesSlot DEF HCommandOk, CommandOk, AfterCommand
    <3> QED
      BY <2>8, <3>1 DEF HCommandOk, CommandOk, AfterCommand, osVars
  <2>9. CASE HCommandFails
    BY <2>9 DEF HCommandFails, CommandFails, AfterCommand, osVars, sharedVars
  <2>10. CASE HOther
    <3>1. CASE Stop \/ LeaveLoop \/ KeepPattern \/ EndDelay
      BY <2>10, <3>1 DEF HOther, Stop, LeaveLoop, KeepPattern, EndDelay, osVars,
                         sharedVars, threadVars, historyVars
    <3>2. CASE Suspend
      BY <2>10, <3>2 DEF HOther, Suspend, sharedVars, threadVars, historyVars
    <3>3. CASE ResumeEvent
      BY <2>10, <3>3 DEF HOther, ResumeEvent, threadVars, historyVars
    <3>4. CASE RestoreStock
      BY <2>10, <3>4 DEF HOther, RestoreStock, threadVars, historyVars
    <3> QED
      BY <2>10, <3>1, <3>2, <3>3, <3>4 DEF HOther
  <2>11. CASE UNCHANGED allVars
    BY <2>11 DEF allVars, vars, osVars, sharedVars, threadVars, historyVars
  <2> QED
    BY <2>1, <2>2, <2>3, <2>4, <2>5, <2>6, <2>7, <2>8, <2>9, <2>10, <2>11
    DEF HNext
<1>3. BeliefInv => BeliefSound
  BY DEF BeliefInv
<1> QED
  BY <1>1, <1>2, <1>3, PTL DEF HSpec

-----------------------------------------------------------------------------
(* A settle delay that saw no wake outlasts the resume path. *)
SettleInv == pc = "settle" /\ Resuming /\ ~rewoken => grace < timer

(* When the settle delay is over and the OS is still restoring the stock    *)
(* LED state, the console was woken during that very delay.                 *)
THEOREM SettleDelayCoversRestore == HSpec => []SettleCoversRestore
<1>1. HInit => SettleInv
  BY DEF HInit, Init, SettleInv
<1>2. TypeOK /\ SettleInv /\ [HNext]_allVars => SettleInv'
  <2> SUFFICES ASSUME TypeOK, SettleInv, [HNext]_allVars PROVE SettleInv'
    OBVIOUS
  <2> USE DEF SettleInv, Resuming
  <2>1. CASE HTick
    BY <2>1, TimeAssumption
    DEF HTick, Tick, Countdown, TypeOK, TimeAssumption
  <2>2. CASE HCheck
    BY <2>2, TimeAssumption, RestoreAssumption
    DEF HCheck, CheckResumed, TypeOK, osVars, TimeAssumption, RestoreAssumption
  <2>3. CASE HWake
    BY <2>3 DEF HWake, Wake
  <2>4. CASE HDisturb \/ HRegister \/ HSample
    BY <2>4 DEF HDisturb, Start, Charger, WaitInitialized, HRegister,
                RegisterHandler, HSample, historyVars, FirstSample, Sample, threadVars
  <2>5. CASE HForget \/ HCommandOk \/ HCommandFails
    BY <2>5 DEF HForget, ForgetResume, HCommandOk, CommandOk, HCommandFails,
                CommandFails, AfterCommand
  <2>6. CASE HOther
    BY <2>6 DEF HOther, Stop, LeaveLoop, KeepPattern, EndDelay, Suspend,
                ResumeEvent, RestoreStock, osVars, threadVars, historyVars
  <2>7. CASE UNCHANGED allVars
    BY <2>7 DEF allVars, vars, osVars, threadVars, historyVars
  <2> QED
    BY <2>1, <2>2, <2>3, <2>4, <2>5, <2>6, <2>7 DEF HNext
<1>3. TypeOK /\ SettleInv => SettleCoversRestore
  BY TimeAssumption
  DEF TypeOK, SettleInv, SettleCoversRestore, Resuming, TimeAssumption
<1> QED
  BY <1>1, <1>2, <1>3, HistoryTypes, PTL DEF HSpec
-----------------------------------------------------------------------------
(* How long the LED may be wrong.  Time passes only in the two delays of    *)
(* the thread, so what is left of them, and of the resume path, bounds when *)
(* the next sample is taken and the next command sent.                      *)

InDelay == pc = "delay"

(* Where the thread can run: no time passes there. *)
Working == pc \in {"register", "first", "top", "check", "decide"}

(* The delays have their lengths, and nothing takes time before the first. *)
DelayInv ==
  /\ quiet \in Nat
  /\ InDelay => timer <= Delay
  /\ pc = "settle" => timer <= Settle
  /\ pc \in {"register", "first"} => quiet = 0
  /\ pc \in {"absent", "waitInit", "register", "first"} => applied = -1

(* A resume path is over Restore ticks after its wake; the flag it raises   *)
(* is seen after the delay it finds the thread in.                          *)
WakeInv ==
  /\ Resuming => quiet + grace <= Restore
  /\ resumed /\ pc = "decide" => quiet <= Restore
  /\ resumed /\ InDelay => quiet + timer <= Restore + Delay
  /\ resumed /\ pc \in {"top", "check"} => quiet <= Restore + Delay
  /\ pc = "settle" => quiet + timer <= Restore + Delay + Settle

(* A change is sampled once after the delay it finds the thread in, and a   *)
(* second time, with at most one settle delay between, after the next.      *)
SampledInv ==
  /\ stable # charging /\ last # charging =>
       /\ pc = "top" => quiet <= Settle + Delay
       /\ pc = "check" => quiet = 0
       /\ pc = "settle" => quiet + timer <= Settle
       /\ pc = "decide" => quiet <= Settle
       /\ InDelay => quiet + timer <= Settle + Delay
  /\ stable # charging =>
       /\ pc = "top" => quiet <= PromptBound
       /\ pc = "check" => quiet <= Settle + Delay
       /\ pc = "decide" => quiet <= Restore + Delay + Settle
       /\ InDelay => quiet + timer <= PromptBound

(* What has been sampled is sent by the end of the pass. *)
SentInv ==
  applied # stable =>
    /\ ~InDelay
    /\ pc \in {"top", "check", "decide"} => quiet <= PromptBound

(* The ticks until the counter is at its limit, from n on. *)
Beats(n) == (Heartbeat - n) * Delay

(* The slot holds the pattern and keeps it, or the heartbeat is to come. *)
HeartbeatInv ==
  \/ ~Resuming /\ slot = {PatternFor(applied)}
  \/ /\ pc = "delay" => quiet + timer + Beats(loops + 1) <= HeartbeatBound
     /\ pc \in {"top", "check", "decide"} /\ applied # -1
          => quiet + Beats(loops) <= HeartbeatBound
TimingInv == DelayInv /\ WakeInv /\ SampledInv /\ SentInv

(* What the invariants need of the types. *)
LEMMA Ranges ==
  ASSUME TypeOK
  PROVE  /\ charging \in {0, 1} /\ stable \in {0, 1} /\ last \in {0, 1}
         /\ applied \in {-1, 0, 1}
         /\ timer \in Nat /\ grace \in Nat /\ grace <= Restore /\ loops \in Nat
         /\ Delay \in Nat /\ Settle \in Nat /\ Restore \in Nat /\ Heartbeat \in Nat
         /\ Delay > 0 /\ Settle > 0 /\ Heartbeat > 0
         /\ PromptBound = 2 * Delay + Settle + Restore
         /\ PromptBound \in Nat
  BY TimeAssumption DEF TypeOK, TimeAssumption, PromptBound

LEMMA Bounds ==
  /\ HeartbeatBound \in Nat
  /\ PromptBound <= HeartbeatBound
  /\ Heartbeat * Delay \in Nat
  /\ HeartbeatBound = Heartbeat * Delay + Restore
<1>1. Heartbeat \in Nat /\ Delay \in Nat /\ Restore \in Nat /\ Settle \in Nat
  BY TimeAssumption DEF TimeAssumption
<1>2. Heartbeat * Delay \in Nat
  BY <1>1
<1> QED
  BY <1>1, <1>2, HeartbeatAssumption
  DEF HeartbeatAssumption, HeartbeatBound, PromptBound

(* A tick takes one off the delay that the thread is in. *)
LEMMA TickCounts ==
  ASSUME TypeOK, DelayInv, HTick
  PROVE  /\ ~Working
         /\ (InDelay \/ pc = "settle") => timer > 0 /\ timer' = timer - 1
         /\ Resuming => grace > 0 /\ grace' = grace - 1
         /\ quiet' \in Nat /\ quiet' <= quiet + 1
         /\ UNCHANGED <<pc, console, charging, stable, last, applied, loops, resumed, slot>>
<1>1. pc \in {"absent", "waitInit", "exited"} \/ (pc \in {"settle", "delay"} /\ timer # 0)
  BY DEF HTick, Tick, Runnable
<1>2. timer \in Nat /\ grace \in Nat
  BY Ranges
<1>3. timer' = Countdown(timer) /\ grace' = Countdown(grace) /\ (Resuming => grace > 0)
  BY DEF HTick, Tick
<1>4. quiet' = IF quiet > HeartbeatBound THEN quiet ELSE quiet + 1
  BY DEF HTick
<1>5. quiet' \in Nat /\ quiet' <= quiet + 1
  BY <1>4, Bounds DEF DelayInv
<1>6. UNCHANGED <<pc, console, charging, stable, last, applied, loops, resumed, slot>>
  BY DEF HTick, Tick, sharedVars
<1> QED
  BY <1>1, <1>2, <1>3, <1>5, <1>6 DEF Countdown, Working, InDelay

(* The bounds hold from the start, and every step keeps each of them. *)
LEMMA InitTiming == HInit => TimingInv /\ HeartbeatInv
  BY DEF HInit, Init, TimingInv, DelayInv, WakeInv, SampledInv, SentInv, HeartbeatInv,
         InDelay, Resuming

LEMMA StepDelay == TypeOK /\ DelayInv /\ [HNext]_allVars => DelayInv'
<1> SUFFICES ASSUME TypeOK, DelayInv, [HNext]_allVars
             PROVE  DelayInv'
  OBVIOUS
<1> USE Ranges DEF DelayInv, InDelay
<1>1. CASE HTick
  BY <1>1, TickCounts DEF Working
<1>2. CASE HDisturb
  BY <1>2 DEF HDisturb, Start, Charger, WaitInitialized, sharedVars, threadVars, osVars
<1>3. CASE HWake
  BY <1>3 DEF HWake, Wake
<1>4. CASE HRegister \/ HSample
  BY <1>4 DEF HRegister, RegisterHandler, HSample, historyVars, FirstSample, Sample
<1>5. CASE HCheck
  BY <1>5 DEF HCheck, CheckResumed
<1>6. CASE HForget
  BY <1>6 DEF HForget, ForgetResume
<1>7. CASE HCommandOk \/ HCommandFails
  BY <1>7 DEF HCommandOk, CommandOk, HCommandFails, CommandFails, AfterCommand
<1>8. CASE HOther
  BY <1>8 DEF HOther, Stop, LeaveLoop, KeepPattern, EndDelay, Suspend, ResumeEvent,
              RestoreStock, threadVars, historyVars
<1>9. CASE UNCHANGED allVars
  BY <1>9 DEF allVars, vars, threadVars, historyVars
<1> QED
  BY <1>1, <1>2, <1>3, <1>4, <1>5, <1>6, <1>7, <1>8, <1>9 DEF HNext

LEMMA StepWake == TypeOK /\ DelayInv /\ WakeInv /\ [HNext]_allVars => WakeInv'
<1> SUFFICES ASSUME TypeOK, DelayInv, WakeInv, [HNext]_allVars
             PROVE  WakeInv'
  OBVIOUS
<1> USE Ranges DEF DelayInv, WakeInv, InDelay, Resuming
<1>1. CASE HTick
  BY <1>1, TickCounts DEF Working
<1>2. CASE HDisturb
  BY <1>2 DEF HDisturb, Start, Charger, WaitInitialized, sharedVars, threadVars, osVars
<1>3. CASE HWake
  BY <1>3 DEF HWake, Wake
<1>4. CASE HRegister \/ HSample
  BY <1>4 DEF HRegister, RegisterHandler, HSample, historyVars, FirstSample, Sample, osVars, sharedVars
<1>5. CASE HCheck
  BY <1>5 DEF HCheck, CheckResumed, osVars, sharedVars
<1>6. CASE HForget
  BY <1>6 DEF HForget, ForgetResume, osVars
<1>7. CASE HCommandOk \/ HCommandFails
  BY <1>7 DEF HCommandOk, CommandOk, HCommandFails, CommandFails, AfterCommand, osVars,
              sharedVars
<1>8. CASE HOther
  <2>1. CASE Stop \/ LeaveLoop \/ KeepPattern \/ EndDelay
    BY <1>8, <2>1 DEF HOther, Stop, LeaveLoop, KeepPattern, EndDelay, osVars, sharedVars,
                  threadVars, historyVars
  <2>2. CASE Suspend \/ ResumeEvent \/ RestoreStock
    BY <1>8, <2>2 DEF HOther, Suspend, ResumeEvent, RestoreStock, sharedVars, threadVars,
                  historyVars
  <2> QED
    BY <1>8, <2>1, <2>2 DEF HOther
<1>9. CASE UNCHANGED allVars
  BY <1>9 DEF allVars, vars, osVars, sharedVars, threadVars, historyVars
<1> QED
  BY <1>1, <1>2, <1>3, <1>4, <1>5, <1>6, <1>7, <1>8, <1>9 DEF HNext

LEMMA StepSampled ==
  TypeOK /\ DelayInv /\ WakeInv /\ SampledInv /\ [HNext]_allVars => SampledInv'
<1> SUFFICES ASSUME TypeOK, DelayInv, WakeInv, SampledInv, [HNext]_allVars
             PROVE  SampledInv'
  OBVIOUS
<1> USE Ranges DEF DelayInv, WakeInv, SampledInv, InDelay
<1>1. CASE HTick
  BY <1>1, TickCounts DEF Working
<1>2. CASE HDisturb
  BY <1>2 DEF HDisturb, Start, Charger, WaitInitialized, sharedVars, threadVars, osVars
<1>3. CASE HWake
  BY <1>3 DEF HWake, Wake
<1>4. CASE HRegister
  BY <1>4 DEF HRegister, RegisterHandler, osVars
<1>5. CASE HSample
  BY <1>5 DEF HSample, historyVars, FirstSample, Sample, Debounced, osVars
<1>6. CASE HCheck
  BY <1>6 DEF HCheck, CheckResumed, osVars, sharedVars
<1>7. CASE HForget
  BY <1>7 DEF HForget, ForgetResume, osVars
<1>8. CASE HCommandOk \/ HCommandFails
  BY <1>8 DEF HCommandOk, CommandOk, HCommandFails, CommandFails, AfterCommand, osVars,
              sharedVars
<1>9. CASE HOther
  BY <1>9 DEF HOther, Stop, LeaveLoop, KeepPattern, EndDelay, Suspend, ResumeEvent,
              RestoreStock, osVars, threadVars, historyVars
<1>10. CASE UNCHANGED allVars
  BY <1>10 DEF allVars, vars, osVars, threadVars, historyVars
<1> QED
  BY <1>1, <1>2, <1>3, <1>4, <1>5, <1>6, <1>7, <1>8, <1>9, <1>10 DEF HNext

LEMMA StepSent ==
  TypeOK /\ TimingInv /\ [HNext]_allVars => SentInv'
<1> SUFFICES ASSUME TypeOK, TimingInv, [HNext]_allVars
             PROVE  SentInv'
  OBVIOUS
<1> USE Ranges DEF TimingInv, DelayInv, SentInv, InDelay
<1>1. CASE HTick
  BY <1>1, TickCounts DEF Working
<1>2. CASE HDisturb
  BY <1>2 DEF HDisturb, Start, Charger, WaitInitialized, sharedVars, threadVars, osVars
<1>3. CASE HWake
  BY <1>3 DEF HWake, Wake
<1>4. CASE HRegister
  BY <1>4 DEF HRegister, RegisterHandler
<1>5. CASE HSample
  BY <1>5 DEF HSample, historyVars, FirstSample, Sample, Debounced, SampledInv
<1>6. CASE HCheck
  BY <1>6 DEF HCheck, CheckResumed
<1>7. CASE HForget
  BY <1>7 DEF HForget, ForgetResume, WakeInv
<1>8. CASE HCommandOk \/ HCommandFails
  BY <1>8 DEF HCommandOk, CommandOk, HCommandFails, CommandFails, AfterCommand
<1>9. CASE HOther
  BY <1>9 DEF HOther, Stop, LeaveLoop, KeepPattern, CommandDue, EndDelay, Suspend,
              ResumeEvent, RestoreStock, threadVars, historyVars
<1>10. CASE UNCHANGED allVars
  BY <1>10 DEF allVars, vars, threadVars, historyVars
<1> QED
  BY <1>1, <1>2, <1>3, <1>4, <1>5, <1>6, <1>7, <1>8, <1>9, <1>10 DEF HNext

LEMMA AlwaysTiming == HSpec => []TimingInv
<1>1. HInit => TimingInv
  BY InitTiming
<1>2. TypeOK /\ TimingInv /\ [HNext]_allVars => TimingInv'
  BY StepDelay, StepWake, StepSampled, StepSent DEF TimingInv
<1> QED
  BY <1>1, <1>2, HistoryTypes, PTL DEF HSpec

(* Whoever has the right pattern in the slot sees the right LED. *)
LEMMA PatternIsRight ==
  ASSUME charging \in {0, 1}, console = "on", slot = {PatternFor(charging)}
  PROVE  RightLed
<1>1. PatternFor(0) = OffPattern /\ PatternFor(1) = ReleasePattern
  BY DEF PatternFor
<1>2. OffPattern.dev = 1 /\ OffPattern.on = 0 /\ ReleasePattern.dev = 0
  BY DEF OffPattern, ReleasePattern, Pattern
<1>3. CASE charging = 0
  BY <1>1, <1>2, <1>3 DEF RightLed, LedNow, Led
<1>4. CASE charging = 1
  BY <1>1, <1>2, <1>4 DEF RightLed, LedNow, Led, BasePolicy
<1> QED
  BY <1>3, <1>4

(* From PromptBound on, the thread has sampled and sent what is the case.   *)
LEMMA SettledWithinBound ==
  ASSUME TypeOK, TimingInv, quiet > PromptBound, pc \notin {"absent", "waitInit", "exited"}
  PROVE  /\ stable = charging /\ applied = stable /\ applied # -1
         /\ ~resumed
         /\ pc # "settle"
<1> USE Ranges DEF TimingInv, DelayInv, InDelay
<1>1. pc \in {"top", "check", "decide", "delay"}
  BY DEF TypeOK, WakeInv
<1>2. stable = charging
  BY <1>1 DEF SampledInv
<1>3. applied = stable /\ applied # -1
  BY <1>1 DEF SentInv
<1>4. ~resumed
  BY <1>1 DEF WakeInv
<1> QED
  BY <1>1, <1>2, <1>3, <1>4

(* Whatever the lengths of the delays: two delays, a settle delay and a     *)
(* resume path after the last disturbance the LED is right, unless a        *)
(* command failed or a resume got lost (the loop of main.c 111-140).        *)
THEOREM AnswerIsPrompt == HSpec => []AnsweredPromptly
<1>1. TypeOK /\ TimingInv /\ BeliefSound => AnsweredPromptly
  <2> SUFFICES ASSUME TypeOK, TimingInv, BeliefSound, InLoop, fault = "none",
                      console = "on", quiet > PromptBound
               PROVE  RightLed
    BY DEF AnsweredPromptly
  <2>1. pc \notin {"absent", "waitInit", "exited"}
    BY DEF InLoop, Alive
  <2>2. stable = charging /\ applied = stable /\ applied # -1 /\ ~resumed
    BY <2>1, SettledWithinBound
  <2>3. slot = {PatternFor(charging)}
    BY <2>2 DEF BeliefSound
  <2> QED
    BY <2>3, PatternIsRight, Ranges
<1> QED
  BY <1>1, HistoryTypes, AlwaysTiming, BeliefIsSound, PTL

LEMMA LoopsInHistory == HSpec => []LoopsInv
<1>1. HSpec => Spec
  BY HistoryOnlyWatches, PTL DEF HSpec, HInit, Spec
<1> QED
  BY <1>1, AlwaysLoops, PTL

LEMMA BeatsCount ==
  ASSUME NEW n \in Nat
  PROVE  /\ Beats(n) \in Int
         /\ Beats(n) = Delay + Beats(n + 1)
         /\ n <= Heartbeat => Beats(n) >= 0
         /\ Beats(n) <= Heartbeat * Delay
<1>1. Heartbeat \in Nat /\ Delay \in Nat
  BY TimeAssumption DEF TimeAssumption
<1>2. Beats(n) \in Int /\ Beats(n) = Delay + Beats(n + 1)
  BY <1>1 DEF Beats
<1>3. n <= Heartbeat => Beats(n) >= 0
  <2>1. n <= Heartbeat => Heartbeat - n \in Nat
    BY <1>1
  <2> QED
    BY <1>1, <2>1 DEF Beats
<1>4. Beats(n) <= Heartbeat * Delay
  <2>1. n * Delay \in Nat
    BY <1>1
  <2>2. Beats(n) = Heartbeat * Delay - n * Delay
    BY <1>1 DEF Beats
  <2>3. Heartbeat * Delay \in Nat
    BY <1>1
  <2> QED
    BY <2>1, <2>2, <2>3
<1> QED
  BY <1>2, <1>3, <1>4

LEMMA StepHeartbeat ==
  TypeOK /\ LoopsInv /\ TimingInv /\ HeartbeatInv /\ [HNext]_allVars => HeartbeatInv'
<1> SUFFICES ASSUME TypeOK, LoopsInv, TimingInv, HeartbeatInv, [HNext]_allVars
             PROVE  HeartbeatInv'
  OBVIOUS
<1> USE Ranges DEF InDelay
<1>a. DelayInv /\ WakeInv
  BY DEF TimingInv
<1>b. /\ Beats(loops) \in Int /\ Beats(loops + 1) \in Int
      /\ Beats(loops) = Delay + Beats(loops + 1)
      /\ Beats(loops) <= Heartbeat * Delay
      /\ Beats(0) = Delay + Beats(0 + 1) /\ Beats(0) <= Heartbeat * Delay
      /\ Beats(0) \in Int /\ Beats(0 + 1) \in Int
      /\ loops + 1 \in Nat
  BY BeatsCount
<1>c. /\ HeartbeatBound \in Nat
      /\ Heartbeat * Delay \in Nat
      /\ HeartbeatBound = Heartbeat * Delay + Restore
  BY Bounds
(* What happens at a disturbance leaves time enough. *)
<1>d. ASSUME quiet' = 0, UNCHANGED <<pc, loops>>, timer' <= timer, timer' \in Nat
      PROVE  HeartbeatInv'
  <2>1. pc = "delay" => timer' + Beats(loops + 1) <= HeartbeatBound
    BY <1>a, <1>b, <1>c, <1>d DEF DelayInv
  <2>2. Beats(loops) <= HeartbeatBound
    BY <1>b, <1>c
  <2>3. 0 + timer' + Beats(loops + 1) = timer' + Beats(loops + 1) /\ 0 + Beats(loops) = Beats(loops)
    BY <1>b, <1>d
  <2> QED
    BY <1>d, <2>1, <2>2, <2>3 DEF HeartbeatInv
<1>1. CASE HTick
  <2>1. /\ ~Working
        /\ pc = "delay" => timer > 0 /\ timer' = timer - 1
        /\ quiet' \in Nat /\ quiet' <= quiet + 1 /\ quiet \in Nat
        /\ UNCHANGED <<pc, console, applied, loops, slot>>
    BY <1>1, <1>a, TickCounts DEF DelayInv
  <2>2. CASE ~Resuming /\ slot = {PatternFor(applied)}
    BY <2>1, <2>2 DEF HeartbeatInv, Resuming
  <2>3. CASE pc = "delay" => quiet + timer + Beats(loops + 1) <= HeartbeatBound
    <3>1. pc = "delay" => quiet' + timer' + Beats(loops + 1) <= HeartbeatBound
      BY <1>b, <1>c, <2>1, <2>3
    <3>2. pc' \notin {"top", "check", "decide"}
      BY <2>1 DEF Working
    <3> QED
      BY <2>1, <3>1, <3>2 DEF HeartbeatInv
  <2> QED
    BY <2>2, <2>3 DEF HeartbeatInv
<1>2. CASE HDisturb
  <2>1. CASE Charger
    BY <1>2, <1>d, <2>1 DEF HDisturb, Charger, threadVars
  <2>2. CASE Start \/ WaitInitialized
    BY <1>2, <2>2 DEF HDisturb, Start, WaitInitialized, HeartbeatInv
  <2> QED
    BY <1>2, <2>1, <2>2 DEF HDisturb
<1>3. CASE HWake
  BY <1>3, <1>d DEF HWake, Wake
<1>4. CASE HRegister \/ HSample
  BY <1>4, <1>a DEF HRegister, RegisterHandler, HSample, historyVars, FirstSample, Sample, DelayInv,
                    HeartbeatInv, Resuming, osVars, sharedVars
<1>5. CASE HCheck
  BY <1>5 DEF HCheck, CheckResumed, HeartbeatInv, Resuming, osVars, sharedVars
<1>6. CASE HForget
  BY <1>6 DEF HForget, ForgetResume, HeartbeatInv
<1>7. CASE HCommandOk
  <2>1. /\ slot' = {PatternFor(applied')}
        /\ UNCHANGED <<console, quiet>>
        /\ loops' = 0 /\ pc' = "delay" /\ timer' = Delay
    BY <1>7, CommandTakesSlot DEF HCommandOk, CommandOk, AfterCommand, osVars
  <2>2. CASE Resuming
    <3>1. quiet <= Restore /\ quiet \in Nat
      BY <1>a, <2>2 DEF WakeInv, DelayInv
    <3>2. quiet + Delay + Beats(0 + 1) <= HeartbeatBound
      BY <1>b, <1>c, <3>1
    <3> QED
      BY <2>1, <3>2 DEF HeartbeatInv
  <2>3. CASE ~Resuming
    BY <2>1, <2>3 DEF HeartbeatInv, Resuming
  <2> QED
    BY <2>2, <2>3
<1>8. CASE HCommandFails
  <2>1. quiet' = 0 /\ loops' = 0 /\ pc' = "delay" /\ timer' = Delay
    BY <1>8 DEF HCommandFails, CommandFails, AfterCommand
  <2>2. 0 + Delay + Beats(0 + 1) <= HeartbeatBound
    BY <1>b, <1>c
  <2> QED
    BY <2>1, <2>2 DEF HeartbeatInv
<1>9. CASE HOther
  <2>1. CASE KeepPattern
    <3>1. /\ pc = "decide" /\ pc' = "delay" /\ timer' = Delay
          /\ applied = stable /\ applied # -1
          /\ UNCHANGED <<console, slot, quiet, applied, loops>>
      BY <1>9, <2>1 DEF HOther, KeepPattern, CommandDue, osVars, sharedVars, historyVars
    <3>2. quiet + Delay + Beats(loops + 1) = quiet + Beats(loops)
      BY <1>a, <1>b DEF DelayInv
    <3> QED
      BY <3>1, <3>2 DEF HeartbeatInv, Resuming
  <2>2. CASE EndDelay
    <3>1. /\ pc = "delay" /\ pc' = "top" /\ timer = 0 /\ loops' = loops + 1
          /\ UNCHANGED <<console, slot, quiet, applied>>
      BY <1>9, <2>2 DEF HOther, EndDelay, osVars, sharedVars, historyVars
    <3>2. quiet + timer + Beats(loops + 1) = quiet + Beats(loops + 1)
      BY <1>a, <1>b, <3>1 DEF DelayInv
    <3> QED
      BY <3>1, <3>2 DEF HeartbeatInv, Resuming
  <2>3. CASE Stop \/ LeaveLoop
    BY <1>9, <2>3 DEF HOther, Stop, LeaveLoop, HeartbeatInv, Resuming, osVars, sharedVars,
                      threadVars, historyVars
  <2>4. CASE Suspend \/ ResumeEvent \/ RestoreStock
    BY <1>9, <2>4 DEF HOther, Suspend, ResumeEvent, RestoreStock, HeartbeatInv, Resuming,
                      sharedVars, threadVars, historyVars
  <2> QED
    BY <1>9, <2>1, <2>2, <2>3, <2>4 DEF HOther
<1>10. CASE UNCHANGED allVars
  BY <1>10 DEF allVars, vars, osVars, sharedVars, threadVars, historyVars, HeartbeatInv,
               Resuming
<1> QED
  BY <1>1, <1>2, <1>3, <1>4, <1>5, <1>6, <1>7, <1>8, <1>9, <1>10 DEF HNext

(* And whatever got lost, it is right again after as many delays as the     *)
(* heartbeat counts and a resume path (main.c 129-136).                     *)
THEOREM HeartbeatPutsItRight == HSpec => []HeartbeatHeals
<1>1. HInit => HeartbeatInv
  BY InitTiming
<1>2. TypeOK /\ LoopsInv /\ TimingInv /\ HeartbeatInv /\ [HNext]_allVars => HeartbeatInv'
  BY StepHeartbeat
<1>3. TypeOK /\ LoopsInv /\ TimingInv /\ HeartbeatInv => HeartbeatHeals
  <2> SUFFICES ASSUME TypeOK, LoopsInv, TimingInv, HeartbeatInv, InLoop,
                      console = "on", quiet > HeartbeatBound
               PROVE  RightLed
    BY DEF HeartbeatHeals
  <2>1. pc \notin {"absent", "waitInit", "exited"} /\ quiet \in Nat
    BY DEF InLoop, Alive, TimingInv, DelayInv
  <2>2. quiet > PromptBound
    BY <2>1, Bounds, Ranges
  <2>3. /\ stable = charging /\ applied = stable /\ applied # -1
        /\ pc \in {"top", "check", "decide", "delay"}
    BY <2>1, <2>2, SettledWithinBound DEF TypeOK, TimingInv, DelayInv
  <2>4. slot = {PatternFor(applied)}
    <3>1. CASE pc = "delay"
      <4>1. loops + 1 \in Nat /\ loops + 1 <= Heartbeat /\ timer \in Nat
        BY <3>1, Ranges DEF LoopsInv
      <4>2. Beats(loops + 1) \in Int /\ Beats(loops + 1) >= 0
        BY <4>1, BeatsCount
      <4>3. ~(quiet + timer + Beats(loops + 1) <= HeartbeatBound)
        BY <2>1, <4>1, <4>2, Bounds
      <4> QED
        BY <3>1, <4>3 DEF HeartbeatInv
    <3>2. CASE pc # "delay"
      <4>1. loops \in Nat /\ loops <= Heartbeat
        BY Ranges DEF LoopsInv, LoopsBounded
      <4>2. Beats(loops) \in Int /\ Beats(loops) >= 0
        BY <4>1, BeatsCount
      <4>3. ~(quiet + Beats(loops) <= HeartbeatBound)
        BY <2>1, <4>2, Bounds
      <4> QED
        BY <2>3, <3>2, <4>3 DEF HeartbeatInv
    <3> QED
      BY <3>1, <3>2
  <2> QED
    BY <2>3, <2>4, PatternIsRight, Ranges
<1> QED
  BY <1>1, <1>2, <1>3, HistoryTypes, LoopsInHistory, AlwaysTiming, PTL DEF HSpec

-----------------------------------------------------------------------------
(* The debounce.  What is left of the pass, at most and at least, says when *)
(* the next sample is taken; the checks in between take no time.            *)
AtMost ==
  CASE pc = "check"  -> Settle + Delay
    [] pc = "settle" -> timer + Delay
    [] pc = "decide" -> Delay
    [] pc = "delay"  -> timer
    [] OTHER         -> 0

AtLeast == IF pc = "check" THEN Delay ELSE AtMost

(* A charger move is in last after a pass, and in stable after two. *)
FollowInv ==
  /\ held \in Nat
  /\ pc \in {"register", "first"} => held = 0
  /\ pc = "delay" => timer <= Delay
  /\ pc = "settle" => timer <= Settle
  /\ Looping => /\ last # charging => held + AtMost <= Pass
                /\ stable # charging => held + AtMost <= 2 * Pass

(* While the charger is briefly away, the sample that shows it is followed  *)
(* by one that is taken when it has been away for a whole delay.            *)
SteadyInv ==
  /\ steady \in {None, 0, 1}
  /\ steady # None /\ pc # "exited" => Looping
  /\ Looping /\ steady # None => stable = steady
  /\ Looping /\ Away => /\ held < Delay
                        /\ last # steady => held + AtLeast >= Delay

FlapInv == FollowInv /\ SteadyInv

(* The history of the charger only watches, too (main.c 75-143). *)
LEMMA FlapsOnlyWatch == [FNext]_watchedVars => [Next]_vars
  BY DEF FNext, FTick, FCharger, FBreak, FOther, Next, Step, PolicyThread,
         Environment, watchedVars

LEMMA FlapTypes == FSpec => []TypeOK
<1>1. FSpec => Spec
  BY FlapsOnlyWatch, PTL DEF FSpec, FInit, Spec
<1> QED
  BY <1>1, TypeCorrect, PTL

(* The constants and variables the arithmetic below is about. *)
LEMMA FlapRanges ==
  ASSUME TypeOK
  PROVE  /\ charging \in {0, 1} /\ stable \in {0, 1} /\ last \in {0, 1}
         /\ timer \in Nat /\ Delay \in Nat /\ Settle \in Nat
         /\ Delay > 0 /\ Settle > 0
         /\ Pass = Settle + Delay /\ Pass \in Nat /\ 2 * Pass \in Nat
         /\ None = -1
  BY TimeAssumption DEF TypeOK, TimeAssumption, Pass, None

LEMMA StepFlap == TypeOK /\ FlapInv /\ [FNext]_watchedVars => FlapInv'
<1> SUFFICES ASSUME TypeOK, FlapInv, [FNext]_watchedVars
             PROVE  FlapInv'
  OBVIOUS
<1> USE FlapRanges DEF FlapInv, FollowInv, SteadyInv, Looping, Away
<1>1. CASE FTick
  <2>1. /\ UNCHANGED <<pc, charging, stable, last>>
        /\ timer' = Countdown(timer)
        /\ pc \in {"absent", "waitInit", "exited"} \/ (pc \in {"settle", "delay"} /\ timer # 0)
    BY <1>1 DEF FTick, Tick, Runnable, TypeOK
  <2>2. CASE pc \in {"absent", "waitInit", "exited"}
    BY <1>1, <2>1, <2>2 DEF FTick
  <2>3. CASE pc \in {"settle", "delay"} /\ timer # 0
    <3>1. timer' = timer - 1
      BY <2>1, <2>3 DEF Countdown
    <3>2. /\ AtMost \in Nat /\ AtMost > 0 /\ AtMost' = AtMost - 1
          /\ AtLeast = AtMost /\ AtLeast' = AtMost'
      BY <2>1, <2>3, <3>1 DEF AtMost, AtLeast
    <3>3. held' \in Nat /\ held' <= held + 1 /\ (held <= 2 * Pass => held' = held + 1)
      BY <1>1 DEF FTick
    <3>4. FollowInv'
      BY <2>1, <2>3, <3>1, <3>2, <3>3
    <3>5. CASE steady' = steady
      <4>1. Away' => held' < Delay
        BY <1>1, <2>1, <2>3, <3>5 DEF FTick
      <4>2. held < Delay => held <= 2 * Pass
        OBVIOUS
      <4> QED
        BY <2>1, <2>3, <3>2, <3>3, <3>4, <3>5, <4>1, <4>2
    <3>6. CASE steady' = None
      BY <2>1, <2>3, <3>4, <3>6
    <3>7. CASE steady' = charging /\ held' > 2 * Pass
      <4>1. stable = charging
        BY <2>3, <3>2, <3>3, <3>7
      <4> QED
        BY <2>1, <2>3, <3>4, <3>7, <4>1
    <3> QED
      BY <1>1, <2>1, <2>3, <3>5, <3>6, <3>7 DEF FTick
  <2> QED
    BY <2>1, <2>2, <2>3
<1>2. CASE FCharger
  <2>1. /\ UNCHANGED <<pc, timer, stable, last>>
        /\ charging' = 1 - charging
        /\ held' = 0
        /\ steady' = IF ~Away /\ held <= Pass THEN None ELSE steady
    BY <1>2 DEF FCharger, Charger, threadVars
  <2>2. AtMost' = AtMost /\ AtLeast' = AtLeast
    BY <2>1 DEF AtMost, AtLeast
  <2>3. Looping => AtMost \in Nat /\ AtMost <= Pass
    BY DEF AtMost
  <2>4. FollowInv'
    BY <2>1, <2>2, <2>3
  <2>5. ASSUME Looping, steady' # None, Away'
        PROVE  last = steady
    <3>1. steady' = steady /\ steady = charging /\ ~(held <= Pass)
      BY <2>1, <2>5
    <3> QED
      BY <2>3, <2>5, <3>1
  <2> QED
    BY <2>1, <2>2, <2>4, <2>5
<1>3. CASE FBreak
  <2>1. /\ UNCHANGED <<stable, last, charging>>
        /\ held' = 0 /\ steady' = None
        /\ timer' \in 0..timer
        /\ pc' = pc \/ pc' \in {"register", "exited"}
    BY <1>3 DEF FBreak, WaitInitialized, Suspend, Wake, osVars, sharedVars, threadVars
  <2>2. Looping' => AtMost' \in Nat /\ AtMost' <= Pass
    BY <2>1 DEF AtMost
  <2> QED
    BY <2>1, <2>2
<1>4. CASE /\ UNCHANGED flapVars
           /\ \/ Start \/ Stop \/ RegisterHandler \/ LeaveLoop
              \/ ResumeEvent \/ RestoreStock
  <2>1. /\ UNCHANGED <<charging, timer, stable, last, held, steady>>
        /\ \/ pc' = pc
           \/ pc = "absent" /\ pc' = "waitInit"
           \/ pc = "register" /\ pc' = "first"
           \/ pc' = "exited"
    BY <1>4 DEF Start, Stop, RegisterHandler, LeaveLoop, ResumeEvent,
             RestoreStock, osVars, threadVars, flapVars
  <2> QED
    BY <2>1 DEF AtMost, AtLeast
<1>5. CASE UNCHANGED flapVars /\ FirstSample
  <2>1. /\ stable' = charging /\ last' = charging /\ pc = "first" /\ pc' = "top"
        /\ UNCHANGED <<charging, timer, held, steady>>
    BY <1>5 DEF FirstSample, osVars, flapVars
  <2> QED
    BY <2>1
<1>6. CASE UNCHANGED flapVars /\ Sample
  <2>1. /\ pc = "top" /\ pc' = "check" /\ last' = charging
        /\ stable' = Debounced(charging)
        /\ UNCHANGED <<charging, timer, held, steady>>
    BY <1>6 DEF Sample, osVars, flapVars
  <2>2. AtMost = 0 /\ AtLeast = 0 /\ AtMost' = Pass /\ AtLeast' = Delay
    BY <2>1 DEF AtMost, AtLeast
  <2>3. stable' # charging => held <= Pass
    BY <2>1, <2>2 DEF Debounced
  <2>4. FollowInv'
    BY <2>1, <2>2, <2>3
  <2>5. steady # None => stable' = steady
    BY <2>1, <2>2 DEF Debounced
  <2> QED
    BY <2>1, <2>2, <2>4, <2>5
<1>7. CASE /\ UNCHANGED flapVars
           /\ \/ CheckResumed \/ ForgetResume \/ CommandOk \/ CommandFails
              \/ KeepPattern \/ EndDelay
  <2>1. /\ UNCHANGED <<charging, stable, last, held, steady>>
        /\ timer' \in Nat
        /\ \/ pc = "check" /\ pc' = "settle" /\ timer' = Settle
           \/ pc = "check" /\ pc' = "decide"
           \/ pc = "settle" /\ timer = 0 /\ pc' = "decide"
           \/ pc = "decide" /\ pc' = "delay" /\ timer' = Delay
           \/ pc = "delay" /\ timer = 0 /\ pc' = "top"
    BY <1>7 DEF CheckResumed, ForgetResume, CommandOk, CommandFails, AfterCommand,
                KeepPattern, EndDelay, osVars, flapVars
  <2>2. /\ AtMost \in Nat /\ AtMost' \in Nat /\ AtMost' <= AtMost
        /\ AtLeast \in Nat /\ AtLeast' \in Nat /\ AtLeast' >= AtLeast
    BY <2>1 DEF AtMost, AtLeast
  <2> QED
    BY <2>1, <2>2
<1>8. CASE UNCHANGED watchedVars
  BY <1>8 DEF watchedVars, vars, osVars, threadVars, flapVars, AtMost, AtLeast
<1> QED
  BY <1>1, <1>2, <1>3, <1>4, <1>5, <1>6, <1>7, <1>8 DEF FNext, FOther

(* Whatever the delays: a charger that is away for less than a loop delay   *)
(* never moves the LED, whatever is sent meanwhile.                         *)
THEOREM FlapsStayUnseen == FSpec => BriefFlapsIgnored
<1>1. FInit => FlapInv
  BY DEF FInit, Init, FlapInv, FollowInv, SteadyInv, Looping, Away, None
<1>2. TypeOK /\ FlapInv /\ [FNext]_watchedVars => FlapInv'
  BY StepFlap
<1>3. FlapInv /\ [FNext]_watchedVars
        => [steady # None /\ slot' \notin {slot, EmptySlot}
              => slot' = {PatternFor(steady)}]_watchedVars
  <2> SUFFICES ASSUME FlapInv, FNext, steady # None, slot' \notin {slot, EmptySlot}
               PROVE  slot' = {PatternFor(steady)}
    OBVIOUS
  <2>1. CommandOk
    BY DEF FNext, FTick, Tick, FCharger, Charger, FBreak, WaitInitialized, Suspend, Wake,
           FOther, Start, Stop, RegisterHandler, FirstSample, Sample, LeaveLoop,
           CheckResumed, ForgetResume, CommandFails, KeepPattern, EndDelay, ResumeEvent,
           RestoreStock, sharedVars
  <2>2. stable = steady
    BY <2>1 DEF CommandOk, FlapInv, SteadyInv, Looping
  <2> QED
    BY <2>1, <2>2, CommandTakesSlot DEF CommandOk
<1> QED
  BY <1>1, <1>2, <1>3, FlapTypes, PTL DEF FSpec, BriefFlapsIgnored
=============================================================================
