-------------------------- MODULE GpioGuardProofs ---------------------------
(***************************************************************************)
(* Proofs about GpioGuard, for any set of lines and any set of callers.    *)
(***************************************************************************)
EXTENDS GpioGuard, TLAPS

(* Every step keeps every variable in its range. *)
THEOREM GuardTypeCorrect == Spec => []TypeOK
<1>1. Init => TypeOK
  BY LinesAssumption DEF LinesAssumption, Init, TypeOK
<1>2. TypeOK /\ [Next]_gpioVars => TypeOK'
  <2> SUFFICES ASSUME TypeOK, [Next]_gpioVars PROVE TypeOK'
    OBVIOUS
  <2> USE DEF TypeOK
  <2>1. CASE ModuleStart
    BY <2>1 DEF ModuleStart, ClearHomeButton, ClearGameCard, InstallHook,
                HookRefused
  <2>2. ASSUME NEW c \in Callers, NEW l \in Lines, CallPortSet(c, l)
        PROVE  TypeOK'
    BY <2>2 DEF CallPortSet
  <2>3. ASSUME NEW c \in Callers, Blocked(c) \/ Continued(c) \/ RaiseLine(c)
        PROVE  TypeOK'
    BY <2>3 DEF Blocked, Continued, RaiseLine
  <2>4. ASSUME NEW l \in Lines, ClearLine(l)
        PROVE  TypeOK'
    BY <2>4 DEF ClearLine
  <2>5. CASE UNCHANGED gpioVars
    BY <2>5 DEF gpioVars
  <2> QED
    BY <2>1, <2>2, <2>3, <2>4, <2>5 DEF Next, OperatingSystem
<1> QED
  BY <1>1, <1>2, PTL DEF Spec

-----------------------------------------------------------------------------
(* Both LEDs' lines are on the block list, and the OS drives them           *)
(* (led_policy.h 10-15).                                                    *)
LEMMA LedsGuarded == \A l \in Leds : l \in Lines /\ Guarded(l)
  BY LinesAssumption
  DEF LinesAssumption, Leds, HomeButton, GameCard, Guarded, ShouldBlock

(* A call that meets the hook on a guarded line never gets to the original  *)
(* function: only calls dispatched before the hook do.                      *)
THEOREM StragglersRunOut == Spec => NoNewStragglers
<1>1. ASSUME TypeOK, [Next]_gpioVars
      PROVE  [\A l \in Leds :
                hooked => Stragglers(l)' \subseteq Stragglers(l)]_gpioVars
  <2> SUFFICES ASSUME NEW l \in Leds, hooked, NEW c \in Callers,
                      at'[c] = "original", line'[c] = l
               PROVE  at[c] = "original" /\ line[c] = l
    BY DEF Stragglers
  <2> USE <1>1 DEF TypeOK
  <2>1. CASE ModuleStart \/ UNCHANGED gpioVars \/ \E m \in Lines : ClearLine(m)
    BY <2>1 DEF ModuleStart, ClearHomeButton, ClearGameCard, InstallHook,
                HookRefused, gpioVars, ClearLine
  <2>2. ASSUME NEW d \in Callers, NEW m \in Lines, CallPortSet(d, m)
        PROVE  at[c] = "original" /\ line[c] = l
    BY <2>2 DEF CallPortSet
  <2>3. ASSUME NEW d \in Callers, Blocked(d) \/ Continued(d) \/ RaiseLine(d)
        PROVE  at[c] = "original" /\ line[c] = l
    BY <2>3, LedsGuarded DEF Blocked, Continued, RaiseLine
  <2> QED
    BY <2>1, <2>2, <2>3 DEF Next, OperatingSystem
<1> QED
  BY <1>1, GuardTypeCorrect, PTL DEF Spec, NoNewStragglers

(* No step takes a settled LED out of that state. *)
LEMMA SettledStable ==
  ASSUME NEW l \in Leds, TypeOK, Settled(l), [Next]_gpioVars
  PROVE  Settled(l)'
<1> USE DEF TypeOK, Settled
<1>1. CASE ModuleStart \/ UNCHANGED gpioVars \/ \E m \in Lines : ClearLine(m)
  BY <1>1, LedsGuarded, LinesAssumption
  DEF ModuleStart, ClearHomeButton, ClearGameCard, InstallHook, HookRefused,
      gpioVars, ClearLine, LinesAssumption, Stragglers
<1>2. ASSUME NEW c \in Callers, NEW m \in Lines, CallPortSet(c, m)
      PROVE  Settled(l)'
  BY <1>2 DEF CallPortSet, Stragglers
<1>3. ASSUME NEW c \in Callers, Blocked(c) \/ Continued(c)
      PROVE  Settled(l)'
  BY <1>3, LedsGuarded DEF Blocked, Continued, Stragglers
<1>4. ASSUME NEW c \in Callers, RaiseLine(c)
      PROVE  Settled(l)'
  <2>1. line[c] # l
    BY <1>4 DEF RaiseLine, Stragglers
  <2> QED
    BY <1>4, <2>1 DEF RaiseLine, Stragglers
<1> QED
  BY <1>1, <1>2, <1>3, <1>4 DEF Next, OperatingSystem

(* With the hook in and no such call left, a dark LED line stays dark for   *)
(* good, whatever the OS calls.                                             *)
THEOREM GuardedLineStaysDark == Spec => DarkStaysDark
<1>1. ASSUME NEW l \in Leds
      PROVE  Spec => [](Settled(l) => []~lit[l])
  <2>1. TypeOK /\ Settled(l) /\ [Next]_gpioVars => Settled(l)'
    BY SettledStable
  <2>2. Settled(l) => ~lit[l]
    BY DEF Settled
  <2> QED
    BY <2>1, <2>2, GuardTypeCorrect, PTL DEF Spec
<1> QED
  BY <1>1 DEF DarkStaysDark
=============================================================================
