----------------------------- MODULE GpioGuard ------------------------------
(***************************************************************************)
(* The classic half of the release plugin (src/main.c, src/led_policy.h):  *)
(* the home button and game card LEDs are GPIO lines.  module_start clears *)
(* both lines and then hooks ksceGpioPortSet, so that the operating system *)
(* cannot raise them again.  OS threads call ksceGpioPortSet all the time, *)
(* before, during and after that; a call is two or three steps here,       *)
(* because the hook may appear between its dispatch and its effect.        *)
(***************************************************************************)
EXTENDS Integers

CONSTANTS
  Lines,    \* the <<bus, port>> pairs the OS drives
  Callers   \* OS threads that call ksceGpioPortSet

HomeButton == <<0, 7>>
GameCard   == <<0, 6>>
Leds       == {HomeButton, GameCard}

ASSUME LinesAssumption ==
  /\ Lines \subseteq Nat \X Nat
  /\ {HomeButton, GameCard} \subseteq Lines

(* Mutants of ShouldBlock: a port forgotten, and the bus not compared. *)
BlocksHomeOnly(bus, port) == bus = 0 /\ port = 7
BlocksAnyBus(bus, port)   == port = 7 \/ port = 6

(* noled_should_block_gpio_set(bus, port) *)
ShouldBlock(bus, port) == bus = 0 /\ (port = 7 \/ port = 6)

Guarded(l) == ShouldBlock(l[1], l[2])

VARIABLES
  guard,   \* how far module_start is with the lines
  hooked,  \* taiHEN redirects ksceGpioPortSet to noled_gpio_port_set
  lit,     \* the level of each line
  at,      \* where each caller is
  line     \* the line it sets

gpioVars == <<guard, hooked, lit, at, line>>

TypeOK ==
  /\ guard \in {"clearHome", "clearCard", "hook", "done"}
  /\ hooked \in BOOLEAN
  /\ lit \in [Lines -> BOOLEAN]
  /\ at \in [Callers -> {"idle", "hook", "original"}]
  /\ line \in [Callers -> Lines]

Init ==
  /\ guard = "clearHome"
  /\ hooked = FALSE
  /\ lit \in [Lines -> BOOLEAN]
  /\ at = [c \in Callers |-> "idle"]
  /\ line \in [Callers -> {HomeButton}]

-----------------------------------------------------------------------------
(* module_start *)

ClearHomeButton ==
  /\ guard = "clearHome"
  /\ lit' = [lit EXCEPT ![HomeButton] = FALSE]
  /\ guard' = "clearCard"
  /\ UNCHANGED <<hooked, at, line>>

ClearGameCard ==
  /\ guard = "clearCard"
  /\ lit' = [lit EXCEPT ![GameCard] = FALSE]
  /\ guard' = "hook"
  /\ UNCHANGED <<hooked, at, line>>

InstallHook ==
  /\ guard = "hook"
  /\ hooked' = TRUE
  /\ guard' = "done"
  /\ UNCHANGED <<lit, at, line>>

(* taiHEN refuses the hook; module_start does not look at the result. *)
HookRefused ==
  /\ guard = "hook"
  /\ guard' = "done"
  /\ UNCHANGED <<hooked, lit, at, line>>

ModuleStart == ClearHomeButton \/ ClearGameCard \/ InstallHook \/ HookRefused

-----------------------------------------------------------------------------
(* The callers of ksceGpioPortSet. *)

(* Mutant of CallPortSet: the call bypasses the hook. *)
CallUnhooked(c, l) ==
  /\ at[c] = "idle"
  /\ at' = [at EXCEPT ![c] = "original"]
  /\ line' = [line EXCEPT ![c] = l]
  /\ UNCHANGED <<guard, hooked, lit>>

CallPortSet(c, l) ==
  /\ at[c] = "idle"
  /\ at' = [at EXCEPT ![c] = IF hooked THEN "hook" ELSE "original"]
  /\ line' = [line EXCEPT ![c] = l]
  /\ UNCHANGED <<guard, hooked, lit>>

(* noled_gpio_port_set returns without effect ... *)
Blocked(c) ==
  /\ at[c] = "hook"
  /\ Guarded(line[c])
  /\ at' = [at EXCEPT ![c] = "idle"]
  /\ UNCHANGED <<guard, hooked, lit, line>>

(* ... or continues with the original function. *)
Continued(c) ==
  /\ at[c] = "hook"
  /\ ~Guarded(line[c])
  /\ at' = [at EXCEPT ![c] = "original"]
  /\ UNCHANGED <<guard, hooked, lit, line>>

RaiseLine(c) ==
  /\ at[c] = "original"
  /\ lit' = [lit EXCEPT ![line[c]] = TRUE]
  /\ at' = [at EXCEPT ![c] = "idle"]
  /\ UNCHANGED <<guard, hooked, line>>

(* ksceGpioPortClear is not hooked. *)
ClearLine(l) ==
  /\ lit' = [lit EXCEPT ![l] = FALSE]
  /\ UNCHANGED <<guard, hooked, at, line>>

OperatingSystem ==
  \/ \E c \in Callers, l \in Lines : CallPortSet(c, l)
  \/ \E c \in Callers : Blocked(c) \/ Continued(c) \/ RaiseLine(c)
  \/ \E l \in Lines : ClearLine(l)

Next == ModuleStart \/ OperatingSystem

Spec == Init /\ [][Next]_gpioVars

(* A caller's thread goes on. *)
FairSpec ==
  Spec /\ \A c \in Callers : WF_gpioVars(Blocked(c) \/ Continued(c) \/ RaiseLine(c))

-----------------------------------------------------------------------------
(* Calls on l that were past the dispatch when the hook went in. *)
Stragglers(l) == {c \in Callers : at[c] = "original" /\ line[c] = l}

(* The LED is guarded: dark, the hook in place, no such call left. *)
Settled(l) == hooked /\ ~lit[l] /\ Stragglers(l) = {}

(* With the hook in place an LED that is dark stays dark for good, whatever *)
(* the OS calls from then on, unless a call dispatched before the hook      *)
(* still finishes on it (main.c 36-44, 154-159).                            *)
DarkStaysDark == \A l \in Leds : [](Settled(l) => []~lit[l])

(* No call joins the stragglers once the hook is in: they are only those of *)
(* the moment of installation, so they run out.                             *)
NoNewStragglers ==
  [][\A l \in Leds :
       hooked => Stragglers(l)' \subseteq Stragglers(l)]_gpioVars

(* The guard takes nothing else away: a call on any other line is carried   *)
(* out, through the hook or not.                                            *)
OthersGoThrough ==
  \A c \in Callers, l \in Lines :
    at[c] # "idle" /\ line[c] = l /\ l \notin Leds ~> lit[l]
=============================================================================
