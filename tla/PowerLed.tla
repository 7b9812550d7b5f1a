------------------------------ MODULE PowerLed ------------------------------
(***************************************************************************)
(* The constants and pure decisions of power_led.h, and the part of the    *)
(* syscon controller ("Ernie") they rely on: a pattern engine with a       *)
(* single slot that sits above the controller's own power/charge policy.   *)
(* The controller is firmware outside the repository; it is modelled from  *)
(* docs/pch2000-power-led-research.md section 5.                           *)
(***************************************************************************)
EXTENDS Integers

(* ksceSysconGetHardwareInfo() & 0xFF0000 *)
BoardBits(info) == ((info \div 65536) % 256) * 65536

(* Mutant of IndicatorSupported: the mask is forgotten. *)
GateUnmasked(info) == info >= 4194304

(* noled_power_led_indicator_supported: at least 0x400000 *)
IndicatorSupported(info) == BoardBits(info) >= 4194304

(* The payload of syscon command 0x89F. *)
Pattern(dev, unk, onTime, offTime) ==
  [dev |-> dev, unk |-> unk, on |-> onTime, off |-> offTime]

OffPattern     == Pattern(1, 0, 0, 1)
ReleasePattern == Pattern(0, 0, 1, 0)

(* Mutant of PatternFor: the release is for a device that claims no slot. *)
ReleaseForOther(release) == IF release = 0 THEN OffPattern ELSE Pattern(2, 0, 1, 0)

(* power_led_policy_apply(release): which of the two patterns is sent. *)
PatternFor(release) == IF release = 0 THEN OffPattern ELSE ReleasePattern

-----------------------------------------------------------------------------
(* The engine's slot is the set of the patterns it holds, at most one.     *)

EmptySlot == {}

(* Devices 0 and 1 claim the slot, every other device leaves it alone. *)
Claim(held, pattern) == IF pattern.dev \in {0, 1} THEN {pattern} ELSE held

(* The controller's own policy: orange while charging, green when the      *)
(* console is on, dark in standby.                                         *)
BasePolicy(asleep, charge) ==
  IF charge = 1 THEN "orange" ELSE IF asleep THEN "dark" ELSE "green"

(* What the owner sees: a device 1 pattern hides the base policy. *)
Led(held, asleep, charge) ==
  IF \E p \in held : p.dev = 1
    THEN IF \E p \in held : p.on = 0 THEN "dark" ELSE "green"
    ELSE BasePolicy(asleep, charge)
=============================================================================
