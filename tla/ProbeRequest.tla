---------------------------- MODULE ProbeRequest ----------------------------
(***************************************************************************)
(* The requests of the runtime probe (dev/runtime_probe.h): what the       *)
(* resident plugin accepts from the request file, and what the loader      *)
(* offers to write there (dev/loader/probe_candidates.h).                  *)
(***************************************************************************)
EXTENDS Integers, Sequences

Ping          == 1
CtrlLed       == 2
DolceLed      == 3
ChargeLedCtrl == 4
PowerLedFlag  == 5
LedSetMode    == 6
RawSysconCmd  == 7
LedBlinkType2 == 8
PwmBlink      == 9

Device40    == 64     \* NOLED_RUNTIME_PROBE_CTRL_LED_DEVICE_UNK
DolceOffCmd == 2083   \* NOLED_RUNTIME_PROBE_RAW_CMD_DOLCE_OFF, 0x823

Requests == [op : Nat, arg0 : Nat, arg1 : Nat, arg2 : Nat, arg3 : Nat]

Request(op, arg0, arg1, arg2, arg3) ==
  [op |-> op, arg0 |-> arg0, arg1 |-> arg1, arg2 |-> arg2, arg3 |-> arg3]

(* Mutant of KnownDevice: the banned ids 4 to 7 are let through. *)
AnyDevice(arg) == arg <= 7 \/ arg = Device40

KnownDevice(arg) == arg <= 3 \/ arg = Device40

UsesTimes(r) == r.op \in {LedSetMode, LedBlinkType2}

(* noled_runtime_probe_request_valid, once the magic is right *)
RequestValid(r) ==
  /\ UsesTimes(r) \/ (r.arg2 = 0 /\ r.arg3 = 0)
  /\ UsesTimes(r) => r.arg2 <= 10 /\ r.arg3 <= 10
  /\ \/ r.op = Ping
     \/ r.op = CtrlLed       /\ KnownDevice(r.arg0) /\ r.arg1 \in {0, 1}
     \/ r.op = DolceLed      /\ r.arg0 <= 2
     \/ r.op \in {ChargeLedCtrl, PowerLedFlag} /\ r.arg0 \in {0, 1}
     \/ r.op = LedSetMode    /\ r.arg0 <= 7 /\ r.arg1 <= 2
     \/ r.op = RawSysconCmd  /\ r.arg0 = DolceOffCmd /\ r.arg1 = 0
     \/ r.op = LedBlinkType2 /\ KnownDevice(r.arg0) /\ r.arg1 <= 2
     \/ r.op = PwmBlink      /\ r.arg0 = Device40 /\ r.arg1 <= 65535

(* noled_probe_candidates: ping, the pattern that turns the indicator off   *)
(* and the one that forces it on, duty cycles from 0 to full, the other     *)
(* devices, the LED of the adapter.                                         *)
Candidates ==
  <<Request(Ping, 0, 0, 0, 0),
    Request(LedBlinkType2, 1, 0, 0, 1), Request(LedBlinkType2, 1, 0, 1, 0),
    Request(PwmBlink, Device40, 0, 0, 0), Request(PwmBlink, Device40, 64, 0, 0),
    Request(PwmBlink, Device40, 128, 0, 0), Request(PwmBlink, Device40, 255, 0, 0),
    Request(PwmBlink, Device40, 256, 0, 0), Request(PwmBlink, Device40, 4096, 0, 0),
    Request(PwmBlink, Device40, 32768, 0, 0), Request(PwmBlink, Device40, 65535, 0, 0),
    Request(LedBlinkType2, 0, 0, 1, 0), Request(LedBlinkType2, 2, 0, 1, 0),
    Request(LedBlinkType2, 3, 0, 1, 0),
    Request(DolceLed, 0, 0, 0, 0), Request(DolceLed, 1, 0, 0, 0)>>

(* The neighbours of an index into a list of so many candidates.            *)
NextCandidate(index, count) == (index + 1) % count
PrevCandidate(index, count) == (index + count - 1) % count

(* What runtime_probe.h 31-35 bans for good: the ids of the loop that froze *)
(* the hardware and the touch panel command.                                *)
Banned(r) ==
  \/ r.op \in {CtrlLed, LedBlinkType2} /\ r.arg0 \in 4..7
  \/ r.op = RawSysconCmd /\ r.arg0 = 903
=============================================================================
