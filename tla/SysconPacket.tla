---------------------------- MODULE SysconPacket ----------------------------
(***************************************************************************)
(* Packets for syscon, and what the diagnostic plugin makes of them        *)
(* (dev/led_candidate_patch.h, dev/power_led_patch.h,                      *)
(* dev/dolce_led_policy.h, dev/cmd_probe.h).  A packet is a command, the   *)
(* number of its data bytes, the last of which is a checksum, and a buffer *)
(* with room for more.  Bytes are numbered from 0, as in the code.         *)
(***************************************************************************)
EXTENDS Integers

Byte    == 0..255
Command == 0..65535
Room    == 10     \* bound: the code's buffers have room for 16 bytes and more
Places  == 0..(Room - 1)

Packets == [cmd : Command, len : 1..Room, data : [Places -> Byte]]

(* The bytes of s at the beginning of an empty buffer.                      *)
Filled(s, n) == [i \in Places |-> IF i < n THEN s[i + 1] ELSE 0]

ByteSum(data, n) ==
  LET byte(i) == IF i < n THEN data[i] ELSE 0
  IN  byte(0) + byte(1) + byte(2) + byte(3) + byte(4) + byte(5) + byte(6)
        + byte(7) + byte(8) + byte(9)

-----------------------------------------------------------------------------
(* The checksum on the wire, docs/pch2000-power-led-research.md 74-77: the  *)
(* negation of the sum of everything before it.                             *)

DriverChecksum(p) ==
  255 - (((p.cmd % 256) + (p.cmd \div 256) + p.len + ByteSum(p.data, p.len - 1)) % 256)

Complete(p) == p.data[p.len - 1] = DriverChecksum(p)

Completed(p) == [p EXCEPT !.data[p.len - 1] = DriverChecksum(p)]

-----------------------------------------------------------------------------
(* Command 0x387: two forms that standby and wake send, and what modes 1    *)
(* to 4 and 11 make of them.                                                *)

Touchpanel     == 903
TouchpanelLen  == 9

(* Mutant of Safe: the wrong one of the two bytes is cleared.               *)
SafeKeepsFF == <<1, 255, 0, 0, 0, 0, 0, 0>>

FF01 == <<1, 255, 0, 0, 1, 0, 0, 0>>
FF00 == <<1, 255, 0, 0, 0, 0, 0, 0>>
Safe == <<1, 0, 0, 0, 1, 0, 0, 0>>
Ten  == <<1, 16, 0, 0, 0, 0, 0, 0>>

(* Mutant of Checksum0387: the old checksum is added, too.                  *)
ChecksumOfNine(data) == ((108 + 256) - (ByteSum(data, TouchpanelLen) % 256)) % 256

Checksum0387(data) == ((108 + 256) - (ByteSum(data, TouchpanelLen - 1) % 256)) % 256

(* Mutant of HasForm: the byte the patch changes is not looked at.          *)
HasFormButSecond(p, form) ==
  /\ p.cmd = Touchpanel
  /\ p.len >= TouchpanelLen
  /\ \A i \in (0..7) \ {1} : p.data[i] = form[i + 1]

HasForm(p, form) ==
  /\ p.cmd = Touchpanel
  /\ p.len >= TouchpanelLen
  /\ \A i \in 0..7 : p.data[i] = form[i + 1]

SetForm(p, form) ==
  LET data == [i \in Places |-> IF i < 8 THEN form[i + 1] ELSE p.data[i]]
  IN  [p EXCEPT !.data = [data EXCEPT ![8] = Checksum0387(data)]]

SafeModes == {1, 3, 4, 11}
TenModes  == {2, 3, 4, 11}

Patches(p, mode) ==
  \/ mode \in SafeModes /\ HasForm(p, FF01)
  \/ mode \in TenModes /\ HasForm(p, FF00)

(* noled_led_candidate_patch_packet                                         *)
Patch(p, mode) ==
  IF mode \in SafeModes /\ HasForm(p, FF01) THEN SetForm(p, Safe)
  ELSE IF mode \in TenModes /\ HasForm(p, FF00) THEN SetForm(p, Ten)
  ELSE p

-----------------------------------------------------------------------------
(* Command 0x89A, power_led_patch.h: no module of the plugin uses it.       *)

PowerLedCmd == 2202

PowerLedPatches(p, state) == p.cmd = PowerLedCmd /\ p.len >= 3 /\ state <= 7

PowerLedPatch(p, state) ==
  IF PowerLedPatches(p, state)
    THEN [p EXCEPT !.data =
            [p.data EXCEPT ![0] = state,
                           ![2] = ((90 + 256) - ((state + p.data[1]) % 256)) % 256]]
    ELSE p

-----------------------------------------------------------------------------
(* The LED of the AC adapter: modes 4 and 11 keep it off, except that the   *)
(* fast blinking of an alarm goes through.                                  *)

DolceForceOff(mode) == mode \in {4, 11}

DolceEffective(enable, mode) ==
  IF DolceForceOff(mode) /\ enable # 2 THEN 0 ELSE enable

-----------------------------------------------------------------------------
(* The table of the command probe plugin, cmd_probe.h.                      *)

ProbeIds == 0..5

ProbePacket(id) ==
  CASE id = 0 -> [cmd |-> 2191, len |-> 3, data |-> Filled(<<0, 16, 85>>, 3)]
    [] id = 1 -> [cmd |-> 2191, len |-> 3, data |-> Filled(<<1, 16, 84>>, 3)]
    [] id = 2 -> [cmd |-> 2186, len |-> 2, data |-> Filled(<<0, 107>>, 2)]
    [] id = 3 -> [cmd |-> 2186, len |-> 2, data |-> Filled(<<1, 106>>, 2)]
    [] id = 4 -> [cmd |-> 2203, len |-> 2, data |-> Filled(<<0, 90>>, 2)]
    [] id = 5 -> [cmd |-> 2191, len |-> 3, data |-> Filled(<<0, 12, 89>>, 3)]
=============================================================================
