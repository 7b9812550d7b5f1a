---------------------------- MODULE SysconProofs -----------------------------
(***************************************************************************)
(* What the packet patches preserve (SysconPacket): a patched packet has   *)
(* the right checksum, and a patch is applied at most once.  And what the  *)
(* hooks let through to syscon (SysconHooks), whatever the callers, their  *)
(* packets, the modes in the file and the order of events: it is           *)
(* well-formed, it is explained by one mode, and the logs tell it.         *)
(***************************************************************************)
EXTENDS SysconHooks, TLAPS

-----------------------------------------------------------------------------
(* Packets and patches (led_candidate_patch.h, cmd_probe.c).               *)

LEMMA Ranges ==
  Room = 10 /\ Places = 0..9 /\ Byte = 0..255
  BY DEF Places, Room, Byte

LEMMA PlacesRange == Places = 0..9
  BY DEF Places, Room

LEMMA NaturalsUpTo ==
  ASSUME NEW k \in Nat
  PROVE  \A n \in 0..k : n \in Nat
  OBVIOUS

LEMMA BytesAreNaturals == \A x \in Byte : x \in Nat
  BY DEF Byte

LEMMA CommandsAreNaturals == Command \subseteq Nat
<1>1. 65535 \in Nat
  OBVIOUS
<1> QED
  BY <1>1, NaturalsUpTo DEF Command

LEMMA Fields ==
  ASSUME NEW p \in Packets
  PROVE  /\ p.cmd \in Command
         /\ p.cmd \in Nat
         /\ p.len \in 1..10
         /\ p.data \in [Places -> Byte]
<1>1. p.cmd \in Command
  BY DEF Packets
<1>2. p.len \in 1..Room
  BY DEF Packets
<1>3. p.data \in [Places -> Byte]
  BY DEF Packets
<1> QED
  BY <1>1, <1>2, <1>3, CommandsAreNaturals DEF Room

LEMMA NewData ==
  ASSUME NEW p \in Packets, NEW d \in [Places -> Byte]
  PROVE  /\ [p EXCEPT !.data = d] \in Packets
         /\ [p EXCEPT !.data = d].cmd = p.cmd
         /\ [p EXCEPT !.data = d].len = p.len
         /\ [p EXCEPT !.data = d].data = d
  BY DEF Packets

LEMMA NewByte ==
  ASSUME NEW d \in [Places -> Byte], NEW i \in Places, NEW x \in Byte
  PROVE  [d EXCEPT ![i] = x] \in [Places -> Byte]
  OBVIOUS

(* Two packets with the same three fields are the same packet.              *)
LEMMA SameFields ==
  ASSUME NEW p \in Packets, NEW q \in Packets,
         p.cmd = q.cmd, p.len = q.len,
         \A i \in Places : p.data[i] = q.data[i]
  PROVE  p = q
<1>1. p.data = q.data
  BY Fields
<1> QED
  BY <1>1 DEF Packets

-----------------------------------------------------------------------------
(* Sums.                                                                    *)

LEMMA SumNat ==
  ASSUME NEW data \in [Places -> Byte], NEW n \in Int
  PROVE  ByteSum(data, n) \in Nat
<1> DEFINE byte(i) == IF i < n THEN data[i] ELSE 0
<1>1. \A i \in 0..9 : data[i] \in Byte
  BY Ranges
<1>2. ASSUME NEW i \in 0..9
      PROVE  byte(i) \in Nat
  <2>1. data[i] \in Nat
    BY <1>1, BytesAreNaturals
  <2> QED
    BY <2>1
<1>3. /\ byte(0) \in Nat /\ byte(1) \in Nat /\ byte(2) \in Nat /\ byte(3) \in Nat
      /\ byte(4) \in Nat /\ byte(5) \in Nat /\ byte(6) \in Nat /\ byte(7) \in Nat
      /\ byte(8) \in Nat /\ byte(9) \in Nat
  BY <1>2
<1>4. ByteSum(data, n) = byte(0) + byte(1) + byte(2) + byte(3) + byte(4) + byte(5)
                           + byte(6) + byte(7) + byte(8) + byte(9)
  BY DEF ByteSum
<1> HIDE DEF byte
<1> QED
  BY <1>3, <1>4

LEMMA SumLocal ==
  ASSUME NEW d, NEW e, NEW n, \A i \in 0..9 : i < n => d[i] = e[i]
  PROVE  ByteSum(d, n) = ByteSum(e, n)
  BY DEF ByteSum

-----------------------------------------------------------------------------
(* The checksum of the driver.                                              *)

LEMMA ChecksumIsByte ==
  ASSUME NEW p \in Packets
  PROVE  DriverChecksum(p) \in Byte
<1> DEFINE sum == (p.cmd % 256) + (p.cmd \div 256) + p.len + ByteSum(p.data, p.len - 1)
<1>1. ByteSum(p.data, p.len - 1) \in Nat
  BY Fields, SumNat
<1>2. p.cmd % 256 \in Nat /\ p.cmd \div 256 \in Nat /\ p.len \in Nat
  BY Fields
<1>3. sum \in Nat
  BY <1>1, <1>2
<1>4. DriverChecksum(p) = 255 - (sum % 256)
  BY DEF DriverChecksum
<1> HIDE DEF sum
<1>5. sum % 256 \in 0..255
  BY <1>3
<1> QED
  BY <1>4, <1>5, Ranges

(* Completed puts in the last byte only, and makes the packet complete.     *)
LEMMA CompletedIsComplete ==
  ASSUME NEW p \in Packets
  PROVE  /\ Completed(p) \in Packets
         /\ Completed(p).cmd = p.cmd
         /\ Completed(p).len = p.len
         /\ \A i \in Places : i # p.len - 1 => Completed(p).data[i] = p.data[i]
         /\ Completed(p).data[p.len - 1] = DriverChecksum(p)
         /\ Complete(Completed(p))
<1> DEFINE q == Completed(p)
           d == [p.data EXCEPT ![p.len - 1] = DriverChecksum(p)]
<1>1. p.len \in 1..10 /\ p.data \in [Places -> Byte] /\ p.len - 1 \in Places
  BY Fields, PlacesRange
<1>2. d \in [Places -> Byte]
  BY <1>1, ChecksumIsByte
<1>3. q = [p EXCEPT !.data = d]
  BY DEF Completed
<1>4. \A i \in Places : i # p.len - 1 => d[i] = p.data[i]
  BY <1>1
<1>5. d[p.len - 1] = DriverChecksum(p)
  BY <1>1
<1> HIDE DEF q, d
<1>6. q \in Packets /\ q.cmd = p.cmd /\ q.len = p.len /\ q.data = d
  BY <1>2, <1>3, NewData
<1>7. \A i \in 0..9 : i < p.len - 1 => d[i] = p.data[i]
  BY <1>1, <1>4, Ranges
<1>8. ByteSum(d, p.len - 1) = ByteSum(p.data, p.len - 1)
  BY <1>7, SumLocal
<1>9. DriverChecksum(q) = DriverChecksum(p)
  BY <1>6, <1>8 DEF DriverChecksum
<1>10. Complete(q)
  BY <1>5, <1>6, <1>9 DEF Complete
<1> QED
  BY <1>4, <1>5, <1>6, <1>10 DEF q

-----------------------------------------------------------------------------
(* The patch of command 0x387.                                              *)

LEMMA Checksum0387IsByte ==
  ASSUME NEW data \in [Places -> Byte]
  PROVE  Checksum0387(data) \in Byte
<1> DEFINE sum == ByteSum(data, 8)
<1>1. sum \in Nat
  BY SumNat
<1>2. Checksum0387(data) = ((108 + 256) - (sum % 256)) % 256
  BY DEF Checksum0387, TouchpanelLen
<1> HIDE DEF sum
<1> QED
  BY <1>1, <1>2, Ranges

IsForm(form) == \A i \in 0..7 : form[i + 1] \in Byte

LEMMA FormsAreForms ==
  IsForm(FF01) /\ IsForm(FF00) /\ IsForm(Safe) /\ IsForm(Ten)
  BY Ranges DEF IsForm, FF01, FF00, Safe, Ten

LEMMA SetFormFields ==
  ASSUME NEW p \in Packets, NEW form, IsForm(form)
  PROVE  /\ SetForm(p, form) \in Packets
         /\ SetForm(p, form).cmd = p.cmd
         /\ SetForm(p, form).len = p.len
         /\ \A i \in 0..7 : SetForm(p, form).data[i] = form[i + 1]
         /\ SetForm(p, form).data[8] = Checksum0387(SetForm(p, form).data)
         /\ SetForm(p, form).data[9] = p.data[9]
<1> DEFINE data == [i \in Places |-> IF i < 8 THEN form[i + 1] ELSE p.data[i]]
           filled == [data EXCEPT ![8] = Checksum0387(data)]
           q == SetForm(p, form)
<1>1. \A i \in Places : (IF i < 8 THEN form[i + 1] ELSE p.data[i]) \in Byte
  BY Fields, PlacesRange DEF IsForm
<1>2. data \in [Places -> Byte]
  BY <1>1
<1>3. \A i \in 0..7 : data[i] = form[i + 1]
  BY Ranges
<1>4. data[9] = p.data[9]
  BY Ranges
<1>5. q = [p EXCEPT !.data = filled]
  BY DEF SetForm
<1> HIDE DEF data
<1>6. filled \in [Places -> Byte]
  <2> 8 \in Places
    BY Ranges
  <2>1. Checksum0387(data) \in Byte
    BY <1>2, Checksum0387IsByte
  <2> QED
    BY <1>2, <2>1, NewByte
<1>7. \A i \in 0..9 : i # 8 => filled[i] = data[i]
  BY <1>2, Ranges
<1>8. filled[8] = Checksum0387(data)
  BY <1>2, Ranges
<1> HIDE DEF filled, q
<1>9. \A i \in 0..9 : i < 8 => filled[i] = data[i]
  BY <1>7
<1>10. ByteSum(filled, 8) = ByteSum(data, 8)
  BY <1>9, SumLocal
<1>11. Checksum0387(filled) = Checksum0387(data)
  BY <1>10 DEF Checksum0387, TouchpanelLen
<1>12. q \in Packets /\ q.cmd = p.cmd /\ q.len = p.len /\ q.data = filled
  BY <1>5, <1>6, NewData
<1>13. \A i \in 0..7 : q.data[i] = form[i + 1]
  BY <1>3, <1>7, <1>12
<1>14. q.data[9] = p.data[9]
  BY <1>4, <1>7, <1>12
<1> QED
  BY <1>8, <1>11, <1>12, <1>13, <1>14 DEF q

LEMMA SafeFields ==
  ASSUME NEW p \in Packets
  PROVE  /\ SetForm(p, Safe) \in Packets
         /\ SetForm(p, Safe).cmd = p.cmd
         /\ SetForm(p, Safe).len = p.len
         /\ \A i \in 0..7 : SetForm(p, Safe).data[i] = Safe[i + 1]
<1>1. IsForm(Safe)
  BY FormsAreForms
<1> QED
  BY <1>1, SetFormFields

LEMMA TenFields ==
  ASSUME NEW p \in Packets
  PROVE  /\ SetForm(p, Ten) \in Packets
         /\ SetForm(p, Ten).cmd = p.cmd
         /\ SetForm(p, Ten).len = p.len
         /\ \A i \in 0..7 : SetForm(p, Ten).data[i] = Ten[i + 1]
<1>1. IsForm(Ten)
  BY FormsAreForms
<1> QED
  BY <1>1, SetFormFields

(* The constant 0x6c is what command and length add up to, negated.         *)
LEMMA Moduli ==
  ASSUME NEW s \in Nat
  PROVE  ((108 + 256) - (s % 256)) % 256
           = 255 - (((903 % 256) + (903 \div 256) + 9 + s) % 256)
  BY SMTT(30)

LEMMA SetFormComplete ==
  ASSUME NEW p \in Packets, NEW form, IsForm(form),
         p.cmd = Touchpanel, p.len = TouchpanelLen
  PROVE  Complete(SetForm(p, form))
<1> DEFINE q == SetForm(p, form)
<1>1. /\ q \in Packets
      /\ q.cmd = 903
      /\ q.len = 9
      /\ q.data[8] = Checksum0387(q.data)
  BY SetFormFields DEF Touchpanel, TouchpanelLen
<1> HIDE DEF q
<1> DEFINE sum == ByteSum(q.data, 8)
<1>2. sum \in Nat
  BY <1>1, Fields, SumNat
<1>3. Checksum0387(q.data) = ((108 + 256) - (sum % 256)) % 256
  BY DEF Checksum0387, TouchpanelLen
<1>4. DriverChecksum(q) = 255 - (((903 % 256) + (903 \div 256) + 9 + sum) % 256)
  BY <1>1 DEF DriverChecksum
<1> HIDE DEF sum
<1>5. q.data[q.len - 1] = DriverChecksum(q)
  BY <1>1, <1>2, <1>3, <1>4, Moduli
<1> QED
  BY <1>5 DEF Complete, q

(* Every packet of nine bytes that is patched goes out with the checksum    *)
(* syscon expects (noled_led_candidate_patch_packet).                       *)
THEOREM PatchedIsComplete ==
  ASSUME NEW p \in Packets, NEW m, Patches(p, m), p.len = TouchpanelLen
  PROVE  Complete(Patch(p, m))
<1>1. p.cmd = Touchpanel
  BY DEF Patches, HasForm
<1>2. Patch(p, m) \in {SetForm(p, Safe), SetForm(p, Ten)}
  BY DEF Patches, Patch
<1> QED
  BY <1>1, <1>2, FormsAreForms, SetFormComplete
-----------------------------------------------------------------------------
(* The patch of command 0x89A.                                              *)

LEMMA ModuliPowerLed ==
  ASSUME NEW s \in Nat
  PROVE  ((90 + 256) - (s % 256)) % 256
           = 255 - (((2202 % 256) + (2202 \div 256) + 3 + s) % 256)
  BY SMTT(30)

(* A power LED command of three bytes whose state is replaced is complete   *)
(* again (noled_power_led_patch_packet).                                    *)
THEOREM PowerLedPatchIsComplete ==
  ASSUME NEW p \in Packets, NEW state \in Nat, PowerLedPatches(p, state), p.len = 3
  PROVE  Complete(PowerLedPatch(p, state))
<1> DEFINE sum == ((90 + 256) - ((state + p.data[1]) % 256)) % 256
           q == PowerLedPatch(p, state)
           d == [p.data EXCEPT ![0] = state, ![2] = sum]
<1>1. p.data \in [Places -> Byte] /\ 0 \in Places /\ 1 \in Places /\ 2 \in Places
  BY Fields, PlacesRange
<1>2. state \in Byte /\ p.data[1] \in Nat
  <2>1. state \in Byte
    BY DEF PowerLedPatches, Byte
  <2>2. p.data[1] \in Nat
    BY <1>1, BytesAreNaturals
  <2> QED
    BY <2>1, <2>2
<1>3. sum \in Byte
  <2>1. state + p.data[1] \in Nat
    BY <1>2
  <2> QED
    BY <2>1, Ranges
<1>4. q = [p EXCEPT !.data = d]
  BY DEF PowerLedPatch
<1> HIDE DEF sum, q
<1>5. d \in [Places -> Byte]
  BY <1>1, <1>2, <1>3
<1>6. d[0] = state /\ d[1] = p.data[1] /\ d[2] = sum
  BY <1>1
<1> HIDE DEF d
<1>7. q.cmd = 2202 /\ q.len = 3 /\ q.data = d
  BY <1>4, <1>5, NewData DEF PowerLedPatches, PowerLedCmd
<1>8. ByteSum(d, 2) = state + p.data[1]
  BY <1>2, <1>6, Ranges DEF ByteSum
<1>9. DriverChecksum(q) = 255 - (((2202 % 256) + (2202 \div 256) + 3 + (state + p.data[1])) % 256)
  BY <1>7, <1>8 DEF DriverChecksum
<1>10. q.data[q.len - 1] = sum
  BY <1>6, <1>7
<1>11. state + p.data[1] \in Nat
  BY <1>2
<1>12. sum = DriverChecksum(q)
  BY <1>9, <1>11, ModuliPowerLed DEF sum
<1> QED
  BY <1>10, <1>12 DEF Complete, q

-----------------------------------------------------------------------------
(* What a patch leaves alone, and what it depends on.                       *)

LEMMA PatchCases ==
  ASSUME NEW p, NEW m
  PROVE  /\ Patches(p, m) =>
              \/ HasForm(p, FF01) /\ Patch(p, m) = SetForm(p, Safe)
              \/ HasForm(p, FF00) /\ Patch(p, m) = SetForm(p, Ten)
         /\ ~Patches(p, m) => Patch(p, m) = p
  BY DEF Patches, Patch

LEMMA PatchFields ==
  ASSUME NEW p \in Packets, NEW m
  PROVE  /\ Patch(p, m) \in Packets
         /\ Patch(p, m).cmd = p.cmd
         /\ Patch(p, m).len = p.len
<1>1. Patch(p, m) \in {p, SetForm(p, Safe), SetForm(p, Ten)}
  BY PatchCases
<1>2. /\ SetForm(p, Safe) \in Packets
      /\ SetForm(p, Safe).cmd = p.cmd
      /\ SetForm(p, Safe).len = p.len
  BY SafeFields
<1>3. /\ SetForm(p, Ten) \in Packets
      /\ SetForm(p, Ten).cmd = p.cmd
      /\ SetForm(p, Ten).len = p.len
  BY TenFields
<1> QED
  BY <1>1, <1>2, <1>3

(* Modes only look at the first eight bytes.                                *)
LEMMA PatchesLooksAtHead ==
  ASSUME NEW p, NEW q, NEW m, p.cmd = q.cmd, p.len = q.len,
         \A i \in 0..7 : p.data[i] = q.data[i]
  PROVE  Patches(p, m) <=> Patches(q, m)
<1>1. HasForm(p, FF01) <=> HasForm(q, FF01)
  BY DEF HasForm
<1>2. HasForm(p, FF00) <=> HasForm(q, FF00)
  BY DEF HasForm
<1> QED
  BY <1>1, <1>2 DEF Patches

LEMMA SafeAndTenAreFinal ==
  ASSUME NEW q, NEW m,
         \/ \A i \in 0..7 : q.data[i] = Safe[i + 1]
         \/ \A i \in 0..7 : q.data[i] = Ten[i + 1]
  PROVE  ~Patches(q, m)
<1>1. q.data[1] \in {0, 16}
  BY DEF Safe, Ten
<1>2. FF01[1 + 1] = 255 /\ FF00[1 + 1] = 255
  BY DEF FF01, FF00
<1>3. ~HasForm(q, FF01) /\ ~HasForm(q, FF00)
  BY <1>1, <1>2 DEF HasForm
<1> QED
  BY <1>3 DEF Patches

(* A packet that has been patched is never patched again, in any mode: the  *)
(* nested hooks of the diagnostic plugin and a buffer that is sent again do *)
(* not add patches up (apply_led_candidate_patch).                          *)
THEOREM PatchIsFinal ==
  ASSUME NEW p \in Packets, NEW m, NEW n, Patches(p, m)
  PROVE  Patch(Patch(p, m), n) = Patch(p, m)
<1>1. Patch(p, m) = SetForm(p, Safe) \/ Patch(p, m) = SetForm(p, Ten)
  BY PatchCases
<1>2. \/ \A i \in 0..7 : Patch(p, m).data[i] = Safe[i + 1]
      \/ \A i \in 0..7 : Patch(p, m).data[i] = Ten[i + 1]
  <2>1. \A i \in 0..7 : SetForm(p, Safe).data[i] = Safe[i + 1]
    BY SafeFields
  <2>2. \A i \in 0..7 : SetForm(p, Ten).data[i] = Ten[i + 1]
    BY TenFields
  <2> QED
    BY <1>1, <2>1, <2>2
<1>3. ~Patches(Patch(p, m), n)
  BY <1>2, SafeAndTenAreFinal
<1> QED
  BY <1>3, PatchCases

-----------------------------------------------------------------------------
(* The command probe's packets.                                             *)

LEMMA CommandsOfTheTable ==
  2191 \in Command /\ 2186 \in Command /\ 2203 \in Command
  BY DEF Command

LEMMA FilledBytes ==
  ASSUME NEW s, NEW n \in 1..3, \A i \in 1..n : s[i] \in Byte
  PROVE  Filled(s, n) \in [Places -> Byte]
<1>1. \A i \in Places : (IF i < n THEN s[i + 1] ELSE 0) \in Byte
  BY Ranges
<1> QED
  BY <1>1 DEF Filled

(* Every packet of the command probe's table carries the right checksum     *)
(* (noled_cmd_probe_get_spec).                             *)
THEOREM ProbePacketsAreComplete ==
  ASSUME NEW id \in ProbeIds
  PROVE  ProbePacket(id) \in Packets /\ Complete(ProbePacket(id))
<1>1. CASE id = 0
  <2>1. ProbePacket(id) = [cmd |-> 2191, len |-> 3, data |-> Filled(<<0, 16, 85>>, 3)]
    BY <1>1 DEF ProbePacket
  <2>2. Filled(<<0, 16, 85>>, 3) \in [Places -> Byte]
    BY FilledBytes DEF Byte
  <2>3. ProbePacket(id) \in Packets
    BY <2>1, <2>2, CommandsOfTheTable DEF Packets, Room
  <2>4. Complete(ProbePacket(id))
    BY <2>1, Ranges DEF Complete, DriverChecksum, ByteSum, Filled
  <2> QED
    BY <2>3, <2>4
<1>2. CASE id = 1
  <2>1. ProbePacket(id) = [cmd |-> 2191, len |-> 3, data |-> Filled(<<1, 16, 84>>, 3)]
    BY <1>2 DEF ProbePacket
  <2>2. Filled(<<1, 16, 84>>, 3) \in [Places -> Byte]
    BY FilledBytes DEF Byte
  <2>3. ProbePacket(id) \in Packets
    BY <2>1, <2>2, CommandsOfTheTable DEF Packets, Room
  <2>4. Complete(ProbePacket(id))
    BY <2>1, Ranges DEF Complete, DriverChecksum, ByteSum, Filled
  <2> QED
    BY <2>3, <2>4
<1>3. CASE id = 2
  <2>1. ProbePacket(id) = [cmd |-> 2186, len |-> 2, data |-> Filled(<<0, 107>>, 2)]
    BY <1>3 DEF ProbePacket
  <2>2. Filled(<<0, 107>>, 2) \in [Places -> Byte]
    BY FilledBytes DEF Byte
  <2>3. ProbePacket(id) \in Packets
    BY <2>1, <2>2, CommandsOfTheTable DEF Packets, Room
  <2>4. Complete(ProbePacket(id))
    BY <2>1, Ranges DEF Complete, DriverChecksum, ByteSum, Filled
  <2> QED
    BY <2>3, <2>4
<1>4. CASE id = 3
  <2>1. ProbePacket(id) = [cmd |-> 2186, len |-> 2, data |-> Filled(<<1, 106>>, 2)]
    BY <1>4 DEF ProbePacket
  <2>2. Filled(<<1, 106>>, 2) \in [Places -> Byte]
    BY FilledBytes DEF Byte
  <2>3. ProbePacket(id) \in Packets
    BY <2>1, <2>2, CommandsOfTheTable DEF Packets, Room
  <2>4. Complete(ProbePacket(id))
    BY <2>1, Ranges DEF Complete, DriverChecksum, ByteSum, Filled
  <2> QED
    BY <2>3, <2>4
<1>5. CASE id = 4
  <2>1. ProbePacket(id) = [cmd |-> 2203, len |-> 2, data |-> Filled(<<0, 90>>, 2)]
    BY <1>5 DEF ProbePacket
  <2>2. Filled(<<0, 90>>, 2) \in [Places -> Byte]
    BY FilledBytes DEF Byte
  <2>3. ProbePacket(id) \in Packets
    BY <2>1, <2>2, CommandsOfTheTable DEF Packets, Room
  <2>4. Complete(ProbePacket(id))
    BY <2>1, Ranges DEF Complete, DriverChecksum, ByteSum, Filled
  <2> QED
    BY <2>3, <2>4
<1>6. CASE id = 5
  <2>1. ProbePacket(id) = [cmd |-> 2191, len |-> 3, data |-> Filled(<<0, 12, 89>>, 3)]
    BY <1>6 DEF ProbePacket
  <2>2. Filled(<<0, 12, 89>>, 3) \in [Places -> Byte]
    BY FilledBytes DEF Byte
  <2>3. ProbePacket(id) \in Packets
    BY <2>1, <2>2, CommandsOfTheTable DEF Packets, Room
  <2>4. Complete(ProbePacket(id))
    BY <2>1, Ranges DEF Complete, DriverChecksum, ByteSum, Filled
  <2> QED
    BY <2>3, <2>4
<1> QED
  BY <1>1, <1>2, <1>3, <1>4, <1>5, <1>6 DEF ProbeIds

-----------------------------------------------------------------------------
(* What a step does to the packet of one caller, whichever step it is.      *)

InCall == {"entered", "recorded", "inside"}

(* The packets, and that a call has one.                                    *)
PacketInv ==
  /\ buffer \in [Callers -> Packets \cup {None}]
  /\ wanted \in [Callers -> Packets \cup {None}]
  /\ wire \in [Callers -> Packets \cup {None}]
  /\ at \in [Callers -> {"idle", "entered", "recorded", "inside", "log", "done"}]
  /\ summed \in [Callers -> BOOLEAN]
  /\ \A c \in Callers : at[c] \in InCall => buffer[c] # None

LEMMA InitPackets == Init => PacketInv
  BY DEF Init, PacketInv, InCall

LEMMA StepPackets == PacketInv /\ [Next]_hookVars => PacketInv'
<1> SUFFICES ASSUME PacketInv, [Next]_hookVars
             PROVE  PacketInv'
  OBVIOUS
<1>1. ASSUME NEW r \in Requests, ProbeStart(r)
      PROVE  PacketInv'
  <2> DEFINE p == ProbePacket(r[1])
  <2>1. Fill(Prober, p) /\ Enter(Prober, Exec) /\ r[1] \in ProbeIds
    BY <1>1 DEF ProbeStart, RequestOk
  <2>2. p \in Packets
    BY <2>1, ProbePacketsAreComplete
  <2> HIDE DEF p
  <2>3. p # None /\ Prober \in Callers
    BY <2>2, HooksAssumption
  <2> QED
    BY <2>1, <2>2, <2>3 DEF Fill, Enter, PacketInv, InCall
<1>2. ASSUME NEW r \in Requests, ProbeNoRequest(r)
      PROVE  PacketInv'
  BY <1>2, HooksAssumption DEF ProbeNoRequest, PacketInv, InCall
<1>3. CASE LogProbe
  <2>1. /\ at' = [at EXCEPT ![Prober] = "done"]
        /\ UNCHANGED <<buffer, wanted, wire, summed>>
    BY <1>3 DEF LogProbe
  <2> QED
    BY <2>1, HooksAssumption DEF PacketInv, InCall
<1>4. ASSUME NEW c \in Drivers, Send(c)
      PROVE  PacketInv'
  <2> c \in Callers
    BY DEF Drivers
  <2> PICK p \in Payloads, l \in Layers : Fill(c, p) /\ Enter(c, l)
    BY <1>4 DEF Send
  <2> p \in Packets /\ p # None
    BY HooksAssumption
  <2> QED
    BY DEF Fill, Enter, PacketInv, InCall
<1>5. ASSUME NEW c \in Drivers, SendAgain(c)
      PROVE  PacketInv'
  BY <1>5 DEF Drivers, SendAgain, Enter, PacketInv, InCall
<1>6. ASSUME NEW c \in Callers, Record(c)
      PROVE  PacketInv'
  BY <1>6 DEF Record, PacketInv, InCall
<1>7. ASSUME NEW c \in Callers, ApplyPatch(c)
      PROVE  PacketInv'
  <2>1. buffer[c] \in Packets
    BY <1>7 DEF ApplyPatch, PacketInv, InCall
  <2>2. Patch(buffer[c], mode) \in Packets
    BY <2>1, PatchFields
  <2>3. Patch(buffer[c], mode) # None
    BY <2>2, HooksAssumption
  <2> QED
    BY <1>7, <2>2, <2>3 DEF ApplyPatch, PacketInv, InCall
<1>8. ASSUME NEW c \in Callers, NoHook(c)
      PROVE  PacketInv'
  BY <1>8 DEF NoHook, PacketInv, InCall
<1>9. ASSUME NEW c \in Callers, PutChecksum(c)
      PROVE  PacketInv'
  <2>1. buffer[c] \in Packets
    BY <1>9 DEF PutChecksum, PacketInv, InCall
  <2>2. Completed(buffer[c]) \in Packets
    BY <2>1, CompletedIsComplete
  <2>3. Completed(buffer[c]) # None
    BY <2>2, HooksAssumption
  <2> QED
    BY <1>9, <2>2, <2>3 DEF PutChecksum, PacketInv, InCall
<1>10. ASSUME NEW c \in Callers, CallFurther(c)
       PROVE  PacketInv'
  BY <1>10 DEF CallFurther, PacketInv, InCall
<1>11. ASSUME NEW c \in Callers, Transmit(c)
       PROVE  PacketInv'
  BY <1>11 DEF Transmit, Return, PacketInv, InCall
<1>17. ASSUME NEW c \in Callers, GiveUp(c)
       PROVE  PacketInv'
  BY <1>17 DEF GiveUp, Return, PacketInv, InCall
<1>12. CASE InstallHook
  BY <1>12 DEF InstallHook, callVars, PacketInv, InCall
<1>13. CASE RefreshMode
  BY <1>13 DEF RefreshMode, callVars, PacketInv, InCall
<1>14. ASSUME NEW c \in Drivers, NEW enable \in 0..2, CtrlDolceLed(c, enable)
       PROVE  PacketInv'
  BY <1>14 DEF CtrlDolceLed, callVars, PacketInv, InCall
<1>15. CASE StopTrace
  BY <1>15 DEF StopTrace, callVars, PacketInv, InCall
<1>16. CASE UNCHANGED hookVars
  BY <1>16 DEF hookVars, callVars, PacketInv, InCall
<1> QED
  BY <1>1, <1>2, <1>3, <1>4, <1>5, <1>6, <1>7, <1>8, <1>9, <1>10, <1>11, <1>12,
     <1>13, <1>14, <1>15, <1>16, <1>17 DEF Next, CommandProbe, Call
-----------------------------------------------------------------------------
(* Most steps leave the packets alone.                                      *)

Aside == UNCHANGED <<buffer, summed, wanted, wire, inForce, mode>>

LEMMA StepKinds ==
  ASSUME [Next]_hookVars
  PROVE  \/ Aside
         \/ RefreshMode
         \/ \E r \in Requests : ProbeStart(r)
         \/ \E c \in Drivers : Send(c) \/ SendAgain(c)
         \/ \E c \in Callers : ApplyPatch(c) \/ PutChecksum(c) \/ Transmit(c) \/ GiveUp(c)
<1>1. ASSUME NEW r \in Requests, ProbeNoRequest(r)
      PROVE  Aside
  BY <1>1 DEF ProbeNoRequest, Aside
<1>2. CASE LogProbe
  BY <1>2 DEF LogProbe, Aside
<1>3. ASSUME NEW c \in Callers, Record(c) \/ NoHook(c) \/ CallFurther(c)
      PROVE  Aside
  BY <1>3 DEF Record, NoHook, CallFurther, Aside
<1>4. ASSUME NEW c \in Drivers, NEW enable \in 0..2, CtrlDolceLed(c, enable)
      PROVE  Aside
  BY <1>4 DEF CtrlDolceLed, callVars, Aside
<1>5. CASE InstallHook
  BY <1>5 DEF InstallHook, callVars, Aside
<1>6. CASE StopTrace
  BY <1>6 DEF StopTrace, callVars, Aside
<1>7. CASE UNCHANGED hookVars
  BY <1>7 DEF hookVars, callVars, Aside
<1> QED
  BY <1>1, <1>2, <1>3, <1>4, <1>5, <1>6, <1>7 DEF Next, CommandProbe, Call

-----------------------------------------------------------------------------
(* Checksums.                                                               *)

(* The packets noled_led_candidate_0387_checksum is right for.              *)
Regular(p) == p.cmd = Touchpanel => p.len = TouchpanelLen

ChecksumInv ==
  \A c \in Callers :
    /\ summed[c] /\ Regular(buffer[c]) => Complete(buffer[c])
    /\ wire[c] # None /\ Regular(wire[c]) => Complete(wire[c])

LEMMA PatchKeepsComplete ==
  ASSUME NEW p \in Packets, NEW m, Regular(Patch(p, m)),
         Regular(p) => Complete(p)
  PROVE  Complete(Patch(p, m))
<1>1. CASE Patches(p, m)
  <2>1. p.cmd = Touchpanel
    BY <1>1 DEF Patches, HasForm
  <2>2. p.len = TouchpanelLen
    BY <2>1, PatchFields DEF Regular
  <2> QED
    BY <1>1, <2>2, PatchedIsComplete
<1>2. CASE ~Patches(p, m)
  BY <1>2, PatchCases
<1> QED
  BY <1>1, <1>2

LEMMA StepChecksums ==
  ASSUME PacketInv, ChecksumInv, [Next]_hookVars
  PROVE  ChecksumInv'
<1>1. CASE Aside
  BY <1>1 DEF Aside, ChecksumInv
<1>2. CASE RefreshMode
  BY <1>2 DEF RefreshMode, callVars, ChecksumInv
<1>3. ASSUME NEW r \in Requests, ProbeStart(r)
      PROVE  ChecksumInv'
  BY <1>3, HooksAssumption DEF ProbeStart, Fill, Enter, PacketInv, ChecksumInv
<1>4. ASSUME NEW c \in Drivers, Send(c)
      PROVE  ChecksumInv'
  <2>1. c \in Callers
    BY DEF Drivers
  <2>2. PICK p \in Payloads, l \in Layers : Fill(c, p) /\ Enter(c, l)
    BY <1>4 DEF Send
  <2> QED
    BY <2>1, <2>2 DEF Fill, Enter, PacketInv, ChecksumInv
<1>5. ASSUME NEW c \in Drivers, SendAgain(c)
      PROVE  ChecksumInv'
  BY <1>5 DEF Drivers, SendAgain, Enter, PacketInv, ChecksumInv
<1>6. ASSUME NEW c \in Callers, ApplyPatch(c)
      PROVE  ChecksumInv'
  <2>1. /\ buffer[c] \in Packets
        /\ buffer' = [buffer EXCEPT ![c] = Patch(buffer[c], mode)]
        /\ UNCHANGED <<summed, wire>>
    BY <1>6 DEF ApplyPatch, PacketInv, InCall
  <2>2. summed[c] /\ Regular(Patch(buffer[c], mode)) => Complete(Patch(buffer[c], mode))
    BY <2>1, PatchKeepsComplete DEF ChecksumInv
  <2> QED
    BY <2>1, <2>2 DEF PacketInv, ChecksumInv
<1>7. ASSUME NEW c \in Callers, PutChecksum(c)
      PROVE  ChecksumInv'
  <2>1. /\ buffer[c] \in Packets
        /\ buffer' = [buffer EXCEPT ![c] = Completed(buffer[c])]
        /\ summed' = [summed EXCEPT ![c] = TRUE]
        /\ UNCHANGED wire
    BY <1>7 DEF PutChecksum, PacketInv, InCall
  <2>2. Complete(Completed(buffer[c]))
    BY <2>1, CompletedIsComplete
  <2> QED
    BY <2>1, <2>2 DEF PacketInv, ChecksumInv
<1>8. ASSUME NEW c \in Callers, Transmit(c)
      PROVE  ChecksumInv'
  BY <1>8 DEF Transmit, Return, PacketInv, ChecksumInv
<1>9. ASSUME NEW c \in Callers, GiveUp(c)
      PROVE  ChecksumInv'
  BY <1>9 DEF GiveUp, Return, PacketInv, ChecksumInv
<1> QED
  BY <1>1, <1>2, <1>3, <1>4, <1>5, <1>6, <1>7, <1>8, <1>9, StepKinds

(* What goes over the wire has the right checksum, patched before or after  *)
(* SceSyscon put it in (apply_led_candidate_patch,                          *)
(* noled_led_candidate_0387_checksum, the table of cmd_probe.h).            *)
THEOREM WireIsWellFormed == Spec => []WireWellFormed
<1>1. Init => PacketInv /\ ChecksumInv
  BY InitPackets DEF Init, ChecksumInv
<1>2. PacketInv /\ ChecksumInv /\ [Next]_hookVars => (PacketInv /\ ChecksumInv)'
  BY StepPackets, StepChecksums
<1>3. ChecksumInv => WireWellFormed
  BY DEF ChecksumInv, WireWellFormed, Regular
<1> QED
  BY <1>1, <1>2, <1>3, PTL DEF Spec
-----------------------------------------------------------------------------
(* Explanations.                                                            *)

(* The same packet but for the checksum.                                    *)
Alike(p, q) ==
  /\ p.cmd = q.cmd
  /\ p.len = q.len
  /\ \A i \in Places : i # p.len - 1 => p.data[i] = q.data[i]

LEMMA AlikeAndComplete ==
  ASSUME NEW p \in Packets, NEW q \in Packets, Alike(p, q), Complete(p)
  PROVE  p = Completed(q)
<1> DEFINE r == Completed(q)
<1>1. /\ p.len \in 1..10
      /\ p.data \in [Places -> Byte]
      /\ q.data \in [Places -> Byte]
      /\ p.len = q.len
      /\ p.cmd = q.cmd
  BY Fields DEF Alike
<1>2. \A i \in 0..9 : i < p.len - 1 => p.data[i] = q.data[i]
  BY <1>1, PlacesRange DEF Alike
<1>3. ByteSum(p.data, p.len - 1) = ByteSum(q.data, q.len - 1)
  BY <1>1, <1>2, SumLocal
<1>4. DriverChecksum(p) = DriverChecksum(q)
  BY <1>1, <1>3 DEF DriverChecksum
<1>5. /\ r \in Packets
      /\ r.cmd = q.cmd
      /\ r.len = q.len
      /\ \A i \in Places : i # q.len - 1 => r.data[i] = q.data[i]
      /\ r.data[q.len - 1] = DriverChecksum(q)
  BY CompletedIsComplete
<1> HIDE DEF r
<1>6. \A i \in Places : p.data[i] = r.data[i]
  BY <1>1, <1>4, <1>5 DEF Alike, Complete
<1>7. p = r
  BY <1>1, <1>5, <1>6, SameFields
<1> QED
  BY <1>7 DEF r

LEMMA CompletedIsAlike ==
  ASSUME NEW p \in Packets, NEW q, Alike(p, q)
  PROVE  Alike(Completed(p), q)
  BY CompletedIsComplete DEF Alike

(* One more patch leaves a packet explained: by the mode it was explained   *)
(* with if that one patched it, by the new mode otherwise.                  *)
LEMMA PatchIsExplained ==
  ASSUME NEW b \in Packets, NEW w \in Packets, Regular(w), NEW m, NEW n,
         Alike(b, Patch(w, m))
  PROVE  Alike(Patch(b, n), Patch(w, m)) \/ Alike(Patch(b, n), Patch(w, n))
<1> DEFINE v == Patch(w, m)
<1>1. /\ v \in Packets
      /\ v.cmd = w.cmd
      /\ v.len = w.len
  BY PatchFields
<1>2. Alike(b, v)
  OBVIOUS
<1>3. Patches(w, m) => \A k : ~Patches(v, k)
  <2> SUFFICES ASSUME Patches(w, m), NEW k
               PROVE  ~Patches(v, k)
    OBVIOUS
  <2>1. \A i \in 0..7 : SetForm(w, Safe).data[i] = Safe[i + 1]
    BY SafeFields
  <2>2. \A i \in 0..7 : SetForm(w, Ten).data[i] = Ten[i + 1]
    BY TenFields
  <2>3. v = SetForm(w, Safe) \/ v = SetForm(w, Ten)
    BY PatchCases
  <2> HIDE DEF v
  <2> QED
    BY <2>1, <2>2, <2>3, SafeAndTenAreFinal
<1>4. ~Patches(w, m) => v = w
  BY PatchCases
<1> HIDE DEF v
<1>5. CASE w.cmd # Touchpanel
  <2>1. ~Patches(b, n)
    BY <1>1, <1>2, <1>5 DEF Alike, Patches, HasForm
  <2>2. Patch(b, n) = b
    BY <2>1, PatchCases
  <2> QED
    BY <1>2, <2>2 DEF v
<1>6. CASE w.cmd = Touchpanel
  <2>1. b.cmd = v.cmd /\ b.len = v.len /\ b.len = 9
    BY <1>1, <1>2, <1>6 DEF Alike, Regular, TouchpanelLen
  <2>2. \A i \in 0..7 : b.data[i] = v.data[i]
    BY <1>2, <2>1, PlacesRange DEF Alike
  <2>3. Patches(b, n) <=> Patches(v, n)
    BY <2>1, <2>2, PatchesLooksAtHead
  <2>4. CASE ~Patches(b, n)
    <3>1. Patch(b, n) = b
      BY <2>4, PatchCases
    <3> QED
      BY <1>2, <3>1 DEF v
  <2>5. CASE Patches(b, n)
    <3>1. v = w /\ Patches(w, n)
      <4>1. Patches(v, n)
        BY <2>3, <2>5
      <4>2. ~Patches(w, m)
        BY <1>3, <4>1
      <4> QED
        BY <1>4, <4>1, <4>2
    <3>2. HasForm(b, FF01) <=> HasForm(w, FF01)
      BY <2>1, <2>2, <3>1 DEF HasForm
    <3>3. HasForm(b, FF00) <=> HasForm(w, FF00)
      BY <2>1, <2>2, <3>1 DEF HasForm
    <3>4. \/ Patch(b, n) = SetForm(b, Safe) /\ Patch(w, n) = SetForm(w, Safe)
          \/ Patch(b, n) = SetForm(b, Ten) /\ Patch(w, n) = SetForm(w, Ten)
      BY <2>5, <3>1, <3>2, <3>3 DEF Patch, Patches
    <3>5. b.data[9] = w.data[9] /\ b.cmd = w.cmd /\ b.len = w.len
      <4>1. 9 \in Places /\ 9 # b.len - 1
        BY <2>1, PlacesRange
      <4>2. b.data[9] = v.data[9]
        BY <1>2, <4>1 DEF Alike
      <4> QED
        BY <2>1, <3>1, <4>2
    <3>6. Alike(SetForm(b, Safe), SetForm(w, Safe))
      <4>1. /\ SetForm(b, Safe).cmd = b.cmd
            /\ SetForm(b, Safe).len = b.len
            /\ \A i \in 0..7 : SetForm(b, Safe).data[i] = Safe[i + 1]
            /\ SetForm(b, Safe).data[9] = b.data[9]
        BY FormsAreForms, SetFormFields
      <4>2. /\ SetForm(w, Safe).cmd = w.cmd
            /\ SetForm(w, Safe).len = w.len
            /\ \A i \in 0..7 : SetForm(w, Safe).data[i] = Safe[i + 1]
            /\ SetForm(w, Safe).data[9] = w.data[9]
        BY FormsAreForms, SetFormFields
      <4> QED
        BY <2>1, <3>5, <4>1, <4>2, PlacesRange DEF Alike
    <3>7. Alike(SetForm(b, Ten), SetForm(w, Ten))
      <4>1. /\ SetForm(b, Ten).cmd = b.cmd
            /\ SetForm(b, Ten).len = b.len
            /\ \A i \in 0..7 : SetForm(b, Ten).data[i] = Ten[i + 1]
            /\ SetForm(b, Ten).data[9] = b.data[9]
        BY FormsAreForms, SetFormFields
      <4>2. /\ SetForm(w, Ten).cmd = w.cmd
            /\ SetForm(w, Ten).len = w.len
            /\ \A i \in 0..7 : SetForm(w, Ten).data[i] = Ten[i + 1]
            /\ SetForm(w, Ten).data[9] = w.data[9]
        BY FormsAreForms, SetFormFields
      <4> QED
        BY <2>1, <3>5, <4>1, <4>2, PlacesRange DEF Alike
    <3> QED
      BY <3>4, <3>6, <3>7
  <2> QED
    BY <2>4, <2>5
<1> QED
  BY <1>5, <1>6
-----------------------------------------------------------------------------
ExplainedInv ==
  /\ mode \in FileModes
  /\ inForce \in [Drivers -> SUBSET FileModes]
  /\ \A c \in Drivers :
       buffer[c] # None
         => /\ wanted[c] # None
            /\ mode \in inForce[c]
            /\ Regular(wanted[c])
                 => \E m \in inForce[c] \cup {0} : Alike(buffer[c], Patch(wanted[c], m))
  /\ \A c \in Drivers :
       wire[c] # None /\ Regular(wanted[c])
         => \E m \in inForce[c] \cup {0} : wire[c] = Completed(Patch(wanted[c], m))

LEMMA StepExplained ==
  ASSUME PacketInv, ChecksumInv, ExplainedInv, [Next]_hookVars
  PROVE  ExplainedInv'
<1>0. Drivers \subseteq Callers /\ Prober \notin Drivers
  BY DEF Drivers
<1>1. CASE Aside
  BY <1>1 DEF Aside, ExplainedInv
<1>2. CASE RefreshMode
  <2>1. /\ mode' \in FileModes
        /\ inForce' = [c \in Drivers |-> inForce[c] \cup {mode'}]
        /\ UNCHANGED <<buffer, wanted, wire>>
    BY <1>2 DEF RefreshMode, callVars
  <2> QED
    BY <2>1 DEF ExplainedInv
<1>3. ASSUME NEW r \in Requests, ProbeStart(r)
      PROVE  ExplainedInv'
  <2>1. /\ UNCHANGED <<mode, inForce>>
        /\ \A c \in Drivers : /\ buffer'[c] = buffer[c]
                             /\ wanted'[c] = wanted[c]
                             /\ wire'[c] = wire[c]
    BY <1>0, <1>3 DEF ProbeStart, Fill, Enter, PacketInv
  <2> QED
    BY <2>1 DEF ExplainedInv
<1>4. ASSUME NEW c \in Drivers, Send(c)
      PROVE  ExplainedInv'
  <2>1. PICK p \in Payloads, l \in Layers : Fill(c, p) /\ Enter(c, l)
    BY <1>4 DEF Send
  <2>2. /\ mode' = mode
        /\ inForce' = [inForce EXCEPT ![c] = {mode}]
        /\ buffer' = [buffer EXCEPT ![c] = p]
        /\ wanted' = [wanted EXCEPT ![c] = p]
        /\ wire' = [wire EXCEPT ![c] = None]
    BY <1>4, <2>1 DEF Send, Fill, Enter
  <2>3. p # None
    BY HooksAssumption
  <2>4. Alike(p, Patch(p, 0))
    BY DEF Alike, Patch, SafeModes, TenModes
  <2> QED
    BY <1>0, <2>2, <2>3, <2>4 DEF ExplainedInv, PacketInv
<1>5. ASSUME NEW c \in Drivers, SendAgain(c)
      PROVE  ExplainedInv'
  <2>1. /\ UNCHANGED <<mode, inForce, buffer, wanted>>
        /\ wire' = [wire EXCEPT ![c] = None]
    BY <1>5 DEF SendAgain, Enter
  <2> QED
    BY <1>0, <2>1 DEF ExplainedInv, PacketInv
<1>6. ASSUME NEW c \in Callers, ApplyPatch(c)
      PROVE  ExplainedInv'
  <2>1. /\ buffer[c] \in Packets
        /\ buffer' = [buffer EXCEPT ![c] = Patch(buffer[c], mode)]
        /\ UNCHANGED <<mode, inForce, wanted, wire>>
    BY <1>6 DEF ApplyPatch, PacketInv, InCall
  <2>2. ASSUME c \in Drivers, Regular(wanted[c])
        PROVE  \E m \in inForce[c] \cup {0} : Alike(buffer'[c], Patch(wanted[c], m))
    <3>1. PICK m \in inForce[c] \cup {0} : Alike(buffer[c], Patch(wanted[c], m))
      BY <2>1, <2>2, HooksAssumption DEF ExplainedInv
    <3>2. wanted[c] \in Packets /\ mode \in inForce[c]
      BY <2>1, <2>2, HooksAssumption DEF ExplainedInv, PacketInv
    <3>3. \/ Alike(Patch(buffer[c], mode), Patch(wanted[c], m))
          \/ Alike(Patch(buffer[c], mode), Patch(wanted[c], mode))
      BY <2>1, <2>2, <3>1, <3>2, PatchIsExplained
    <3>4. buffer'[c] = Patch(buffer[c], mode)
      BY <2>1 DEF PacketInv
    <3> QED
      BY <3>2, <3>3, <3>4
  <2>3. \A d \in Drivers : d # c => buffer'[d] = buffer[d]
    BY <1>0, <2>1 DEF PacketInv
  <2>4. buffer[c] # None
    BY <2>1, HooksAssumption
  <2> QED
    BY <2>1, <2>2, <2>3, <2>4 DEF ExplainedInv
<1>7. ASSUME NEW c \in Callers, PutChecksum(c)
      PROVE  ExplainedInv'
  <2>1. /\ buffer[c] \in Packets
        /\ buffer' = [buffer EXCEPT ![c] = Completed(buffer[c])]
        /\ UNCHANGED <<mode, inForce, wanted, wire>>
    BY <1>7 DEF PutChecksum, PacketInv, InCall
  <2>2. \A q : Alike(buffer[c], q) => Alike(Completed(buffer[c]), q)
    BY <2>1, CompletedIsAlike
  <2>3. buffer'[c] = Completed(buffer[c])
    BY <2>1 DEF PacketInv
  <2>4. \A d \in Drivers : d # c => buffer'[d] = buffer[d]
    BY <1>0, <2>1 DEF PacketInv
  <2>5. buffer[c] # None
    BY <2>1, HooksAssumption
  <2> QED
    BY <2>1, <2>2, <2>3, <2>4, <2>5 DEF ExplainedInv
<1>8. ASSUME NEW c \in Callers, Transmit(c)
      PROVE  ExplainedInv'
  <2>1. /\ buffer[c] \in Packets
        /\ summed[c]
        /\ wire' = [wire EXCEPT ![c] = buffer[c]]
        /\ UNCHANGED <<mode, inForce, buffer, wanted>>
    BY <1>8 DEF Transmit, PacketInv, InCall
  <2>2. ASSUME c \in Drivers, Regular(wanted[c])
        PROVE  \E m \in inForce[c] \cup {0} : buffer[c] = Completed(Patch(wanted[c], m))
    <3>1. PICK m \in inForce[c] \cup {0} : Alike(buffer[c], Patch(wanted[c], m))
      BY <2>1, <2>2, HooksAssumption DEF ExplainedInv
    <3>2. wanted[c] \in Packets
      BY <2>1, <2>2, HooksAssumption DEF ExplainedInv, PacketInv
    <3>3. /\ Patch(wanted[c], m) \in Packets
          /\ Patch(wanted[c], m).cmd = wanted[c].cmd
          /\ Patch(wanted[c], m).len = wanted[c].len
      BY <3>2, PatchFields
    <3>4. Regular(buffer[c])
      BY <2>2, <3>1, <3>3 DEF Regular, Alike
    <3>5. Complete(buffer[c])
      BY <2>1, <3>4 DEF ChecksumInv
    <3> QED
      BY <2>1, <3>1, <3>3, <3>5, AlikeAndComplete
  <2>3. \A d \in Drivers : wire'[d] = IF d = c THEN buffer[c] ELSE wire[d]
    BY <1>0, <2>1 DEF PacketInv
  <2> QED
    BY <2>1, <2>2, <2>3 DEF ExplainedInv
<1>9. ASSUME NEW c \in Callers, GiveUp(c)
      PROVE  ExplainedInv'
  BY <1>9 DEF GiveUp, ExplainedInv
<1> QED
  BY <1>1, <1>2, <1>3, <1>4, <1>5, <1>6, <1>7, <1>8, <1>9, StepKinds

(* What syscon gets from a driver is its packet, or what one mode in force  *)
(* since it was filled makes of it: for any number of callers, any packets  *)
(* and any sequence of modes (apply_led_candidate_patch).                   *)
THEOREM WireIsExplained == Spec => []PatchesExplained
<1>1. Init => PacketInv /\ ChecksumInv /\ ExplainedInv
  <2>1. Init => ExplainedInv
    BY DEF Init, ExplainedInv, Drivers
  <2> QED
    BY <2>1, InitPackets DEF Init, ChecksumInv
<1>2. PacketInv /\ ChecksumInv /\ ExplainedInv /\ [Next]_hookVars
        => (PacketInv /\ ChecksumInv /\ ExplainedInv)'
  BY StepPackets, StepChecksums, StepExplained
<1>3. ExplainedInv => PatchesExplained
  BY DEF ExplainedInv, PatchesExplained, Regular
<1> QED
  BY <1>1, <1>2, <1>3, PTL DEF Spec
-----------------------------------------------------------------------------
(* The logs.                                                                *)

(* Record r is what the packet b was before it was patched.                 *)
Replaced(r, b) ==
  /\ r.cmd = b.cmd
  /\ r.len = b.len
  /\ b.len \in 9..10
  /\ r.data[1] = 255
  /\ \/ \A i \in 0..7 : b.data[i] = Safe[i + 1]
     \/ \A i \in 0..7 : b.data[i] = Ten[i + 1]

(* n patch markers tell how packet b became of record r.                    *)
Traced(r, b, n) ==
  \/ n = 0 /\ Alike(b, r)
  \/ n = 1 /\ Replaced(r, b)

LEMMA TracedTells ==
  ASSUME NEW r \in Packets, NEW b \in Packets, NEW n, Traced(r, b, n)
  PROVE  n = IF SamePayload(r, b) THEN 0 ELSE 1
<1>1. b.len \in 1..10 /\ r.len \in 1..10
  BY Fields
<1>2. CASE n = 0 /\ Alike(b, r)
  <2>1. \A i \in Places : i < r.len - 1 => r.data[i] = b.data[i]
    BY <1>1, <1>2, PlacesRange DEF Alike
  <2>2. SamePayload(r, b)
    BY <1>2, <2>1 DEF Alike, SamePayload
  <2> QED
    BY <1>2, <2>2
<1>3. CASE n = 1 /\ Replaced(r, b)
  <2>1. b.data[1] \in {0, 16}
    BY <1>3 DEF Replaced, Safe, Ten
  <2>2. 1 \in Places /\ 1 < r.len - 1 /\ r.data[1] # b.data[1]
    BY <1>3, <2>1, PlacesRange DEF Replaced
  <2>3. ~SamePayload(r, b)
    BY <2>2 DEF SamePayload
  <2> QED
    BY <1>3, <2>3
<1> QED
  BY <1>2, <1>3 DEF Traced

(* A patch that is marked, and one that is not applied, keep the trace.     *)
LEMMA PatchIsTraced ==
  ASSUME NEW r \in Packets, NEW b \in Packets, NEW n, NEW m, Traced(r, b, n)
  PROVE  Traced(r, Patch(b, m), IF Patches(b, m) THEN n + 1 ELSE n)
<1>1. CASE ~Patches(b, m)
  BY <1>1, PatchCases
<1>2. CASE Patches(b, m)
  <2>1. n = 0 /\ Alike(b, r)
    BY <1>2, SafeAndTenAreFinal DEF Traced, Replaced
  <2>2. /\ b.len \in 9..10
        /\ b.data[1] = 255
    <3>1. b.len \in 1..10
      BY Fields
    <3>2. b.len >= 9 /\ (HasForm(b, FF01) \/ HasForm(b, FF00))
      BY <1>2 DEF Patches, HasForm, TouchpanelLen
    <3>3. FF01[1 + 1] = 255 /\ FF00[1 + 1] = 255
      BY DEF FF01, FF00
    <3>4. b.data[1] = 255
      BY <3>2, <3>3 DEF HasForm
    <3> QED
      BY <3>1, <3>2, <3>4
  <2>3. /\ r.cmd = b.cmd
        /\ r.len = b.len
        /\ r.data[1] = 255
    <3>1. 1 \in Places /\ 1 # b.len - 1
      BY <2>2, PlacesRange
    <3> QED
      BY <2>1, <2>2, <3>1 DEF Alike
  <2> DEFINE q == Patch(b, m)
  <2>4. /\ q.cmd = b.cmd
        /\ q.len = b.len
        /\ \/ \A i \in 0..7 : q.data[i] = Safe[i + 1]
           \/ \A i \in 0..7 : q.data[i] = Ten[i + 1]
    BY <1>2, PatchCases, SafeFields, TenFields
  <2> HIDE DEF q
  <2>5. Replaced(r, q)
    BY <2>2, <2>3, <2>4 DEF Replaced
  <2> QED
    BY <1>2, <2>1, <2>5 DEF Traced, q
<1> QED
  BY <1>1, <1>2

LEMMA ChecksumIsTraced ==
  ASSUME NEW r \in Packets, NEW b \in Packets, NEW n, Traced(r, b, n)
  PROVE  Traced(r, Completed(b), n)
<1> DEFINE q == Completed(b)
<1>1. /\ q.cmd = b.cmd
      /\ q.len = b.len
      /\ \A i \in Places : i # b.len - 1 => q.data[i] = b.data[i]
  BY CompletedIsComplete
<1> HIDE DEF q
<1>2. Alike(b, r) => Alike(q, r)
  BY <1>1 DEF Alike
<1>3. ASSUME Replaced(r, b)
      PROVE  Replaced(r, q)
  <2>1. b.len \in 9..10
    BY <1>3 DEF Replaced
  <2>2. \A i \in 0..7 : q.data[i] = b.data[i]
    BY <1>1, <2>1, PlacesRange
  <2> QED
    BY <1>1, <1>3, <2>2 DEF Replaced
<1> QED
  BY <1>2, <1>3 DEF Traced, q

(* What the trace holds about each caller's call, while it runs.  It is     *)
(* never started again, so it has run during all of the call.               *)
TraceInv ==
  /\ recorded \in [Callers -> Packets \cup {None}]
  /\ marked \in [Callers -> Nat]
  /\ \A c \in Callers :
       /\ at[c] \in InCall => wire[c] = None
       /\ wire[c] # None => wire[c] = buffer[c]
       /\ tracing =>
            /\ at[c] = "recorded" => recorded[c] # None
            /\ recorded[c] = None => marked[c] = 0
            /\ recorded[c] # None =>
                 buffer[c] # None /\ Traced(recorded[c], buffer[c], marked[c])

LEMMA TraceIsOverForGood == [Next]_hookVars => (tracing' => tracing)
<1> SUFFICES ASSUME [Next]_hookVars
             PROVE  tracing' => tracing
  OBVIOUS
<1>1. tracing' = tracing \/ tracing' = FALSE
  BY DEF Next, CommandProbe, Call, InstallHook, StopTrace, RefreshMode, ProbeStart,
         ProbeNoRequest, LogProbe, Record, ApplyPatch, NoHook, PutChecksum, CallFurther,
         Transmit, GiveUp, Send, SendAgain, CtrlDolceLed, hookVars
<1> QED
  BY <1>1

(* A caller starts a call: nothing is recorded yet.                         *)
LEMMA EnterIsUntraced ==
  ASSUME PacketInv, TraceInv, NEW c \in Callers, NEW l, Enter(c, l), tracing' = tracing,
         NEW p, buffer' = [buffer EXCEPT ![c] = p]
  PROVE  TraceInv'
<1>1. /\ at' = [at EXCEPT ![c] = "entered"]
      /\ recorded' = [recorded EXCEPT ![c] = None]
      /\ marked' = [marked EXCEPT ![c] = 0]
      /\ wire' = [wire EXCEPT ![c] = None]
  BY DEF Enter
<1> QED
  BY <1>1 DEF PacketInv, TraceInv

LEMMA StepTrace ==
  ASSUME PacketInv, TraceInv, [Next]_hookVars
  PROVE  TraceInv'
<1> DEFINE Alone == UNCHANGED <<buffer, wire, at, recorded, marked>>
<1>1. CASE Alone
  <2> USE <1>1
  <2>1. tracing' => tracing
    BY TraceIsOverForGood
  <2> QED
    BY <2>1 DEF TraceInv
<1>2. ASSUME NEW r \in Requests, ProbeStart(r)
      PROVE  TraceInv'
  BY <1>2, HooksAssumption, EnterIsUntraced DEF ProbeStart, Fill
<1>3. ASSUME NEW r \in Requests, ProbeNoRequest(r)
      PROVE  TraceInv'
  BY <1>3, HooksAssumption DEF ProbeNoRequest, PacketInv, TraceInv, InCall
<1>4. CASE LogProbe
  <2>1. /\ at' = [at EXCEPT ![Prober] = "done"]
        /\ UNCHANGED <<tracing, buffer, recorded, marked, wire>>
    BY <1>4 DEF LogProbe
  <2> QED
    BY <2>1, HooksAssumption DEF PacketInv, TraceInv, InCall
<1>5. ASSUME NEW c \in Drivers, Send(c)
      PROVE  TraceInv'
  <2> c \in Callers
    BY DEF Drivers
  <2> QED
    BY <1>5, EnterIsUntraced DEF Send, Fill
<1>6. ASSUME NEW c \in Drivers, SendAgain(c)
      PROVE  TraceInv'
  <2>1. c \in Callers /\ buffer' = [buffer EXCEPT ![c] = buffer[c]]
    BY <1>6 DEF Drivers, SendAgain, PacketInv
  <2> QED
    BY <1>6, <2>1, EnterIsUntraced DEF SendAgain
<1>7. ASSUME NEW c \in Callers, Record(c)
      PROVE  TraceInv'
  <2>1. /\ at[c] = "entered"
        /\ at' = [at EXCEPT ![c] = "recorded"]
        /\ recorded' = [recorded EXCEPT ![c] = IF tracing /\ recorded[c] = None
                                               THEN buffer[c] ELSE recorded[c]]
        /\ UNCHANGED <<tracing, buffer, marked, wire>>
    BY <1>7 DEF Record, TraceInv
  <2>2. buffer[c] \in Packets /\ buffer[c] # None
    BY <2>1 DEF PacketInv, InCall
  <2>3. Traced(buffer[c], buffer[c], 0)
    BY DEF Traced, Alike
  <2> QED
    BY <2>1, <2>2, <2>3 DEF PacketInv, TraceInv, InCall
<1>8. ASSUME NEW c \in Callers, ApplyPatch(c)
      PROVE  TraceInv'
  <2> DEFINE n == IF Patches(buffer[c], mode) THEN marked[c] + 1 ELSE marked[c]
  <2>1. /\ at[c] = "recorded"
        /\ at' = [at EXCEPT ![c] = "inside"]
        /\ buffer' = [buffer EXCEPT ![c] = Patch(buffer[c], mode)]
        /\ marked' = [marked EXCEPT ![c] = IF tracing THEN n ELSE marked[c]]
        /\ UNCHANGED <<tracing, recorded, wire>>
    BY <1>8 DEF ApplyPatch, TraceInv
  <2>2. buffer[c] \in Packets
    BY <2>1 DEF PacketInv, InCall
  <2>3. Patch(buffer[c], mode) # None
    BY <2>2, PatchFields, HooksAssumption
  <2>4. tracing => recorded[c] # None /\ Traced(recorded[c], Patch(buffer[c], mode), n)
    <3> SUFFICES ASSUME tracing
                 PROVE  recorded[c] # None /\ Traced(recorded[c], Patch(buffer[c], mode), n)
      OBVIOUS
    <3>1. /\ recorded[c] # None
          /\ recorded[c] \in Packets
          /\ Traced(recorded[c], buffer[c], marked[c])
      BY <2>1 DEF TraceInv
    <3> QED
      BY <2>2, <3>1, PatchIsTraced
  <2>5. n \in Nat
    BY DEF TraceInv
  <2> HIDE DEF n
  <2> QED
    BY <2>1, <2>3, <2>4, <2>5 DEF PacketInv, TraceInv, InCall
<1>9. ASSUME NEW c \in Callers, PutChecksum(c)
      PROVE  TraceInv'
  <2>1. /\ at[c] = "inside"
        /\ buffer' = [buffer EXCEPT ![c] = Completed(buffer[c])]
        /\ UNCHANGED <<tracing, at, recorded, marked, wire>>
    BY <1>9 DEF PutChecksum
  <2>2. buffer[c] \in Packets
    BY <2>1 DEF PacketInv, InCall
  <2>3. Completed(buffer[c]) # None
    BY <2>2, CompletedIsComplete, HooksAssumption
  <2>4. tracing /\ recorded[c] # None => Traced(recorded[c], Completed(buffer[c]), marked[c])
    BY <2>2, ChecksumIsTraced DEF TraceInv
  <2> QED
    BY <2>1, <2>3, <2>4 DEF PacketInv, TraceInv, InCall
<1>10. ASSUME NEW c \in Callers, NoHook(c) \/ CallFurther(c)
       PROVE  TraceInv'
  <2>1. /\ at[c] \in InCall
        /\ \E s \in {"entered", "inside"} : at' = [at EXCEPT ![c] = s]
        /\ UNCHANGED <<tracing, buffer, recorded, marked, wire>>
    BY <1>10 DEF NoHook, CallFurther, InCall
  <2> QED
    BY <2>1 DEF PacketInv, TraceInv, InCall
<1>11. ASSUME NEW c \in Callers, Transmit(c)
       PROVE  TraceInv'
  <2>1. /\ at[c] = "inside"
        /\ \E s \in {"log", "idle"} : at' = [at EXCEPT ![c] = s]
        /\ wire' = [wire EXCEPT ![c] = buffer[c]]
        /\ UNCHANGED <<tracing, buffer, recorded, marked>>
    BY <1>11 DEF Transmit, Return
  <2> QED
    BY <2>1 DEF PacketInv, TraceInv, InCall
<1>14. ASSUME NEW c \in Callers, GiveUp(c)
       PROVE  TraceInv'
  <2>1. /\ \E s \in {"log", "idle"} : at' = [at EXCEPT ![c] = s]
        /\ UNCHANGED <<tracing, buffer, recorded, marked, wire>>
    BY <1>14 DEF GiveUp, Return
  <2> QED
    BY <2>1 DEF PacketInv, TraceInv, InCall
<1>12. CASE InstallHook \/ StopTrace \/ RefreshMode \/ UNCHANGED hookVars
  <2>1. Alone
    BY <1>12 DEF InstallHook, StopTrace, RefreshMode, hookVars, callVars
  <2> QED
    BY <1>1, <2>1
<1>13. ASSUME NEW c \in Drivers, NEW enable \in 0..2, CtrlDolceLed(c, enable)
       PROVE  TraceInv'
  <2>1. Alone
    BY <1>13 DEF CtrlDolceLed, callVars
  <2> QED
    BY <1>1, <2>1
<1> HIDE DEF Alone
<1> QED
  BY <1>2, <1>3, <1>4, <1>5, <1>6, <1>7, <1>8, <1>9, <1>10, <1>11, <1>12, <1>13, <1>14
     DEF Next, CommandProbe, Call
-----------------------------------------------------------------------------
(* No mode patches a packet of the command probe, and none changes in       *)
(* SceSyscon.                                                               *)
LEMMA ProbePacketsStay ==
  ASSUME NEW id \in ProbeIds, NEW m
  PROVE  /\ Patch(ProbePacket(id), m) = ProbePacket(id)
         /\ Completed(ProbePacket(id)) = ProbePacket(id)
<1> DEFINE p == ProbePacket(id)
<1>1. p \in Packets /\ Complete(p)
  BY ProbePacketsAreComplete
<1>2. p.cmd # Touchpanel
  BY DEF ProbePacket, ProbeIds, Touchpanel
<1> HIDE DEF p
<1>3. Alike(p, p)
  BY DEF Alike
<1>4. p = Completed(p)
  BY <1>1, <1>3, AlikeAndComplete
<1>5. Patch(p, m) = p
  BY <1>2, PatchCases DEF Patches, HasForm
<1> QED
  BY <1>4, <1>5 DEF p

(* What syscon gets for a request, if it gets anything.                     *)
Named(r) == IF RequestOk(r) THEN ProbePacket(r[1]) ELSE None

(* What exec_ret says of that, once the command is over or was not tried.   *)
ResultIsTrue ==
  /\ wire[Prober] \in {None, Named(request)}
  /\ execRet = "ok" => wire[Prober] # None
  /\ execRet = NoResult => wire[Prober] = None

NotSentYet == wire[Prober] = None /\ execRet = NoResult /\ probeLine = None

ProbeInv ==
  /\ at[Prober] = "idle" => NotSentYet
  /\ at[Prober] \in InCall =>
       /\ RequestOk(request)
       /\ buffer[Prober] = ProbePacket(request[1])
       /\ NotSentYet
  /\ at[Prober] = "log" => ResultIsTrue /\ probeLine = None
  /\ at[Prober] = "done" => ResultIsTrue /\ probeLine \in {None, Line}

(* The steps that are not the command probe's leave its call alone.         *)
ProbeAside ==
  /\ at'[Prober] = at[Prober]
  /\ buffer'[Prober] = buffer[Prober]
  /\ wire'[Prober] = wire[Prober]
  /\ UNCHANGED probeVars

LEMMA OthersLeaveTheProbe ==
  ASSUME PacketInv, [Next]_hookVars
  PROVE  \/ ProbeAside
         \/ CommandProbe
         \/ Call(Prober)
<1>1. ASSUME NEW c \in Callers, c # Prober, Call(c)
      PROVE  ProbeAside
  <2> USE HooksAssumption
  <2>1. CASE Record(c) \/ NoHook(c) \/ CallFurther(c)
    BY <1>1, <2>1 DEF Record, NoHook, CallFurther, ProbeAside, PacketInv, probeVars
  <2>2. CASE ApplyPatch(c)
    BY <1>1, <2>2 DEF ApplyPatch, ProbeAside, PacketInv, probeVars
  <2>3. CASE PutChecksum(c)
    BY <1>1, <2>3 DEF PutChecksum, ProbeAside, PacketInv, probeVars
  <2>4. CASE Transmit(c)
    BY <1>1, <2>4 DEF Transmit, Return, ProbeAside, PacketInv, probeVars
  <2>5. CASE GiveUp(c)
    BY <1>1, <2>5 DEF GiveUp, Return, ProbeAside, PacketInv, probeVars
  <2> QED
    BY <1>1, <2>1, <2>2, <2>3, <2>4, <2>5 DEF Call
<1>2. ASSUME NEW c \in Drivers, Send(c)
      PROVE  ProbeAside
  <2> c \in Callers /\ c # Prober /\ Prober \in Callers
    BY HooksAssumption DEF Drivers
  <2> QED
    BY <1>2 DEF Send, Fill, Enter, ProbeAside, PacketInv, probeVars
<1>3. ASSUME NEW c \in Drivers, SendAgain(c)
      PROVE  ProbeAside
  <2> c \in Callers /\ c # Prober /\ Prober \in Callers
    BY HooksAssumption DEF Drivers
  <2> QED
    BY <1>3 DEF SendAgain, Enter, ProbeAside, PacketInv, probeVars
<1>4. ASSUME NEW c \in Drivers, NEW enable \in 0..2, CtrlDolceLed(c, enable)
      PROVE  ProbeAside
  BY <1>4 DEF CtrlDolceLed, callVars, probeVars, ProbeAside
<1>5. CASE InstallHook \/ StopTrace \/ RefreshMode \/ UNCHANGED hookVars
  BY <1>5 DEF InstallHook, StopTrace, RefreshMode, hookVars, callVars, probeVars, ProbeAside
<1> QED
  BY <1>1, <1>2, <1>3, <1>4, <1>5 DEF Next

LEMMA StepProbe ==
  ASSUME PacketInv, ProbeInv, [Next]_hookVars
  PROVE  ProbeInv'
<1> USE HooksAssumption
<1>1. CASE ProbeAside
  BY <1>1 DEF ProbeAside, probeVars, ProbeInv, NotSentYet, ResultIsTrue, Line
<1>2. ASSUME NEW r \in Requests, ProbeStart(r)
      PROVE  ProbeInv'
  <2>1. /\ RequestOk(request')
        /\ at' = [at EXCEPT ![Prober] = "entered"]
        /\ buffer' = [buffer EXCEPT ![Prober] = ProbePacket(request'[1])]
        /\ wire' = [wire EXCEPT ![Prober] = None]
        /\ at[Prober] = "idle"
        /\ UNCHANGED <<execRet, probeLine>>
    BY <1>2 DEF ProbeStart, Fill, Enter
  <2> QED
    BY <2>1 DEF PacketInv, ProbeInv, NotSentYet, InCall
<1>3. ASSUME NEW r \in Requests, ProbeNoRequest(r)
      PROVE  ProbeInv'
  <2>1. /\ at' = [at EXCEPT ![Prober] = "log"]
        /\ at[Prober] = "idle"
        /\ UNCHANGED <<wire, execRet, probeLine>>
    BY <1>3 DEF ProbeNoRequest
  <2> QED
    BY <2>1 DEF PacketInv, ProbeInv, NotSentYet, NoResult, ResultIsTrue, InCall
<1>4. CASE LogProbe
  <2>1. /\ at[Prober] = "log"
        /\ at' = [at EXCEPT ![Prober] = "done"]
        /\ probeLine' \in {probeLine, Line}
        /\ UNCHANGED <<wire, request, execRet>>
    BY <1>4 DEF LogProbe
  <2>2. ResultIsTrue' /\ probeLine' \in {None, Line'}
    BY <2>1 DEF ProbeInv, ResultIsTrue, Line
  <2>3. at'[Prober] = "done"
    BY <2>1 DEF PacketInv
  <2> QED
    BY <2>2, <2>3 DEF ProbeInv, InCall
<1>5. CASE Record(Prober) \/ NoHook(Prober) \/ CallFurther(Prober)
  <2>1. /\ at[Prober] \in InCall
        /\ \E s \in InCall : at' = [at EXCEPT ![Prober] = s]
        /\ UNCHANGED <<buffer, wire, request, execRet, probeLine>>
    BY <1>5 DEF Record, NoHook, CallFurther, InCall, probeVars
  <2> QED
    BY <2>1 DEF PacketInv, ProbeInv, NotSentYet, InCall
<1>6. CASE ApplyPatch(Prober)
  <2>1. /\ at[Prober] = "recorded"
        /\ at' = [at EXCEPT ![Prober] = "inside"]
        /\ buffer' = [buffer EXCEPT ![Prober] = Patch(buffer[Prober], mode)]
        /\ UNCHANGED <<wire, request, execRet, probeLine>>
    BY <1>6 DEF ApplyPatch, probeVars
  <2>2. RequestOk(request) /\ buffer[Prober] = ProbePacket(request[1])
    BY <2>1 DEF ProbeInv, InCall
  <2>3. Patch(buffer[Prober], mode) = buffer[Prober]
    BY <2>2, ProbePacketsStay DEF RequestOk
  <2> QED
    BY <2>1, <2>3 DEF PacketInv, ProbeInv, NotSentYet, InCall
<1>7. CASE PutChecksum(Prober)
  <2>1. /\ at[Prober] = "inside"
        /\ buffer' = [buffer EXCEPT ![Prober] = Completed(buffer[Prober])]
        /\ UNCHANGED <<at, wire, request, execRet, probeLine>>
    BY <1>7 DEF PutChecksum, probeVars
  <2>2. RequestOk(request) /\ buffer[Prober] = ProbePacket(request[1])
    BY <2>1 DEF ProbeInv, InCall
  <2>3. Completed(buffer[Prober]) = buffer[Prober]
    BY <2>2, ProbePacketsStay DEF RequestOk
  <2> QED
    BY <2>1, <2>3 DEF PacketInv, ProbeInv, NotSentYet, InCall
<1>8. CASE Transmit(Prober)
  <2>1. /\ at[Prober] = "inside"
        /\ at' = [at EXCEPT ![Prober] = "log"]
        /\ wire' = [wire EXCEPT ![Prober] = buffer[Prober]]
        /\ execRet' \in {"ok", "error"}
        /\ UNCHANGED <<request, probeLine>>
    BY <1>8 DEF Transmit, Return
  <2>2. RequestOk(request) /\ buffer[Prober] = ProbePacket(request[1]) /\ NotSentYet
    BY <2>1 DEF ProbeInv, InCall
  <2>3. wire'[Prober] = ProbePacket(request[1])
    BY <2>1, <2>2 DEF PacketInv
  <2>4. ProbePacket(request[1]) # None
    BY <2>2, ProbePacketsAreComplete DEF RequestOk
  <2>5. ResultIsTrue' /\ probeLine' = None
    BY <2>1, <2>2, <2>3, <2>4 DEF ResultIsTrue, NoResult, Named, NotSentYet, RequestOk
  <2>6. at'[Prober] = "log"
    BY <2>1 DEF PacketInv
  <2> QED
    BY <2>5, <2>6 DEF ProbeInv, InCall
<1>9. CASE GiveUp(Prober)
  <2>1. /\ at[Prober] = "inside"
        /\ at' = [at EXCEPT ![Prober] = "log"]
        /\ execRet' = "error"
        /\ UNCHANGED <<wire, request, probeLine>>
    BY <1>9 DEF GiveUp, Return
  <2>2. NotSentYet
    BY <2>1 DEF ProbeInv, InCall
  <2>3. at'[Prober] = "log"
    BY <2>1 DEF PacketInv
  <2> QED
    BY <2>1, <2>2, <2>3 DEF ProbeInv, ResultIsTrue, NoResult, NotSentYet, InCall
<1> QED
  BY <1>1, <1>2, <1>3, <1>4, <1>5, <1>6, <1>7, <1>8, <1>9, OthersLeaveTheProbe
     DEF CommandProbe, Call

(* The trace tells what syscon got of any call it saw begin, whatever the   *)
(* mode, the hooks and the other callers do meanwhile                       *)
(* (trace_record_packet_call, apply_led_candidate_patch).                   *)
THEOREM TraceIsTrue == Spec => []TraceTellsTheWire
<1>1. Init => PacketInv /\ TraceInv
  BY InitPackets DEF Init, TraceInv, InCall
<1>2. PacketInv /\ TraceInv /\ [Next]_hookVars => (PacketInv /\ TraceInv)'
  BY StepPackets, StepTrace
<1>3. PacketInv /\ TraceInv => TraceTellsTheWire
  <2> SUFFICES ASSUME PacketInv, TraceInv, NEW c \in Callers,
                      tracing, wire[c] # None, recorded[c] # None
               PROVE  marked[c] = IF SamePayload(recorded[c], wire[c]) THEN 0 ELSE 1
    BY DEF TraceTellsTheWire
  <2>1. /\ wire[c] \in Packets
        /\ recorded[c] \in Packets
        /\ Traced(recorded[c], wire[c], marked[c])
    BY DEF PacketInv, TraceInv
  <2> QED
    BY <2>1, TracedTells
<1> QED
  BY <1>1, <1>2, <1>3, PTL DEF Spec

(* The line of the command probe tells what became of its request, whatever *)
(* fails: in module_start, in SceSyscon or at syscon, for any hooks, modes  *)
(* and other callers (dev/cmd_probe.c, apply_led_candidate_patch).          *)
THEOREM ProbeLineIsTrue == Spec => []ProbeLineTellsTheWire
<1>1. Init => PacketInv /\ ProbeInv
  <2> SUFFICES ASSUME Init
               PROVE  PacketInv /\ ProbeInv
    OBVIOUS
  <2>1. ProbeInv
    BY HooksAssumption DEF Init, ProbeInv, NotSentYet, InCall
  <2> QED
    BY <2>1, InitPackets
<1>2. PacketInv /\ ProbeInv /\ [Next]_hookVars => (PacketInv /\ ProbeInv)'
  BY StepPackets, StepProbe
<1>3. PacketInv /\ ProbeInv => ProbeLineTellsTheWire
  <2> SUFFICES ASSUME PacketInv, ProbeInv, probeLine # None
               PROVE  /\ probeLine.exec = "ok" => wire[Prober] # None
                      /\ probeLine.exec = NoResult => wire[Prober] = None
                      /\ wire[Prober] # None => wire[Prober] = probeLine.named
    BY DEF ProbeLineTellsTheWire
  <2>1. at[Prober] = "done"
    BY HooksAssumption DEF PacketInv, ProbeInv, NotSentYet, InCall
  <2>2. ResultIsTrue /\ probeLine = Line
    BY <2>1 DEF ProbeInv
  <2>3. probeLine.exec = execRet /\ probeLine.named = Named(request)
    BY <2>2 DEF Line, Named
  <2> QED
    BY <2>2, <2>3 DEF ResultIsTrue
<1> QED
  BY <1>1, <1>2, <1>3, PTL DEF Spec
=============================================================================
