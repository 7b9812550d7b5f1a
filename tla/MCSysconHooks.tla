---------------------------- MODULE MCSysconHooks ----------------------------
(* A driver with both forms of 0x387, and a longer packet that begins like  *)
(* one; a file that changes between one patch and both, with the adapter's  *)
(* LED forced off; a short request and a good one.                          *)
EXTENDS SysconHooks

(* The caller leaves the checksum to SceSyscon: the byte holds anything.    *)
Driver(form) == [cmd |-> Touchpanel, len |-> 9, data |-> Filled(form \o <<255>>, 9)]

MCPayloads ==
  {Driver(FF01), Driver(FF00),
   [cmd |-> Touchpanel, len |-> 10, data |-> Filled(FF01 \o <<7, 255>>, 10)]}

MCFileModes == {1, 4}

MCRequests == {<<5>>, <<3, 0>>}
=============================================================================
