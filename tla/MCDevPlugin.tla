---------------------------- MODULE MCDevPlugin ----------------------------
(* The modes a user writes by hand: classic only, and one of the older      *)
(* experiments for each of the hooks that no mode of the loader installs.   *)
EXTENDS DevPlugin

MCHandModes == {0, 4, 8}
=============================================================================
