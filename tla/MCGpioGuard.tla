---------------------------- MODULE MCGpioGuard -----------------------------
(* Both guarded lines and the lines that share only their bus or only their *)
(* port with them.                                                          *)
EXTENDS GpioGuard

CONSTANTS c1, c2

MCCallers == {c1, c2}
MCLines   == {HomeButton, GameCard, <<0, 3>>, <<1, 7>>}
=============================================================================
