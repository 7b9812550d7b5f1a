------------------------------ MODULE MCNoled -------------------------------
(* One board with the indicator and one without, the two guarded lines and   *)
(* one other, one caller.                                                    *)
EXTENDS Noled

CONSTANT c1

MCBoards  == {4194304, 4128768}
MCCallers == {c1}
MCLines   == {<<0, 7>>, <<0, 6>>, <<0, 3>>}
=============================================================================
