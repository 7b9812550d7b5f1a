----------------------------- MODULE MCPowerLed ------------------------------
(* Boards on either side of the model gate; the last has high bits set that  *)
(* the gate masks off.  Both histories watch the same policy: every step of  *)
(* LedPolicy is a step of each, so neither holds anything back.              *)
EXTENDS LedHistory, LedFlaps

MCNewBoard == {4194304}
MCBoards   == {4194304, 4128768, 2133852160}

WatchedInit == HInit /\ FInit

WatchedNext == HNext /\ FNext

WatchedSpec == WatchedInit /\ [][WatchedNext]_<<allVars, flapVars>>

WatchedFairSpec == WatchedSpec /\ Fairness
=============================================================================
