--------------------------- MODULE MCRuntimeProbe ---------------------------
(* One of the loader's candidates, and a request the plugin has to reject,  *)
(* from a loader that does not fit the resident plugin.                     *)
EXTENDS RuntimeProbe

MCListed == <<Candidates[2], Request(CtrlLed, 4, 0, 0, 0)>>
=============================================================================
