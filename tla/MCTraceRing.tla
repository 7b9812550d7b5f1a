---------------------------- MODULE MCTraceRing -----------------------------
(* Two hooks and the trace thread; records enough to go round a ring of two *)
(* slots twice.                                                             *)
EXTENDS TraceRing, TLC

CONSTANTS h1, h2

MCHooks == {h1, h2}
Symmetry == Permutations(MCHooks)
=============================================================================
