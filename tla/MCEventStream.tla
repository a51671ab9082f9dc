--------------------------- MODULE MCEventStream ---------------------------
(* EventStream for TLC: no event is dispatched twice and the sessions are    *)
(* numbered, so nothing but the constants of the cfg is added.               *)
EXTENDS EventStream, TLC
==============================================================================
