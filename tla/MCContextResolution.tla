------------------------ MODULE MCContextResolution ------------------------
(* A small instance of ContextResolution for TLC: two ticks to a second.   *)
EXTENDS ContextResolution
=============================================================================
