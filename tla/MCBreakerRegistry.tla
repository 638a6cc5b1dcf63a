--------------------------- MODULE MCBreakerRegistry ---------------------------
(* A small instance of BreakerRegistry for TLC.  No symmetry: the run also    *)
(* checks a liveness property.                                                *)
EXTENDS BreakerRegistry
=============================================================================
