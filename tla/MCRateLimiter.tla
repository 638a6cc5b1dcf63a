----------------------------- MODULE MCRateLimiter -----------------------------
(* A small instance of RateLimiter for TLC: one key with a limit, one without. *)
EXTENDS RateLimiter, TLC

CONSTANTS k1, k2

Limits == (k1 :> 2) @@ (k2 :> 0)

Slots == Permutations(Requests)
=============================================================================
