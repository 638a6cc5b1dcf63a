------------------------------ MODULE MCAuthCache ------------------------------
(* A small instance of AuthCache for TLC. *)
EXTENDS AuthCache, TLC

Slots == Permutations(Requests)
=============================================================================
