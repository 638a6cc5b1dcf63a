----------------------------- MODULE MCProxyChain -----------------------------
(* A small instance of ProxyChain for TLC: two targets that can serve, one   *)
(* whose provider has no adapter, and a model nobody offers.                 *)
EXTENDS ProxyChain, TLC

CONSTANTS t1, t2, t3, large, small, unknown

Chains == (large :> <<t1, t2>>) @@ (small :> <<t3, t1>>) @@ (unknown :> <<>>)

Slots == Permutations(Requests)
=============================================================================
