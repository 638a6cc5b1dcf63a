----------------------------- MODULE MCAccounts -----------------------------
(* An organization with an owner and an admin, each with a key, and an        *)
(* address that nobody signed up with yet.                                    *)
EXTENDS Accounts, TLC

CONSTANTS r1, r2, owner, admin, u3, u4, acme, o2, o3, k1, k2, k3, ann, bob, eve

MCSeedUsers ==
    [u \in UserIds |-> CASE u = owner  -> [org |-> acme, email |-> ann, role |-> "owner"]
                        [] u = admin  -> [org |-> acme, email |-> bob, role |-> "admin"]
                        [] OTHER -> Nil]

MCSeedKeys == [k \in KeyIds |-> CASE k = k1 -> owner [] k = k2 -> admin [] OTHER -> Nil]
=============================================================================
