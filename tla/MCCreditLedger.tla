---------------------------- MODULE MCCreditLedger ----------------------------
(* A small instance of CreditLedger for TLC: two sessions, two payments of *)
(* one organisation and one that names none.                               *)
EXTENDS CreditLedger, TLC

CONSTANTS acme, e1, e2, e3

\* Two payments top up the same organisation: first top-ups collide.  The
\* metadata of the third has no org_id.
OneOrg == (e1 :> acme) @@ (e2 :> acme) @@ (e3 :> NoOrg)
Amounts == (e1 :> 2) @@ (e2 :> 1) @@ (e3 :> 1)
=============================================================================
