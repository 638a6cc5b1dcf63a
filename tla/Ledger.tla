-------------------------------- MODULE Ledger --------------------------------
(***************************************************************************)
(* What a prepaid balance promises, without sessions, statements or locks: *)
(* a top-up adds to an organisation's balance, a charge moves part of the  *)
(* balance to what was spent, each in one indivisible step, and no charge  *)
(* exceeds the balance it is taken from.                                   *)
(***************************************************************************)
EXTENDS Naturals

CONSTANTS Accounts, TopUps, Charges

VARIABLES balance, spent, received

ledger == <<balance, spent, received>>

Start ==
    /\ balance = [a \in Accounts |-> 0]
    /\ spent = [a \in Accounts |-> 0]
    /\ received = [a \in Accounts |-> 0]

TopUp(a, n) ==
    /\ balance' = [balance EXCEPT ![a] = @ + n]
    /\ received' = [received EXCEPT ![a] = @ + n]
    /\ UNCHANGED spent

Charge(a, n) ==
    /\ n <= balance[a]
    /\ balance' = [balance EXCEPT ![a] = @ - n]
    /\ spent' = [spent EXCEPT ![a] = @ + n]
    /\ UNCHANGED received

Change ==
    \E a \in Accounts :
        \/ \E n \in TopUps : TopUp(a, n)
        \/ \E n \in Charges : Charge(a, n)

LedgerSpec == Start /\ [][Change]_ledger
=============================================================================
