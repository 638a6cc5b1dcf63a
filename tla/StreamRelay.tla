------------------------------ MODULE StreamRelay ------------------------------
(***************************************************************************)
(* What a stream of the gateway promises: the client gets the chunks of    *)
(* the answer, each once and in order.  A stream may break off; one that   *)
(* comes to its end has given the whole answer.                            *)
(***************************************************************************)
EXTENDS Sequences, Naturals

VARIABLES
    answer,   \* the chunks the upstream's answer stands for
    got,      \* those the client has
    over      \* "no", "broken" or "whole"

vars == <<answer, got, over>>

Init == got = <<>> /\ over = "no"

Deliver ==
    /\ over = "no"
    /\ Len(got) < Len(answer)
    /\ got' = Append(got, answer[Len(got) + 1])
    /\ over' \in {"no", "broken"} \cup (IF got' = answer THEN {"whole"} ELSE {})
    /\ UNCHANGED answer

End ==
    /\ over = "no"
    /\ over' \in {"broken"} \cup (IF got = answer THEN {"whole"} ELSE {})
    /\ UNCHANGED <<answer, got>>

Spec == Init /\ [][Deliver \/ End]_vars
================================================================================
