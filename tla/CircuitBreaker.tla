---------------------------- MODULE CircuitBreaker ----------------------------
(***************************************************************************)
(* One circuit breaker, as operators on a record: the settings NewRegistry *)
(* gives to sony/gobreaker and what that library does with them.  Execute  *)
(* is Enter (or a rejection), the call, and Report; both sides first bring *)
(* the state up to date with the clock (Current).  A deadline that passed  *)
(* is the flag `expired`: 60s of a closed generation, 30s of an open one.  *)
(***************************************************************************)
EXTENDS Naturals

CONSTANTS
    MaxRequests,   \* half-open probes, 3 in the registry
    TripAfter,     \* consecutive failures that open the breaker, 5
    MaxGeneration  \* bound: no deadline passes after this generation

ASSUME BreakerAssumption ==
    /\ MaxRequests \in Nat \ {0}
    /\ TripAfter \in Nat \ {0}
    /\ MaxGeneration \in Nat

Breaker == [state: {"closed", "open", "half_open"},
            generation: Nat,  \* a report of an older generation is ignored
            requests: Nat,    \* admitted in this half-open generation
            successes: Nat,   \* consecutive, in this half-open generation
            failures: Nat,    \* consecutive, in this closed generation
            expired: BOOLEAN]

\* Generation g starts in state s with cleared counts.
Fresh(s, g) == [state |-> s, generation |-> g, requests |-> 0,
                successes |-> 0, failures |-> 0, expired |-> FALSE]

NewBreaker == Fresh("closed", 0)

Renew(b, s) == Fresh(s, b.generation + 1)

\* A half-open generation has no deadline.
Timed(b) == b.state \in {"closed", "open"}

Current(b) ==
    IF b.expired /\ b.state = "closed" THEN Renew(b, "closed")
    ELSE IF b.expired /\ b.state = "open" THEN Renew(b, "half_open")
    ELSE b

Admits(b) ==
    \/ Current(b).state = "closed"
    \/ Current(b).state = "half_open" /\ Current(b).requests < MaxRequests

\* Slip: a probe is let in without being counted.
EnterUncounted(b) == Current(b)

Enter(b) ==
    IF Current(b).state = "half_open"
    THEN [Current(b) EXCEPT !.requests = @ + 1]
    ELSE Current(b)

\* Slip: one success more than the probes that are let in can reach.
SucceededOffByOne(b) ==
    IF b.state = "closed" THEN [b EXCEPT !.failures = 0]
    ELSE IF b.successes + 1 > MaxRequests THEN Renew(b, "closed")
    ELSE [b EXCEPT !.successes = @ + 1]

Succeeded(b) ==
    IF b.state = "closed" THEN [b EXCEPT !.failures = 0]
    ELSE IF b.successes + 1 >= MaxRequests THEN Renew(b, "closed")
    ELSE [b EXCEPT !.successes = @ + 1]

Failed(b) ==
    IF b.state = "closed" /\ b.failures + 1 < TripAfter
    THEN [b EXCEPT !.failures = @ + 1]
    ELSE Renew(b, "open")

\* Slip: a result counts in whatever generation it arrives.
ReportAnyGeneration(b, g, ok) ==
    IF ok THEN Succeeded(Current(b)) ELSE Failed(Current(b))

\* The result of a call that was admitted in generation g.
Report(b, g, ok) ==
    IF Current(b).generation # g THEN Current(b)
    ELSE IF ok THEN Succeeded(Current(b))
    ELSE Failed(Current(b))
=============================================================================
