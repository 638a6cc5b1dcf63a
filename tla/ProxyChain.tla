------------------------------ MODULE ProxyChain ------------------------------
(***************************************************************************)
(* Proxy.ChatCompletion: a request walks the fallback chain of its model,  *)
(* every attempt under the circuit breaker of its target, and answers the  *)
(* client with what an upstream sends or with the gateway's own error.     *)
(* Requests share the breakers; BreakerRegistry shows that they do.        *)
(*                                                                         *)
(* Once the status line is written (send, w.WriteHeader) it cannot be      *)
(* taken back; a body that breaks off after it is an error like any other  *)
(* and the loop goes on to the next target.  A body is one part, whole or  *)
(* cut; SSE translation is the adapters' business.                         *)
(***************************************************************************)
EXTENDS CircuitBreaker, Sequences, FiniteSets

CONSTANTS
    Requests,        \* requests in the gateway; a slot is reused
    Targets,         \* (provider, model) pairs
    Models,          \* model ids clients ask for
    ChainOf,         \* Models -> Seq(Targets), <<>> for a model nobody offers
    NoAdapter,       \* targets of a provider the proxy has no adapter for
    Gateway          \* the source of the gateway's own error body

ASSUME ChainAssumption ==
    /\ Models # {}
    /\ ChainOf \in [Models -> Seq(Targets)]
    /\ NoAdapter \subseteq Targets
    /\ Gateway \notin Targets
    /\ IsFiniteSet(Requests)

VARIABLES
    breaker,   \* the registry's breaker of each target
    pc,        \* where the handler of each request is
    at,        \* the position in the chain it is at
    admitted,  \* the breaker generation its call was admitted in
    gone,      \* requests whose client has disconnected
    lastErr,   \* what the latest attempt failed with
    status,    \* the status line the client got
    parts,     \* what was written to the client after it
    cut        \* history: requests that had a body break off

vars == <<breaker, pc, at, admitted, gone, lastErr, status, parts, cut>>
answer == <<status, parts>>

Part == [from: Targets \cup {Gateway}, whole: BOOLEAN]
ErrorBody == [from |-> Gateway, whole |-> TRUE]

TypeOK ==
    /\ breaker \in [Targets -> Breaker]
    /\ pc \in [Requests -> {"idle", "try", "sending", "body"}]
    /\ at \in [Requests -> [model: Models, index: Nat \ {0}]]
    /\ admitted \in [Requests -> Nat]
    /\ gone \subseteq Requests
    /\ lastErr \in [Requests -> {"none", "unknown_model", "no_adapter",
                                 "rejected", "provider", "canceled"}]
    /\ status \in [Requests -> {"none", "upstream", "unavailable"}]
    /\ parts \in [Requests -> Seq(Part)]
    /\ cut \subseteq Requests

Init ==
    /\ breaker = [t \in Targets |-> NewBreaker]
    /\ pc = [r \in Requests |-> "idle"]
    /\ at = [r \in Requests |-> [model |-> CHOOSE m \in Models : TRUE, index |-> 1]]
    /\ admitted = [r \in Requests |-> 0]
    /\ gone = {}
    /\ lastErr = [r \in Requests |-> "none"]
    /\ status = [r \in Requests |-> "none"]
    /\ parts = [r \in Requests |-> <<>>]
    /\ cut = {}

-----------------------------------------------------------------------------
Goto(r, from, to) ==
    /\ pc[r] = from
    /\ pc' = [pc EXCEPT ![r] = to]

ChainFor(r) == ChainOf[at[r].model]

More(r) == at[r].index <= Len(ChainFor(r))

Target(r) == ChainFor(r)[at[r].index]

NextTarget(r, err) ==
    /\ at' = [at EXCEPT ![r].index = @ + 1]
    /\ lastErr' = [lastErr EXCEPT ![r] = err]

\* breaker.Execute gets the result of send; the call is over.
Reported(r, ok) ==
    /\ breaker' = [breaker EXCEPT ![Target(r)] = Report(@, admitted[r], ok)]
    /\ admitted' = [admitted EXCEPT ![r] = 0]

\* The errors an attempt can end with: its own, or that of the request
\* context once the client is gone.
SendErrors(r) == {"provider"} \cup (IF r \in gone THEN {"canceled"} ELSE {})

\* w.Write.
Written(r, p) == parts' = [parts EXCEPT ![r] = Append(@, p)]

\* w.WriteHeader: the first status line stays.
WriteHeader(r, s) == status' = [status EXCEPT ![r] = IF @ = "none" THEN s ELSE @]

-----------------------------------------------------------------------------
\* A new request reaches ChatCompletion; Resolve finds its chain.  The slot
\* of the last request is cleared.
Receive(r, m) ==
    /\ Goto(r, "idle", "try")
    /\ at' = [at EXCEPT ![r] = [model |-> m, index |-> 1]]
    /\ lastErr' = [lastErr EXCEPT ![r] =
                      IF ChainOf[m] = <<>> THEN "unknown_model" ELSE "none"]
    /\ gone' = gone \ {r}
    /\ status' = [status EXCEPT ![r] = "none"]
    /\ parts' = [parts EXCEPT ![r] = <<>>]
    /\ cut' = cut \ {r}
    /\ UNCHANGED <<breaker, admitted>>

\* p.adapters has nothing for the provider.
Skip(r) ==
    /\ pc[r] = "try"
    /\ More(r)
    /\ Target(r) \in NoAdapter
    /\ NextTarget(r, "no_adapter")
    /\ UNCHANGED <<breaker, pc, admitted, gone, cut, answer>>

\* Slip: the request waits for the breaker instead of falling back.
RejectWaits(r) ==
    /\ pc[r] = "try"
    /\ More(r)
    /\ Target(r) \notin NoAdapter
    /\ ~Admits(breaker[Target(r)])
    /\ breaker' = [breaker EXCEPT ![Target(r)] = Current(@)]
    /\ UNCHANGED <<pc, at, lastErr, admitted, gone, cut, answer>>

\* The breaker is open, or half-open with its probes out.
Reject(r) ==
    /\ pc[r] = "try"
    /\ More(r)
    /\ Target(r) \notin NoAdapter
    /\ ~Admits(breaker[Target(r)])
    /\ breaker' = [breaker EXCEPT ![Target(r)] = Current(@)]
    /\ NextTarget(r, "rejected")
    /\ UNCHANGED <<pc, admitted, gone, cut, answer>>

Admit(r) ==
    /\ Goto(r, "try", "sending")
    /\ More(r)
    /\ Target(r) \notin NoAdapter
    /\ Admits(breaker[Target(r)])
    /\ breaker' = [breaker EXCEPT ![Target(r)] = Enter(@)]
    /\ admitted' = [admitted EXCEPT ![r] = Current(breaker[Target(r)]).generation]
    /\ UNCHANGED <<at, gone, lastErr, cut, answer>>

\* Slip: the status line goes out before the upstream's status is looked at.
SendFailsAfterStatus(r) ==
    /\ Goto(r, "sending", "try")
    /\ \E err \in SendErrors(r) : NextTarget(r, err)
    /\ Reported(r, FALSE)
    /\ WriteHeader(r, "upstream")
    /\ UNCHANGED <<gone, cut, parts>>

\* send fails before the status line: not configured, a request that cannot
\* be normalised or sent, a timeout, a 5xx, a 429, or a cancelled context.
SendFails(r) ==
    /\ Goto(r, "sending", "try")
    /\ \E err \in SendErrors(r) : NextTarget(r, err)
    /\ Reported(r, FALSE)
    /\ UNCHANGED <<gone, cut, answer>>

\* Any other upstream response: its status goes to the client at once.
StatusLine(r) ==
    /\ Goto(r, "sending", "body")
    /\ WriteHeader(r, "upstream")
    /\ UNCHANGED <<breaker, at, admitted, gone, lastErr, parts, cut>>

\* Slip: the loop goes on after a success.
BodyEndsGoesOn(r) ==
    /\ Goto(r, "body", "try")
    /\ Written(r, [from |-> Target(r), whole |-> TRUE])
    /\ Reported(r, TRUE)
    /\ NextTarget(r, "none")
    /\ UNCHANGED <<gone, status, cut>>

\* The body is complete and translated: ChatCompletion returns nil.
BodyEnds(r) ==
    /\ Goto(r, "body", "idle")
    /\ Written(r, [from |-> Target(r), whole |-> TRUE])
    /\ Reported(r, TRUE)
    /\ UNCHANGED <<at, gone, lastErr, status, cut>>

\* Slip: the error of a broken-off body bypasses the breaker.
BodyBreaksUnreported(r) ==
    /\ Goto(r, "body", "try")
    /\ \E err \in SendErrors(r) : NextTarget(r, err)
    /\ Written(r, [from |-> Target(r), whole |-> FALSE])
    /\ cut' = cut \cup {r}
    /\ UNCHANGED <<breaker, admitted, gone, status>>

\* The upstream (or the write to the client) fails after the status line.  A
\* stream has passed on some of the body by then, a buffered response none.
BodyBreaks(r) ==
    /\ Goto(r, "body", "try")
    /\ \E err \in SendErrors(r) : NextTarget(r, err)
    /\ \/ Written(r, [from |-> Target(r), whole |-> FALSE])
       \/ UNCHANGED parts
    /\ Reported(r, FALSE)
    /\ cut' = cut \cup {r}
    /\ UNCHANGED <<gone, status>>

\* No target left: ChatHandler.Create writes the error, except to a client
\* that is known to be gone (errors.Is of the last error).
Fail(r) ==
    /\ Goto(r, "try", "idle")
    /\ ~More(r)
    /\ IF lastErr[r] = "canceled"
       THEN UNCHANGED answer
       ELSE WriteHeader(r, "unavailable") /\ Written(r, ErrorBody)
    /\ UNCHANGED <<breaker, at, admitted, gone, lastErr, cut>>

\* The client goes away: its request context is cancelled.
Disconnect(r) ==
    /\ pc[r] # "idle"
    /\ r \notin gone
    /\ gone' = gone \cup {r}
    /\ UNCHANGED <<breaker, pc, at, admitted, lastErr, cut, answer>>

\* The deadline of a breaker generation passes.
Expire(t) ==
    /\ Timed(breaker[t])
    /\ ~breaker[t].expired
    /\ breaker[t].generation < MaxGeneration
    /\ breaker' = [breaker EXCEPT ![t].expired = TRUE]
    /\ UNCHANGED <<pc, at, admitted, gone, lastErr, cut, answer>>

Handle(r) ==
    \/ Skip(r) \/ Reject(r) \/ Admit(r)
    \/ SendFails(r) \/ StatusLine(r) \/ BodyEnds(r) \/ BodyBreaks(r)
    \/ Fail(r)

Next ==
    \/ \E r \in Requests :
          \/ \E m \in Models : Receive(r, m)
          \/ Handle(r)
          \/ Disconnect(r)
    \/ \E t \in Targets : Expire(t)

Spec == Init /\ [][Next]_vars

\* The handler's goroutine runs on, and the http.Client timeout ends every
\* upstream call, body included.
FairSpec == Spec /\ \A r \in Requests : WF_vars(Handle(r))

-----------------------------------------------------------------------------
Answered(r) == pc[r] = "idle" /\ lastErr[r] # "canceled"

\* What a client gets: one complete upstream response or the gateway's 503.
OneAnswer(r) ==
    \/ status[r] = "upstream" /\ \E t \in Targets : parts[r] = <<[from |-> t, whole |-> TRUE]>>
    \/ status[r] = "unavailable" /\ parts[r] = <<ErrorBody>>
    \/ status[r] = "none" /\ parts[r] = <<>> /\ lastErr[r] = "none"

\* Fallback is invisible: whatever targets fail, are skipped or rejected on
\* the way, the client gets one answer, unless a body broke off.
WholeUnlessCut ==
    \A r \in Requests : (Answered(r) /\ r \notin cut) => OneAnswer(r)

\* Nothing follows a complete response or the gateway's error.
NothingAfterTheEnd ==
    \A r \in Requests : \A i \in DOMAIN parts[r] :
        parts[r][i].whole => i = Len(parts[r]) /\ pc[r] = "idle"

InFlight(t) ==
    {r \in Requests : /\ pc[r] \in {"sending", "body"}
                      /\ Target(r) = t
                      /\ admitted[r] = breaker[t].generation}

\* Every way out of send gives the breaker its result: the probes of a
\* half-open breaker are in flight or have succeeded, none is lost, and it still
\* waits for one, so its target cannot be shut out for good.
NoProbeLost ==
    \A t \in Targets :
        breaker[t].state = "half_open" =>
            /\ breaker[t].requests = breaker[t].successes + Cardinality(InFlight(t))
            /\ breaker[t].requests <= MaxRequests
            /\ breaker[t].successes < MaxRequests

\* A call is under way to a target of the chain, in this generation of its breaker
\* or an older one.
CallsAgree ==
    \A r \in Requests :
        pc[r] \in {"sending", "body"} =>
            More(r) /\ admitted[r] <= breaker[Target(r)].generation

\* Until a body broke off, a client has got nothing of the attempts that failed.
Untouched ==
    \A r \in Requests :
        pc[r] # "idle" /\ r \notin cut =>
            /\ parts[r] = <<>>
            /\ status[r] = IF pc[r] = "body" THEN "upstream" ELSE "none"

\* The inductive invariant: the books of the breakers, and what each client got.
ChainInv ==
    /\ TypeOK
    /\ CallsAgree
    /\ Untouched
    /\ WholeUnlessCut
    /\ NothingAfterTheEnd
    /\ NoProbeLost

\* Whatever fails, a request comes to an end: its chain is finite.
EveryRequestEnds == \A r \in Requests : pc[r] # "idle" ~> pc[r] = "idle"

\* The comment of ChatCompletion: "Returns the upstream response or 503 if
\* every target failed."
UpstreamOr503 == \A r \in Requests : Answered(r) => OneAnswer(r)
=============================================================================
