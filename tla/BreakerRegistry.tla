---------------------------- MODULE BreakerRegistry ----------------------------
(***************************************************************************)
(* circuitbreaker.Registry and the goroutines that use it: For looks a key *)
(* up under the read lock, and creates the breaker under the write lock    *)
(* after looking again; Execute then asks the breaker, calls the provider  *)
(* and reports the result.  clientPool.For has the same shape.             *)
(***************************************************************************)
EXTENDS CircuitBreaker, Sequences, FiniteSets

CONSTANTS
    Keys,           \* provider:model
    Callers         \* goroutines; a slot is reused after its call

ASSUME RegistryAssumption ==
    /\ Keys # {}
    /\ IsFiniteSet(Callers)

VARIABLES
    heap,    \* the breakers ever created for each key
    entry,   \* the one in the map, as an index into heap; 0 = none
    stage,      \* where each goroutine is
    call     \* the key it wants, the breaker it was given and the generation
             \* that admitted it

registryVars == <<heap, entry, stage, call>>

NoCall == [key |-> CHOOSE k \in Keys : TRUE, ref |-> 0, generation |-> 0]

RegistryTypeOK ==
    /\ heap \in [Keys -> Seq(Breaker)]
    /\ entry \in [Keys -> Nat]
    /\ stage \in [Callers -> {"idle", "create", "execute", "sending"}]
    /\ call \in [Callers -> [key: Keys, ref: Nat, generation: Nat]]

RegistryInit ==
    /\ heap = [k \in Keys |-> <<>>]
    /\ entry = [k \in Keys |-> 0]
    /\ stage = [c \in Callers |-> "idle"]
    /\ call = [c \in Callers |-> NoCall]

Moves(c, from, to) ==
    /\ stage[c] = from
    /\ stage' = [stage EXCEPT ![c] = to]

\* The breaker c was given.
Held(c) == heap[call[c].key][call[c].ref]

Write(c, b) == heap' = [heap EXCEPT ![call[c].key][call[c].ref] = b]

Return(c) == call' = [call EXCEPT ![c] = NoCall]

-----------------------------------------------------------------------------
\* RLock; breakers[key]; RUnlock.
Lookup(c, k) ==
    /\ Moves(c, "idle", IF entry[k] # 0 THEN "execute" ELSE "create")
    /\ call' = [call EXCEPT ![c] = [key |-> k, ref |-> entry[k], generation |-> 0]]
    /\ UNCHANGED <<heap, entry>>

\* Slip: the key is not looked up again under the write lock.
CreateUnchecked(c) ==
    LET k == call[c].key IN
    /\ Moves(c, "create", "execute")
    /\ heap' = [heap EXCEPT ![k] = Append(@, NewBreaker)]
    /\ entry' = [entry EXCEPT ![k] = Len(heap[k]) + 1]
    /\ call' = [call EXCEPT ![c].ref = Len(heap[k]) + 1]

\* Lock; look again; create and store the breaker if there is none; Unlock.
Create(c) ==
    LET k == call[c].key IN
    /\ Moves(c, "create", "execute")
    /\ IF entry[k] # 0
       THEN UNCHANGED <<heap, entry>>
       ELSE /\ heap' = [heap EXCEPT ![k] = Append(@, NewBreaker)]
            /\ entry' = [entry EXCEPT ![k] = Len(heap[k]) + 1]
    /\ call' = [call EXCEPT ![c].ref = entry'[k]]

\* beforeRequest lets the call through.
ExecuteAdmits(c) ==
    /\ Moves(c, "execute", "sending")
    /\ Admits(Held(c))
    /\ Write(c, Enter(Held(c)))
    /\ call' = [call EXCEPT ![c].generation = Current(Held(c)).generation]
    /\ UNCHANGED entry

\* ErrOpenState, ErrTooManyRequests.
ExecuteRejects(c) ==
    /\ Moves(c, "execute", "idle")
    /\ ~Admits(Held(c))
    /\ Write(c, Current(Held(c)))
    /\ Return(c)
    /\ UNCHANGED entry

\* afterRequest with the result of the call.
Finish(c, ok) ==
    /\ Moves(c, "sending", "idle")
    /\ Write(c, Report(Held(c), call[c].generation, ok))
    /\ Return(c)
    /\ UNCHANGED entry

\* The deadline of the generation passes.
DeadlinePasses(k, i) ==
    /\ i \in DOMAIN heap[k]
    /\ Timed(heap[k][i])
    /\ ~heap[k][i].expired
    /\ heap[k][i].generation < MaxGeneration
    /\ heap' = [heap EXCEPT ![k][i].expired = TRUE]
    /\ UNCHANGED <<entry, stage, call>>

RegistryNext ==
    \/ \E c \in Callers :
          \/ \E k \in Keys : Lookup(c, k)
          \/ Create(c)
          \/ ExecuteAdmits(c)
          \/ ExecuteRejects(c)
          \/ \E ok \in BOOLEAN : Finish(c, ok)
    \/ \E k \in Keys : \E i \in DOMAIN heap[k] : DeadlinePasses(k, i)

RegistrySpec == RegistryInit /\ [][RegistryNext]_registryVars

\* The http.Client timeout ends every call (clientPool.For, at most the
\* configured number of seconds, the body included).
RegistryFairSpec == RegistrySpec /\ \A c \in Callers : WF_registryVars(\E ok \in BOOLEAN : Finish(c, ok))

-----------------------------------------------------------------------------
\* Everybody who uses a key uses one breaker, however many first calls race
\* (TestRegistry_ConcurrentForIsSafe); two would each count half the failures.
OneBreaker ==
    /\ \A k \in Keys : Len(heap[k]) = entry[k] /\ entry[k] <= 1
    /\ \A c \in Callers :
          stage[c] \in {"execute", "sending"} =>
              call[c].ref # 0 /\ call[c].ref = entry[call[c].key]

\* Calls that breaker i of key k let in during its present generation and
\* that have not come back.
InFlightAt(k, i) ==
    {c \in Callers : /\ stage[c] = "sending"
                     /\ call[c].key = k
                     /\ call[c].ref = i
                     /\ call[c].generation = heap[k][i].generation}

\* A half-open breaker keeps the books on its probes: each one it let in has
\* succeeded or is on its way.  So no more than MaxRequests reach a provider
\* that is being tested, and a breaker that lets no one in has a probe out
\* whose result will move it on.
ProbesAccounted ==
    \A k \in Keys : \A i \in DOMAIN heap[k] :
        heap[k][i].state = "half_open" =>
            /\ heap[k][i].requests = heap[k][i].successes + Cardinality(InFlightAt(k, i))
            /\ heap[k][i].requests <= MaxRequests
            /\ heap[k][i].successes < MaxRequests

\* No call is ahead of the breaker that let it in.
GenerationsAgree ==
    \A c \in Callers :
        stage[c] = "sending" => call[c].generation <= Held(c).generation

\* The inductive invariant.
RegistryInv ==
    /\ RegistryTypeOK
    /\ OneBreaker
    /\ GenerationsAgree
    /\ ProbesAccounted

\* The result of a call admitted before the breaker opened, and late now,
\* says nothing about the probes: only a probe reopens a half-open breaker.
ReopenedByProbe ==
    [][\A k \in Keys : \A i \in DOMAIN heap[k] :
          (heap[k][i].state = "half_open" /\ heap'[k][i].state = "open") =>
              \E c \in InFlightAt(k, i) : stage'[c] = "idle"]_registryVars

\* A half-open breaker that used up its probes does not stay so.
UsedUp(k) == \E i \in DOMAIN heap[k] :
    heap[k][i].state = "half_open" /\ heap[k][i].requests >= MaxRequests

ProbesDecide == \A k \in Keys : UsedUp(k) ~> ~UsedUp(k)
=============================================================================
