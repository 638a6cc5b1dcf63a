---------------------------- MODULE BreakerProofs ----------------------------
(***************************************************************************)
(* The circuit breakers, for any settings: what the operators on one of    *)
(* them do to its books; the registry that gives every key one breaker,    *)
(* for any number of keys and goroutines; and the chains of requests that  *)
(* share the breakers, for any chains and any number of requests: what     *)
(* clients get and what the breakers are told.                             *)
(***************************************************************************)
EXTENDS BreakerRegistry, ProxyChain, FiniteSetTheorems, TLAPS

-----------------------------------------------------------------------------
(* One breaker.                                                            *)

\* The books of breaker b are right when n of its own calls are in flight.
Accounted(b, n) ==
    b.state = "half_open" =>
        /\ b.requests = b.successes + n
        /\ b.requests <= MaxRequests
        /\ b.successes < MaxRequests

\* A new generation starts with empty books.
LEMMA RenewMeaning ==
    ASSUME NEW b \in Breaker, NEW s \in {"closed", "open", "half_open"}
    PROVE  /\ Renew(b, s) \in Breaker
           /\ Renew(b, s).generation = b.generation + 1
           /\ Renew(b, s).state = s
           /\ Accounted(Renew(b, s), 0)
  BY BreakerAssumption DEF Renew, Fresh, Breaker, Accounted

\* Bringing a breaker up to date leaves it alone or starts a generation.
LEMMA CurrentMeaning ==
    ASSUME NEW b \in Breaker
    PROVE  /\ Current(b) \in Breaker
           /\ \/ Current(b) = b
              \/ /\ Current(b).generation = b.generation + 1
                 /\ Accounted(Current(b), 0)
  <1>1. CASE b.expired /\ b.state \in {"closed", "open"}
    <2>1. PICK s \in {"closed", "open", "half_open"} : Current(b) = Renew(b, s)
      BY <1>1 DEF Current
    <2> QED
      BY <2>1, RenewMeaning
  <1>2. CASE ~(b.expired /\ b.state \in {"closed", "open"})
    BY <1>2 DEF Current, Breaker
  <1> QED
    BY <1>1, <1>2

\* Letting a call in counts it.
LEMMA EnterMeaning ==
    ASSUME NEW b \in Breaker, NEW n \in Nat,
           Admits(b), Accounted(Current(b), n)
    PROVE  /\ Enter(b) \in Breaker
           /\ Enter(b).generation = Current(b).generation
           /\ Accounted(Enter(b), n + 1)
  <1>1. Current(b) \in Breaker
    BY CurrentMeaning
  <1> QED
    BY <1>1, BreakerAssumption DEF Breaker, Enter, Admits, Accounted

\* The result of one of the n + 1 calls of the generation settles it.
LEMMA ReportMeaning ==
    ASSUME NEW b \in Breaker, NEW n \in Nat, NEW ok \in BOOLEAN,
           Accounted(Current(b), n + 1)
    PROVE  /\ Report(b, Current(b).generation, ok) \in Breaker
           /\ \/ /\ Report(b, Current(b).generation, ok).generation
                       = Current(b).generation
                 /\ Accounted(Report(b, Current(b).generation, ok), n)
              \/ /\ Report(b, Current(b).generation, ok).generation
                       = Current(b).generation + 1
                 /\ Report(b, Current(b).generation, ok).state # "half_open"
  <1> DEFINE c == Current(b)
  <1>1. c \in Breaker
    BY CurrentMeaning
  <1> HIDE DEF c
  <1>2. /\ Renew(c, "closed") \in Breaker
        /\ Renew(c, "closed").generation = c.generation + 1
        /\ Renew(c, "closed").state = "closed"
    BY <1>1, RenewMeaning
  <1>3. /\ Renew(c, "open") \in Breaker
        /\ Renew(c, "open").generation = c.generation + 1
        /\ Renew(c, "open").state = "open"
    BY <1>1, RenewMeaning
  <1>4. CASE ok
    <2>1. Report(b, c.generation, ok) = Succeeded(c)
      BY <1>4 DEF Report, c
    <2>2. Accounted(c, n + 1)
      BY DEF c
    <2> QED
      BY <1>1, <1>2, <2>1, <2>2, BreakerAssumption DEF Succeeded, Breaker, Accounted, c
  <1>5. CASE ~ok
    <2>1. Report(b, c.generation, ok) = Failed(c)
      BY <1>5 DEF Report, c
    <2> QED
      BY <1>1, <1>3, <2>1, BreakerAssumption DEF Failed, Breaker, Accounted, c
  <1> QED
    BY <1>4, <1>5

-----------------------------------------------------------------------------
(* The registry: the shape of the steps.                                   *)

\* There is one breaker to hold, and it is the first of its key.
LEMMA HeldIsEntry ==
    ASSUME RegistryInv, NEW c \in Callers, stage[c] \in {"execute", "sending"}
    PROVE  /\ call[c].key \in Keys
           /\ call[c].ref = entry[call[c].key]
           /\ call[c].ref \in DOMAIN heap[call[c].key] => call[c].ref = 1
           /\ Len(heap[call[c].key]) = entry[call[c].key]
           /\ entry[call[c].key] \in {0, 1}
  BY DEF RegistryInv, RegistryTypeOK, OneBreaker

\* Execute rewrites the breaker it holds and no other.
LEMMA WriteMeaning ==
    ASSUME RegistryInv, NEW c \in Callers, stage[c] \in {"execute", "sending"},
           call[c].ref # 0, NEW b \in Breaker, Write(c, b)
    PROVE  /\ heap' \in [Keys -> Seq(Breaker)]
           /\ call[c].ref = 1
           /\ Held(c) = heap[call[c].key][1]
           /\ Held(c) \in Breaker
           /\ \A k \in Keys : DOMAIN heap'[k] = DOMAIN heap[k]
           /\ \A k \in Keys : Len(heap'[k]) = Len(heap[k])
           /\ \A k \in Keys : k # call[c].key => heap'[k] = heap[k]
           /\ heap'[call[c].key][1] = b
           /\ DOMAIN heap[call[c].key] = {1}
  <1> DEFINE k0 == call[c].key
  <1>1. k0 \in Keys /\ call[c].ref = 1 /\ Len(heap[k0]) = 1 /\ heap[k0] \in Seq(Breaker)
    BY HeldIsEntry DEF RegistryInv, RegistryTypeOK
  <1>2. heap' = [heap EXCEPT ![k0] = [heap[k0] EXCEPT ![1] = b]]
    BY <1>1 DEF Write
  <1>3. DOMAIN heap[k0] = {1} /\ heap[k0][1] \in Breaker
    BY <1>1
  <1>4. /\ [heap[k0] EXCEPT ![1] = b] \in Seq(Breaker)
        /\ Len([heap[k0] EXCEPT ![1] = b]) = 1
        /\ DOMAIN [heap[k0] EXCEPT ![1] = b] = {1}
        /\ [heap[k0] EXCEPT ![1] = b][1] = b
    BY <1>1, <1>3
  <1>5. heap \in [Keys -> Seq(Breaker)]
    BY DEF RegistryInv, RegistryTypeOK
  <1> HIDE DEF k0
  <1>6. /\ heap'[k0] = [heap[k0] EXCEPT ![1] = b]
        /\ \A k \in Keys : k # k0 => heap'[k] = heap[k]
        /\ heap' \in [Keys -> Seq(Breaker)]
    BY <1>1, <1>2, <1>4, <1>5
  <1> QED
    BY <1>1, <1>3, <1>4, <1>6 DEF Held, k0

\* A goroutine that is executing was given a breaker.
LEMMA SomeBreaker ==
    ASSUME RegistryInv, NEW c \in Callers, stage[c] \in {"execute", "sending"}
    PROVE  call[c].ref # 0
  BY DEF RegistryInv, OneBreaker

\* The calls in flight are finitely many.
LEMMA InFlightFinite ==
    ASSUME NEW k, NEW i
    PROVE  IsFiniteSet(InFlightAt(k, i)) /\ Cardinality(InFlightAt(k, i)) \in Nat
  BY RegistryAssumption, FS_Subset, FS_CardinalityType DEF InFlightAt

-----------------------------------------------------------------------------
(* The invariant, action by action.                                        *)

\* The books of every breaker, in the words of the lemmas above.
LEMMA RegistryBooks ==
    ProbesAccounted <=>
        \A k \in Keys : \A i \in DOMAIN heap[k] :
            Accounted(heap[k][i], Cardinality(InFlightAt(k, i)))
  BY DEF ProbesAccounted, Accounted

LEMMA RegistryBooksNext ==
    ProbesAccounted' <=>
        \A k \in Keys : \A i \in DOMAIN heap'[k] :
            Accounted(heap'[k][i], Cardinality(InFlightAt(k, i)'))
  BY DEF ProbesAccounted, Accounted

LEMMA InitEstablishes == RegistryInit => RegistryInv
  <1> SUFFICES ASSUME RegistryInit PROVE RegistryInv
    OBVIOUS
  <1>1. \A k \in Keys : heap[k] = <<>> /\ DOMAIN heap[k] = {} /\ Len(heap[k]) = 0
    BY DEF RegistryInit
  <1>2. RegistryTypeOK
    <2>1. heap \in [Keys -> Seq(Breaker)]
      BY DEF RegistryInit
    <2>2. NoCall \in [key: Keys, ref: Nat, generation: Nat]
      BY RegistryAssumption DEF NoCall
    <2> QED
      BY <2>1, <2>2 DEF RegistryInit, RegistryTypeOK
  <1>3. OneBreaker
    BY <1>1 DEF RegistryInit, OneBreaker
  <1>4. GenerationsAgree /\ ProbesAccounted
    BY <1>1 DEF RegistryInit, GenerationsAgree, ProbesAccounted
  <1> QED
    BY <1>2, <1>3, <1>4 DEF RegistryInv

\* Looking a key up touches no breaker and no call in flight.
LEMMA LookupKeeps ==
    ASSUME RegistryInv, NEW c \in Callers, NEW k \in Keys, Lookup(c, k)
    PROVE  RegistryInv'
  <1> USE DEF Lookup, Moves
  <1>1. RegistryTypeOK'
    BY DEF RegistryInv, RegistryTypeOK
  <1>2. OneBreaker'
    BY DEF RegistryInv, RegistryTypeOK, OneBreaker
  <1>3. \A d \in Callers : stage'[d] = "sending" => stage[d] = "sending" /\ call'[d] = call[d]
    BY DEF RegistryInv, RegistryTypeOK
  <1>4. GenerationsAgree'
    BY <1>3 DEF RegistryInv, GenerationsAgree, Held
  <1>5. \A q, i : InFlightAt(q, i)' = InFlightAt(q, i)
    BY <1>3 DEF RegistryInv, RegistryTypeOK, InFlightAt
  <1>6. ProbesAccounted'
    BY <1>5, RegistryBooks, RegistryBooksNext DEF RegistryInv
  <1> QED
    BY <1>1, <1>2, <1>4, <1>6 DEF RegistryInv

\* Creating a breaker starts its books: nobody was given it before.
LEMMA CreateKeeps ==
    ASSUME RegistryInv, NEW c \in Callers, Create(c)
    PROVE  RegistryInv'
  <1> DEFINE k0 == call[c].key
  <1> USE DEF Create, Moves
  <1>0. k0 \in Keys /\ entry[k0] \in {0, 1} /\ Len(heap[k0]) = entry[k0]
    BY DEF RegistryInv, RegistryTypeOK, OneBreaker
  <1>1. NewBreaker \in Breaker /\ Accounted(NewBreaker, 0)
    BY DEF NewBreaker, Fresh, Breaker, Accounted
  <1>2. CASE entry[k0] # 0
    <2>1. RegistryTypeOK' /\ OneBreaker'
      BY <1>0, <1>2 DEF RegistryInv, RegistryTypeOK, OneBreaker
    <2>2. \A d \in Callers : stage'[d] = "sending" => stage[d] = "sending" /\ call'[d] = call[d]
      BY <1>2 DEF RegistryInv, RegistryTypeOK
    <2>3. GenerationsAgree'
      BY <1>2, <2>2 DEF RegistryInv, GenerationsAgree, Held
    <2>4. \A q, i : InFlightAt(q, i)' = InFlightAt(q, i)
      BY <1>2, <2>2 DEF RegistryInv, RegistryTypeOK, InFlightAt
    <2>5. ProbesAccounted'
      BY <1>2, <2>4, RegistryBooks, RegistryBooksNext DEF RegistryInv
    <2> QED
      BY <2>1, <2>3, <2>5 DEF RegistryInv
  <1>3. CASE entry[k0] = 0
    <2>1. heap[k0] = <<>> /\ heap' = [heap EXCEPT ![k0] = <<NewBreaker>>]
      <3>1. heap[k0] = <<>>
        BY <1>0, <1>3 DEF RegistryInv, RegistryTypeOK
      <3> QED
        BY <1>3, <3>1
    <2>2. /\ heap'[k0] = <<NewBreaker>>
          /\ \A q \in Keys : q # k0 => heap'[q] = heap[q]
          /\ heap' \in [Keys -> Seq(Breaker)]
      BY <1>0, <1>1, <2>1 DEF RegistryInv, RegistryTypeOK
    <2>3. /\ entry' = [entry EXCEPT ![k0] = 1]
          /\ call' = [call EXCEPT ![c].ref = 1]
      <3>1. entry' = [entry EXCEPT ![k0] = 1]
        BY <1>0, <1>3
      <3>2. entry'[k0] = 1
        BY <1>0, <3>1 DEF RegistryInv, RegistryTypeOK
      <3> QED
        BY <3>1, <3>2
    <2>4. RegistryTypeOK' /\ OneBreaker'
      <3>1. RegistryTypeOK'
        <4>1. call' \in [Callers -> [key: Keys, ref: Nat, generation: Nat]]
          <5>1. [call[c] EXCEPT !.ref = 1] \in [key: Keys, ref: Nat, generation: Nat]
            BY DEF RegistryInv, RegistryTypeOK
          <5> QED
            BY <2>3, <5>1 DEF RegistryInv, RegistryTypeOK
        <4>2. stage' \in [Callers -> {"idle", "create", "execute", "sending"}]
          BY DEF RegistryInv, RegistryTypeOK
        <4>3. entry' \in [Keys -> Nat]
          BY <2>3 DEF RegistryInv, RegistryTypeOK
        <4> QED
          BY <2>2, <4>1, <4>2, <4>3 DEF RegistryTypeOK
      <3>2. \A d \in Callers : d # c /\ stage[d] \in {"execute", "sending"} => call[d].key # k0
        BY <1>3 DEF RegistryInv, OneBreaker
      <3>3. Len(heap'[k0]) = 1
        BY <2>2
      <3>4. \A q \in Keys : Len(heap'[q]) = entry'[q] /\ entry'[q] <= 1
        <4> TAKE q \in Keys
        <4>1. CASE q = k0
          BY <1>0, <2>3, <3>3, <4>1 DEF RegistryInv, RegistryTypeOK
        <4>2. CASE q # k0
          BY <2>2, <2>3, <4>2 DEF RegistryInv, RegistryTypeOK, OneBreaker
        <4> QED
          BY <4>1, <4>2
      <3>5. \A d \in Callers : stage'[d] \in {"execute", "sending"} =>
                call'[d].ref # 0 /\ call'[d].ref = entry'[call'[d].key]
        <4> SUFFICES ASSUME NEW d \in Callers, stage'[d] \in {"execute", "sending"}
                     PROVE  call'[d].ref # 0 /\ call'[d].ref = entry'[call'[d].key]
          OBVIOUS
        <4>1. CASE d = c
          BY <1>0, <2>3, <4>1 DEF RegistryInv, RegistryTypeOK
        <4>2. CASE d # c
          BY <1>0, <2>3, <3>2, <4>2 DEF RegistryInv, RegistryTypeOK, OneBreaker
        <4> QED
          BY <4>1, <4>2
      <3> QED
        BY <3>1, <3>4, <3>5 DEF OneBreaker
    <2>5. \A d \in Callers : stage'[d] = "sending" =>
              stage[d] = "sending" /\ call'[d] = call[d] /\ call[d].key # k0
      BY <1>3, <2>3 DEF RegistryInv, RegistryTypeOK, OneBreaker
    <2>6. GenerationsAgree'
      BY <2>2, <2>5 DEF RegistryInv, GenerationsAgree, Held, RegistryTypeOK
    <2>7. \A q \in Keys : \A i : q # k0 => InFlightAt(q, i)' = InFlightAt(q, i)
      BY <2>2, <2>3, <2>5 DEF RegistryInv, RegistryTypeOK, InFlightAt
    <2>8. InFlightAt(k0, 1)' = {} /\ DOMAIN heap'[k0] = {1}
      BY <2>2, <2>5 DEF InFlightAt
    <2>9. ProbesAccounted'
      <3>1. Accounted(heap'[k0][1], Cardinality(InFlightAt(k0, 1)'))
        <4>1. heap'[k0][1] = NewBreaker
          BY <2>2
        <4> QED
          BY <1>1, <2>8, <4>1, FS_EmptySet
      <3>2. ASSUME NEW q \in Keys, NEW i \in DOMAIN heap'[q]
            PROVE  Accounted(heap'[q][i], Cardinality(InFlightAt(q, i)'))
        BY <2>2, <2>7, <2>8, <3>1, RegistryBooks DEF RegistryInv
      <3> QED
        BY <3>2, RegistryBooksNext
    <2> QED
      BY <2>4, <2>6, <2>9 DEF RegistryInv
  <1> QED
    BY <1>0, <1>2, <1>3

\* What Execute leaves alone whenever it writes a breaker of no older
\* generation than the one it held.
LEMMA ExecuteKeeps ==
    ASSUME RegistryInv, NEW c \in Callers, stage[c] \in {"execute", "sending"},
           NEW k0 \in Keys, k0 = call[c].key,
           NEW b \in Breaker, Write(c, b), b.generation >= Held(c).generation,
           NEW r \in [key: Keys, ref: Nat, generation: Nat],
           call' = [call EXCEPT ![c] = r],
           NEW p \in {"idle", "sending"}, stage' = [stage EXCEPT ![c] = p],
           entry' = entry,
           p = "sending" => /\ r.key = call[c].key
                            /\ r.ref = call[c].ref
                            /\ r.generation = b.generation,
           heap'[k0][1] = b => Accounted(b, Cardinality(InFlightAt(k0, 1)'))
    PROVE  RegistryInv'
  <1>1. /\ heap' \in [Keys -> Seq(Breaker)]
        /\ call[c].ref = 1
        /\ Held(c) = heap[k0][1]
        /\ \A k \in Keys : Len(heap'[k]) = Len(heap[k])
        /\ \A k \in Keys : k # k0 => heap'[k] = heap[k]
        /\ heap'[k0][1] = b
        /\ DOMAIN heap'[k0] = {1}
        /\ k0 \in Keys
        /\ Held(c) \in Breaker
    <2>1. call[c].ref # 0
      BY SomeBreaker
    <2>2. k0 \in Keys
      BY DEF RegistryInv, RegistryTypeOK
    <2>3. /\ heap' \in [Keys -> Seq(Breaker)] /\ call[c].ref = 1
          /\ Held(c) = heap[k0][1] /\ Held(c) \in Breaker
          /\ \A k \in Keys : DOMAIN heap'[k] = DOMAIN heap[k]
          /\ \A k \in Keys : Len(heap'[k]) = Len(heap[k])
          /\ \A k \in Keys : k # k0 => heap'[k] = heap[k]
          /\ heap'[k0][1] = b
          /\ DOMAIN heap[k0] = {1}
      BY <2>1, WriteMeaning
    <2> QED
      BY <2>2, <2>3
  <1>2. RegistryTypeOK'
    BY <1>1 DEF RegistryInv, RegistryTypeOK
  <1>3. OneBreaker'
    BY <1>1 DEF RegistryInv, RegistryTypeOK, OneBreaker
  <1>4. \A d \in Callers : d # c => stage'[d] = stage[d] /\ call'[d] = call[d]
    BY DEF RegistryInv, RegistryTypeOK
  <1>5. GenerationsAgree'
    <2> SUFFICES ASSUME NEW d \in Callers, stage'[d] = "sending"
                 PROVE  call'[d].generation <= Held(d)'.generation
      BY DEF GenerationsAgree
    <2>1. CASE d = c
      <3>1. call'[d] = r /\ r.key = k0 /\ r.ref = 1 /\ r.generation = b.generation
        BY <1>1, <2>1 DEF RegistryInv, RegistryTypeOK
      <3> QED
        BY <1>1, <3>1 DEF Held, Breaker
    <2>2. CASE d # c /\ call[d].key = k0
      <3>1. call[d].ref = 1 /\ stage[d] = "sending" /\ call[d].generation \in Nat
        BY <1>4, <2>2, SomeBreaker, HeldIsEntry DEF RegistryInv, OneBreaker, RegistryTypeOK
      <3>2. Held(d)' = b /\ Held(d) = Held(c)
        BY <1>1, <1>4, <2>2, <3>1 DEF Held
      <3>3. call[d].generation <= Held(c).generation
        BY <3>1, <3>2 DEF RegistryInv, GenerationsAgree
      <3>4. b.generation \in Nat /\ Held(c).generation \in Nat
        BY <1>1 DEF Breaker
      <3>5. call[d].generation <= b.generation
        BY <3>1, <3>3, <3>4
      <3> QED
        BY <1>4, <2>2, <3>2, <3>5
    <2>3. CASE d # c /\ call[d].key # k0
      <3>1. Held(d)' = Held(d) /\ stage[d] = "sending"
        BY <1>1, <1>4, <2>3 DEF RegistryInv, RegistryTypeOK, Held
      <3> QED
        BY <1>4, <2>3, <3>1 DEF RegistryInv, GenerationsAgree
    <2> QED
      BY <2>1, <2>2, <2>3
  <1>6. \A k \in Keys : \A i : k # k0 => InFlightAt(k, i)' = InFlightAt(k, i)
    <2> SUFFICES ASSUME NEW k \in Keys, NEW i, k # k0
                 PROVE  InFlightAt(k, i)' = InFlightAt(k, i)
      OBVIOUS
    <2>1. heap'[k] = heap[k]
      BY <1>1
    <2>2. c \notin InFlightAt(k, i) /\ c \notin InFlightAt(k, i)'
      BY DEF InFlightAt, RegistryInv, RegistryTypeOK
    <2> QED
      BY <1>4, <2>1, <2>2 DEF InFlightAt
  <1>7. ProbesAccounted'
    <2>1. Accounted(heap'[k0][1], Cardinality(InFlightAt(k0, 1)'))
      BY <1>1
    <2>2. ASSUME NEW k \in Keys, NEW i \in DOMAIN heap'[k]
          PROVE  Accounted(heap'[k][i], Cardinality(InFlightAt(k, i)'))
      <3>1. CASE k = k0
        BY <1>1, <2>1, <3>1
      <3>2. CASE k # k0
        BY <1>1, <1>6, <3>2, RegistryBooks DEF RegistryInv
      <3> QED
        BY <3>1, <3>2
    <2> QED
      BY <2>2, RegistryBooksNext
  <1> QED
    BY <1>2, <1>3, <1>5, <1>7 DEF RegistryInv

\* Those who hold the same breaker hold the same record, and nobody is in
\* flight in a generation that has only just begun.
LEMMA NobodyAhead ==
    ASSUME RegistryInv, NEW c \in Callers, stage[c] \in {"execute", "sending"},
           NEW d \in Callers, stage[d] = "sending", call[d].key = call[c].key
    PROVE  /\ call[d].ref = 1
           /\ call[d].generation \in Nat
           /\ call[d].generation <= Held(c).generation
           /\ Held(c).generation \in Nat
  <1>1. call[d].ref = call[c].ref /\ call[c].ref = 1
    BY SomeBreaker, HeldIsEntry DEF RegistryInv, OneBreaker
  <1>2. Held(d) = Held(c)
    BY <1>1 DEF Held
  <1>3. Held(c) \in Breaker
    <2>1. /\ heap[call[c].key] \in Seq(Breaker)
          /\ Len(heap[call[c].key]) = 1
      BY <1>1, HeldIsEntry, SomeBreaker DEF RegistryInv, RegistryTypeOK
    <2> QED
      BY <1>1, <2>1 DEF Held
  <1> QED
    BY <1>1, <1>2, <1>3 DEF RegistryInv, GenerationsAgree, RegistryTypeOK, Breaker

\* The present books of the breaker a goroutine holds.
LEMMA HeldBooks ==
    ASSUME RegistryInv, NEW c \in Callers, stage[c] \in {"execute", "sending"}
    PROVE  /\ Held(c) = heap[call[c].key][1]
           /\ Held(c) \in Breaker
           /\ call[c].key \in Keys
           /\ call[c].ref = 1
           /\ Accounted(Held(c), Cardinality(InFlightAt(call[c].key, 1)))
  <1>1. call[c].ref = 1 /\ call[c].key \in Keys /\ Len(heap[call[c].key]) = 1
    BY SomeBreaker, HeldIsEntry
  <1>2. heap[call[c].key] \in Seq(Breaker)
    BY <1>1 DEF RegistryInv, RegistryTypeOK
  <1>3. 1 \in DOMAIN heap[call[c].key] /\ heap[call[c].key][1] \in Breaker
    <2> DEFINE s == heap[call[c].key]
    <2>1. s \in Seq(Breaker) /\ Len(s) = 1
      BY <1>1, <1>2
    <2> HIDE DEF s
    <2>2. 1 \in DOMAIN s /\ s[1] \in Breaker
      BY <2>1
    <2> QED
      BY <2>2 DEF s
  <1> QED
    BY <1>1, <1>3, RegistryBooks DEF RegistryInv, Held

\* A call that is let in is in flight, and counted.
LEMMA AdmitKeeps ==
    ASSUME RegistryInv, NEW c \in Callers, ExecuteAdmits(c)
    PROVE  RegistryInv'
  <1> USE DEF ExecuteAdmits, Moves
  <1>1. PICK k0 \in Keys : k0 = call[c].key
    BY HeldBooks
  <1> DEFINE b == Held(c)
             r == [call[c] EXCEPT !.generation = Current(b).generation]
             S == InFlightAt(k0, 1)
  <1>2. /\ b \in Breaker
        /\ call[c].ref = 1
        /\ b = heap[k0][1]
        /\ Accounted(b, Cardinality(S))
    BY <1>1, HeldBooks
  <1>3. /\ Current(b) \in Breaker
        /\ \/ Current(b) = b
           \/ Current(b).generation = b.generation + 1 /\ Accounted(Current(b), 0)
    BY <1>2, CurrentMeaning
  <1>4. b.generation \in Nat /\ Current(b).generation \in Nat
    BY <1>2, <1>3 DEF Breaker
  <1>5. r \in [key: Keys, ref: Nat, generation: Nat]
        /\ r.key = k0 /\ r.ref = 1 /\ r.generation = Current(b).generation
    BY <1>1, <1>2, <1>4 DEF RegistryInv, RegistryTypeOK
  <1>6. call' = [call EXCEPT ![c] = r]
    OBVIOUS
  <1>7. IsFiniteSet(S) /\ Cardinality(S) \in Nat /\ c \notin S
    <2>1. c \notin S
      BY DEF InFlightAt
    <2> QED
      BY <2>1, InFlightFinite
  <1>8. \A d \in Callers : d # c => stage'[d] = stage[d] /\ call'[d] = call[d]
    BY DEF RegistryInv, RegistryTypeOK
  <1>9. stage'[c] = "sending" /\ call'[c] = r
    BY DEF RegistryInv, RegistryTypeOK
  <1>10. \A d \in Callers : stage[d] = "sending" /\ call[d].key = k0 =>
             call[d].ref = 1 /\ call[d].generation \in Nat
                /\ call[d].generation <= b.generation
    BY <1>1, NobodyAhead
  <1>11. CASE Current(b) = b
    <2>1. /\ Enter(b) \in Breaker
          /\ Enter(b).generation = b.generation
          /\ Accounted(Enter(b), Cardinality(S) + 1)
      BY <1>2, <1>7, <1>11, EnterMeaning
    <2>2. ASSUME heap'[k0][1] = Enter(b)
          PROVE  Accounted(Enter(b), Cardinality(InFlightAt(k0, 1)'))
      <3>1. InFlightAt(k0, 1)' = S \cup {c}
        BY <1>2, <1>5, <1>8, <1>9, <1>11, <2>1, <2>2 DEF InFlightAt
      <3>2. Cardinality(S \cup {c}) = Cardinality(S) + 1
        BY <1>7, FS_AddElement
      <3> QED
        BY <2>1, <3>1, <3>2
    <2> HIDE DEF b, r, S
    <2>3. b.generation >= b.generation
      BY <1>4
    <2> QED
      BY <1>1, <1>2, <1>5, <1>6, <1>11, <2>1, <2>2, <2>3, ExecuteKeeps DEF b
  <1>12. CASE /\ Current(b).generation = b.generation + 1
              /\ Accounted(Current(b), 0)
    <2>1. /\ Enter(b) \in Breaker
          /\ Enter(b).generation = b.generation + 1
          /\ Accounted(Enter(b), 0 + 1)
      BY <1>2, <1>12, EnterMeaning
    <2>2. ASSUME heap'[k0][1] = Enter(b)
          PROVE  Accounted(Enter(b), Cardinality(InFlightAt(k0, 1)'))
      <3>1. InFlightAt(k0, 1)' = {c}
        BY <1>4, <1>5, <1>8, <1>9, <1>10, <1>12, <2>1, <2>2 DEF InFlightAt
      <3>2. Cardinality(InFlightAt(k0, 1)') = 1
        BY <3>1, FS_Singleton, Zenon
      <3> QED
        BY <2>1, <3>2
    <2>3. Enter(b).generation >= b.generation
      BY <1>4, <2>1
    <2> HIDE DEF b, r, S
    <2> QED
      BY <1>1, <1>2, <1>5, <1>6, <1>12, <2>1, <2>2, <2>3, ExecuteKeeps DEF b
  <1> QED
    BY <1>3, <1>11, <1>12

\* A breaker that lets nobody in is up to date, and stays as it is.
LEMMA RejectKeeps ==
    ASSUME RegistryInv, NEW c \in Callers, ExecuteRejects(c)
    PROVE  RegistryInv'
  <1> USE DEF ExecuteRejects, Moves, Return
  <1>1. PICK k0 \in Keys : k0 = call[c].key
    BY HeldBooks
  <1> DEFINE b == Held(c)
  <1>2. /\ b \in Breaker
        /\ b = heap[k0][1]
        /\ Accounted(b, Cardinality(InFlightAt(k0, 1)))
    BY <1>1, HeldBooks
  <1>3. Current(b) = b
    BY <1>2, BreakerAssumption DEF Admits, Current, Renew, Fresh, Breaker
  <1>4. NoCall \in [key: Keys, ref: Nat, generation: Nat]
    BY RegistryAssumption DEF NoCall
  <1>5. ASSUME heap'[k0][1] = b
        PROVE  Accounted(b, Cardinality(InFlightAt(k0, 1)'))
    <2>1. InFlightAt(k0, 1)' = InFlightAt(k0, 1)
      BY <1>2, <1>5 DEF InFlightAt, RegistryInv, RegistryTypeOK
    <2> QED
      BY <1>2, <2>1
  <1>6. b.generation >= b.generation
    BY <1>2 DEF Breaker
  <1> HIDE DEF b
  <1> QED
    BY <1>1, <1>2, <1>3, <1>4, <1>5, <1>6, ExecuteKeeps DEF b

\* A result settles a call of the present generation, or comes too late to
\* change the books.
LEMMA FinishKeeps ==
    ASSUME RegistryInv, NEW c \in Callers, NEW ok \in BOOLEAN, Finish(c, ok)
    PROVE  RegistryInv'
  <1> USE DEF Finish, Moves, Return
  <1>1. PICK k0 \in Keys : k0 = call[c].key
    BY HeldBooks
  <1> DEFINE b == Held(c)
             g == call[c].generation
             n == Report(b, g, ok)
             S == InFlightAt(k0, 1)
  <1>2. /\ b \in Breaker
        /\ call[c].ref = 1
        /\ b = heap[k0][1]
        /\ Accounted(b, Cardinality(S))
    BY <1>1, HeldBooks
  <1>3. /\ Current(b) \in Breaker
        /\ \/ Current(b) = b
           \/ Current(b).generation = b.generation + 1 /\ Accounted(Current(b), 0)
    BY <1>2, CurrentMeaning
  <1>4. b.generation \in Nat /\ Current(b).generation \in Nat
    BY <1>2, <1>3 DEF Breaker
  <1>5. NoCall \in [key: Keys, ref: Nat, generation: Nat]
    BY RegistryAssumption DEF NoCall
  <1>6. IsFiniteSet(S) /\ Cardinality(S) \in Nat
    BY InFlightFinite
  <1>7. stage'[c] = "idle" /\ \A d \in Callers : d # c => stage'[d] = stage[d] /\ call'[d] = call[d]
    BY DEF RegistryInv, RegistryTypeOK
  <1>8. \A d \in Callers : stage[d] = "sending" /\ call[d].key = k0 =>
             call[d].ref = 1 /\ call[d].generation \in Nat
                /\ call[d].generation <= b.generation
    BY <1>1, NobodyAhead
  <1>9. g \in Nat /\ g <= b.generation
    BY <1>1, <1>8
  <1>13. /\ stage[c] = "sending" /\ Write(c, n)
         /\ call' = [call EXCEPT ![c] = NoCall]
         /\ stage' = [stage EXCEPT ![c] = "idle"]
         /\ entry' = entry
    OBVIOUS
  <1> HIDE DEF Finish, Moves, Return
  <1>10. CASE Current(b).generation = g
    <2>1. Current(b) = b
      BY <1>3, <1>4, <1>9, <1>10
    <2>2. c \in S
      BY <1>1, <1>2, <1>13, <1>10, <2>1 DEF InFlightAt
    <2>3. Cardinality(S \ {c}) = Cardinality(S) - 1 /\ Cardinality(S \ {c}) \in Nat
      BY <1>6, <2>2, FS_RemoveElement, FS_CardinalityType
    <2>4. Accounted(Current(b), Cardinality(S \ {c}) + 1)
      BY <1>2, <1>6, <2>1, <2>3
    <2>5. /\ n \in Breaker
          /\ \/ n.generation = b.generation /\ Accounted(n, Cardinality(S \ {c}))
             \/ n.generation = b.generation + 1 /\ n.state # "half_open"
      BY <1>2, <1>10, <2>1, <2>3, <2>4, ReportMeaning
    <2>6. ASSUME heap'[k0][1] = n
          PROVE  Accounted(n, Cardinality(InFlightAt(k0, 1)'))
      <3>1. CASE n.generation = b.generation /\ Accounted(n, Cardinality(S \ {c}))
        <4>1. InFlightAt(k0, 1)' = S \ {c}
          BY <1>2, <1>7, <2>6, <3>1 DEF InFlightAt
        <4> QED
          BY <3>1, <4>1
      <3>2. CASE n.state # "half_open"
        BY <3>2 DEF Accounted
      <3> QED
        BY <2>5, <3>1, <3>2
    <2>7. n.generation >= b.generation
      BY <1>4, <2>5
    <2> HIDE DEF n
    <2> QED
      BY <1>1, <1>5, <1>13, <2>5, <2>6, <2>7, ExecuteKeeps
  <1>11. CASE Current(b).generation # g
    <2>1. n = Current(b)
      BY <1>11 DEF Report
    <2>2. ASSUME heap'[k0][1] = n
          PROVE  Accounted(n, Cardinality(InFlightAt(k0, 1)'))
      <3>1. CASE Current(b) = b
        <4>1. c \notin S
          BY <1>2, <1>11, <3>1 DEF InFlightAt
        <4>2. InFlightAt(k0, 1)' = S
          BY <1>2, <1>7, <2>1, <2>2, <3>1, <4>1 DEF InFlightAt
        <4> QED
          BY <1>2, <2>1, <3>1, <4>2
      <3>2. CASE /\ Current(b).generation = b.generation + 1
                 /\ Accounted(Current(b), 0)
        <4>1. InFlightAt(k0, 1)' = {}
          BY <1>4, <1>7, <1>8, <2>1, <2>2, <3>2 DEF InFlightAt
        <4> QED
          BY <2>1, <3>2, <4>1, FS_EmptySet
      <3> QED
        BY <1>3, <3>1, <3>2
    <2>3. n \in Breaker /\ n.generation >= b.generation
      BY <1>3, <1>4, <2>1
    <2> HIDE DEF n
    <2> QED
      BY <1>1, <1>5, <1>13, <2>2, <2>3, ExecuteKeeps
  <1> QED
    BY <1>10, <1>11

\* A deadline starts no generation by itself.
LEMMA ExpireKeeps ==
    ASSUME RegistryInv, NEW k0 \in Keys, NEW i \in DOMAIN heap[k0], DeadlinePasses(k0, i)
    PROVE  RegistryInv'
  <1> DEFINE s == heap[k0]
             e == [s[i] EXCEPT !.expired = TRUE]
  <1>1. s \in Seq(Breaker) /\ i \in DOMAIN s /\ s[i] \in Breaker
    BY DEF RegistryInv, RegistryTypeOK
  <1>2. /\ e \in Breaker
        /\ e.generation = s[i].generation
        /\ e.state = s[i].state
        /\ e.state # "half_open"
    BY <1>1 DEF Breaker, DeadlinePasses, Timed
  <1>3. heap' = [heap EXCEPT ![k0] = [s EXCEPT ![i] = e]]
    BY DEF DeadlinePasses
  <1>4. /\ [s EXCEPT ![i] = e] \in Seq(Breaker)
        /\ Len([s EXCEPT ![i] = e]) = Len(s)
        /\ DOMAIN [s EXCEPT ![i] = e] = DOMAIN s
        /\ [s EXCEPT ![i] = e][i] = e
        /\ \A j \in DOMAIN s : j # i => [s EXCEPT ![i] = e][j] = s[j]
    <2> HIDE DEF e, s
    <2> QED
      BY <1>1, <1>2
  <1>5. /\ heap' \in [Keys -> Seq(Breaker)]
        /\ heap'[k0] = [s EXCEPT ![i] = e]
        /\ \A k \in Keys : k # k0 => heap'[k] = heap[k]
    BY <1>3, <1>4 DEF RegistryInv, RegistryTypeOK
  <1>6. /\ \A k \in Keys : Len(heap'[k]) = Len(heap[k]) /\ DOMAIN heap'[k] = DOMAIN heap[k]
        /\ \A k \in Keys : \A j \in DOMAIN heap[k] :
              /\ heap'[k][j].generation = heap[k][j].generation
              /\ heap'[k][j].state = heap[k][j].state
              /\ heap[k][j].state = "half_open" => heap'[k][j] = heap[k][j]
    BY <1>2, <1>4, <1>5
  <1> HIDE DEF e, s
  <1>7. stage' = stage /\ call' = call /\ entry' = entry
    BY DEF DeadlinePasses
  <1>8. RegistryTypeOK' /\ OneBreaker'
    BY <1>5, <1>6, <1>7 DEF RegistryInv, RegistryTypeOK, OneBreaker
  <1>9. GenerationsAgree'
    <2> SUFFICES ASSUME NEW d \in Callers, stage[d] = "sending"
                 PROVE  call[d].generation <= Held(d)'.generation
      BY <1>7 DEF GenerationsAgree
    <2>1. call[d].key \in Keys /\ call[d].ref = 1 /\ DOMAIN heap[call[d].key] = {1}
      <3>1. Len(heap[call[d].key]) = 1 /\ heap[call[d].key] \in Seq(Breaker)
        BY HeldIsEntry, SomeBreaker, HeldBooks DEF RegistryInv, RegistryTypeOK
      <3> QED
        BY <3>1, HeldBooks
    <2>2. Held(d)'.generation = Held(d).generation
      BY <1>6, <1>7, <2>1 DEF Held
    <2> QED
      BY <2>2 DEF RegistryInv, GenerationsAgree
  <1>10. ProbesAccounted'
    <2> SUFFICES ASSUME NEW k \in Keys, NEW j \in DOMAIN heap'[k]
                 PROVE  Accounted(heap'[k][j], Cardinality(InFlightAt(k, j)'))
      BY RegistryBooksNext
    <2>1. InFlightAt(k, j)' = InFlightAt(k, j)
      BY <1>6, <1>7 DEF InFlightAt
    <2>2. Accounted(heap[k][j], Cardinality(InFlightAt(k, j)))
      BY <1>6, RegistryBooks DEF RegistryInv
    <2> QED
      BY <1>6, <2>1, <2>2 DEF Accounted
  <1> QED
    BY <1>8, <1>9, <1>10 DEF RegistryInv

LEMMA StepKeeps == RegistryInv /\ [RegistryNext]_registryVars => RegistryInv'
  <1> SUFFICES ASSUME RegistryInv, [RegistryNext]_registryVars PROVE RegistryInv'
    OBVIOUS
  <1>1. ASSUME NEW c \in Callers, NEW k \in Keys, Lookup(c, k) PROVE RegistryInv'
    BY <1>1, LookupKeeps
  <1>2. ASSUME NEW c \in Callers, Create(c) PROVE RegistryInv'
    BY <1>2, CreateKeeps
  <1>3. ASSUME NEW c \in Callers, ExecuteAdmits(c) PROVE RegistryInv'
    BY <1>3, AdmitKeeps
  <1>4. ASSUME NEW c \in Callers, ExecuteRejects(c) PROVE RegistryInv'
    BY <1>4, RejectKeeps
  <1>5. ASSUME NEW c \in Callers, NEW ok \in BOOLEAN, Finish(c, ok) PROVE RegistryInv'
    BY <1>5, FinishKeeps
  <1>6. ASSUME NEW k \in Keys, NEW i \in DOMAIN heap[k], DeadlinePasses(k, i) PROVE RegistryInv'
    BY <1>6, ExpireKeeps
  <1>7. CASE UNCHANGED registryVars
    <2>1. heap' = heap /\ entry' = entry /\ stage' = stage /\ call' = call
      BY <1>7 DEF registryVars
    <2>2. RegistryTypeOK' /\ OneBreaker' /\ GenerationsAgree'
      BY <2>1 DEF RegistryInv, RegistryTypeOK, OneBreaker, GenerationsAgree, Held
    <2>3. \A k, i : InFlightAt(k, i)' = InFlightAt(k, i)
      BY <2>1 DEF InFlightAt
    <2>4. ProbesAccounted'
      BY <2>1, <2>3, RegistryBooks, RegistryBooksNext DEF RegistryInv
    <2> QED
      BY <2>2, <2>4 DEF RegistryInv
  <1> QED
    BY <1>1, <1>2, <1>3, <1>4, <1>5, <1>6, <1>7 DEF RegistryNext

-----------------------------------------------------------------------------
(* The theorems.                                                           *)

\* The map of breakers and their books stay consistent, whatever goroutines
\* of Registry.For and Execute interleave and however late results are.
THEOREM RegistryInvariant == RegistrySpec => []RegistryInv
  BY InitEstablishes, StepKeeps, PTL DEF RegistrySpec

\* However many first calls for a key race through Registry.For, they share
\* one breaker.
THEOREM KeysShareOneBreaker == RegistrySpec => []OneBreaker
  <1>1. RegistryInv => OneBreaker
    BY DEF RegistryInv
  <1> QED
    BY <1>1, RegistryInvariant, PTL

\* A provider under test gets at most MaxRequests probes, and a half-open
\* breaker that lets nobody in waits for one of them.
THEOREM ProbesAreAccounted == RegistrySpec => []ProbesAccounted
  <1>1. RegistryInv => ProbesAccounted
    BY DEF RegistryInv
  <1> QED
    BY <1>1, RegistryInvariant, PTL

\* A result that arrives after its generation ended does not reopen a
\* half-open breaker.
THEOREM OnlyProbesReopen == RegistrySpec => ReopenedByProbe
  <1> DEFINE Reopened(k, i) ==
                heap[k][i].state = "half_open" /\ heap'[k][i].state = "open"
             ByProbe(k, i) == \E c \in InFlightAt(k, i) : stage'[c] = "idle"
  <1>1. ASSUME RegistryInv, RegistryNext, NEW k \in Keys, NEW i \in DOMAIN heap[k], Reopened(k, i)
        PROVE  ByProbe(k, i)
    <2>1. ASSUME NEW c \in Callers, NEW q \in Keys, Lookup(c, q) PROVE FALSE
      BY <1>1, <2>1 DEF Lookup
    <2>2. ASSUME NEW c \in Callers, Create(c) PROVE FALSE
      <3>1. heap[k] \in Seq(Breaker) /\ heap \in [Keys -> Seq(Breaker)]
        BY <1>1 DEF RegistryInv, RegistryTypeOK
      <3>2. heap'[k] = heap[k] \/ heap'[k] = Append(heap[k], NewBreaker)
        BY <2>2, <3>1 DEF Create
      <3>3. heap'[k][i] = heap[k][i]
        BY <3>1, <3>2
      <3> QED
        BY <1>1, <3>3
    <2>3. ASSUME NEW c \in Callers, stage[c] \in {"execute", "sending"},
                 NEW b \in Breaker, Write(c, b)
          PROVE  k = call[c].key /\ i = 1 /\ Held(c) = heap[k][i] /\ b.state = "open"
      <3>1. heap[k][i].state = "half_open" /\ heap'[k][i].state = "open"
        BY <1>1
      <3>2. call[c].ref # 0
        BY <1>1, <2>3, SomeBreaker
      <3>3. /\ Held(c) = heap[call[c].key][1]
            /\ \A q \in Keys : q # call[c].key => heap'[q] = heap[q]
            /\ heap'[call[c].key][1] = b
            /\ DOMAIN heap[call[c].key] = {1}
        BY <1>1, <2>3, <3>2, WriteMeaning
      <3>4. k = call[c].key
        <4>1. heap'[k] # heap[k]
          BY <3>1
        <4> QED
          BY <3>3, <4>1
      <3>5. i = 1
        BY <3>3, <3>4
      <3> QED
        BY <3>1, <3>3, <3>4, <3>5
    <2>4. ASSUME NEW b \in Breaker, b.state = "half_open"
          PROVE  Current(b) = b
      BY <2>4 DEF Current
    <2>5. ASSUME NEW c \in Callers, ExecuteAdmits(c) PROVE FALSE
      <3>1. stage[c] = "execute" /\ Write(c, Enter(Held(c))) /\ Held(c) \in Breaker
        BY <1>1, <2>5, HeldBooks DEF ExecuteAdmits, Moves
      <3>2. Enter(Held(c)) \in Breaker
        <4>1. Current(Held(c)) \in Breaker
          BY <3>1, CurrentMeaning
        <4> QED
          BY <4>1 DEF Enter, Breaker
      <3>3. Held(c).state = "half_open" /\ Enter(Held(c)).state = "open"
        BY <1>1, <2>3, <3>1, <3>2
      <3> QED
        BY <2>4, <3>1, <3>3 DEF Enter, Breaker
    <2>6. ASSUME NEW c \in Callers, ExecuteRejects(c) PROVE FALSE
      <3>1. stage[c] = "execute" /\ Write(c, Current(Held(c))) /\ Held(c) \in Breaker
        BY <1>1, <2>6, HeldBooks DEF ExecuteRejects, Moves
      <3>2. Current(Held(c)) \in Breaker
        BY <3>1, CurrentMeaning
      <3>3. Held(c).state = "half_open" /\ Current(Held(c)).state = "open"
        BY <1>1, <2>3, <3>1, <3>2
      <3> QED
        BY <2>4, <3>1, <3>3
    <2>7. ASSUME NEW c \in Callers, NEW ok \in BOOLEAN, Finish(c, ok)
          PROVE  ByProbe(k, i)
      <3> DEFINE g == call[c].generation
      <3>1. /\ stage[c] = "sending" /\ Write(c, Report(Held(c), g, ok))
            /\ Held(c) \in Breaker
        BY <1>1, <2>7, HeldBooks DEF Finish, Moves
      <3>2. Report(Held(c), g, ok) \in Breaker
        <4>1. Current(Held(c)) \in Breaker
          BY <3>1, CurrentMeaning
        <4>2. \A s \in {"closed", "open"} : Renew(Current(Held(c)), s) \in Breaker
          BY <4>1, RenewMeaning
        <4> QED
          BY <4>1, <4>2, BreakerAssumption DEF Report, Succeeded, Failed, Breaker
      <3>3. /\ k = call[c].key /\ i = 1 /\ Held(c) = heap[k][i]
            /\ Report(Held(c), g, ok).state = "open"
        BY <2>3, <3>1, <3>2
      <3>4. Current(Held(c)) = Held(c) /\ Held(c).state = "half_open"
        BY <1>1, <2>4, <3>1, <3>3
      <3>5. Held(c).generation = g
        BY <3>3, <3>4 DEF Report
      <3>6. c \in InFlightAt(k, i)
        BY <1>1, <3>1, <3>3, <3>5, HeldBooks DEF InFlightAt
      <3>7. stage'[c] = "idle"
        BY <1>1, <2>7 DEF Finish, Moves, RegistryInv, RegistryTypeOK
      <3> QED
        BY <3>6, <3>7
    <2>8. ASSUME NEW q \in Keys, NEW j \in DOMAIN heap[q], DeadlinePasses(q, j) PROVE FALSE
      <3>1. heap[q] \in Seq(Breaker) /\ heap \in [Keys -> Seq(Breaker)]
            /\ heap[q][j] \in Breaker
        BY <1>1, <2>8 DEF RegistryInv, RegistryTypeOK
      <3>2. heap' = [heap EXCEPT ![q] = [heap[q] EXCEPT ![j] =
                        [heap[q][j] EXCEPT !.expired = TRUE]]]
        BY <2>8 DEF DeadlinePasses
      <3>3. heap'[k][i].state = heap[k][i].state
        <4>1. CASE k = q /\ i = j
          BY <3>1, <3>2, <4>1 DEF Breaker
        <4>2. CASE k = q /\ i # j
          BY <1>1, <3>1, <3>2, <4>2
        <4>3. CASE k # q
          BY <3>1, <3>2, <4>3
        <4> QED
          BY <4>1, <4>2, <4>3
      <3> QED
        BY <1>1, <3>3
    <2> QED
      BY <1>1, <2>1, <2>2, <2>5, <2>6, <2>7, <2>8 DEF RegistryNext
  <1>2. RegistryInv /\ [RegistryNext]_registryVars =>
          [\A k \in Keys : \A i \in DOMAIN heap[k] :
              Reopened(k, i) => ByProbe(k, i)]_registryVars
    BY <1>1
  <1> QED
    BY <1>2, RegistryInvariant, PTL DEF RegistrySpec, ReopenedByProbe

Steps == {"idle", "try", "sending", "body"}
Calling == {"sending", "body"}
Errors == {"none", "unknown_model", "no_adapter", "rejected", "provider", "canceled"}

-----------------------------------------------------------------------------
(* The chains of requests: types.                                          *)

\* A target of a chain, while there is one more.
LEMMA TargetType ==
    ASSUME TypeOK, NEW r \in Requests, More(r)
    PROVE  Target(r) \in Targets
<1>1. ChainFor(r) \in Seq(Targets)
  BY ChainAssumption DEF ChainAssumption, TypeOK, ChainFor
<1>2. at[r].index \in 1..Len(ChainFor(r))
  BY <1>1 DEF TypeOK, More
<1> QED
  BY <1>1, <1>2 DEF Target

\* Going on to the next target.
LEMMA NextTargetType ==
    ASSUME TypeOK, NEW r \in Requests, NEW err \in Errors, NextTarget(r, err)
    PROVE  /\ at' \in [Requests -> [model: Models, index: Nat \ {0}]]
           /\ lastErr' \in [Requests -> Errors]
           /\ lastErr'[r] = err
           /\ \A s \in Requests \ {r} : at'[s] = at[s] /\ lastErr'[s] = lastErr[s]
<1>1. [at[r] EXCEPT !.index = @ + 1] \in [model: Models, index: Nat \ {0}]
  <2>1. at[r] \in [model: Models, index: Nat \ {0}]
    BY DEF TypeOK
  <2>2. at[r].index + 1 \in Nat \ {0}
    BY <2>1
  <2> QED
    BY <2>1, <2>2
<1>2. at' = [at EXCEPT ![r] = [at[r] EXCEPT !.index = @ + 1]]
  BY DEF NextTarget
<1>3. at' \in [Requests -> [model: Models, index: Nat \ {0}]]
  BY <1>1, <1>2 DEF TypeOK
<1> QED
  BY <1>2, <1>3 DEF NextTarget, TypeOK, Errors

\* A report leaves a breaker and a generation number.
LEMMA ReportType ==
    ASSUME NEW b \in Breaker, NEW g \in Nat, NEW ok \in BOOLEAN
    PROVE  Report(b, g, ok) \in Breaker
<1>1. Current(b) \in Breaker
  BY CurrentMeaning
<1>2. /\ Renew(Current(b), "closed") \in Breaker
      /\ Renew(Current(b), "open") \in Breaker
      /\ [Current(b) EXCEPT !.failures = 0] \in Breaker
      /\ [Current(b) EXCEPT !.failures = @ + 1] \in Breaker
      /\ [Current(b) EXCEPT !.successes = @ + 1] \in Breaker
  <2>1. Renew(Current(b), "closed") \in Breaker /\ Renew(Current(b), "open") \in Breaker
    BY <1>1, RenewMeaning
  <2> QED
    BY <1>1, <2>1 DEF Breaker
<1>3. Succeeded(Current(b)) \in Breaker
  BY <1>2 DEF Succeeded
<1>4. Failed(Current(b)) \in Breaker
  BY <1>2 DEF Failed
<1> QED
  BY <1>1, <1>3, <1>4 DEF Report

LEMMA ReportedType ==
    ASSUME TypeOK, NEW r \in Requests, NEW ok \in BOOLEAN, More(r), Reported(r, ok)
    PROVE  breaker' \in [Targets -> Breaker] /\ admitted' \in [Requests -> Nat]
<1>1. Target(r) \in Targets
  BY TargetType
<1>2. Report(breaker[Target(r)], admitted[r], ok) \in Breaker
  BY <1>1, ReportType DEF TypeOK
<1> QED
  BY <1>1, <1>2 DEF Reported, TypeOK

\* What is written is a part, from a target or the gateway.
LEMMA WrittenType ==
    ASSUME TypeOK, NEW r \in Requests, NEW p \in Part, Written(r, p)
    PROVE  /\ parts' \in [Requests -> Seq(Part)]
           /\ parts'[r] = Append(parts[r], p)
           /\ \A s \in Requests \ {r} : parts'[s] = parts[s]
<1>1. parts[r] \in Seq(Part) /\ Append(parts[r], p) \in Seq(Part)
  BY DEF TypeOK
<1> QED
  BY <1>1 DEF TypeOK, Written

LEMMA WriteHeaderType ==
    ASSUME TypeOK, NEW r \in Requests, NEW s \in {"upstream", "unavailable"}, WriteHeader(r, s)
    PROVE  /\ status' \in [Requests -> {"none", "upstream", "unavailable"}]
           /\ status'[r] = IF status[r] = "none" THEN s ELSE status[r]
           /\ \A q \in Requests \ {r} : status'[q] = status[q]
BY DEF TypeOK, WriteHeader

LEMMA BodyPart ==
    ASSUME TypeOK, NEW r \in Requests, More(r), NEW w \in BOOLEAN
    PROVE  [from |-> Target(r), whole |-> w] \in Part
BY TargetType DEF Part

-----------------------------------------------------------------------------
(* The answers.                                                            *)

\* What one client has got so far.
AnswerHolds(r) ==
    /\ pc[r] # "idle" /\ r \notin cut =>
          /\ parts[r] = <<>>
          /\ status[r] = IF pc[r] = "body" THEN "upstream" ELSE "none"
    /\ Answered(r) /\ r \notin cut => OneAnswer(r)
    /\ \A i \in DOMAIN parts[r] : parts[r][i].whole => i = Len(parts[r]) /\ pc[r] = "idle"

AnswersHold == \A r \in Requests : AnswerHolds(r)

LEMMA AnswersMeaning == AnswersHold <=> Untouched /\ WholeUnlessCut /\ NothingAfterTheEnd
BY DEF AnswersHold, AnswerHolds, Untouched, WholeUnlessCut, NothingAfterTheEnd

LEMMA AnswersMeaningNext == AnswersHold' <=> (Untouched /\ WholeUnlessCut /\ NothingAfterTheEnd)'
BY DEF AnswersHold, AnswerHolds, Untouched, WholeUnlessCut, NothingAfterTheEnd

\* What a client has got is its own: other requests leave it alone.
SameAnswer(s) ==
    /\ pc'[s] = pc[s] /\ lastErr'[s] = lastErr[s]
    /\ status'[s] = status[s] /\ parts'[s] = parts[s]
    /\ (s \in cut') = (s \in cut)

LEMMA AnswerStays ==
    ASSUME NEW s \in Requests, AnswerHolds(s), SameAnswer(s)
    PROVE  AnswerHolds(s)'
BY DEF AnswerHolds, SameAnswer, Answered, OneAnswer

\* An attempt that fails before the status line, or a target passed over, shows
\* the client nothing.
LEMMA AttemptUnseen ==
    ASSUME NEW r \in Requests, AnswerHolds(r),
           pc[r] \in {"try", "sending"}, pc'[r] \in {"try", "sending"},
           status'[r] = status[r], parts'[r] = parts[r], (r \in cut') = (r \in cut)
    PROVE  AnswerHolds(r)'
BY DEF AnswerHolds, Answered

\* One more part after parts that were not whole.
LEMMA OneMorePart ==
    ASSUME NEW ps \in Seq(Part), NEW p \in Part, \A i \in DOMAIN ps : ~ps[i].whole
    PROVE  \A i \in DOMAIN Append(ps, p) :
              Append(ps, p)[i].whole => i = Len(Append(ps, p)) /\ p.whole
<1>1. Len(Append(ps, p)) = Len(ps) + 1 /\ Append(ps, p)[Len(ps) + 1] = p
  OBVIOUS
<1>2. ASSUME NEW i \in DOMAIN Append(ps, p), i # Len(ps) + 1 PROVE ~Append(ps, p)[i].whole
  <2>1. i \in 1..Len(ps) /\ Append(ps, p)[i] = ps[i]
    BY <1>2
  <2> QED
    BY <2>1
<1> QED
  BY <1>1, <1>2

LEMMA GotoType ==
    ASSUME TypeOK, NEW r \in Requests, NEW from, NEW to \in Steps, Goto(r, from, to)
    PROVE  /\ pc' \in [Requests -> Steps]
           /\ pc[r] = from /\ pc'[r] = to
           /\ \A s \in Requests \ {r} : pc'[s] = pc[s]
BY DEF TypeOK, Goto, Steps

\* TypeOK with its sets named.
LEMMA TypeMeaning ==
    TypeOK' <=>
       /\ breaker' \in [Targets -> Breaker]
       /\ pc' \in [Requests -> Steps]
       /\ at' \in [Requests -> [model: Models, index: Nat \ {0}]]
       /\ admitted' \in [Requests -> Nat]
       /\ gone' \subseteq Requests
       /\ lastErr' \in [Requests -> Errors]
       /\ status' \in [Requests -> {"none", "upstream", "unavailable"}]
       /\ parts' \in [Requests -> Seq(Part)]
       /\ cut' \subseteq Requests
BY DEF TypeOK, Steps, Errors

\* Every step keeps the types.
LEMMA TypeStep ==
    ASSUME ChainInv, [Next]_vars
    PROVE  TypeOK'
<1> TypeOK
  BY DEF ChainInv
<1> "idle" \in Steps /\ "try" \in Steps /\ "sending" \in Steps /\ "body" \in Steps
  BY DEF Steps
<1>1. ASSUME NEW r \in Requests, NEW m \in Models, Receive(r, m) PROVE TypeOK'
  <2>1. pc' \in [Requests -> Steps]
    BY <1>1, GotoType DEF Receive
  <2>2. at' \in [Requests -> [model: Models, index: Nat \ {0}]]
    BY <1>1 DEF Receive, TypeOK
  <2>3. lastErr' \in [Requests -> Errors]
    BY <1>1 DEF Receive, TypeOK, Errors
  <2>4. <<>> \in Seq(Part)
    OBVIOUS
  <2>5. status' \in [Requests -> {"none", "upstream", "unavailable"}] /\ parts' \in [Requests -> Seq(Part)]
    BY <1>1, <2>4 DEF Receive, TypeOK
  <2>6. gone' \subseteq Requests /\ cut' \subseteq Requests /\ UNCHANGED <<breaker, admitted>>
    BY <1>1 DEF Receive, TypeOK
  <2> QED
    BY <2>1, <2>2, <2>3, <2>5, <2>6, TypeMeaning DEF TypeOK
<1>2. ASSUME NEW r \in Requests, Skip(r) PROVE TypeOK'
  <2>1. "no_adapter" \in Errors
    BY DEF Errors
  <2>2. at' \in [Requests -> [model: Models, index: Nat \ {0}]] /\ lastErr' \in [Requests -> Errors]
    BY <1>2, <2>1, NextTargetType DEF Skip
  <2> QED
    BY <1>2, <2>2, TypeMeaning DEF Skip, TypeOK, Steps, answer
<1>3. ASSUME NEW r \in Requests, Reject(r) PROVE TypeOK'
  <2>1. "rejected" \in Errors
    BY DEF Errors
  <2>2. at' \in [Requests -> [model: Models, index: Nat \ {0}]] /\ lastErr' \in [Requests -> Errors]
    BY <1>3, <2>1, NextTargetType DEF Reject
  <2>3. Target(r) \in Targets /\ breaker[Target(r)] \in Breaker
    BY <1>3, TargetType DEF Reject, TypeOK
  <2>4. Current(breaker[Target(r)]) \in Breaker
    BY <2>3, CurrentMeaning
  <2>5. breaker' \in [Targets -> Breaker]
    BY <1>3, <2>3, <2>4 DEF Reject, TypeOK
  <2> QED
    BY <1>3, <2>2, <2>5, TypeMeaning DEF Reject, TypeOK, Steps, answer
<1>4. ASSUME NEW r \in Requests, Admit(r) PROVE TypeOK'
  <2>1. pc' \in [Requests -> Steps]
    BY <1>4, GotoType DEF Admit
  <2>2. Target(r) \in Targets /\ breaker[Target(r)] \in Breaker
    BY <1>4, TargetType DEF Admit, TypeOK
  <2>3. Current(breaker[Target(r)]) \in Breaker
    BY <2>2, CurrentMeaning
  <2>4. Enter(breaker[Target(r)]) \in Breaker /\ Current(breaker[Target(r)]).generation \in Nat
    BY <2>3 DEF Enter, Breaker
  <2>5. breaker' \in [Targets -> Breaker] /\ admitted' \in [Requests -> Nat]
    BY <1>4, <2>2, <2>4 DEF Admit, TypeOK
  <2> QED
    BY <1>4, <2>1, <2>5, TypeMeaning DEF Admit, TypeOK, answer, Errors
<1>5. ASSUME NEW r \in Requests, SendFails(r) \/ BodyBreaks(r) PROVE TypeOK'
  <2>1. pc' \in [Requests -> Steps] /\ More(r)
    BY <1>5, GotoType DEF SendFails, BodyBreaks, ChainInv, CallsAgree, Goto
  <2>2. PICK err \in SendErrors(r) : NextTarget(r, err)
    BY <1>5 DEF SendFails, BodyBreaks
  <2>3. err \in Errors
    BY DEF SendErrors, Errors
  <2>4. at' \in [Requests -> [model: Models, index: Nat \ {0}]] /\ lastErr' \in [Requests -> Errors]
    BY <2>2, <2>3, NextTargetType
  <2>5. breaker' \in [Targets -> Breaker] /\ admitted' \in [Requests -> Nat]
    BY <1>5, <2>1, ReportedType DEF SendFails, BodyBreaks
  <2>6. parts' \in [Requests -> Seq(Part)]
    <3>1. CASE UNCHANGED parts
      BY <3>1 DEF TypeOK
    <3>2. CASE Written(r, [from |-> Target(r), whole |-> FALSE])
      BY <2>1, <3>2, BodyPart, WrittenType
    <3> QED
      BY <1>5, <3>1, <3>2 DEF SendFails, BodyBreaks, answer
  <2>7. UNCHANGED <<gone, status>> /\ cut' \subseteq Requests
    BY <1>5 DEF SendFails, BodyBreaks, TypeOK, answer
  <2> QED
    BY <2>1, <2>4, <2>5, <2>6, <2>7, TypeMeaning DEF TypeOK
<1>6. ASSUME NEW r \in Requests, StatusLine(r) PROVE TypeOK'
  <2>1. pc' \in [Requests -> Steps]
    BY <1>6, GotoType DEF StatusLine
  <2>2. status' \in [Requests -> {"none", "upstream", "unavailable"}]
    BY <1>6, WriteHeaderType DEF StatusLine
  <2> QED
    BY <1>6, <2>1, <2>2, TypeMeaning DEF StatusLine, TypeOK, Errors
<1>7. ASSUME NEW r \in Requests, BodyEnds(r) PROVE TypeOK'
  <2>1. pc' \in [Requests -> Steps] /\ More(r)
    BY <1>7, GotoType DEF BodyEnds, ChainInv, CallsAgree, Goto
  <2>2. breaker' \in [Targets -> Breaker] /\ admitted' \in [Requests -> Nat]
    BY <1>7, <2>1, ReportedType DEF BodyEnds
  <2>3. parts' \in [Requests -> Seq(Part)]
    BY <1>7, <2>1, BodyPart, WrittenType DEF BodyEnds
  <2> QED
    BY <1>7, <2>1, <2>2, <2>3, TypeMeaning DEF BodyEnds, TypeOK, Errors
<1>8. ASSUME NEW r \in Requests, Fail(r) PROVE TypeOK'
  <2>1. pc' \in [Requests -> Steps]
    BY <1>8, GotoType DEF Fail
  <2>2. status' \in [Requests -> {"none", "upstream", "unavailable"}] /\ parts' \in [Requests -> Seq(Part)]
    <3>1. CASE UNCHANGED answer
      BY <3>1 DEF answer, TypeOK
    <3>2. CASE WriteHeader(r, "unavailable") /\ Written(r, ErrorBody)
      <4>1. ErrorBody \in Part
        BY DEF ErrorBody, Part
      <4> QED
        BY <3>2, <4>1, WriteHeaderType, WrittenType
    <3> QED
      BY <1>8, <3>1, <3>2 DEF Fail
  <2> QED
    BY <1>8, <2>1, <2>2, TypeMeaning DEF Fail, TypeOK, Errors
<1>9. ASSUME NEW r \in Requests, Disconnect(r) PROVE TypeOK'
  BY <1>9 DEF Disconnect, TypeOK, answer
<1>10. ASSUME NEW t \in Targets, Expire(t) PROVE TypeOK'
  <2>1. [breaker[t] EXCEPT !.expired = TRUE] \in Breaker
    <3>1. breaker[t] \in Breaker
      BY DEF TypeOK
    <3> QED
      BY <3>1 DEF Breaker
  <2>2. breaker' \in [Targets -> Breaker]
    BY <1>10, <2>1 DEF Expire, TypeOK
  <2> QED
    BY <1>10, <2>2 DEF Expire, TypeOK, answer
<1>11. CASE UNCHANGED vars
  BY <1>11 DEF vars, TypeOK
<1> QED
  BY <1>1, <1>2, <1>3, <1>4, <1>5, <1>6, <1>7, <1>8, <1>9, <1>10, <1>11 DEF Next, Handle

LEMMA FirstPart == \A p \in Part : Append(<<>>, p) = <<p>>
OBVIOUS

\* A request whose call has begun shows the client nothing or a status line.
LEMMA PartsOpen ==
    ASSUME NEW r \in Requests, AnswerHolds(r), pc[r] # "idle"
    PROVE  \A i \in DOMAIN parts[r] : ~parts[r][i].whole
BY DEF AnswerHolds

\* Every step keeps what each client got right.
LEMMA AnswerStep ==
    ASSUME ChainInv, [Next]_vars
    PROVE  AnswersHold'
<1> TypeOK /\ AnswersHold
  BY AnswersMeaning DEF ChainInv
<1> "idle" \in Steps /\ "try" \in Steps /\ "sending" \in Steps /\ "body" \in Steps
  BY DEF Steps
<1>0. ASSUME NEW r \in Requests, \A s \in Requests \ {r} : SameAnswer(s), AnswerHolds(r)'
      PROVE  AnswersHold'
  <2> SUFFICES ASSUME NEW s \in Requests PROVE AnswerHolds(s)'
    BY DEF AnswersHold
  <2>1. CASE s = r
    BY <1>0, <2>1
  <2>2. CASE s # r
    BY <1>0, <2>2, AnswerStays DEF AnswersHold
  <2> QED
    BY <2>1, <2>2
<1>1. ASSUME NEW r \in Requests, NEW m \in Models, Receive(r, m) PROVE AnswersHold'
  <2>1. \A s \in Requests \ {r} : SameAnswer(s)
    BY <1>1 DEF Receive, Goto, TypeOK, SameAnswer
  <2>2. pc'[r] = "try" /\ status'[r] = "none" /\ parts'[r] = <<>>
    BY <1>1 DEF Receive, Goto, TypeOK
  <2>3. AnswerHolds(r)'
    BY <2>2 DEF AnswerHolds, Answered
  <2> QED
    BY <1>0, <2>1, <2>3
<1>2. ASSUME NEW r \in Requests, Skip(r) \/ Reject(r) PROVE AnswersHold'
  <2>1. PICK err \in Errors : NextTarget(r, err)
    BY <1>2 DEF Skip, Reject, Errors
  <2>2. /\ \A s \in Requests \ {r} : lastErr'[s] = lastErr[s]
        /\ UNCHANGED <<pc, status, parts, cut>> /\ pc[r] = "try"
    BY <1>2, <2>1, NextTargetType DEF Skip, Reject, answer
  <2>3. \A s \in Requests \ {r} : SameAnswer(s)
    BY <2>2 DEF SameAnswer
  <2>4. AnswerHolds(r)'
    BY <2>2, AttemptUnseen DEF AnswersHold
  <2> QED
    BY <1>0, <2>3, <2>4
<1>3. ASSUME NEW r \in Requests, Admit(r) PROVE AnswersHold'
  <2>1. /\ \A s \in Requests \ {r} : pc'[s] = pc[s]
        /\ pc[r] = "try" /\ pc'[r] = "sending"
        /\ UNCHANGED <<lastErr, status, parts, cut>>
    BY <1>3, GotoType DEF Admit, answer
  <2>2. \A s \in Requests \ {r} : SameAnswer(s)
    BY <2>1 DEF SameAnswer
  <2>3. AnswerHolds(r)'
    BY <2>1, AttemptUnseen DEF AnswersHold
  <2> QED
    BY <1>0, <2>2, <2>3
<1>4. ASSUME NEW r \in Requests, SendFails(r) PROVE AnswersHold'
  <2>1. PICK err \in SendErrors(r) : NextTarget(r, err)
    BY <1>4 DEF SendFails
  <2>2. err \in Errors
    BY DEF SendErrors, Errors
  <2>3. /\ \A s \in Requests \ {r} : pc'[s] = pc[s] /\ lastErr'[s] = lastErr[s]
        /\ pc[r] = "sending" /\ pc'[r] = "try"
        /\ UNCHANGED <<status, parts, cut>>
    BY <1>4, <2>1, <2>2, GotoType, NextTargetType DEF SendFails, answer
  <2>4. \A s \in Requests \ {r} : SameAnswer(s)
    BY <2>3 DEF SameAnswer
  <2>5. AnswerHolds(r)'
    BY <2>3, AttemptUnseen DEF AnswersHold
  <2> QED
    BY <1>0, <2>4, <2>5
<1>5. ASSUME NEW r \in Requests, StatusLine(r) PROVE AnswersHold'
  <2>1. /\ \A s \in Requests \ {r} : pc'[s] = pc[s] /\ status'[s] = status[s]
        /\ pc[r] = "sending" /\ pc'[r] = "body"
        /\ status'[r] = IF status[r] = "none" THEN "upstream" ELSE status[r]
        /\ UNCHANGED <<lastErr, parts, cut>>
    BY <1>5, GotoType, WriteHeaderType DEF StatusLine
  <2>2. \A s \in Requests \ {r} : SameAnswer(s)
    BY <2>1 DEF SameAnswer
  <2>3. AnswerHolds(r)'
    BY <2>1 DEF AnswersHold, AnswerHolds, Answered
  <2> QED
    BY <1>0, <2>2, <2>3
<1>6. ASSUME NEW r \in Requests, BodyEnds(r) PROVE AnswersHold'
  <2> DEFINE p == [from |-> Target(r), whole |-> TRUE]
  <2>1. pc[r] = "body" /\ More(r)
    BY <1>6 DEF BodyEnds, Goto, ChainInv, CallsAgree
  <2>2. p \in Part /\ Target(r) \in Targets
    BY <2>1, BodyPart, TargetType
  <2>3. /\ \A s \in Requests \ {r} : pc'[s] = pc[s] /\ parts'[s] = parts[s]
        /\ pc'[r] = "idle" /\ parts'[r] = Append(parts[r], p)
        /\ UNCHANGED <<lastErr, status, cut>>
    BY <1>6, <2>2, GotoType, WrittenType DEF BodyEnds
  <2>4. \A s \in Requests \ {r} : SameAnswer(s)
    BY <2>3 DEF SameAnswer
  <2>5. \A i \in DOMAIN parts'[r] : parts'[r][i].whole => i = Len(parts'[r])
    <3>1. parts[r] \in Seq(Part) /\ \A i \in DOMAIN parts[r] : ~parts[r][i].whole
      BY <2>1, PartsOpen DEF TypeOK, AnswersHold
    <3> QED
      BY <2>2, <2>3, <3>1, OneMorePart
  <2>6. r \notin cut => status'[r] = "upstream" /\ parts'[r] = <<p>>
    <3>1. r \notin cut => status[r] = "upstream" /\ parts[r] = <<>>
      BY <2>1 DEF AnswersHold, AnswerHolds
    <3> QED
      BY <2>2, <2>3, <3>1, FirstPart
  <2>7. AnswerHolds(r)'
    BY <2>2, <2>3, <2>5, <2>6 DEF AnswerHolds, OneAnswer
  <2> QED
    BY <1>0, <2>4, <2>7
<1>7. ASSUME NEW r \in Requests, BodyBreaks(r) PROVE AnswersHold'
  <2> DEFINE p == [from |-> Target(r), whole |-> FALSE]
  <2>1. pc[r] = "body" /\ More(r)
    BY <1>7 DEF BodyBreaks, Goto, ChainInv, CallsAgree
  <2>2. p \in Part /\ ~p.whole
    BY <2>1, BodyPart
  <2>3. PICK err \in SendErrors(r) : NextTarget(r, err)
    BY <1>7 DEF BodyBreaks
  <2>4. err \in Errors
    BY DEF SendErrors, Errors
  <2>5. /\ \A s \in Requests \ {r} : pc'[s] = pc[s] /\ lastErr'[s] = lastErr[s]
        /\ pc'[r] = "try" /\ cut' = cut \cup {r} /\ status' = status
    BY <1>7, <2>3, <2>4, GotoType, NextTargetType DEF BodyBreaks
  <2>6. parts[r] \in Seq(Part) /\ \A i \in DOMAIN parts[r] : ~parts[r][i].whole
    BY <2>1, PartsOpen DEF TypeOK, AnswersHold
  <2>7. /\ \A s \in Requests \ {r} : parts'[s] = parts[s]
        /\ \A i \in DOMAIN parts'[r] : ~parts'[r][i].whole
    <3>1. CASE UNCHANGED parts
      BY <2>6, <3>1
    <3>2. CASE Written(r, p)
      <4>1. parts'[r] = Append(parts[r], p) /\ \A s \in Requests \ {r} : parts'[s] = parts[s]
        BY <2>2, <3>2, WrittenType
      <4> QED
        BY <2>2, <2>6, <4>1, OneMorePart
    <3> QED
      BY <1>7, <3>1, <3>2 DEF BodyBreaks
  <2>8. \A s \in Requests \ {r} : SameAnswer(s)
    BY <2>5, <2>7 DEF SameAnswer
  <2>9. AnswerHolds(r)'
    BY <2>5, <2>7 DEF AnswerHolds, Answered
  <2> QED
    BY <1>0, <2>8, <2>9
<1>8. ASSUME NEW r \in Requests, Fail(r) PROVE AnswersHold'
  <2>1. /\ \A s \in Requests \ {r} : pc'[s] = pc[s]
        /\ pc[r] = "try" /\ pc'[r] = "idle" /\ UNCHANGED <<lastErr, cut>>
    BY <1>8, GotoType DEF Fail
  <2>2. parts[r] \in Seq(Part) /\ \A i \in DOMAIN parts[r] : ~parts[r][i].whole
    BY <2>1, PartsOpen DEF TypeOK, AnswersHold
  <2>3. CASE lastErr[r] = "canceled"
    <3>1. UNCHANGED <<status, parts>>
      BY <1>8, <2>3 DEF Fail, answer
    <3>2. \A s \in Requests \ {r} : SameAnswer(s)
      BY <2>1, <3>1 DEF SameAnswer
    <3>3. AnswerHolds(r)'
      BY <2>1, <2>2, <2>3, <3>1 DEF AnswerHolds, Answered
    <3> QED
      BY <1>0, <3>2, <3>3
  <2>4. CASE lastErr[r] # "canceled"
    <3>1. WriteHeader(r, "unavailable") /\ Written(r, ErrorBody)
      BY <1>8, <2>4 DEF Fail
    <3>2. ErrorBody \in Part
      BY DEF ErrorBody, Part
    <3>3. /\ \A s \in Requests \ {r} : status'[s] = status[s] /\ parts'[s] = parts[s]
          /\ status'[r] = IF status[r] = "none" THEN "unavailable" ELSE status[r]
          /\ parts'[r] = Append(parts[r], ErrorBody)
      BY <3>1, <3>2, WriteHeaderType, WrittenType
    <3>4. \A s \in Requests \ {r} : SameAnswer(s)
      BY <2>1, <3>3 DEF SameAnswer
    <3>5. \A i \in DOMAIN parts'[r] : parts'[r][i].whole => i = Len(parts'[r])
      BY <2>2, <3>2, <3>3, OneMorePart
    <3>6. r \notin cut => status'[r] = "unavailable" /\ parts'[r] = <<ErrorBody>>
      <4>1. r \notin cut => status[r] = "none" /\ parts[r] = <<>>
        BY <2>1 DEF AnswersHold, AnswerHolds
      <4> QED
        BY <3>2, <3>3, <4>1, FirstPart
    <3>7. AnswerHolds(r)'
      BY <2>1, <3>5, <3>6 DEF AnswerHolds, OneAnswer
    <3> QED
      BY <1>0, <3>4, <3>7
  <2> QED
    BY <2>3, <2>4
<1>9. ASSUME UNCHANGED <<pc, lastErr, status, parts, cut>> PROVE AnswersHold'
  BY <1>9, AnswerStays DEF AnswersHold, SameAnswer
<1> QED
  BY <1>1, <1>2, <1>3, <1>4, <1>5, <1>6, <1>7, <1>8, <1>9
     DEF Next, Handle, Disconnect, Expire, answer, vars

-----------------------------------------------------------------------------
(* The calls.                                                              *)

\* The calls to t that were admitted in generation g.
Own(t, g) == {r \in Requests : pc[r] \in Calling /\ Target(r) = t /\ admitted[r] = g}

LEMMA InFlightMeaning ==
    \A t : InFlight(t) = Own(t, breaker[t].generation)
BY DEF InFlight, Own, Calling

LEMMA OwnFinite ==
    ASSUME NEW t, NEW g
    PROVE  IsFiniteSet(Own(t, g)) /\ Cardinality(Own(t, g)) \in Nat
BY ChainAssumption, FS_Subset, FS_CardinalityType DEF ChainAssumption, Own

\* The books of every breaker, in the words of the lemmas on one breaker.
LEMMA Books ==
    NoProbeLost <=> \A t \in Targets : Accounted(breaker[t], Cardinality(InFlight(t)))
BY DEF NoProbeLost, Accounted

LEMMA BooksNext ==
    NoProbeLost' <=> \A t \in Targets : Accounted(breaker'[t], Cardinality(InFlight(t)'))
BY DEF NoProbeLost, Accounted

\* A breaker that is brought up to date has the books of its generation right: the
\* calls of a generation that begins are yet to come.
LEMMA CurrentBooks ==
    ASSUME ChainInv, NEW t \in Targets
    PROVE  /\ Current(breaker[t]) \in Breaker
           /\ Current(breaker[t]).generation >= breaker[t].generation
           /\ Accounted(Current(breaker[t]), Cardinality(Own(t, Current(breaker[t]).generation)))
<1> DEFINE b == breaker[t]
           c == Current(b)
<1>1. b \in Breaker /\ Accounted(b, Cardinality(Own(t, b.generation)))
  BY Books, InFlightMeaning DEF ChainInv, TypeOK
<1>2. /\ c \in Breaker
      /\ \/ c = b
         \/ c.generation = b.generation + 1 /\ Accounted(c, 0)
  BY <1>1, CurrentMeaning
<1>3. CASE c = b
  BY <1>1, <1>2, <1>3 DEF Breaker
<1>4. CASE c.generation = b.generation + 1 /\ Accounted(c, 0)
  <2>1. \A r \in Requests : pc[r] \in Calling /\ Target(r) = t => admitted[r] <= b.generation
    BY DEF ChainInv, CallsAgree, Calling
  <2>2. b.generation \in Nat
    BY <1>1 DEF Breaker
  <2>3. Own(t, c.generation) = {}
    BY <1>4, <2>1, <2>2 DEF Own, ChainInv, TypeOK
  <2>4. Cardinality(Own(t, c.generation)) = 0
    BY <2>3, FS_EmptySet
  <2> QED
    BY <1>2, <1>4, <2>2, <2>4
<1> QED
  BY <1>2, <1>3, <1>4

\* A step that tells the breakers nothing, but that a deadline has passed.
LEMMA CallsFrame ==
    ASSUME ChainInv,
           \A t \in Targets :
              /\ breaker'[t].state = breaker[t].state
              /\ breaker'[t].generation = breaker[t].generation
              /\ breaker'[t].requests = breaker[t].requests
              /\ breaker'[t].successes = breaker[t].successes,
           \A s \in Requests :
              \/ pc'[s] \notin Calling /\ pc[s] \notin Calling
              \/ /\ pc'[s] \in Calling /\ pc[s] \in Calling
                 /\ at'[s] = at[s] /\ admitted'[s] = admitted[s]
    PROVE  CallsAgree' /\ NoProbeLost'
<1> TypeOK
  BY DEF ChainInv
<1>1. ASSUME NEW s \in Requests, pc'[s] \in Calling
      PROVE  More(s)' /\ admitted'[s] <= breaker'[Target(s)'].generation
  <2>1. at'[s] = at[s] /\ admitted'[s] = admitted[s] /\ pc[s] \in Calling
    BY <1>1
  <2>2. More(s) /\ admitted[s] <= breaker[Target(s)].generation
    BY <2>1 DEF ChainInv, CallsAgree, Calling
  <2>3. (More(s))' /\ (Target(s))' = Target(s)
    BY <2>1, <2>2 DEF More, Target, ChainFor
  <2> QED
    BY <2>1, <2>2, <2>3, TargetType
<1>2. CallsAgree'
  BY <1>1 DEF CallsAgree, Calling
<1>3. ASSUME NEW t \in Targets PROVE InFlight(t)' = InFlight(t)
  BY DEF InFlight, Calling, Target, ChainFor
<1>4. NoProbeLost'
  BY <1>3 DEF ChainInv, NoProbeLost
<1> QED
  BY <1>2, <1>4

\* A step of request r that leaves breaker b for the one of its target.
LEMMA BreakerMoves ==
    ASSUME ChainInv, NEW r \in Requests, NEW t \in Targets, t = Target(r),
           NEW b \in Breaker, breaker' = [breaker EXCEPT ![t] = b],
           b.generation >= breaker[t].generation, More(r),
           \A s \in Requests \ {r} :
              pc'[s] = pc[s] /\ at'[s] = at[s] /\ admitted'[s] = admitted[s],
           \/ pc'[r] \notin Calling
           \/ at'[r] = at[r] /\ admitted'[r] = b.generation,
           NEW S, Accounted(b, Cardinality(S)),
           S = {s \in Requests : /\ pc'[s] \in Calling
                                 /\ Target(s)' = t
                                 /\ admitted'[s] = b.generation}
    PROVE  CallsAgree' /\ NoProbeLost'
<1>1. TypeOK
  BY DEF ChainInv
<1>2. breaker'[t] = b /\ \A u \in Targets \ {t} : breaker'[u] = breaker[u]
  BY <1>1 DEF TypeOK
<1>3. \A s \in Requests : at'[s] = at[s] => Target(s)' = Target(s) /\ (More(s)' <=> More(s))
  BY DEF Target, More, ChainFor
<1>4. ASSUME NEW s \in Requests, pc'[s] \in Calling
      PROVE  More(s)' /\ admitted'[s] <= breaker'[Target(s)'].generation
  <2>1. CASE s = r
    <3>1. Target(r)' = t /\ More(r)' /\ admitted'[r] = b.generation
      BY <1>3, <1>4, <2>1
    <3>2. b.generation \in Nat
      BY DEF Breaker
    <3> QED
      BY <1>2, <2>1, <3>1, <3>2
  <2>2. CASE s # r
    <3>1. pc[s] \in Calling /\ at'[s] = at[s] /\ admitted'[s] = admitted[s]
      BY <1>4, <2>2
    <3>2. More(s) /\ admitted[s] <= breaker[Target(s)].generation
      BY <3>1 DEF ChainInv, CallsAgree, Calling
    <3>3. Target(s) \in Targets
      BY <1>1, <3>2, TargetType
    <3>4. /\ breaker[Target(s)].generation \in Nat /\ b.generation \in Nat
          /\ admitted[s] \in Nat
      BY <1>1, <3>3 DEF TypeOK, Breaker
    <3>5. breaker'[Target(s)].generation >= breaker[Target(s)].generation
      BY <1>2, <3>3, <3>4
    <3>6. breaker'[Target(s)].generation \in Nat
      BY <1>2, <3>3, <3>4
    <3>7. admitted[s] <= breaker'[Target(s)].generation
      BY <3>2, <3>4, <3>5, <3>6
    <3> QED
      BY <1>3, <3>1, <3>2, <3>7
  <2> QED
    BY <2>1, <2>2
<1>5. CallsAgree'
  BY <1>4 DEF CallsAgree, Calling
<1>6. ASSUME NEW u \in Targets PROVE Accounted(breaker'[u], Cardinality(InFlight(u)'))
  <2>1. CASE u = t
    <3>1. InFlight(u)' = S
      BY <1>2, <2>1 DEF InFlight, Calling
    <3> QED
      BY <1>2, <2>1, <3>1
  <2>2. CASE u # t
    <3>1. ASSUME NEW s \in Requests PROVE s \in InFlight(u)' <=> s \in InFlight(u)
      <4>1. CASE s = r
        <5>1. r \notin InFlight(u)
          BY <2>2 DEF InFlight
        <5>2. r \notin InFlight(u)'
          BY <1>3, <2>2 DEF InFlight, Calling
        <5> QED
          BY <4>1, <5>1, <5>2
      <4>2. CASE s # r
        BY <1>2, <1>3, <2>2, <4>2 DEF InFlight
      <4> QED
        BY <4>1, <4>2
    <3>2. InFlight(u)' = InFlight(u)
      BY <3>1 DEF InFlight
    <3>3. Accounted(breaker[u], Cardinality(InFlight(u)))
      BY Books DEF ChainInv
    <3> QED
      BY <1>2, <2>2, <3>2, <3>3
  <2> QED
    BY <2>1, <2>2
<1>7. NoProbeLost'
  BY <1>6, BooksNext
<1> QED
  BY <1>5, <1>7

\* A call ends and its breaker gets the result.
LEMMA ReportKeeps ==
    ASSUME ChainInv, NEW r \in Requests, pc[r] \in Calling, NEW ok \in BOOLEAN,
           Reported(r, ok), pc'[r] \notin Calling,
           \A s \in Requests \ {r} : pc'[s] = pc[s] /\ at'[s] = at[s]
    PROVE  CallsAgree' /\ NoProbeLost'
<1>1. TypeOK /\ More(r)
  BY DEF ChainInv, CallsAgree, Calling
<1>2. PICK t \in Targets : t = Target(r)
  BY <1>1, TargetType
<1>3. PICK c : c = Current(breaker[t])
  OBVIOUS
<1>4. PICK b : b = Report(breaker[t], admitted[r], ok)
  OBVIOUS
<1> DEFINE own == Own(t, c.generation)
           after == {s \in Requests : pc'[s] \in Calling /\ Target(s)' = t
                                      /\ admitted'[s] = b.generation}
<1>5. /\ c \in Breaker /\ c.generation \in Nat
      /\ c.generation >= breaker[t].generation
      /\ Accounted(c, Cardinality(own))
  BY <1>3, CurrentBooks DEF Breaker
<1>6. b \in Breaker /\ breaker[t].generation \in Nat
  BY <1>1, <1>4, ReportType DEF TypeOK, Breaker
<1>7. \A s \in Requests \ {r} :
         pc'[s] = pc[s] /\ at'[s] = at[s] /\ admitted'[s] = admitted[s] /\ Target(s)' = Target(s)
  BY <1>1 DEF Reported, TypeOK, Target, ChainFor
<1>8. after = {s \in Requests \ {r} : pc[s] \in Calling /\ Target(s) = t /\ admitted[s] = b.generation}
  BY <1>7
<1>9. b.generation >= breaker[t].generation /\ Accounted(b, Cardinality(after))
  <2>1. CASE c.generation # admitted[r]
    <3>1. b = c
      BY <1>3, <1>4, <2>1 DEF Report
    <3>2. after = own
      BY <1>8, <2>1, <3>1 DEF Own
    <3> QED
      BY <1>5, <3>1, <3>2
  <2>2. CASE c.generation = admitted[r]
    <3>1. r \in own
      BY <1>2, <2>2 DEF Own
    <3>2. IsFiniteSet(own) /\ Cardinality(own) \in Nat
      BY OwnFinite
    <3>3. Cardinality(own \ {r}) = Cardinality(own) - 1 /\ Cardinality(own \ {r}) \in Nat
      BY <3>1, <3>2, FS_RemoveElement, FS_CardinalityType
    <3>4. PICK n \in Nat : n = Cardinality(own \ {r}) /\ n + 1 = Cardinality(own)
      BY <3>2, <3>3
    <3>5. breaker[t] \in Breaker /\ Accounted(Current(breaker[t]), n + 1)
      BY <1>1, <1>3, <1>5, <3>4 DEF TypeOK
    <3>6. \/ b.generation = c.generation /\ Accounted(b, n)
          \/ b.generation = c.generation + 1 /\ b.state # "half_open"
      BY <1>3, <1>4, <2>2, <3>5, ReportMeaning
    <3>7. CASE b.generation = c.generation /\ Accounted(b, n)
      <4>1. after = own \ {r}
        BY <1>8, <3>7 DEF Own
      <4> QED
        BY <1>5, <3>4, <3>7, <4>1
    <3>8. CASE b.generation = c.generation + 1 /\ b.state # "half_open"
      BY <1>5, <1>6, <3>8 DEF Accounted
    <3> QED
      BY <3>6, <3>7, <3>8
  <2> QED
    BY <2>1, <2>2
<1>10. breaker' = [breaker EXCEPT ![t] = b]
  BY <1>2, <1>4 DEF Reported
<1>11. PICK S : S = after
  OBVIOUS
<1>12. /\ Accounted(b, Cardinality(S))
       /\ S = {s \in Requests : pc'[s] \in Calling /\ Target(s)' = t /\ admitted'[s] = b.generation}
  BY <1>9, <1>11
<1> HIDE DEF own, after
<1> QED
  BY <1>1, <1>2, <1>6, <1>7, <1>9, <1>10, <1>12, BreakerMoves

\* Every step keeps the books of the breakers.
LEMMA CallStep ==
    ASSUME ChainInv, [Next]_vars
    PROVE  CallsAgree' /\ NoProbeLost'
<1> TypeOK
  BY DEF ChainInv
<1> "idle" \in Steps /\ "try" \in Steps /\ "sending" \in Steps /\ "body" \in Steps
  BY DEF Steps
<1>1. ASSUME NEW r \in Requests, NEW m \in Models, Receive(r, m)
      PROVE  CallsAgree' /\ NoProbeLost'
  <2>1. /\ pc[r] = "idle" /\ pc'[r] = "try" /\ UNCHANGED <<breaker, admitted>>
        /\ \A s \in Requests \ {r} : pc'[s] = pc[s] /\ at'[s] = at[s]
    BY <1>1, GotoType DEF Receive, TypeOK
  <2> QED
    BY <2>1, CallsFrame DEF Calling
<1>2. ASSUME NEW r \in Requests, Skip(r) PROVE CallsAgree' /\ NoProbeLost'
  <2>1. /\ pc[r] = "try" /\ UNCHANGED <<breaker, pc, admitted>>
        /\ \A s \in Requests \ {r} : at'[s] = at[s]
    BY <1>2, NextTargetType DEF Skip, Errors
  <2> QED
    BY <2>1, CallsFrame DEF Calling
<1>3. ASSUME NEW r \in Requests, Reject(r) PROVE CallsAgree' /\ NoProbeLost'
  <2>1. /\ pc[r] = "try" /\ More(r) /\ UNCHANGED <<pc, admitted>>
        /\ breaker' = [breaker EXCEPT ![Target(r)] = Current(breaker[Target(r)])]
        /\ \A s \in Requests \ {r} : at'[s] = at[s]
    BY <1>3, NextTargetType DEF Reject, Errors
  <2>2. PICK t \in Targets : t = Target(r)
    BY <2>1, TargetType
  <2>3. PICK c : c = Current(breaker[t])
    OBVIOUS
  <2>4. /\ c \in Breaker /\ c.generation >= breaker[t].generation
        /\ Accounted(c, Cardinality(Own(t, c.generation)))
    BY <2>3, CurrentBooks
  <2>5. {s \in Requests : pc'[s] \in Calling /\ Target(s)' = t /\ admitted'[s] = c.generation}
           = Own(t, c.generation)
    BY <2>1 DEF Own, Calling, Target, ChainFor
  <2>6. PICK S : S = Own(t, c.generation)
    OBVIOUS
  <2>7. /\ Accounted(c, Cardinality(S))
        /\ S = {s \in Requests : pc'[s] \in Calling /\ Target(s)' = t /\ admitted'[s] = c.generation}
    BY <2>4, <2>5, <2>6
  <2>8. breaker' = [breaker EXCEPT ![t] = c] /\ pc'[r] \notin Calling
    BY <2>1, <2>2, <2>3 DEF Calling
  <2>9. /\ c.generation >= breaker[t].generation /\ c \in Breaker /\ More(r)
        /\ \A s \in Requests \ {r} : pc'[s] = pc[s] /\ at'[s] = at[s] /\ admitted'[s] = admitted[s]
    BY <2>1, <2>4
  <2> QED
    BY <2>2, <2>7, <2>8, <2>9, BreakerMoves
<1>4. ASSUME NEW r \in Requests, Admit(r) PROVE CallsAgree' /\ NoProbeLost'
  <2>1. /\ pc[r] = "try" /\ pc'[r] = "sending" /\ More(r) /\ at' = at
        /\ Admits(breaker[Target(r)])
        /\ breaker' = [breaker EXCEPT ![Target(r)] = Enter(breaker[Target(r)])]
        /\ admitted' = [admitted EXCEPT ![r] = Current(breaker[Target(r)]).generation]
        /\ \A s \in Requests \ {r} : pc'[s] = pc[s]
    BY <1>4, GotoType DEF Admit
  <2>2. PICK t \in Targets : t = Target(r)
    BY <2>1, TargetType
  <2>3. PICK c : c = Current(breaker[t])
    OBVIOUS
  <2>4. PICK b : b = Enter(breaker[t])
    OBVIOUS
  <2> DEFINE own == Own(t, c.generation)
  <2>5. /\ c \in Breaker /\ c.generation >= breaker[t].generation
        /\ Accounted(c, Cardinality(own))
    BY <2>3, CurrentBooks
  <2>6. IsFiniteSet(own) /\ Cardinality(own) \in Nat
    BY OwnFinite
  <2>7. b \in Breaker /\ b.generation = c.generation /\ Accounted(b, Cardinality(own) + 1)
    <3>1. breaker[t] \in Breaker /\ Admits(breaker[t])
      BY <2>1, <2>2 DEF TypeOK
    <3> HIDE DEF own
    <3> QED
      BY <2>3, <2>4, <2>5, <2>6, <3>1, EnterMeaning
  <2>8. r \notin own
    BY <2>1 DEF Own, Calling
  <2>9. {s \in Requests : pc'[s] \in Calling /\ Target(s)' = t /\ admitted'[s] = b.generation}
           = own \cup {r}
    <3>1. \A s \in Requests : Target(s)' = Target(s)
      BY <2>1 DEF Target, ChainFor
    <3>2. admitted'[r] = b.generation /\ \A s \in Requests \ {r} : admitted'[s] = admitted[s]
      BY <2>1, <2>2, <2>3, <2>7 DEF TypeOK
    <3> QED
      BY <2>1, <2>2, <2>7, <3>1, <3>2 DEF Own, Calling
  <2>10. Cardinality(own \cup {r}) = Cardinality(own) + 1
    BY <2>6, <2>8, FS_AddElement
  <2>11. admitted'[r] = b.generation /\ \A s \in Requests \ {r} : admitted'[s] = admitted[s]
    BY <2>1, <2>2, <2>3, <2>7 DEF TypeOK
  <2>12. breaker' = [breaker EXCEPT ![t] = b] /\ at'[r] = at[r]
    BY <2>1, <2>2, <2>4
  <2>13. PICK S : S = own \cup {r}
    OBVIOUS
  <2>14. /\ Accounted(b, Cardinality(S))
         /\ S = {s \in Requests : pc'[s] \in Calling /\ Target(s)' = t /\ admitted'[s] = b.generation}
    BY <2>7, <2>9, <2>10, <2>13
  <2>15. b.generation >= breaker[t].generation /\ More(r)
    BY <2>1, <2>5, <2>7
  <2>16. \A s \in Requests \ {r} : pc'[s] = pc[s] /\ at'[s] = at[s] /\ admitted'[s] = admitted[s]
    BY <2>1, <2>11
  <2> HIDE DEF own
  <2> QED
    BY <2>2, <2>7, <2>11, <2>12, <2>14, <2>15, <2>16, BreakerMoves
<1>5. ASSUME NEW r \in Requests, SendFails(r) \/ BodyBreaks(r) PROVE CallsAgree' /\ NoProbeLost'
  <2>1. PICK err \in SendErrors(r) : NextTarget(r, err)
    BY <1>5 DEF SendFails, BodyBreaks
  <2>2. err \in Errors
    BY DEF SendErrors, Errors
  <2>3. PICK from \in Calling : Goto(r, from, "try")
    BY <1>5 DEF SendFails, BodyBreaks, Calling
  <2>4. pc[r] \in Calling /\ pc'[r] = "try" /\ \A s \in Requests \ {r} : pc'[s] = pc[s]
    BY <2>3, GotoType
  <2>5. \A s \in Requests \ {r} : at'[s] = at[s]
    BY <2>1, <2>2, NextTargetType
  <2>6. Reported(r, FALSE) /\ pc'[r] \notin Calling
    BY <1>5, <2>4 DEF SendFails, BodyBreaks, Calling
  <2> QED
    BY <2>4, <2>5, <2>6, ReportKeeps
<1>6. ASSUME NEW r \in Requests, StatusLine(r) PROVE CallsAgree' /\ NoProbeLost'
  <2>1. /\ pc[r] = "sending" /\ pc'[r] = "body" /\ UNCHANGED <<breaker, at, admitted>>
        /\ \A s \in Requests \ {r} : pc'[s] = pc[s]
    BY <1>6, GotoType DEF StatusLine
  <2> QED
    BY <2>1, CallsFrame DEF Calling
<1>7. ASSUME NEW r \in Requests, BodyEnds(r) PROVE CallsAgree' /\ NoProbeLost'
  <2>1. /\ pc[r] \in Calling /\ pc'[r] = "idle" /\ Reported(r, TRUE) /\ UNCHANGED at
        /\ \A s \in Requests \ {r} : pc'[s] = pc[s]
    BY <1>7, GotoType DEF BodyEnds, Calling
  <2> QED
    BY <2>1, ReportKeeps DEF Calling
<1>8. ASSUME NEW r \in Requests, Fail(r) PROVE CallsAgree' /\ NoProbeLost'
  <2>1. /\ pc[r] = "try" /\ pc'[r] = "idle" /\ UNCHANGED <<breaker, at, admitted>>
        /\ \A s \in Requests \ {r} : pc'[s] = pc[s]
    BY <1>8, GotoType DEF Fail
  <2> QED
    BY <2>1, CallsFrame DEF Calling
<1>9. ASSUME NEW t \in Targets, Expire(t) PROVE CallsAgree' /\ NoProbeLost'
  <2>1. UNCHANGED <<pc, at, admitted>>
    BY <1>9 DEF Expire
  <2>2. \A u \in Targets :
           /\ breaker'[u].state = breaker[u].state
           /\ breaker'[u].generation = breaker[u].generation
           /\ breaker'[u].requests = breaker[u].requests
           /\ breaker'[u].successes = breaker[u].successes
    <3>1. breaker \in [Targets -> Breaker] /\ breaker' = [breaker EXCEPT ![t].expired = TRUE]
      BY <1>9 DEF Expire, TypeOK
    <3> QED
      BY <3>1 DEF Breaker
  <2> QED
    BY <2>1, <2>2, CallsFrame
<1>10. ASSUME UNCHANGED <<breaker, pc, at, admitted>> PROVE CallsAgree' /\ NoProbeLost'
  BY <1>10, CallsFrame
<1> QED
  BY <1>1, <1>2, <1>3, <1>4, <1>5, <1>6, <1>7, <1>8, <1>9, <1>10
     DEF Next, Handle, Disconnect, vars

-----------------------------------------------------------------------------
LEMMA InitInv == Init => ChainInv
<1> SUFFICES ASSUME Init PROVE ChainInv
  OBVIOUS
<1>1. TypeOK
  <2>1. NewBreaker \in Breaker /\ (CHOOSE m \in Models : TRUE) \in Models
    BY ChainAssumption DEF ChainAssumption, NewBreaker, Fresh, Breaker
  <2>2. <<>> \in Seq(Part)
    OBVIOUS
  <2> QED
    BY <2>1, <2>2 DEF Init, TypeOK
<1>2. CallsAgree /\ Untouched /\ WholeUnlessCut /\ NothingAfterTheEnd
  BY DEF Init, CallsAgree, Untouched, WholeUnlessCut, NothingAfterTheEnd, Answered, OneAnswer
<1>3. NoProbeLost
  BY DEF Init, NoProbeLost, NewBreaker, Fresh
<1> QED
  BY <1>1, <1>2, <1>3 DEF ChainInv

\* What each client got and what each breaker was told is right after any number
\* of steps of Proxy.ChatCompletion.
THEOREM ChainInvariant == Spec => []ChainInv
<1>1. Init => ChainInv
  BY InitInv
<1>2. ChainInv /\ [Next]_vars => ChainInv'
  <2> SUFFICES ASSUME ChainInv, [Next]_vars PROVE ChainInv'
    OBVIOUS
  <2>1. TypeOK'
    BY TypeStep
  <2>2. AnswersHold'
    BY AnswerStep
  <2>3. CallsAgree' /\ NoProbeLost'
    BY CallStep
  <2> QED
    BY <2>1, <2>2, <2>3, AnswersMeaningNext DEF ChainInv
<1> QED
  BY <1>1, <1>2, PTL DEF Spec

\* Fallback is invisible: a client gets one whole answer of one target, or the
\* gateway's 503, unless a body broke off (Proxy.ChatCompletion, send).
THEOREM FallbackIsInvisible == Spec => []WholeUnlessCut
<1>1. ChainInv => WholeUnlessCut
  BY DEF ChainInv
<1> QED
  BY <1>1, ChainInvariant, PTL

\* Every way out of send reports to the breaker: a half-open breaker always waits
\* for a probe that is in flight or may still be let in.
THEOREM ProbesComeBack == Spec => []NoProbeLost
<1>1. ChainInv => NoProbeLost
  BY DEF ChainInv
<1> QED
  BY <1>1, ChainInvariant, PTL
=============================================================================
