------------------------ MODULE ProviderCallsProofs ------------------------
(* Proofs about the calls of providers, for any slots, pairs, orders and jobs. *)
EXTENDS ProviderCalls, FiniteSetTheorems, SequenceTheorems, WellFoundedInduction, TLAPS

-----------------------------------------------------------------------------
\* A set of naturals that is not empty has a least member: what an induction over
\* data comes down to here.
LEMMA LeastNat ==
    ASSUME NEW T, T \subseteq Nat, T # {}
    PROVE  \E n \in T : \A m \in T : n <= m
  <1> DEFINE R == {ss \in Nat \X Nat : ss[1] < ss[2]}
  <1>1. IsWellFoundedOn(R, Nat)
    BY NatLessThanWellFounded DEF OpToRel
  <1>2. \A x, y \in Nat : x < y => <<x, y>> \in R
    OBVIOUS
  <1> HIDE DEF R
  <1>3. \E x \in T : \A y \in T : ~(<<y, x>> \in R)
    BY <1>1, WFMin
  <1>4. PICK n \in T : \A y \in T : ~(<<y, n>> \in R)
    BY <1>3
  <1>5. \A m \in T : ~(m < n)
    BY <1>2, <1>4
  <1>. QED BY <1>5

\* Positions taken out of a sequence, in order: the Nth of them.
LEMMA NthType ==
    ASSUME NEW I, IsFiniteSet(I), I \subseteq Int, NEW i \in Int
    PROVE  Nth(I, i) \in Nat /\ Nth(I, i) <= Cardinality(I) /\ Cardinality(I) \in Nat
  <1> DEFINE J == {j \in I : j <= i}
  <1>1. J \subseteq I
    OBVIOUS
  <1>2. IsFiniteSet(J) /\ Cardinality(J) <= Cardinality(I)
    BY <1>1, FS_Subset
  <1>3. Cardinality(J) \in Nat /\ Cardinality(I) \in Nat
    BY <1>2, FS_CardinalityType
  <1>4. Nth(I, i) = Cardinality(J)
    BY DEF Nth
  <1>. QED BY <1>2, <1>3, <1>4

LEMMA NthGrows ==
    ASSUME NEW I, IsFiniteSet(I), I \subseteq Int, NEW i \in Int, NEW j \in I, i < j
    PROVE  Nth(I, i) < Nth(I, j)
  <1> DEFINE A == {k \in I : k <= i}
             B == {k \in I : k <= j}
  <1>0. j \in Int /\ ~(j <= i) /\ \A k \in I : k \in Int /\ (k <= i => k <= j)
    OBVIOUS
  <1>1. A \subseteq B /\ j \in B /\ j \notin A /\ B \subseteq I
    <2>1. j <= j
      BY <1>0
    <2>. QED BY <1>0, <2>1, Zenon
  <1>2. IsFiniteSet(B)
    BY <1>1, FS_Subset
  <1>3. IsFiniteSet(A \union {j}) /\ Cardinality(A \union {j}) <= Cardinality(B)
    <2>1. A \union {j} \subseteq B
      BY <1>1
    <2>. QED BY <1>2, <2>1, FS_Subset
  <1>4. IsFiniteSet(A)
    BY <1>1, <1>2, FS_Subset
  <1>5. Cardinality(A \union {j}) = Cardinality(A) + 1
    BY <1>1, <1>4, FS_AddElement
  <1>6. Cardinality(A) \in Nat /\ Cardinality(B) \in Nat
    BY <1>2, <1>4, FS_CardinalityType
  <1>7. Nth(I, i) = Cardinality(A) /\ Nth(I, j) = Cardinality(B)
    BY DEF Nth
  <1> HIDE DEF A, B
  <1>. QED BY <1>3, <1>5, <1>6, <1>7

LEMMA NthIsOne ==
    ASSUME NEW I, IsFiniteSet(I), I \subseteq Int, NEW i \in I, NEW j \in I, Nth(I, i) = Nth(I, j)
    PROVE  i = j
  <1>1. ~(i < j) /\ ~(j < i)
    <2>1. i \in Int /\ j \in Int /\ Nth(I, i) \in Nat /\ Nth(I, j) \in Nat
      BY NthType
    <2>2. i < j => Nth(I, i) < Nth(I, j)
      BY <2>1, NthGrows
    <2>3. j < i => Nth(I, j) < Nth(I, i)
      BY <2>1, NthGrows
    <2>. QED BY <2>1, <2>2, <2>3
  <1>. QED BY <1>1

\* The least number up to which there are n positions is the nth of them.
LEMMA NthExists ==
    ASSUME NEW I, NEW m \in Nat, I \subseteq 1 .. m, NEW n \in 1 .. Cardinality(I)
    PROVE  \E i \in I : Nth(I, i) = n
  <1>0. IsFiniteSet(I) /\ I \subseteq Int /\ Cardinality(I) \in Nat
    <2>1. IsFiniteSet(1 .. m)
      BY FS_Interval
    <2>2. IsFiniteSet(I)
      BY <2>1, FS_Subset
    <2>. QED BY <2>2, FS_CardinalityType
  <1> DEFINE T == {i \in Nat : Nth(I, i) >= n}
  <1>1. m \in T
    <2>0. \A j \in I : j <= m
      OBVIOUS
    <2>1. {j \in I : j <= m} = I
      BY <2>0
    <2>2. Nth(I, m) = Cardinality(I)
      BY <2>1 DEF Nth
    <2>. QED BY <1>0, <2>2
  <1>2. PICK i \in T : \A j \in T : i <= j
    <2>1. T \subseteq Nat /\ T # {}
      BY <1>1
    <2> HIDE DEF T
    <2>. QED BY <2>1, LeastNat
  <1>3. i \in Nat /\ Nth(I, i) \in Nat /\ Nth(I, i) >= n
    <2>1. i \in Nat /\ i \in Int /\ Nth(I, i) >= n
      BY <1>2
    <2>2. Nth(I, i) \in Nat
      BY <1>0, <2>1, NthType
    <2>. QED BY <2>1, <2>2
  <1>4. i # 0
    <2>0. \A j \in I : ~(j <= 0)
      OBVIOUS
    <2>1. {j \in I : j <= 0} = {}
      BY <2>0
    <2>2. Nth(I, 0) = 0
      BY <2>1, FS_EmptySet DEF Nth
    <2>. QED BY <1>3, <2>2
  <1>5. i - 1 \in Nat /\ Nth(I, i - 1) \in Nat /\ Nth(I, i - 1) < n
    <2>1. i - 1 \in Nat /\ i - 1 \notin T
      BY <1>2, <1>3, <1>4
    <2>2. i - 1 \in Int
      BY <2>1
    <2>3. Nth(I, i - 1) \in Nat
      BY <1>0, <2>2, NthType
    <2>. QED BY <2>1, <2>3
  <1> DEFINE A == {j \in I : j <= i - 1}
             B == {j \in I : j <= i}
  <1>6. Nth(I, i - 1) = Cardinality(A) /\ Nth(I, i) = Cardinality(B)
    BY DEF Nth
  <1>6a. \A j \in I : j \in Int /\ (j <= i <=> j = i \/ j <= i - 1) /\ ~(i <= i - 1)
    BY <1>0, <1>3
  <1>7. i \in I
    <2>1. i \notin I => A = B
      BY <1>6a
    <2> HIDE DEF A, B
    <2>. QED BY <1>3, <1>5, <1>6, <2>1
  <1>8. Cardinality(B) = Cardinality(A) + 1
    <2>1. B = A \union {i} /\ i \notin A /\ A \subseteq I
      BY <1>3, <1>6a, <1>7
    <2> HIDE DEF A, B
    <2>2. IsFiniteSet(A)
      BY <1>0, <2>1, FS_Subset
    <2>. QED BY <2>1, <2>2, FS_AddElement
  <1> HIDE DEF A, B
  <1>. QED BY <1>3, <1>5, <1>6, <1>7, <1>8

\* What Selected puts where.
LEMMA SelectedAt ==
    ASSUME NEW s, NEW I, IsFiniteSet(I), I \subseteq Int, NEW i \in I
    PROVE  Nth(I, i) \in 1 .. Cardinality(I) /\ Selected(s, I)[Nth(I, i)] = s[i]
  <1>0. IsFiniteSet(I) /\ I \subseteq Int /\ Cardinality(I) \in Nat
    BY FS_CardinalityType
  <1>1. i \in Int /\ i - 1 \in Int /\ i - 1 < i
    BY <1>0
  <1>2. Nth(I, i - 1) < Nth(I, i) /\ Nth(I, i - 1) \in Nat /\ Nth(I, i) \in Nat
        /\ Nth(I, i) <= Cardinality(I)
    BY <1>0, <1>1, NthGrows, NthType
  <1>3. Nth(I, i) \in 1 .. Cardinality(I)
    BY <1>0, <1>2
  <1> DEFINE k == CHOOSE j \in I : Nth(I, j) = Nth(I, i)
  <1>4. k \in I /\ Nth(I, k) = Nth(I, i)
    OBVIOUS
  <1>5. k = i
    <2> HIDE DEF k
    <2>. QED BY <1>0, <1>4, NthIsOne
  <1>6. Selected(s, I)[Nth(I, i)] = s[k]
    BY <1>3 DEF Selected
  <1>. QED BY <1>3, <1>5, <1>6

\* What a selection puts where.
Puts(seq, I) ==
    /\ IsFiniteSet(I) /\ Cardinality(I) \in Nat
    /\ DOMAIN Selected(seq, I) = 1 .. Cardinality(I)
    /\ \A i \in I : Nth(I, i) \in 1 .. Cardinality(I) /\ Selected(seq, I)[Nth(I, i)] = seq[i]
    /\ \A n \in 1 .. Cardinality(I) : \E i \in I : Nth(I, i) = n

LEMMA SelectionPuts ==
    ASSUME NEW s, NEW m \in Nat, NEW I, I \subseteq 1 .. m
    PROVE  Puts(s, I)
  <1>0. IsFiniteSet(I) /\ Cardinality(I) \in Nat /\ I \subseteq Int
    <2>1. IsFiniteSet(1 .. m)
      BY FS_Interval
    <2>2. IsFiniteSet(I)
      BY <2>1, FS_Subset
    <2>. QED BY <2>2, FS_CardinalityType
  <1>1. \A n \in 1 .. Cardinality(I) : \E i \in I : Nth(I, i) = n
    BY NthExists
  <1>2. ASSUME NEW i \in I
        PROVE  Nth(I, i) \in 1 .. Cardinality(I) /\ Selected(s, I)[Nth(I, i)] = s[i]
    BY <1>0, SelectedAt
  <1>3. DOMAIN Selected(s, I) = 1 .. Cardinality(I)
    BY DEF Selected
  <1>. QED BY <1>0, <1>1, <1>2, <1>3 DEF Puts

LEMMA SelectedPuts ==
    ASSUME NEW s, NEW m \in Nat, NEW I, I \subseteq 1 .. m
    PROVE  /\ IsFiniteSet(I) /\ Cardinality(I) \in Nat
           /\ DOMAIN Selected(s, I) = 1 .. Cardinality(I)
           /\ \A i \in I : Nth(I, i) \in 1 .. Cardinality(I) /\ Selected(s, I)[Nth(I, i)] = s[i]
           /\ \A n \in 1 .. Cardinality(I) : \E i \in I : Nth(I, i) = n
  <1>1. Puts(s, I)
    BY SelectionPuts
  <1>. QED BY <1>1 DEF Puts

-----------------------------------------------------------------------------
\* The texts of a sequence of chunks: where they are, and what one more chunk adds.
LEMMA TextsOf ==
    ASSUME NEW S, NEW chunks \in Seq(S), NEW I, I = Spoken(chunks), NEW k, k = Cardinality(I)
    PROVE  /\ I \subseteq 1 .. Len(chunks) /\ IsFiniteSet(I) /\ k \in Nat
           /\ Texts(chunks) = [n \in 1 .. k |-> Texts(chunks)[n]] /\ DOMAIN Texts(chunks) = 1 .. k
           /\ \A i \in I : Nth(I, i) \in 1 .. k /\ Texts(chunks)[Nth(I, i)] = chunks[i].text
           /\ \A n \in 1 .. k : \E i \in I : Nth(I, i) = n
  <1>1. I \subseteq 1 .. Len(chunks) /\ Len(chunks) \in Nat
    BY DEF Spoken
  <1> DEFINE sel == Selected(chunks, I)
  <1>2. /\ IsFiniteSet(I) /\ k \in Nat /\ DOMAIN sel = 1 .. k
        /\ \A i \in I : Nth(I, i) \in 1 .. k /\ sel[Nth(I, i)] = chunks[i]
        /\ \A n \in 1 .. k : \E i \in I : Nth(I, i) = n
    BY <1>1, SelectedPuts
  <1>3. Texts(chunks) = [n \in DOMAIN sel |-> sel[n].text]
    BY DEF Texts
  <1> HIDE DEF sel
  <1>4. Texts(chunks) = [n \in 1 .. k |-> sel[n].text]
    BY <1>2, <1>3
  <1>5. \A n \in 1 .. k : Texts(chunks)[n] = sel[n].text
    BY <1>4
  <1>6. \A i \in I : Texts(chunks)[Nth(I, i)] = chunks[i].text
    BY <1>2, <1>5
  <1>7. Texts(chunks) = [n \in 1 .. k |-> Texts(chunks)[n]] /\ DOMAIN Texts(chunks) = 1 .. k
    BY <1>4
  <1>. QED BY <1>1, <1>2, <1>6, <1>7

LEMMA AppendIs ==
    ASSUME NEW S, NEW chunks \in Seq(S), NEW x
    PROVE  /\ Append(chunks, x) \in Seq(S \union {x}) /\ Len(Append(chunks, x)) = Len(chunks) + 1
           /\ Len(chunks) \in Nat
           /\ \A i \in 1 .. Len(chunks) : Append(chunks, x)[i] = chunks[i]
           /\ Append(chunks, x)[Len(chunks) + 1] = x
           /\ DOMAIN Append(chunks, x) = 1 .. Len(chunks) + 1
  OBVIOUS

LEMMA TextsStay ==
    ASSUME NEW S, NEW chunks \in Seq(S), NEW x, x.text = Absent
    PROVE  Texts(Append(chunks, x)) = Texts(chunks)
  <1> DEFINE more == Append(chunks, x)
             I == Spoken(chunks)
             k == Cardinality(I)
  <1>1. /\ more \in Seq(S \union {x}) /\ Len(more) = Len(chunks) + 1 /\ Len(chunks) \in Nat
        /\ \A i \in 1 .. Len(chunks) : more[i] = chunks[i]
        /\ more[Len(chunks) + 1] = x
    BY AppendIs
  <1> HIDE DEF more
  <1>2. Spoken(more) = I
    <2>1. DOMAIN more = 1 .. Len(chunks) + 1 /\ DOMAIN chunks = 1 .. Len(chunks)
      BY <1>1
    <2>2. DOMAIN more = DOMAIN chunks \union {Len(chunks) + 1}
      BY <1>1, <2>1
    <2>. QED BY <1>1, <2>1, <2>2 DEF Spoken
  <1> HIDE DEF I
  <1>3. /\ I \subseteq 1 .. Len(chunks)
        /\ Texts(chunks) = [n \in 1 .. k |-> Texts(chunks)[n]]
        /\ \A i \in I : Nth(I, i) \in 1 .. k /\ Texts(chunks)[Nth(I, i)] = chunks[i].text
        /\ \A n \in 1 .. k : \E i \in I : Nth(I, i) = n
    BY TextsOf DEF I
  <1>4. /\ Texts(more) = [n \in 1 .. k |-> Texts(more)[n]]
        /\ \A i \in I : Nth(I, i) \in 1 .. k /\ Texts(more)[Nth(I, i)] = more[i].text
    BY <1>1, <1>2, TextsOf
  <1> HIDE DEF k
  <1>5. ASSUME NEW n \in 1 .. k PROVE Texts(more)[n] = Texts(chunks)[n]
    <2>1. PICK i \in I : Nth(I, i) = n
      BY <1>3
    <2>2. i \in 1 .. Len(chunks) /\ more[i] = chunks[i]
      BY <1>1, <1>3
    <2>3. Texts(chunks)[n] = chunks[i].text
      BY <1>3, <2>1
    <2>4. Texts(more)[n] = more[i].text
      BY <1>4, <2>1
    <2>. QED BY <2>2, <2>3, <2>4
  <1>6. Texts(more) = Texts(chunks)
    BY <1>3, <1>4, <1>5
  <1>. QED BY <1>6 DEF more

\* texts with one more at the end.
OneMore(texts, text) ==
    [n \in 1 .. Cardinality(DOMAIN texts) + 1 |-> IF n \in DOMAIN texts THEN texts[n] ELSE text]

LEMMA TextsGrow ==
    ASSUME NEW S, NEW chunks \in Seq(S), NEW x, x.text # Absent
    PROVE  Texts(Append(chunks, x)) = OneMore(Texts(chunks), x.text)
  <1> DEFINE more == Append(chunks, x)
             last == Len(chunks) + 1
             I == Spoken(chunks)
             J == Spoken(more)
             k == Cardinality(I)
  <1>1. /\ more \in Seq(S \union {x}) /\ Len(more) = last /\ Len(chunks) \in Nat
        /\ \A i \in 1 .. Len(chunks) : more[i] = chunks[i]
        /\ more[last] = x
    BY AppendIs
  <1> HIDE DEF more
  <1>2. J = I \union {last} /\ last \notin I
    <2>1. DOMAIN more = 1 .. Len(chunks) + 1 /\ DOMAIN chunks = 1 .. Len(chunks)
      BY <1>1
    <2>2. DOMAIN more = DOMAIN chunks \union {last} /\ last \notin DOMAIN chunks
      BY <1>1, <2>1
    <2>. QED BY <1>1, <2>1, <2>2 DEF Spoken
  <1>3. /\ I \subseteq 1 .. Len(chunks) /\ IsFiniteSet(I) /\ k \in Nat
        /\ DOMAIN Texts(chunks) = 1 .. k
        /\ \A i \in I : Nth(I, i) \in 1 .. k /\ Texts(chunks)[Nth(I, i)] = chunks[i].text
        /\ \A n \in 1 .. k : \E i \in I : Nth(I, i) = n
    BY TextsOf
  <1> HIDE DEF I, J, k, last
  <1>4. Cardinality(J) = k + 1
    <2>1. Cardinality(I \union {last}) = Cardinality(I) + 1
      BY <1>2, <1>3, FS_AddElement
    <2>. QED BY <1>2, <2>1 DEF k
  <1>5. /\ Texts(more) = [n \in 1 .. k + 1 |-> Texts(more)[n]]
        /\ \A i \in J : Texts(more)[Nth(J, i)] = more[i].text
    BY <1>1, <1>4, TextsOf DEF J
  <1>6. Cardinality(DOMAIN Texts(chunks)) = k
    <2>1. Cardinality(1 .. k) = IF 1 > k THEN 0 ELSE k - 1 + 1
      BY <1>3, FS_Interval
    <2>. QED BY <1>3, <2>1
  <1>7. /\ \A i \in I : i \in 1 .. Len(chunks) /\ i \in Int /\ i < last
        /\ last \in Int
    BY <1>1, <1>3 DEF last
  <1>8. ASSUME NEW i \in I PROVE Nth(J, i) = Nth(I, i)
    <2>1. {j \in J : j <= i} = {j \in I : j <= i}
      BY <1>2, <1>7
    <2>. QED BY <2>1 DEF Nth
  <1>9. Nth(J, last) = k + 1
    <2>0. \A j \in J : j <= last
      BY <1>2, <1>7
    <2>1. {j \in J : j <= last} = J
      BY <2>0
    <2>. QED BY <2>1, <1>4 DEF Nth
  <1>10. ASSUME NEW n \in 1 .. k + 1
         PROVE  Texts(more)[n] = IF n \in 1 .. k THEN Texts(chunks)[n] ELSE x.text
    <2>1. CASE n \in 1 .. k
      <3>1. PICK i \in I : Nth(I, i) = n
        BY <1>3, <2>1
      <3>2. Texts(more)[n] = more[i].text /\ more[i] = chunks[i] /\ Texts(chunks)[n] = chunks[i].text
        BY <1>1, <1>2, <1>3, <1>5, <1>7, <1>8, <3>1
      <3>. QED BY <2>1, <3>2
    <2>2. CASE n \notin 1 .. k
      <3>1. n = k + 1
        BY <1>3, <2>2
      <3>2. Texts(more)[k + 1] = more[last].text
        BY <1>2, <1>5, <1>9
      <3>. QED BY <1>1, <2>2, <3>1, <3>2
    <2>. QED BY <2>1, <2>2
  <1>11. OneMore(Texts(chunks), x.text) = [n \in 1 .. k + 1 |-> IF n \in 1 .. k THEN Texts(chunks)[n] ELSE x.text]
    BY <1>3, <1>6 DEF OneMore
  <1>12. Texts(more) = OneMore(Texts(chunks), x.text)
    BY <1>5, <1>10, <1>11
  <1>. QED BY <1>12 DEF more

-----------------------------------------------------------------------------
\* The part of the invariant about the engine of the mock.
EngineOK ==
    /\ overrides = [p \in DOMAIN overrides |-> overrides[p]]
    /\ \A p \in DOMAIN overrides : p \in Pairs /\ DOMAIN overrides[p] = DOMAIN Unset
    /\ stats \in [requests : 0 .. MaxRequests, errors : 0 .. MaxRequests, limits : 0 .. MaxRequests]
    /\ due \in 0 .. MaxRequests
    /\ ordered \in [Pairs -> 0 .. MaxForced]
    /\ CountersAddUp
    /\ OneShotAnswersOnce

\* What the engine needs to know of the handlers.
ServerOK ==
    /\ server = [s \in Slots |-> server[s]]
    /\ \A s \in Slots : server[s] = Idle \/ IsHandler(server[s])

LEMMA InHandIsFinite == IsFiniteSet(InHand) /\ Cardinality(InHand) \in Nat
  <1>1. InHand \subseteq Slots /\ IsFiniteSet(Slots)
    BY ProvidersAssumption DEF InHand
  <1>2. IsFiniteSet(InHand)
    BY <1>1, FS_Subset
  <1>. QED BY <1>2, FS_CardinalityType

\* An order changes the fields it names of one pair; if it is to refuse the next
\* call it is counted.
LEMMA SetKeepsEngine ==
    ASSUME EngineOK, NEW o, o.pair \in Pairs, Set(o)
    PROVE  EngineOK'
  <1>0. MaxForced \in Nat
    BY ProvidersAssumption
  <1>1. /\ overrides' = [p \in DOMAIN overrides \union {o.pair} |->
                           IF p = o.pair THEN Over(o.fields, Get(p)) ELSE overrides[p]]
        /\ DOMAIN overrides' = DOMAIN overrides \union {o.pair}
    BY DEF Set
  <1>2. DOMAIN Get(o.pair) = DOMAIN Unset /\ DOMAIN Over(o.fields, Get(o.pair)) = DOMAIN Unset
    BY DEF EngineOK, Get, Over
  <1>3. \A p \in DOMAIN overrides' : p \in Pairs /\ DOMAIN overrides'[p] = DOMAIN Unset
    BY <1>1, <1>2 DEF EngineOK
  <1>4. overrides' = [p \in DOMAIN overrides' |-> overrides'[p]]
    BY <1>1
  <1> DEFINE forces == "force" \in DOMAIN o.fields /\ Refuses(o.fields.force)
  <1>5. /\ ordered' = [ordered EXCEPT ![o.pair] = IF forces THEN @ + 1 ELSE @]
        /\ forces => ordered[o.pair] < MaxForced
        /\ UNCHANGED <<stats, server, wire, due>>
    BY DEF Set
  <1>6. ordered' \in [Pairs -> 0 .. MaxForced]
    BY <1>0, <1>5 DEF EngineOK
  <1>7. CountersAddUp'
    BY <1>5 DEF EngineOK, CountersAddUp, InHand
  <1>8. ASSUME NEW p \in Pairs
        PROVE  ordered'[p] >= IF Refuses(Get(p).force)' THEN 1 ELSE 0
    <2>1. ordered[p] \in 0 .. MaxForced /\ ordered[p] >= IF Refuses(Get(p).force) THEN 1 ELSE 0
      BY DEF EngineOK, OneShotAnswersOnce
    <2>2. CASE p # o.pair
      <3>1. ordered'[p] = ordered[p]
        BY <2>2, <1>5 DEF EngineOK
      <3>2. Get(p)' = Get(p)
        BY <2>2, <1>1 DEF Get
      <3>. QED BY <2>1, <3>1, <3>2 DEF Refuses
    <2>3. CASE p = o.pair
      <3>1. Get(p)' = Over(o.fields, Get(p))
        BY <2>3, <1>1 DEF Get
      <3>2. Get(p)'.force = IF "force" \in DOMAIN o.fields THEN o.fields.force ELSE Get(p).force
        BY <2>3, <3>1, <1>2 DEF Over, Unset
      <3>3. ordered'[p] = IF forces THEN ordered[p] + 1 ELSE ordered[p]
        BY <2>3, <1>5 DEF EngineOK
      <3>4. CASE forces
        BY <3>3, <3>4, <1>0, <2>1
      <3>5. CASE ~forces /\ "force" \in DOMAIN o.fields
        <4>1. ~Refuses(Get(p).force)'
          BY <3>5, <3>2 DEF Refuses
        <4>. QED BY <3>3, <3>5, <4>1, <2>1
      <3>6. CASE "force" \notin DOMAIN o.fields
        <4>1. Refuses(Get(p).force)' <=> Refuses(Get(p).force)
          BY <3>6, <3>2 DEF Refuses
        <4>. QED BY <3>3, <3>6, <4>1, <2>1
      <3>. QED BY <3>4, <3>5, <3>6
    <2>. QED BY <2>2, <2>3
  <1>9. OneShotAnswersOnce'
    BY <1>8 DEF OneShotAnswersOnce
  <1>. QED BY <1>3, <1>4, <1>5, <1>6, <1>7, <1>9 DEF EngineOK

\* After a reset the counters have to end up with the calls still in hand.
LEMMA ResetKeepsEngine ==
    ASSUME EngineOK, Reset
    PROVE  EngineOK'
  <1>0. MaxForced \in Nat /\ MaxRequests \in Nat
    BY ProvidersAssumption
  <1>1. /\ overrides' = <<>> /\ stats' = NoStats /\ due' = Cardinality(InHand)
        /\ ordered' = [p \in Pairs |-> 0] /\ UNCHANGED <<server, wire>>
    BY DEF Reset
  <1>2. DOMAIN overrides' = {} /\ overrides' = [p \in DOMAIN overrides' |-> overrides'[p]]
    BY <1>1
  <1>3. stats' \in [requests : 0 .. MaxRequests, errors : 0 .. MaxRequests, limits : 0 .. MaxRequests]
    BY <1>0, <1>1 DEF NoStats
  <1>4. due' \in 0 .. MaxRequests
    BY <1>0, <1>1, InHandIsFinite DEF EngineOK, CountersAddUp
  <1>5. ordered' \in [Pairs -> 0 .. MaxForced]
    BY <1>0, <1>1
  <1>6. InHand' = InHand
    BY <1>1 DEF InHand
  <1>7. CountersAddUp'
    BY <1>1, <1>6, InHandIsFinite DEF CountersAddUp, NoStats
  <1>8. OneShotAnswersOnce'
    BY <1>1, <1>2 DEF OneShotAnswersOnce, Get, Unset, Refuses
  <1>. QED BY <1>2, <1>3, <1>4, <1>5, <1>7, <1>8 DEF EngineOK

\* A call that arrives is in hand and has to be counted.
LEMMA ArriveKeepsEngine ==
    ASSUME EngineOK, ServerOK, NEW s \in Slots, NEW p, NEW body, Arrive(s, p, body)
    PROVE  EngineOK'
  <1>0. MaxRequests \in Nat
    BY ProvidersAssumption
  <1>1. /\ server[s] = Idle /\ due < MaxRequests /\ due' = due + 1
        /\ server' = [server EXCEPT ![s] = [pc |-> "arrived", pair |-> p, body |-> body]]
        /\ UNCHANGED <<overrides, stats, ordered>>
    BY DEF Arrive
  <1>2. InHand' = InHand \union {s} /\ s \notin InHand
    <2>1. /\ server'[s].pc = "arrived" /\ server[s].pc = "idle"
          /\ \A t \in Slots \ {s} : server'[t] = server[t]
      BY <1>1 DEF ServerOK, Idle
    <2>. QED BY <2>1 DEF InHand
  <1>3. Cardinality(InHand') = Cardinality(InHand) + 1
    BY <1>2, InHandIsFinite, FS_AddElement
  <1>4. due' \in 0 .. MaxRequests
    BY <1>0, <1>1 DEF EngineOK
  <1>5. CountersAddUp'
    BY <1>1, <1>3, InHandIsFinite DEF EngineOK, CountersAddUp
  <1>6. OneShotAnswersOnce'
    BY <1>1 DEF EngineOK, OneShotAnswersOnce, Get
  <1>. QED BY <1>1, <1>4, <1>5, <1>6 DEF EngineOK

\* What becomes of the counters when a call leaves the hand: it is counted once, as an
\* error, as a limit or neither, or its route raised and it is not to be counted.
Settled ==
    \/ /\ \E error, limit \in {0, 1} : error + limit <= 1 /\ stats' = Recorded(error, limit)
       /\ due' = due
    \/ stats' = stats /\ due' = due - 1

LEMMA CountedOnce ==
    ASSUME EngineOK, ServerOK, NEW s \in InHand, s \notin InHand', InHand' \union {s} = InHand, Settled
    PROVE  /\ stats' \in [requests : 0 .. MaxRequests, errors : 0 .. MaxRequests, limits : 0 .. MaxRequests]
           /\ due' \in 0 .. MaxRequests
           /\ CountersAddUp'
  <1>0. MaxRequests \in Nat
    BY ProvidersAssumption
  <1>1. IsFiniteSet(InHand') /\ Cardinality(InHand') \in Nat
    <2>1. InHand' \subseteq InHand
      OBVIOUS
    <2>2. IsFiniteSet(InHand')
      BY <2>1, InHandIsFinite, FS_Subset
    <2>. QED BY <2>2, FS_CardinalityType
  <1>2. Cardinality(InHand) = Cardinality(InHand') + 1
    <2>1. Cardinality(InHand' \union {s}) = Cardinality(InHand') + 1
      BY <1>1, FS_AddElement
    <2>. QED BY <2>1
  <1>3. /\ stats.requests \in 0 .. MaxRequests /\ stats.errors \in 0 .. MaxRequests
        /\ stats.limits \in 0 .. MaxRequests /\ due \in 0 .. MaxRequests
        /\ stats.requests + Cardinality(InHand) = due
        /\ stats.errors + stats.limits <= stats.requests
    BY DEF EngineOK, CountersAddUp
  <1>4. CASE due' = due /\ \E error, limit \in {0, 1} : error + limit <= 1 /\ stats' = Recorded(error, limit)
    <2>1. PICK error \in {0, 1}, limit \in {0, 1} : error + limit <= 1 /\ stats' = Recorded(error, limit)
      BY <1>4
    <2>2. stats' = [requests |-> stats.requests + 1, errors |-> stats.errors + error,
                    limits |-> stats.limits + limit]
      BY <2>1 DEF Recorded
    <2>3. /\ stats.requests + 1 \in 0 .. MaxRequests /\ stats.errors + error \in 0 .. MaxRequests
          /\ stats.limits + limit \in 0 .. MaxRequests
          /\ stats.errors + error + (stats.limits + limit) <= stats.requests + 1
          /\ stats.requests + 1 + Cardinality(InHand') = due
      BY <1>0, <1>1, <1>2, <1>3, <2>1
    <2>4. stats' \in [requests : 0 .. MaxRequests, errors : 0 .. MaxRequests, limits : 0 .. MaxRequests]
      BY <2>2, <2>3
    <2>5. CountersAddUp'
      BY <1>4, <2>2, <2>3 DEF CountersAddUp
    <2>. QED BY <1>3, <1>4, <2>4, <2>5
  <1>5. CASE stats' = stats /\ due' = due - 1
    <2>1. due' \in 0 .. MaxRequests /\ stats.requests + Cardinality(InHand') = due'
      BY <1>0, <1>1, <1>2, <1>3, <1>5
    <2>2. stats' \in [requests : 0 .. MaxRequests, errors : 0 .. MaxRequests, limits : 0 .. MaxRequests]
      BY <1>5 DEF EngineOK
    <2>3. CountersAddUp'
      BY <1>3, <1>5, <2>1 DEF CountersAddUp
    <2>. QED BY <2>1, <2>2, <2>3
  <1>. QED BY <1>4, <1>5 DEF Settled

\* The handler of a call ends, or goes on to stream.
Leaves(s) ==
    \/ server' = [server EXCEPT ![s] = Idle]
    \/ server' = [server EXCEPT ![s].pc = "streaming"]

LEMMA LeavesTheHand ==
    ASSUME ServerOK, NEW s \in InHand, Leaves(s)
    PROVE  s \notin InHand' /\ InHand' \union {s} = InHand
  <1>1. s \in Slots /\ server[s].pc \in {"arrived", "asleep"}
    BY DEF InHand
  <1>2. \A t \in Slots \ {s} : server'[t] = server[t]
    BY DEF Leaves, ServerOK
  <1>3. server'[s].pc \in {"idle", "streaming"}
    <2>1. IsHandler(server[s])
      BY <1>1 DEF ServerOK, Idle
    <2>2. server[s] = [pc |-> server[s].pc, pair |-> server[s].pair, body |-> server[s].body]
      BY <2>1 DEF IsHandler
    <2>. QED BY <1>1, <2>2 DEF Leaves, ServerOK, Idle
  <1>. QED BY <1>1, <1>2, <1>3 DEF InHand

LEMMA RefuseLeaves ==
    ASSUME NEW s \in Slots, NEW status, Refuse(s, status)
    PROVE  Leaves(s) /\ Settled
  <1>1. stats' = Recorded(0, 1) \/ stats' = Recorded(1, 0)
    BY DEF Refuse
  <1>2. 0 + 1 <= 1 /\ 1 + 0 <= 1
    OBVIOUS
  <1>3. due' = due /\ \E error, limit \in {0, 1} : error + limit <= 1 /\ stats' = Recorded(error, limit)
    BY <1>1, <1>2 DEF Refuse
  <1>. QED BY <1>3 DEF Refuse, Leaves, Settled

LEMMA RespondLeaves ==
    ASSUME NEW s \in Slots, Respond(s)
    PROVE  Leaves(s) /\ Settled
  <1>1. 0 + 0 <= 1
    OBVIOUS
  <1>2. CASE Raise500(s)
    BY <1>2 DEF Raise500, Leaves, Settled
  <1>3. CASE stats' = Recorded(0, 0) /\ SendAnswer(s) /\ UNCHANGED due
    <2>1. due' = due /\ \E error, limit \in {0, 1} : error + limit <= 1 /\ stats' = Recorded(error, limit)
      BY <1>1, <1>3
    <2>. QED BY <1>3, <2>1 DEF SendAnswer, Leaves, Settled
  <1>. QED BY <1>2, <1>3 DEF Respond

LEMMA WakeKeepsEngine ==
    ASSUME EngineOK, ServerOK, NEW s \in Slots, Wake(s)
    PROVE  EngineOK'
  <1>1. s \in InHand /\ Respond(s) /\ UNCHANGED <<overrides, ordered>>
    BY DEF Wake, Asleep, InHand
  <1>2. s \notin InHand' /\ InHand' \union {s} = InHand
    BY <1>1, RespondLeaves, LeavesTheHand
  <1>3. Settled
    BY <1>1, RespondLeaves
  <1>4. /\ stats' \in [requests : 0 .. MaxRequests, errors : 0 .. MaxRequests, limits : 0 .. MaxRequests]
        /\ due' \in 0 .. MaxRequests
        /\ CountersAddUp'
    BY <1>1, <1>2, <1>3, CountedOnce
  <1>5. OneShotAnswersOnce'
    BY <1>1 DEF EngineOK, OneShotAnswersOnce, Get
  <1>. QED BY <1>1, <1>4, <1>5 DEF EngineOK

\* A forced status is taken whatever becomes of the call; the order it was is settled
\* when the call is refused with it.
LEMMA InjectKeepsEngine ==
    ASSUME EngineOK, ServerOK, NEW s \in Slots, NEW p \in Pairs, p = server[s].pair, MaybeInjectError(s)
    PROVE  EngineOK'
  <1> DEFINE forced == Get(p).force
  <1>0. MaxForced \in Nat
    BY ProvidersAssumption
  <1>1. /\ server[s].pc = "arrived" /\ overrides' = Taken(p)
        /\ s \in InHand
    BY DEF MaybeInjectError, InHand
  <1>2. \/ Refuses(forced) /\ Refuse(s, forced) /\ ordered' = [ordered EXCEPT ![p] = @ - 1]
        \/ ~Refuses(forced) /\ ordered' = ordered
    BY DEF MaybeInjectError
  <1>3. \/ \E status : Refuse(s, status)
        \/ Respond(s)
        \/ server' = [server EXCEPT ![s].pc = "asleep"] /\ UNCHANGED <<stats, due>>
    BY DEF MaybeInjectError
  <1>4. overrides' = [q \in DOMAIN overrides' |-> overrides'[q]] /\ DOMAIN overrides' = DOMAIN overrides
    BY <1>1 DEF Taken, EngineOK
  <1>5. \A q \in DOMAIN overrides' : q \in Pairs /\ DOMAIN overrides'[q] = DOMAIN Unset
    BY <1>1, <1>4 DEF Taken, EngineOK
  <1>6. Get(p)'.force = Absent
    BY <1>1, <1>4, <1>5 DEF Taken, EngineOK, Get, Unset
  <1>7. \A q \in Pairs \ {p} : Get(q)' = Get(q)
    BY <1>1, <1>4 DEF Taken, EngineOK, Get
  <1>8. ordered' \in [Pairs -> 0 .. MaxForced]
    <2>1. ordered[p] \in 0 .. MaxForced /\ (Refuses(forced) => ordered[p] >= 1)
      BY <1>0 DEF EngineOK, OneShotAnswersOnce
    <2>. QED BY <1>0, <1>2, <2>1 DEF EngineOK
  <1>9. OneShotAnswersOnce'
    <2> SUFFICES ASSUME NEW q \in Pairs
                 PROVE  ordered'[q] >= IF Refuses(Get(q).force)' THEN 1 ELSE 0
      BY DEF OneShotAnswersOnce
    <2>1. CASE q = p
      <3>1. ~Refuses(Get(q).force)'
        BY <2>1, <1>6 DEF Refuses
      <3>. QED BY <1>0, <1>8, <3>1
    <2>2. CASE q # p
      <3>1. ordered'[q] = ordered[q]
        BY <2>2, <1>2 DEF EngineOK
      <3>2. Refuses(Get(q).force)' <=> Refuses(Get(q).force)
        BY <2>2, <1>7 DEF Refuses
      <3>3. ordered[q] >= IF Refuses(Get(q).force) THEN 1 ELSE 0
        BY DEF EngineOK, OneShotAnswersOnce
      <3>. QED BY <3>1, <3>2, <3>3
    <2>. QED BY <2>1, <2>2
  <1>10. /\ stats' \in [requests : 0 .. MaxRequests, errors : 0 .. MaxRequests, limits : 0 .. MaxRequests]
         /\ due' \in 0 .. MaxRequests
         /\ CountersAddUp'
    <2>1. CASE (\E status : Refuse(s, status)) \/ Respond(s)
      <3>1. Leaves(s) /\ Settled
        BY <2>1, RefuseLeaves, RespondLeaves
      <3>2. s \notin InHand' /\ InHand' \union {s} = InHand
        BY <1>1, <3>1, LeavesTheHand
      <3>. QED BY <1>1, <3>1, <3>2, CountedOnce
    <2>2. CASE server' = [server EXCEPT ![s].pc = "asleep"] /\ UNCHANGED <<stats, due>>
      <3>1. \A t \in Slots \ {s} : server'[t] = server[t]
        BY <2>2 DEF ServerOK
      <3>2. server'[s].pc = "asleep"
        <4>1. IsHandler(server[s])
          BY <1>1 DEF ServerOK, Idle
        <4>. QED BY <2>2, <4>1 DEF IsHandler, ServerOK
      <3>3. InHand' = InHand
        BY <1>1, <3>1, <3>2 DEF InHand
      <3>. QED BY <1>1, <2>2, <3>3 DEF EngineOK, CountersAddUp
    <2>. QED BY <1>3, <2>1, <2>2
  <1>. QED BY <1>1, <1>4, <1>5, <1>8, <1>9, <1>10 DEF EngineOK

\* What only streams or hangs up is not counted.
LEMMA EngineRests ==
    ASSUME EngineOK, UNCHANGED engine, InHand' = InHand
    PROVE  EngineOK'
  <1>1. UNCHANGED <<overrides, stats, due, ordered>>
    BY DEF engine
  <1>2. CountersAddUp' /\ OneShotAnswersOnce'
    BY <1>1 DEF EngineOK, CountersAddUp, OneShotAnswersOnce, Get
  <1>. QED BY <1>1, <1>2 DEF EngineOK

-----------------------------------------------------------------------------
\* The part of the invariant about one slot: its handler, what is on the wire, and the
\* call of its client.
SlotGood(c, handler, sent, call) ==
    LET job == call.job  p == Pair(job)  body == Body(job) IN
    /\ handler = Idle \/ IsHandler(handler)
    /\ call = Free \/ IsCall(c, call)
    /\ (call = Free \/ handler.pc \in {"arrived", "asleep"} \/ ~Reaches(job)) => sent = <<>>
    /\ handler # Idle =>
         /\ call # Free /\ call.pc \in {"waiting", "gone"} /\ Reaches(job)
         /\ handler.pair = p /\ handler.body = body
    /\ handler.pc = "streaming" =>
         IsStream(p, body) /\ \E n \in 1 .. Len(Whole(p)) : sent = Streamed(p, n)
    /\ (call # Free /\ Reaches(job) /\ handler = Idle) =>
         \/ Refused(sent)
         \/ /\ ~IsStream(p, body) /\ ~Raises(p, body)
            /\ sent = <<200, [body |-> Response(p, body)]>>
         \/ /\ IsStream(p, body)
            /\ \E n \in 1 .. Len(Whole(p)) + 1 :
                 /\ sent = Streamed(p, n)
                 /\ call.pc # "gone" => n = Len(Whole(p)) + 1
    /\ call # Free =>
         /\ call.pc = "gone" => IsRaw(job)
         /\ (call.pc = "done" /\ job.kind \in {"raw", "complete"} /\ AtMock(job)) => sent[1] = 200
         /\ (call.pc = "done" /\ job.kind = "complete") =>
              IF AtMock(job) THEN call.got = Understand(job.adapter, Response(p, body))
              ELSE call.heard \in Allowed(job.adapter) /\ call.got = Understand(job.adapter, call.heard)

SlotsOK ==
    /\ server = [s \in Slots |-> server[s]] /\ wire = [s \in Slots |-> wire[s]]
    /\ client = [s \in Slots |-> client[s]]
    /\ \A c \in Slots : SlotGood(c, server[c], wire[c], client[c])

LEMMA InvariantInParts == (ProvidersInv /\ OneShotAnswersOnce) <=> (EngineOK /\ SlotsOK /\ registry \in {{}, Adapters})
  <1>1. \A c \in Slots : c \in InHand <=> server[c].pc \in {"arrived", "asleep"}
    BY DEF InHand
  <1>2. SlotsOK => WireIsAnswer /\ ClientHasAnswer
    <2> HAVE SlotsOK
    <2>1. WireIsAnswer
      BY <1>1 DEF SlotsOK, SlotGood, WireIsAnswer
    <2>2. ClientHasAnswer
      BY <1>1 DEF SlotsOK, SlotGood, ClientHasAnswer
    <2>. QED BY <2>1, <2>2
  <1>3. (TypeOK /\ WireIsAnswer /\ ClientHasAnswer) => SlotsOK
    <2> HAVE TypeOK /\ WireIsAnswer /\ ClientHasAnswer
    <2>1. ASSUME NEW c \in Slots PROVE SlotGood(c, server[c], wire[c], client[c])
      BY <1>1 DEF TypeOK, WireIsAnswer, ClientHasAnswer, SlotGood
    <2>. QED BY <2>1 DEF SlotsOK, TypeOK
  <1>4. TypeOK /\ CountersAddUp /\ OneShotAnswersOnce => EngineOK /\ registry \in {{}, Adapters}
    BY DEF TypeOK, EngineOK
  <1>5. EngineOK /\ SlotsOK /\ registry \in {{}, Adapters} => TypeOK /\ CountersAddUp /\ OneShotAnswersOnce
    BY DEF TypeOK, EngineOK, SlotsOK, SlotGood
  <1>. QED BY <1>2, <1>3, <1>4, <1>5 DEF ProvidersInv

LEMMA SlotsAreServed == SlotsOK => ServerOK
  BY DEF SlotsOK, SlotGood, ServerOK

\* A step that touches one slot.
LEMMA OneSlotMoves ==
    ASSUME SlotsOK, NEW c \in Slots, NEW handler, NEW sent, NEW call,
           server' = [server EXCEPT ![c] = handler], wire' = [wire EXCEPT ![c] = sent],
           client' = [client EXCEPT ![c] = call], SlotGood(c, handler, sent, call)
    PROVE  SlotsOK'
  <1>1. /\ server' = [s \in Slots |-> IF s = c THEN handler ELSE server[s]]
        /\ wire' = [s \in Slots |-> IF s = c THEN sent ELSE wire[s]]
        /\ client' = [s \in Slots |-> IF s = c THEN call ELSE client[s]]
    BY DEF SlotsOK
  <1>2. /\ server' = [s \in Slots |-> server'[s]] /\ wire' = [s \in Slots |-> wire'[s]]
        /\ client' = [s \in Slots |-> client'[s]]
    BY <1>1
  <1>3. ASSUME NEW s \in Slots PROVE SlotGood(s, server'[s], wire'[s], client'[s])
    <2>1. CASE s = c
      BY <2>1, <1>1
    <2>2. CASE s # c
      <3>1. SlotGood(s, server[s], wire[s], client[s])
        BY DEF SlotsOK
      <3>2. server'[s] = server[s] /\ wire'[s] = wire[s] /\ client'[s] = client[s]
        BY <2>2, <1>1
      <3>. QED BY <3>1, <3>2
    <2>. QED BY <2>1, <2>2
  <1>. QED BY <1>2, <1>3 DEF SlotsOK

LEMMA SlotsRest == SlotsOK /\ UNCHANGED <<server, wire, client>> => SlotsOK'
  BY DEF SlotsOK

LEMMA JobsAreJobs == \A c \in Slots : \A job \in Jobs[c] : IsJob(job)
  BY ProvidersAssumption

\* The bodies that adapters send are streamed only by their method stream.
LEMMA BodyOfACompletion ==
    ASSUME NEW job, job.kind \in {"complete", "health"}
    PROVE  ~IsStream(Pair(job), Body(job))
  <1>1. CASE job.kind = "health"
    <2>1. Body(job).stream = FALSE
      BY <1>1 DEF Body, IsRaw, ProbeArgs
    <2>. QED BY <2>1, Zenon DEF IsStream
  <1>2. CASE job.kind = "complete"
    <2>1. Body(job) = Args(job.adapter, job.req, FALSE)
      BY <1>2 DEF Body, IsRaw
    <2>2. OpenAIArgs(job.req, FALSE).stream = FALSE
      BY DEF OpenAIArgs
    <2>3. AnthropicArgs(job.req, FALSE).stream = FALSE
      BY DEF AnthropicArgs
    <2>4. Body(job).stream = FALSE
      BY <2>1, <2>2, <2>3 DEF Args
    <2>. QED BY <2>4, Zenon DEF IsStream
  <1>. QED BY <1>1, <1>2

\* ---------------------------------------------------------------- what is streamed
EventNames ==
    {"role", "word", "finish", "message_start", "content_block_start", "content_block_delta",
     "content_block_stop", "message_delta", "message_stop", "[DONE]"}

LEMMA EventsType == \A p : Events(p) \in Seq(EventNames) /\ Len(Events(p)) \in Nat
  <1>1. ChatEvents \in Seq(EventNames)
    BY DEF ChatEvents, EventNames
  <1>2. MessagesEvents \in Seq(EventNames)
    BY DEF MessagesEvents, EventNames
  <1>. QED BY <1>1, <1>2 DEF Events

LEMMA WholeType ==
    ASSUME NEW p
    PROVE  /\ Whole(p) \in Seq(EventNames) /\ Len(Whole(p)) = Len(Events(p)) + 1
           /\ \A i \in 1 .. Len(Events(p)) : Whole(p)[i] = Events(p)[i]
           /\ Whole(p)[Len(Whole(p))] = "[DONE]"
  <1>1. "[DONE]" \in EventNames
    BY DEF EventNames
  <1>2. Events(p) \in Seq(EventNames)
    BY EventsType
  <1> HIDE DEF EventNames
  <1>. QED BY <1>1, <1>2 DEF Whole

LEMMA StreamedGrows ==
    ASSUME NEW p, NEW n \in Nat, n >= 1
    PROVE  /\ Len(Streamed(p, n)) = n
           /\ Append(Streamed(p, n), [event |-> Whole(p)[n]]) = Streamed(p, n + 1)
  <1> DEFINE Part(i) == IF i = 1 THEN 200 ELSE [event |-> Whole(p)[i - 1]]
             S == {Part(i) : i \in 1 .. n}
  <1>1. Streamed(p, n) = [i \in 1 .. n |-> Part(i)] /\ Streamed(p, n + 1) = [i \in 1 .. n + 1 |-> Part(i)]
    BY DEF Streamed
  <1>2. Part(n + 1) = [event |-> Whole(p)[n]]
    OBVIOUS
  <1> HIDE DEF Part
  <1>3. Streamed(p, n) \in Seq(S) /\ Len(Streamed(p, n)) = n
    BY <1>1
  <1>4. Append(Streamed(p, n), Part(n + 1)) = [i \in 1 .. n + 1 |-> Part(i)]
    <2> HIDE DEF S
    <2>1. Append(Streamed(p, n), Part(n + 1)) = [i \in 1 .. n + 1 |-> IF i <= n THEN Streamed(p, n)[i] ELSE Part(n + 1)]
      BY <1>3
    <2>. QED BY <2>1, <1>1
  <1>. QED BY <1>1, <1>2, <1>3, <1>4

LEMMA StreamedStarts == \A p : Streamed(p, 1) = <<200>>
  BY DEF Streamed

-----------------------------------------------------------------------------
\* Each step that touches a slot leaves it good.
LEMMA SlotFacts ==
    ASSUME SlotsOK, NEW c \in Slots
    PROVE  /\ SlotGood(c, server[c], wire[c], client[c])
           /\ server[c] = Idle \/ IsHandler(server[c])
           /\ client[c] = Free \/ IsCall(c, client[c])
           /\ client[c] # Free => client[c].job \in Jobs[c] /\ IsJob(client[c].job)
  <1>1. SlotGood(c, server[c], wire[c], client[c])
    BY DEF SlotsOK
  <1>2. (server[c] = Idle \/ IsHandler(server[c])) /\ (client[c] = Free \/ IsCall(c, client[c]))
    BY <1>1 DEF SlotGood
  <1>. QED BY <1>1, <1>2, JobsAreJobs DEF IsCall

\* A step of the client alone.
LEMMA ClientMoves ==
    ASSUME SlotsOK, NEW c \in Slots, NEW call, UNCHANGED <<server, wire>>,
           client' = [client EXCEPT ![c] = call], SlotGood(c, server[c], wire[c], call)
    PROVE  SlotsOK'
  <1>1. server = [server EXCEPT ![c] = server[c]] /\ wire = [wire EXCEPT ![c] = wire[c]]
    BY DEF SlotsOK
  <1>2. server' = [server EXCEPT ![c] = server[c]] /\ wire' = [wire EXCEPT ![c] = wire[c]]
    BY <1>1
  <1>. QED BY <1>2, OneSlotMoves

LEMMA CallKeepsSlots ==
    ASSUME SlotsOK, NEW c \in Slots, NEW job \in Jobs[c], Call(c, job)
    PROVE  SlotsOK'
  <1> DEFINE call == [pc |-> "waiting", job |-> job, tries |-> 0, heard |-> <<>>, got |-> <<>>]
             handler == [pc |-> "arrived", pair |-> Pair(job), body |-> Body(job)]
  <1>0. MaxRetries \in Nat /\ SlotGood(c, server[c], wire[c], client[c])
    BY ProvidersAssumption, SlotFacts
  <1>1. client[c] = Free /\ client' = [client EXCEPT ![c] = call]
    BY DEF Call, At
  <1>2. call # Free /\ call.pc = "waiting" /\ call.job = job
    BY DEF Free
  <1>3. IsCall(c, call)
    BY <1>0 DEF IsCall
  <1>4. CASE Reaches(job)
    <2>1. server' = [server EXCEPT ![c] = handler] /\ wire' = [wire EXCEPT ![c] = <<>>]
      BY <1>4 DEF Call, Arrive
    <2>2. handler.pc = "arrived" /\ handler # Idle /\ IsHandler(handler)
      BY DEF Idle, IsHandler
    <2>3. SlotGood(c, handler, <<>>, call)
      BY <1>2, <1>3, <1>4, <2>2 DEF SlotGood
    <2>. QED BY <1>1, <2>1, <2>3, OneSlotMoves
  <1>5. CASE ~Reaches(job)
    <2>1. UNCHANGED <<server, wire>>
      BY <1>5 DEF Call, mockVars
    <2>2. server[c] = Idle /\ wire[c] = <<>> /\ Idle.pc = "idle"
      BY <1>0, <1>1 DEF SlotGood, Idle
    <2>3. SlotGood(c, server[c], wire[c], call)
      BY <1>2, <1>3, <1>5, <2>2 DEF SlotGood
    <2>. QED BY <1>1, <2>1, <2>3, ClientMoves
  <1>. QED BY <1>4, <1>5

\* What Becomes makes of a call.
LEMMA BecomesIs ==
    ASSUME SlotsOK, NEW c \in Slots, client[c] # Free, NEW pc \in {"waiting", "done", "raised"}, NEW heard, NEW got,
           Becomes(c, pc, heard, got)
    PROVE  \E call : /\ client' = [client EXCEPT ![c] = call] /\ IsCall(c, call) /\ call # Free
                     /\ call.pc = pc /\ call.job = client[c].job /\ call.heard = heard /\ call.got = got
  <1>1. IsCall(c, client[c])
    BY SlotFacts
  <1> DEFINE call == [pc |-> pc, job |-> client[c].job, tries |-> client[c].tries, heard |-> heard, got |-> got]
  <1>2. client' = [client EXCEPT ![c] = call]
    BY DEF Becomes
  <1>3. IsCall(c, call) /\ call # Free
    BY <1>1 DEF IsCall, Free
  <1>4. call.pc = pc /\ call.job = client[c].job /\ call.heard = heard /\ call.got = got
    OBVIOUS
  <1> HIDE DEF call
  <1>. QED BY <1>2, <1>3, <1>4

LEMMA ReceiveKeepsSlots ==
    ASSUME SlotsOK, NEW c \in Slots, Receive(c)
    PROVE  SlotsOK'
  <1> DEFINE job == client[c].job
             got == CASE IsRaw(job) -> <<>>
                      [] job.kind = "health" -> TRUE
                      [] OTHER -> Understand(job.adapter, wire[c][2].body)
  <1>1. /\ client[c].pc = "waiting" /\ AtMock(job) /\ server[c] = Idle /\ Status(c) = 200
        /\ Becomes(c, "done", <<>>, got) /\ UNCHANGED <<server, wire>>
    BY DEF Receive, HeardMock, Waiting, mockVars
  <1>2. client[c] # Free
    BY <1>1 DEF Free
  <1>3. PICK call : /\ client' = [client EXCEPT ![c] = call] /\ IsCall(c, call) /\ call # Free
                    /\ call.pc = "done" /\ call.job = job /\ call.got = got
    <2> HIDE DEF got
    <2>. QED BY <1>1, <1>2, BecomesIs
  <1>4. wire[c] # <<>> /\ wire[c][1] = 200
    BY <1>1 DEF Status
  <1>5. Reaches(job) /\ IsJob(job) /\ SlotGood(c, server[c], wire[c], client[c])
    BY <1>2, <1>4, SlotFacts DEF SlotGood
  <1>6. job.kind = "complete" => call.got = Understand(job.adapter, Response(Pair(job), Body(job)))
    <2> HAVE job.kind = "complete"
    <2>1. ~IsStream(Pair(job), Body(job))
      BY BodyOfACompletion
    <2>2. ~Refuses(200)
      BY DEF Refuses
    <2>3. wire[c] = <<200, [body |-> Response(Pair(job), Body(job))]>>
      BY <1>1, <1>2, <1>4, <1>5, <2>1, <2>2 DEF SlotGood, Refused
    <2>4. got = Understand(job.adapter, wire[c][2].body)
      BY DEF IsRaw
    <2>. QED BY <1>3, <2>3, <2>4
  <1>7. SlotGood(c, server[c], wire[c], call)
    <2>1. /\ \/ Refused(wire[c])
             \/ /\ ~IsStream(Pair(job), Body(job)) /\ ~Raises(Pair(job), Body(job))
                /\ wire[c] = <<200, [body |-> Response(Pair(job), Body(job))]>>
             \/ /\ IsStream(Pair(job), Body(job))
                /\ wire[c] = Streamed(Pair(job), Len(Whole(Pair(job))) + 1)
                /\ Len(Whole(Pair(job))) + 1 \in 1 .. Len(Whole(Pair(job))) + 1
          /\ server[c].pc = "idle"
      BY <1>1, <1>2, <1>5 DEF SlotGood, Idle
    <2> HIDE DEF got, job
    <2>. QED BY <1>1, <1>3, <1>4, <1>5, <1>6, <2>1 DEF SlotGood
  <1>. QED BY <1>1, <1>3, <1>7, ClientMoves

LEMMA RaiseKeepsSlots ==
    ASSUME SlotsOK, NEW c \in Slots, Raise(c)
    PROVE  SlotsOK'
  <1> DEFINE job == client[c].job
  <1>1. /\ client[c].pc = "waiting" /\ AtMock(job) /\ server[c] = Idle
        /\ \/ job.kind = "health" /\ Becomes(c, "done", <<>>, FALSE)
           \/ Becomes(c, "raised", <<>>, <<>>)
        /\ UNCHANGED <<server, wire>>
    BY DEF Raise, HeardMock, Waiting, mockVars
  <1>2. client[c] # Free
    BY <1>1 DEF Free
  <1>3. PICK call : /\ client' = [client EXCEPT ![c] = call] /\ IsCall(c, call) /\ call # Free
                    /\ call.job = job
                    /\ call.pc = "raised" \/ (call.pc = "done" /\ job.kind = "health")
    <2>1. CASE job.kind = "health" /\ Becomes(c, "done", <<>>, FALSE)
      <3> DEFINE no == FALSE
      <3>1. Becomes(c, "done", <<>>, no)
        BY <2>1
      <3> HIDE DEF no
      <3>. QED BY <1>2, <2>1, <3>1, BecomesIs
    <2>2. CASE Becomes(c, "raised", <<>>, <<>>)
      BY <1>2, <2>2, BecomesIs
    <2>. QED BY <1>1, <2>1, <2>2
  <1>4. SlotGood(c, server[c], wire[c], client[c])
    BY SlotFacts
  <1>5. SlotGood(c, server[c], wire[c], call)
    BY <1>1, <1>2, <1>3, <1>4 DEF SlotGood, Idle
  <1>. QED BY <1>1, <1>3, <1>5, ClientMoves

LEMMA RetryKeepsSlots ==
    ASSUME SlotsOK, NEW c \in Slots, SdkRetries(c)
    PROVE  SlotsOK'
  <1> DEFINE job == client[c].job
             handler == [pc |-> "arrived", pair |-> Pair(job), body |-> Body(job)]
             call == [client[c] EXCEPT !.tries = @ + 1]
  <1>1. /\ client[c].pc = "waiting" /\ AtMock(job) /\ server[c] = Idle /\ ~IsRaw(job)
        /\ Refuses(Status(c)) /\ client[c].tries < MaxRetries
        /\ client' = [client EXCEPT ![c].tries = @ + 1]
        /\ server' = [server EXCEPT ![c] = handler] /\ wire' = [wire EXCEPT ![c] = <<>>]
    BY DEF SdkRetries, HeardMock, Waiting, Arrive
  <1>2. client[c] # Free /\ MaxRetries \in Nat
    BY <1>1, ProvidersAssumption DEF Free
  <1>3. client' = [client EXCEPT ![c] = call]
    BY <1>1
  <1>4. IsCall(c, client[c]) /\ SlotGood(c, server[c], wire[c], client[c])
    BY <1>2, SlotFacts
  <1>5. IsCall(c, call) /\ call # Free /\ call.pc = "waiting" /\ call.job = job
    BY <1>1, <1>2, <1>4 DEF IsCall, Free
  <1>6. Reaches(job)
    <2>1. ~Refuses(404)
      BY DEF Refuses
    <2>2. wire[c] # <<>>
      BY <1>1, <2>1 DEF Status
    <2>. QED BY <1>2, <1>4, <2>2 DEF SlotGood
  <1>7. handler.pc = "arrived" /\ handler # Idle /\ IsHandler(handler)
    BY DEF Idle, IsHandler
  <1>8. SlotGood(c, handler, <<>>, call)
    BY <1>5, <1>6, <1>7 DEF SlotGood
  <1>. QED BY <1>1, <1>3, <1>8, OneSlotMoves

LEMMA HangUpKeepsSlots ==
    ASSUME SlotsOK, NEW c \in Slots, HangUp(c)
    PROVE  SlotsOK'
  <1> DEFINE call == [client[c] EXCEPT !.pc = "gone"]
  <1>1. /\ client[c].pc = "waiting" /\ IsRaw(client[c].job) /\ server[c] # Idle
        /\ client' = [client EXCEPT ![c].pc = "gone"] /\ UNCHANGED <<server, wire>>
    BY DEF HangUp, Waiting, mockVars
  <1>2. client[c] # Free
    BY <1>1 DEF Free
  <1>3. client' = [client EXCEPT ![c] = call]
    BY <1>1
  <1>4. IsCall(c, client[c]) /\ SlotGood(c, server[c], wire[c], client[c])
    BY <1>2, SlotFacts
  <1>5. IsCall(c, call) /\ call # Free /\ call.pc = "gone" /\ call.job = client[c].job
    BY <1>1, <1>4 DEF IsCall, Free
  <1>6. SlotGood(c, server[c], wire[c], call)
    BY <1>1, <1>2, <1>4, <1>5 DEF SlotGood
  <1>. QED BY <1>1, <1>3, <1>6, ClientMoves

\* A refusal ends the handler, a response ends it or starts a stream.
LEMMA RefuseServes ==
    ASSUME SlotsOK, NEW c \in Slots, server[c] # Idle, NEW status, Refuses(status), Refuse(c, status),
           UNCHANGED client
    PROVE  SlotsOK'
  <1>1. server' = [server EXCEPT ![c] = Idle] /\ wire' = [wire EXCEPT ![c] = <<status>>]
    BY DEF Refuse
  <1>2. SlotGood(c, server[c], wire[c], client[c])
    BY SlotFacts
  <1>3. Refused(<<status>>) /\ Idle.pc = "idle"
    BY DEF Refused, Idle
  <1>4. SlotGood(c, Idle, <<status>>, client[c])
    BY <1>2, <1>3 DEF SlotGood
  <1>5. client' = [client EXCEPT ![c] = client[c]]
    BY DEF SlotsOK
  <1>. QED BY <1>1, <1>4, <1>5, OneSlotMoves

LEMMA WholeIsLong == \A p : Len(Whole(p)) \in Nat /\ Len(Whole(p)) >= 1
  <1>1. \A p : Len(Whole(p)) = Len(Events(p)) + 1 /\ Len(Events(p)) \in Nat
    BY WholeType, EventsType
  <1>. QED BY <1>1

LEMMA RespondServes ==
    ASSUME SlotsOK, NEW c \in Slots, server[c].pc \in {"arrived", "asleep"}, Respond(c),
           UNCHANGED client
    PROVE  SlotsOK'
  <1> DEFINE p == server[c].pair
             body == server[c].body
  <1>1. server[c] # Idle /\ IsHandler(server[c]) /\ SlotGood(c, server[c], wire[c], client[c])
    BY SlotFacts DEF Idle
  <1>2. /\ client[c] # Free /\ client[c].pc \in {"waiting", "gone"} /\ Reaches(client[c].job)
        /\ p = Pair(client[c].job) /\ body = Body(client[c].job)
    BY <1>1 DEF SlotGood
  <1>3. client' = [client EXCEPT ![c] = client[c]] /\ Idle.pc = "idle"
    BY DEF SlotsOK, Idle
  <1>4. CASE Streams(c) /\ SendAnswer(c)
    <2> DEFINE handler == [pc |-> "streaming", pair |-> p, body |-> body]
    <2>1. server' = [server EXCEPT ![c] = handler] /\ wire' = [wire EXCEPT ![c] = Streamed(p, 1)]
      <3>1. server' = [server EXCEPT ![c].pc = "streaming"] /\ wire' = [wire EXCEPT ![c] = <<200>>]
        BY <1>4 DEF SendAnswer
      <3>2. [server[c] EXCEPT !.pc = "streaming"] = handler
        BY <1>1 DEF IsHandler
      <3>3. server' = [server EXCEPT ![c] = handler]
        BY <3>1, <3>2
      <3>. QED BY <3>1, <3>3, StreamedStarts
    <2>2. IsHandler(handler) /\ handler # Idle /\ handler.pc = "streaming" /\ IsStream(p, body)
          /\ handler.pair = p /\ handler.body = body
      BY <1>4 DEF IsHandler, Idle, Streams
    <2>3. 1 \in 1 .. Len(Whole(p))
      BY WholeIsLong
    <2>4. SlotGood(c, handler, Streamed(p, 1), client[c])
      <3> HIDE DEF handler
      <3>. QED BY <1>1, <1>2, <2>2, <2>3 DEF SlotGood
    <2>. QED BY <1>3, <2>1, <2>4, OneSlotMoves
  <1>5. CASE ~Streams(c) /\ ~Raises(p, body) /\ SendAnswer(c)
    <2> DEFINE sent == <<200, [body |-> Response(p, body)]>>
    <2>1. server' = [server EXCEPT ![c] = Idle] /\ wire' = [wire EXCEPT ![c] = sent]
      BY <1>5 DEF SendAnswer
    <2>2. ~IsStream(p, body)
      BY <1>5 DEF Streams
    <2>3. SlotGood(c, Idle, sent, client[c])
      BY <1>1, <1>2, <1>3, <1>5, <2>2 DEF SlotGood
    <2>. QED BY <1>3, <2>1, <2>3, OneSlotMoves
  <1>6. CASE Raise500(c)
    <2> DEFINE sent == <<500>>
    <2>1. server' = [server EXCEPT ![c] = Idle] /\ wire' = [wire EXCEPT ![c] = sent]
      BY <1>6 DEF Raise500
    <2>2. Refused(sent)
      BY ProvidersAssumption DEF Refused, Refuses
    <2> HIDE DEF sent
    <2>3. SlotGood(c, Idle, sent, client[c])
      BY <1>1, <1>2, <1>3, <2>2 DEF SlotGood
    <2>4. client' = [client EXCEPT ![c] = client[c]]
      BY <1>3
    <2>. QED BY ONLY SlotsOK, c \in Slots, <2>1, <2>3, <2>4, OneSlotMoves
  <1>. QED BY <1>4, <1>5, <1>6 DEF Respond

LEMMA InjectKeepsSlots ==
    ASSUME SlotsOK, NEW c \in Slots, MaybeInjectError(c), UNCHANGED client
    PROVE  SlotsOK'
  <1>1. server[c].pc = "arrived" /\ server[c] # Idle
    BY DEF MaybeInjectError, Idle
  <1>2. \/ \E status : Refuses(status) /\ Refuse(c, status)
        \/ Respond(c)
        \/ server' = [server EXCEPT ![c].pc = "asleep"] /\ UNCHANGED wire
    <2>1. Refuses(429) /\ Refuses(500) /\ Refuses(503)
      BY ProvidersAssumption DEF Refuses
    <2>. QED BY <2>1 DEF MaybeInjectError
  <1>3. CASE server' = [server EXCEPT ![c].pc = "asleep"] /\ UNCHANGED wire
    <2> DEFINE handler == [pc |-> "asleep", pair |-> server[c].pair, body |-> server[c].body]
    <2>1. IsHandler(server[c]) /\ SlotGood(c, server[c], wire[c], client[c])
      BY <1>1, SlotFacts
    <2>2. [server[c] EXCEPT !.pc = "asleep"] = handler
      BY <2>1 DEF IsHandler
    <2>3. server' = [server EXCEPT ![c] = handler]
      BY <1>3, <2>2
    <2>4. IsHandler(handler) /\ handler # Idle /\ handler.pc = "asleep"
          /\ handler.pair = server[c].pair /\ handler.body = server[c].body
      BY DEF IsHandler, Idle
    <2>5. SlotGood(c, handler, wire[c], client[c])
      <3> HIDE DEF handler
      <3>. QED BY <1>1, <2>1, <2>4 DEF SlotGood
    <2>6. client' = [client EXCEPT ![c] = client[c]] /\ wire' = [wire EXCEPT ![c] = wire[c]]
      BY <1>3 DEF SlotsOK
    <2>. QED BY <2>3, <2>5, <2>6, OneSlotMoves
  <1>. QED BY <1>1, <1>2, <1>3, RefuseServes, RespondServes

LEMMA ChunkKeepsSlots ==
    ASSUME SlotsOK, NEW c \in Slots, StreamChunk(c), UNCHANGED client
    PROVE  SlotsOK'
  <1> DEFINE p == server[c].pair
  <1>1. server[c].pc = "streaming" /\ server[c] # Idle
    BY DEF StreamChunk, Idle
  <1>2. IsHandler(server[c]) /\ SlotGood(c, server[c], wire[c], client[c])
    BY <1>1, SlotFacts
  <1>3. /\ client[c] # Free /\ client[c].pc \in {"waiting", "gone"} /\ Reaches(client[c].job)
        /\ p = Pair(client[c].job) /\ server[c].body = Body(client[c].job)
        /\ IsStream(p, server[c].body)
    BY <1>1, <1>2 DEF SlotGood
  <1>4. PICK n \in 1 .. Len(Whole(p)) : wire[c] = Streamed(p, n)
    BY <1>1, <1>2, <1>3 DEF SlotGood
  <1>5. n \in Nat /\ n >= 1 /\ Len(Whole(p)) = Len(Events(p)) + 1 /\ Len(Events(p)) \in Nat
    BY WholeType, WholeIsLong, EventsType
  <1>6. Len(wire[c]) = n /\ Append(wire[c], [event |-> Whole(p)[n]]) = Streamed(p, n + 1)
    BY <1>4, <1>5, StreamedGrows
  <1>7. client' = [client EXCEPT ![c] = client[c]] /\ Idle.pc = "idle"
    BY DEF SlotsOK, Idle
  <1>8. CASE n - 1 < Len(Events(p))
    <2>1. wire' = [wire EXCEPT ![c] = Append(@, [event |-> Events(p)[n - 1 + 1]])] /\ UNCHANGED server
      BY <1>6, <1>8 DEF StreamChunk
    <2>2. Events(p)[n - 1 + 1] = Whole(p)[n] /\ n + 1 \in 1 .. Len(Whole(p))
      BY <1>5, <1>8, WholeType
    <2>3. wire' = [wire EXCEPT ![c] = Streamed(p, n + 1)]
      BY <2>1, <2>2, <1>6
    <2>4. SlotGood(c, server[c], Streamed(p, n + 1), client[c])
      BY <1>1, <1>2, <1>3, <2>2 DEF SlotGood
    <2>5. server' = [server EXCEPT ![c] = server[c]]
      BY <2>1 DEF SlotsOK
    <2>. QED BY <1>7, <2>3, <2>4, <2>5, OneSlotMoves
  <1>9. CASE ~(n - 1 < Len(Events(p)))
    <2>1. /\ wire' = [wire EXCEPT ![c] = Append(@, [event |-> "[DONE]"])]
          /\ server' = [server EXCEPT ![c] = Idle]
      BY <1>6, <1>9 DEF StreamChunk
    <2>2. n = Len(Whole(p)) /\ Whole(p)[n] = "[DONE]" /\ n + 1 \in 1 .. Len(Whole(p)) + 1
      BY <1>5, <1>9, WholeType
    <2>3. wire' = [wire EXCEPT ![c] = Streamed(p, n + 1)]
      BY <2>1, <2>2, <1>6
    <2>4. SlotGood(c, Idle, Streamed(p, n + 1), client[c])
      BY <1>2, <1>3, <1>7, <2>2 DEF SlotGood
    <2>. QED BY <1>7, <2>1, <2>3, <2>4, OneSlotMoves
  <1>. QED BY <1>8, <1>9

LEMMA CancelKeepsSlots ==
    ASSUME SlotsOK, NEW c \in Slots, client[c].pc = "gone", Cancel(c), UNCHANGED client
    PROVE  SlotsOK'
  <1> DEFINE p == Pair(client[c].job)
  <1>1. /\ server[c].pc = "streaming" /\ server[c] # Idle
        /\ server' = [server EXCEPT ![c] = Idle] /\ UNCHANGED wire
    BY DEF Cancel, Idle
  <1>2. SlotGood(c, server[c], wire[c], client[c])
    BY SlotFacts
  <1>3. \E n \in 1 .. Len(Whole(p)) + 1 :
          wire[c] = Streamed(p, n) /\ (client[c].pc # "gone" => n = Len(Whole(p)) + 1)
    <2>1. PICK n \in 1 .. Len(Whole(p)) : wire[c] = Streamed(p, n)
      BY <1>1, <1>2 DEF SlotGood
    <2>2. n \in 1 .. Len(Whole(p)) + 1
      BY <2>1, WholeIsLong
    <2>. QED BY <2>1, <2>2
  <1>4. SlotGood(c, Idle, wire[c], client[c])
    <2>1. client[c] # Free /\ Reaches(client[c].job) /\ IsStream(p, Body(client[c].job)) /\ Idle.pc = "idle"
      BY <1>1, <1>2 DEF SlotGood, Idle
    <2>. QED BY <1>2, <1>3, <2>1 DEF SlotGood
  <1>5. client' = [client EXCEPT ![c] = client[c]] /\ wire' = [wire EXCEPT ![c] = wire[c]]
    BY <1>1 DEF SlotsOK
  <1>6. server' = [server EXCEPT ![c] = Idle]
    BY <1>1
  <1>. QED BY <1>4, <1>5, <1>6, OneSlotMoves

\* What a provider says reaches the client of the adapter and no one else.
LEMMA ProviderKeepsSlots ==
    ASSUME SlotsOK, NEW c \in Slots,
           ProviderAnswers(c) \/ ProviderFails(c) \/ ProviderSays(c)
    PROVE  SlotsOK'
  <1> DEFINE job == client[c].job
  <1>1. client[c].pc = "waiting" /\ ~AtMock(job) /\ UNCHANGED <<server, wire>>
    BY DEF ProviderAnswers, ProviderFails, ProviderSays, AtProvider, Waiting, mockVars
  <1>2. client[c] # Free
    BY <1>1 DEF Free
  <1>3. SlotGood(c, server[c], wire[c], client[c]) /\ IsJob(job) /\ ~Reaches(job)
    BY <1>1, <1>2, SlotFacts DEF Reaches
  <1>4. \E pc, heard, got :
          /\ pc \in {"waiting", "done", "raised"}
          /\ Becomes(c, pc, heard, got)
          /\ (pc = "done" /\ job.kind = "complete") =>
               heard \in Allowed(job.adapter) /\ got = Understand(job.adapter, heard)
    <2>1. CASE ProviderAnswers(c)
      <3>1. CASE job.kind = "health"
        <4> DEFINE yes == TRUE
        <4>1. Becomes(c, "done", <<>>, yes)
          BY <2>1, <3>1 DEF ProviderAnswers
        <4> HIDE DEF yes
        <4>. QED BY <3>1, <4>1
      <3>2. CASE job.kind # "health"
        BY <2>1, <3>2 DEF ProviderAnswers
      <3>. QED BY <3>1, <3>2
    <2>2. CASE ProviderFails(c)
      <3>1. CASE job.kind = "health"
        <4> DEFINE no == FALSE
        <4>1. Becomes(c, "done", <<>>, no)
          BY <2>2, <3>1 DEF ProviderFails
        <4> HIDE DEF no
        <4>. QED BY <3>1, <4>1
      <3>2. CASE job.kind # "health"
        BY <2>2, <3>2 DEF ProviderFails
      <3>. QED BY <3>1, <3>2
    <2>3. CASE ProviderSays(c)
      BY <2>3 DEF ProviderSays
    <2>. QED BY <2>1, <2>2, <2>3
  <1>5. PICK pc, heard, got :
          /\ pc \in {"waiting", "done", "raised"}
          /\ Becomes(c, pc, heard, got)
          /\ (pc = "done" /\ job.kind = "complete") =>
               heard \in Allowed(job.adapter) /\ got = Understand(job.adapter, heard)
    BY <1>4
  <1>6. PICK call : /\ client' = [client EXCEPT ![c] = call] /\ IsCall(c, call) /\ call # Free
                    /\ call.pc = pc /\ call.job = job /\ call.heard = heard /\ call.got = got
    BY <1>2, <1>5, BecomesIs
  <1>7. SlotGood(c, server[c], wire[c], call)
    BY <1>1, <1>2, <1>3, <1>5, <1>6 DEF SlotGood
  <1>. QED BY <1>1, <1>6, <1>7, ClientMoves

LEMMA EndsKeepsSlots ==
    ASSUME SlotsOK, NEW c \in Slots, ProviderEnds(c)
    PROVE  SlotsOK'
  <1> DEFINE job == client[c].job
             call == [client[c] EXCEPT !.pc = "done"]
  <1>1. /\ client[c].pc = "waiting" /\ ~AtMock(job) /\ job.kind = "stream" /\ UNCHANGED <<server, wire>>
        /\ client' = [client EXCEPT ![c].pc = "done"]
    BY DEF ProviderEnds, AtProvider, Waiting, mockVars
  <1>2. client[c] # Free /\ ~Reaches(job)
    BY <1>1 DEF Free, Reaches
  <1>3. IsCall(c, client[c]) /\ SlotGood(c, server[c], wire[c], client[c])
    BY <1>2, SlotFacts
  <1>4. IsCall(c, call) /\ call # Free /\ call.pc = "done" /\ call.job = job
    BY <1>3 DEF IsCall, Free
  <1>5. client' = [client EXCEPT ![c] = call]
    BY <1>1
  <1>6. SlotGood(c, server[c], wire[c], call)
    <2> HIDE DEF call
    <2>. QED BY <1>1, <1>2, <1>3, <1>4 DEF SlotGood
  <1>. QED BY <1>1, <1>5, <1>6, ClientMoves

LEMMA ReturnKeepsSlots ==
    ASSUME SlotsOK, NEW c \in Slots, Return(c)
    PROVE  SlotsOK'
  <1>1. /\ server[c] = Idle /\ UNCHANGED server
        /\ client' = [client EXCEPT ![c] = Free] /\ wire' = [wire EXCEPT ![c] = <<>>]
    BY DEF Return
  <1>2. SlotGood(c, server[c], <<>>, Free)
    BY <1>1 DEF SlotGood, Idle
  <1>3. server' = [server EXCEPT ![c] = server[c]]
    BY <1>1 DEF SlotsOK
  <1>. QED BY <1>1, <1>2, <1>3, OneSlotMoves

-----------------------------------------------------------------------------
LEMMA InvariantInPartsNext ==
    (ProvidersInv /\ OneShotAnswersOnce)' <=> (EngineOK /\ SlotsOK /\ registry \in {{}, Adapters})'
  BY InvariantInParts, PTL

\* Every step keeps the invariant.
LEMMA StepKeepsInv ==
    ASSUME ProvidersInv, OneShotAnswersOnce, [Next]_vars
    PROVE  ProvidersInv' /\ OneShotAnswersOnce'
  <1>0. EngineOK /\ SlotsOK /\ ServerOK /\ registry \in {{}, Adapters}
    BY InvariantInParts, SlotsAreServed
  <1>1. SUFFICES EngineOK' /\ SlotsOK' /\ registry' \in {{}, Adapters}
    BY InvariantInPartsNext
  <1>2. ASSUME UNCHANGED <<mockVars, client>> PROVE EngineOK' /\ SlotsOK'
    <2>1. UNCHANGED engine /\ UNCHANGED <<server, wire, client>>
      BY <1>2 DEF mockVars
    <2>2. InHand' = InHand
      BY <2>1 DEF InHand
    <2>. QED BY <1>0, <2>1, <2>2, EngineRests, SlotsRest
  <1>3. CASE UNCHANGED vars
    BY <1>0, <1>2, <1>3 DEF vars
  <1>4. CASE RegisterProviders
    BY <1>2, <1>4 DEF RegisterProviders
  <1>5. CASE Control /\ UNCHANGED <<client, registry>>
    <2>1. \A o : Set(o) => UNCHANGED <<server, wire>>
      BY DEF Set
    <2>2. Reset => UNCHANGED <<server, wire>>
      BY DEF Reset
    <2>3. ASSUME NEW o, o.pair \in Pairs, Set(o) PROVE EngineOK' /\ SlotsOK'
      BY <1>0, <1>5, <2>1, <2>3, SetKeepsEngine, SlotsRest
    <2>4. CASE \E o \in Orders : Set(o)
      BY <2>3, <2>4, ProvidersAssumption, <1>0, <1>5
    <2>5. CASE \E p \in Breakable : BreakProvider(p, 503) \/ HealProvider(p)
      <3>1. PICK p \in Breakable : BreakProvider(p, 503) \/ HealProvider(p)
        BY <2>5
      <3>2. p \in Pairs
        BY ProvidersAssumption
      <3>3. \E o : o.pair = p /\ Set(o)
        BY <3>1 DEF BreakProvider, HealProvider
      <3>. QED BY <3>2, <3>3, <2>3, <1>0, <1>5
    <2>6. CASE Reset
      BY <1>0, <1>5, <2>2, <2>6, ResetKeepsEngine, SlotsRest
    <2>. QED BY <1>5, <2>4, <2>5, <2>6 DEF Control
  <1>6. ASSUME NEW c \in Slots,
               \/ \E job \in Jobs[c] : Call(c, job)
               \/ Receive(c) \/ Raise(c) \/ SdkRetries(c) \/ HangUp(c) \/ Server(c)
               \/ ProviderAnswers(c) \/ ProviderFails(c) \/ ProviderSays(c) \/ ProviderEnds(c)
               \/ Return(c)
        PROVE  EngineOK' /\ SlotsOK' /\ UNCHANGED registry
    <2>0. ASSUME UNCHANGED mockVars PROVE EngineOK'
      <3>1. UNCHANGED engine /\ UNCHANGED server
        BY <2>0 DEF mockVars
      <3>2. InHand' = InHand
        BY <3>1 DEF InHand
      <3>. QED BY <1>0, <3>1, <3>2, EngineRests
    <2>1. CASE \E job \in Jobs[c] : Call(c, job)
      <3>1. PICK job \in Jobs[c] : Call(c, job)
        BY <2>1
      <3>2. SlotsOK' /\ UNCHANGED registry
        BY <1>0, <3>1, CallKeepsSlots DEF Call
      <3>3. Arrive(c, Pair(job), Body(job)) \/ UNCHANGED mockVars
        BY <3>1 DEF Call
      <3>. QED BY <1>0, <2>0, <3>2, <3>3, ArriveKeepsEngine
    <2>2. CASE Receive(c)
      <3>1. UNCHANGED <<mockVars, registry>>
        BY <2>2 DEF Receive
      <3>. QED BY <1>0, <2>0, <2>2, <3>1, ReceiveKeepsSlots
    <2>3. CASE Raise(c)
      BY <1>0, <2>0, <2>3, RaiseKeepsSlots DEF Raise
    <2>4. CASE SdkRetries(c)
      <3>1. SlotsOK' /\ UNCHANGED registry
        BY <1>0, <2>4, RetryKeepsSlots DEF SdkRetries
      <3>2. \E p, body : Arrive(c, p, body)
        BY <2>4 DEF SdkRetries
      <3>. QED BY <1>0, <3>1, <3>2, ArriveKeepsEngine
    <2>5. CASE HangUp(c)
      BY <1>0, <2>0, <2>5, HangUpKeepsSlots DEF HangUp
    <2>6. CASE Server(c)
      <3>1. UNCHANGED client /\ UNCHANGED registry
        BY <2>6 DEF Server
      <3>2. CASE MaybeInjectError(c)
        <4>1. server[c] # Idle
          BY <3>2 DEF MaybeInjectError, Idle
        <4>2. server[c].pair = Pair(client[c].job) /\ IsJob(client[c].job)
          BY <1>0, <4>1, SlotFacts DEF SlotGood
        <4>3. server[c].pair \in Pairs
          BY <4>2, ProvidersAssumption DEF Pair, IsJob
        <4>. QED BY <1>0, <3>1, <3>2, <4>3, InjectKeepsEngine, InjectKeepsSlots
      <3>3. CASE Wake(c)
        <4>1. server[c].pc \in {"arrived", "asleep"} /\ Respond(c)
          BY <3>3 DEF Wake, Asleep
        <4>. QED BY <1>0, <3>1, <3>3, <4>1, WakeKeepsEngine, RespondServes
      <3>4. CASE StreamChunk(c) \/ (client[c].pc = "gone" /\ Cancel(c))
        <4>1. SlotsOK'
          BY <1>0, <3>1, <3>4, ChunkKeepsSlots, CancelKeepsSlots
        <4>2. UNCHANGED engine /\ server[c].pc = "streaming"
              /\ (server' = server \/ server' = [server EXCEPT ![c] = Idle])
          BY <3>4 DEF StreamChunk, Cancel
        <4>3. InHand' = InHand
          BY <1>0, <4>2 DEF InHand, ServerOK, Idle
        <4>. QED BY <1>0, <3>1, <4>1, <4>2, <4>3, EngineRests
      <3>. QED BY <2>6, <3>2, <3>3, <3>4 DEF Server, Handle
    <2>7. CASE ProviderAnswers(c)
      BY <1>0, <2>0, <2>7, ProviderKeepsSlots DEF ProviderAnswers
    <2>8. CASE ProviderFails(c)
      BY <1>0, <2>0, <2>8, ProviderKeepsSlots DEF ProviderFails
    <2>9. CASE ProviderSays(c)
      BY <1>0, <2>0, <2>9, ProviderKeepsSlots DEF ProviderSays
    <2>10. CASE ProviderEnds(c)
      BY <1>0, <2>0, <2>10, EndsKeepsSlots DEF ProviderEnds
    <2>11. CASE Return(c)
      <3>1. UNCHANGED <<engine, server, registry>>
        BY <2>11 DEF Return
      <3>2. InHand' = InHand
        BY <3>1 DEF InHand
      <3>. QED BY <1>0, <2>11, <3>1, <3>2, EngineRests, ReturnKeepsSlots
    <2>. QED BY <1>6, <2>1, <2>2, <2>3, <2>4, <2>5, <2>6, <2>7, <2>8, <2>9, <2>10, <2>11
  <1>. QED BY <1>0, <1>3, <1>4, <1>5, <1>6 DEF Next

LEMMA InitIsGood == Init => ProvidersInv /\ OneShotAnswersOnce
  <1> SUFFICES ASSUME Init PROVE EngineOK /\ SlotsOK /\ registry \in {{}, Adapters}
    BY InvariantInParts
  <1>0. MaxForced \in Nat /\ MaxRequests \in Nat
    BY ProvidersAssumption
  <1>1. /\ overrides = <<>> /\ stats = NoStats /\ due = 0 /\ registry = {}
        /\ ordered = [p \in Pairs |-> 0]
        /\ server = [s \in Slots |-> Idle] /\ wire = [s \in Slots |-> <<>>]
        /\ client = [c \in Slots |-> Free]
    BY DEF Init, MockInit
  <1>2. SlotsOK
    <2>1. \A c \in Slots : SlotGood(c, Idle, <<>>, Free)
      BY DEF SlotGood, Idle
    <2>. QED BY <1>1, <2>1 DEF SlotsOK
  <1>3. InHand = {}
    BY <1>1 DEF InHand, Idle
  <1>4. Cardinality(InHand) = 0
    BY <1>3, FS_EmptySet
  <1>5. CountersAddUp
    BY <1>1, <1>4 DEF CountersAddUp, NoStats
  <1>6. DOMAIN overrides = {} /\ overrides = [p \in DOMAIN overrides |-> overrides[p]]
    BY <1>1
  <1>7. OneShotAnswersOnce
    BY <1>1, <1>6 DEF OneShotAnswersOnce, Get, Unset, Refuses
  <1>8. /\ stats \in [requests : 0 .. MaxRequests, errors : 0 .. MaxRequests, limits : 0 .. MaxRequests]
        /\ due \in 0 .. MaxRequests /\ ordered \in [Pairs -> 0 .. MaxForced]
    BY <1>0, <1>1 DEF NoStats
  <1>9. EngineOK
    BY <1>5, <1>6, <1>7, <1>8 DEF EngineOK
  <1>. QED BY <1>1, <1>2, <1>9

\* The counters of the mock count every call once, a handler sends its client the answer
\* to what it asked and nothing else, and a call ends with that answer (record,
\* maybe_inject_error, stream_chunks, complete).
THEOREM ProvidersKeepTheirInvariant == Spec => []ProvidersInv
  <1>1. ProvidersInv /\ OneShotAnswersOnce /\ [Next]_vars => ProvidersInv' /\ OneShotAnswersOnce'
    BY StepKeepsInv
  <1>. QED BY InitIsGood, <1>1, PTL DEF Spec

\* A status ordered for a pair answers at most one call (take_force_status).
THEOREM OrdersAreAnsweredOnce == Spec => []OneShotAnswersOnce
  <1>1. ProvidersInv /\ OneShotAnswersOnce /\ [Next]_vars => ProvidersInv' /\ OneShotAnswersOnce'
    BY StepKeepsInv
  <1>. QED BY InitIsGood, <1>1, PTL DEF Spec

-----------------------------------------------------------------------------
\* What a client of a streaming route has seen.
LEMMA StreamsAreInOrder == ProvidersInv => StreamIsWhole
  <1> SUFFICES ASSUME ProvidersInv, NEW c \in Slots, client[c] # Free, IsRaw(client[c].job),
                      IsStream(client[c].job.pair, client[c].job.body), Len(wire[c]) > 1
               PROVE  /\ IsPrefix(Sent(c), Whole(client[c].job.pair))
                      /\ client[c].pc = "done" => Sent(c) = Whole(client[c].job.pair)
    BY DEF StreamIsWhole
  <1> DEFINE job == client[c].job
             p == job.pair
  <1>1. p = Pair(job) /\ job.body = Body(job) /\ IsStream(Pair(job), Body(job))
    <2>1. p = Pair(job)
      BY DEF Pair
    <2>2. job.body = Body(job)
      BY DEF Body, IsRaw
    <2>. QED BY <2>1, <2>2, Zenon
  <1>2. IsCall(c, client[c]) /\ IsJob(job)
    BY JobsAreJobs DEF ProvidersInv, TypeOK, IsCall
  <1>3. Reaches(job)
    BY <1>2 DEF IsJob, Reaches, NoRoute, IsRaw
  <1>4. /\ c \notin InHand /\ server[c].pc \in {"idle", "arrived", "asleep", "streaming"}
        /\ server[c].pc = "idle" => server[c] = Idle
    <2>1. Len(<<>>) = 0 /\ (c \in InHand => wire[c] = <<>>)
      BY DEF ProvidersInv, WireIsAnswer
    <2>. QED BY <2>1 DEF ProvidersInv, TypeOK, IsHandler, Idle
  <1>5. \E n \in 1 .. Len(Whole(p)) + 1 :
          wire[c] = Streamed(p, n) /\ (client[c].pc = "done" => n = Len(Whole(p)) + 1)
    <2>1. CASE server[c].pc = "streaming"
      <3>1. PICK n \in 1 .. Len(Whole(p)) : wire[c] = Streamed(p, n)
        BY <1>1, <2>1 DEF ProvidersInv, WireIsAnswer
      <3>2. client[c].pc # "done"
        <4>1. server[c] # Idle
          BY <2>1 DEF Idle
        <4>2. client[c].pc \in {"waiting", "gone"}
          BY <4>1 DEF ProvidersInv, WireIsAnswer
        <4>. QED BY <4>2
      <3>3. n \in 1 .. Len(Whole(p)) + 1
        BY <3>1, WholeIsLong
      <3>. QED BY <3>1, <3>2, <3>3
    <2>2. CASE server[c] = Idle
      <3>1. ~Refused(wire[c])
        <4>1. \A x : Len(<<x>>) = 1 /\ ~(1 > 1)
          OBVIOUS
        <4>. QED BY <4>1, Zenon DEF Refused
      <3>. QED BY <1>1, <1>3, <2>2, <3>1 DEF ProvidersInv, WireIsAnswer
    <2>. QED BY <1>4, <2>1, <2>2 DEF InHand
  <1>6. PICK n \in 1 .. Len(Whole(p)) + 1 :
          wire[c] = Streamed(p, n) /\ (client[c].pc = "done" => n = Len(Whole(p)) + 1)
    BY <1>5
  <1>7. n \in Nat /\ n >= 1 /\ Len(Whole(p)) \in Nat /\ Whole(p) \in Seq(EventNames) /\ n - 1 <= Len(Whole(p))
    BY WholeIsLong, WholeType
  <1>8. Len(wire[c]) = n
    BY <1>6, <1>7, StreamedGrows
  <1>9. \A i \in 1 .. n - 1 : wire[c][i + 1].event = Whole(p)[i]
    <2>1. \A i \in 1 .. n - 1 : i + 1 \in 1 .. n /\ i + 1 # 1 /\ i + 1 - 1 = i
      BY <1>7
    <2>. QED BY <1>6, <2>1 DEF Streamed
  <1>10. Sent(c) = [i \in 1 .. n - 1 |-> Whole(p)[i]]
    BY <1>8, <1>9 DEF Sent
  <1>11. Sent(c) \in Seq(EventNames) /\ Len(Sent(c)) = n - 1
    <2> HIDE DEF p
    <2>1. \A i \in 1 .. n - 1 : Whole(p)[i] \in EventNames
      BY <1>7
    <2>. QED BY <1>7, <1>10, <2>1
  <1>12. SubSeq(Sent(c), 1, n - 1) = Sent(c) /\ SubSeq(Whole(p), 1, n - 1) = Sent(c)
    <2> HIDE DEF p
    <2>. QED BY <1>7, <1>10, <1>11
  <1>13. IsPrefix(Sent(c), Whole(p))
    BY <1>7, <1>11, <1>12 DEF IsPrefix
  <1>14. client[c].pc = "done" => Sent(c) = Whole(p)
    <2> HAVE client[c].pc = "done"
    <2>1. n - 1 = Len(Whole(p))
      BY <1>6, <1>7
    <2> HIDE DEF p
    <2>. QED BY <1>7, <1>10, <2>1
  <1>. QED BY <1>13, <1>14

\* What an adapter makes of one event: one chunk with its text or nothing, and the
\* chunk that says so exactly for the event that nothing follows.
LEMMA OneEvent ==
    ASSUME NEW a \in Adapters, NEW last \in DOMAIN Follows(a), NEW type \in Follows(a)[last],
           NEW e \in Eventful(a, type)
    PROVE  /\ type \in DOMAIN Follows(a) /\ e.type = type
           /\ \/ Chunks(a, e) = <<>> /\ e.text = Absent /\ Follows(a)[type] # {}
              \/ \E x : /\ Chunks(a, e) = <<x>> /\ x.text = e.text
                        /\ x.finish # Absent <=> Follows(a)[type] = {}
  <1>0. Absent \notin {"stop", "length", "tool_calls"}
    BY ProvidersAssumption DEF Documented
  <1>1. CASE Api(a) = "anthropic"
    <2>1. type \in {"message_start", "content_block_start", "content_block_delta", "content_block_stop",
                    "message_delta", "message_stop"}
      BY <1>1 DEF Follows
    <2>2. type \in DOMAIN Follows(a) /\ (Follows(a)[type] = {} <=> type = "message_stop")
      BY <1>1, <2>1 DEF Follows
    <2>3. e.type = type /\ (type # "content_block_delta" => e.text = Absent)
      BY <1>1, <2>1 DEF Eventful, Event
    <2>4. Chunks(a, e) = AnthropicChunks(e)
      BY <1>1 DEF Chunks
    <2>5. CASE type = "content_block_delta" /\ e.text # Absent
      <3> DEFINE x == [text |-> e.text, tools |-> Absent, finish |-> Absent]
      <3>1. Chunks(a, e) = <<x>> /\ x.text = e.text /\ x.finish = Absent
        BY <2>3, <2>4, <2>5 DEF AnthropicChunks
      <3> HIDE DEF x
      <3>. QED BY <2>2, <2>3, <2>5, <3>1
    <2>6. CASE type = "message_stop"
      <3> DEFINE x == [text |-> Absent, tools |-> Absent, finish |-> "stop"]
      <3>1. Chunks(a, e) = <<x>> /\ x.text = e.text /\ x.finish # Absent
        BY <1>0, <2>3, <2>4, <2>6 DEF AnthropicChunks
      <3> HIDE DEF x
      <3>. QED BY <2>2, <2>3, <2>6, <3>1
    <2>7. CASE type # "message_stop" /\ ~(type = "content_block_delta" /\ e.text # Absent)
      <3>1. Chunks(a, e) = <<>>
        BY <2>3, <2>4, <2>7 DEF AnthropicChunks
      <3>. QED BY <2>2, <2>3, <2>7, <3>1
    <2>. QED BY <2>5, <2>6, <2>7
  <1>2. CASE Api(a) # "anthropic"
    <2>1. type \in {"role", "delta", "finish"}
      BY <1>2 DEF Follows
    <2>2. type \in DOMAIN Follows(a) /\ (Follows(a)[type] = {} <=> type = "finish")
      BY <1>2, <2>1 DEF Follows
    <2>3. e.type = type /\ (e.finish # Absent <=> type = "finish")
      BY <1>0, <2>1 DEF Eventful, Event
    <2> DEFINE x == [text |-> e.text, tools |-> e.tools, finish |-> e.finish]
    <2>4. Chunks(a, e) = <<x>> /\ x.text = e.text /\ x.finish = e.finish
      BY <1>2 DEF Chunks, OpenAIChunks
    <2> HIDE DEF x
    <2>. QED BY <2>2, <2>3, <2>4
  <1>. QED BY <1>1, <1>2

\* The stream of one adapter.
StreamGood(call) ==
    (call # Free /\ call.job.kind = "stream") =>
      LET after == Follows(call.job.adapter) IN
      /\ call.heard \in Seq(Range(call.heard)) /\ call.got \in Seq(Range(call.got))
      /\ LastType(call.heard) \in DOMAIN after
      /\ Texts(call.got) = Texts(call.heard)
      /\ Finishes(call.got) \subseteq {Len(call.got)}
      /\ Finishes(call.got) # {} <=> after[LastType(call.heard)] = {}
      /\ call.pc = "done" => Finishes(call.got) # {}

LEMMA StreamsByCall == AdapterStreamIsWhole <=> \A c \in Slots : StreamGood(client[c])
  BY DEF AdapterStreamIsWhole, StreamGood

LEMMA StreamsByCallNext == AdapterStreamIsWhole' <=> \A c \in Slots : StreamGood(client'[c])
  BY DEF AdapterStreamIsWhole, StreamGood

LEMMA OneStreamMoves ==
    ASSUME SlotsOK, AdapterStreamIsWhole, NEW c \in Slots, NEW call,
           client' = [client EXCEPT ![c] = call], StreamGood(call)
    PROVE  AdapterStreamIsWhole'
  <1>1. client' = [s \in Slots |-> IF s = c THEN call ELSE client[s]]
    BY DEF SlotsOK
  <1>2. ASSUME NEW s \in Slots PROVE StreamGood(client'[s])
    <2>1. StreamGood(client[s])
      BY StreamsByCall
    <2>2. client'[s] = call \/ client'[s] = client[s]
      BY <1>1
    <2>. QED BY <2>1, <2>2
  <1>. QED BY <1>2, StreamsByCallNext

LEMMA InSequence == \A S : \A s \in Seq(S) : s \in Seq(Range(s))
  <1> SUFFICES ASSUME NEW S, NEW s \in Seq(S) PROVE s \in Seq(Range(s))
    OBVIOUS
  <1>1. \A i \in 1 .. Len(s) : s[i] \in Range(s)
    BY DEF Range
  <1> HIDE DEF Range
  <1>. QED BY <1>1

LEMMA NothingYet == /\ <<>> \in Seq(Range(<<>>)) /\ Finishes(<<>>) = {} /\ LastType(<<>>) = "start"
                    /\ \A a : "start" \in DOMAIN Follows(a) /\ Follows(a)["start"] # {}
  <1>1. <<>> \in Seq({})
    OBVIOUS
  <1>2. <<>> \in Seq(Range(<<>>))
    BY <1>1, InSequence
  <1>3. Finishes(<<>>) = {}
    BY DEF Finishes
  <1>4. LastType(<<>>) = "start"
    BY DEF LastType
  <1>5. \A a : "start" \in DOMAIN Follows(a) /\ Follows(a)["start"] # {}
    BY DEF Follows
  <1>. QED BY <1>2, <1>3, <1>4, <1>5

\* One more event of a provider, as the adapter passes it on.
LEMMA OneMoreEvent ==
    ASSUME NEW call, call.job.kind = "stream", call.job.adapter \in Adapters, call # Free, StreamGood(call),
           NEW type \in Follows(call.job.adapter)[LastType(call.heard)],
           NEW e \in Eventful(call.job.adapter, type),
           NEW next, next # Free, next.pc # "done", next.job = call.job,
           next.heard = Append(call.heard, e), next.got = call.got \o Chunks(call.job.adapter, e)
    PROVE  StreamGood(next)
  <1> DEFINE a == call.job.adapter
             heard == call.heard
             got == call.got
             after == Follows(a)
  <1>1. /\ heard \in Seq(Range(heard)) /\ got \in Seq(Range(got)) /\ LastType(heard) \in DOMAIN after
        /\ Texts(got) = Texts(heard)
        /\ Finishes(got) \subseteq {Len(got)}
        /\ Finishes(got) # {} <=> after[LastType(heard)] = {}
    BY DEF StreamGood
  <1>2. type \in DOMAIN after /\ e.type = type
    BY <1>1, OneEvent
  <1>3. /\ next.heard \in Seq(Range(next.heard)) /\ LastType(next.heard) = type
    <2>1. /\ next.heard \in Seq(Range(heard) \union {e}) /\ Len(next.heard) = Len(heard) + 1
          /\ Len(heard) \in Nat /\ next.heard[Len(heard) + 1] = e
      BY <1>1, AppendIs
    <2>2. Len(next.heard) # 0 /\ Len(<<>>) = 0
      BY <2>1
    <2>3. next.heard # <<>>
      BY <2>2
    <2>4. LastType(next.heard) = type
      BY <1>2, <2>1, <2>3 DEF LastType
    <2>. QED BY <2>1, <2>4, InSequence
  <1>4. Finishes(got) = {}
    BY <1>1
  <1> HIDE DEF a, heard, got, after
  <1>5. CASE Chunks(a, e) = <<>> /\ e.text = Absent /\ after[type] # {}
    <2>1. next.got = got
      <3>1. next.got = got \o <<>>
        BY <1>5 DEF got, a
      <3>. QED BY <1>1, <3>1
    <2>2. Texts(next.heard) = Texts(heard)
      BY <1>1, <1>5, TextsStay DEF heard
    <2>3. /\ next.got \in Seq(Range(next.got)) /\ Texts(next.got) = Texts(next.heard)
          /\ Finishes(next.got) = {}
      BY <1>1, <1>4, <2>1, <2>2
    <2>. QED BY <1>2, <1>3, <1>5, <2>3 DEF StreamGood, a, after
  <1>6. ASSUME NEW x, Chunks(a, e) = <<x>>, x.text = e.text, x.finish # Absent <=> after[type] = {}
        PROVE  StreamGood(next)
    <2>1. next.got = Append(got, x)
      <3>1. next.got = got \o <<x>>
        BY <1>6 DEF got, a
      <3>. QED BY <1>1, <3>1
    <2>2. /\ next.got \in Seq(Range(got) \union {x}) /\ Len(next.got) = Len(got) + 1
          /\ \A i \in 1 .. Len(got) : next.got[i] = got[i]
          /\ next.got[Len(got) + 1] = x /\ Len(got) \in Nat
          /\ DOMAIN next.got = 1 .. Len(got) + 1
      BY <1>1, <2>1, AppendIs
    <2>3. next.got \in Seq(Range(next.got))
      BY <2>2, InSequence
    <2>4. /\ Finishes(next.got) \subseteq {Len(next.got)}
          /\ Finishes(next.got) # {} <=> x.finish # Absent
      <3>1. \A i \in 1 .. Len(got) : got[i].finish = Absent
        BY <1>1, <1>4 DEF Finishes
      <3>2. DOMAIN next.got = 1 .. Len(got) \union {Len(got) + 1}
        <4>1. DOMAIN next.got = 1 .. Len(got) + 1
          BY <2>2
        <4> DEFINE n == Len(got)
        <4>2. n \in Nat
          BY <2>2
        <4> HIDE DEF n
        <4>3. 1 .. n + 1 = 1 .. n \union {n + 1}
          BY <4>2
        <4>. QED BY <4>1, <4>3 DEF n
      <3>. QED BY <2>2, <3>1, <3>2 DEF Finishes
    <2>5. Texts(next.got) = Texts(next.heard)
      <3>1. CASE e.text = Absent
        <4>1. Texts(next.got) = Texts(got)
          BY <1>1, <1>6, <2>1, <3>1, TextsStay
        <4>2. Texts(next.heard) = Texts(heard)
          BY <1>1, <3>1, TextsStay DEF heard
        <4>. QED BY <1>1, <4>1, <4>2
      <3>2. CASE e.text # Absent
        <4>1. Texts(next.got) = OneMore(Texts(got), x.text)
          BY <1>1, <1>6, <2>1, <3>2, TextsGrow
        <4>2. Texts(next.heard) = OneMore(Texts(heard), e.text)
          BY <1>1, <3>2, TextsGrow DEF heard
        <4>. QED BY <1>1, <1>6, <4>1, <4>2
      <3>. QED BY <3>1, <3>2
    <2>. QED BY <1>2, <1>3, <1>6, <2>3, <2>4, <2>5 DEF StreamGood, a, after
  <1>7. \/ Chunks(a, e) = <<>> /\ e.text = Absent /\ after[type] # {}
        \/ \E x : Chunks(a, e) = <<x>> /\ x.text = e.text /\ (x.finish # Absent <=> after[type] = {})
    BY <1>1, OneEvent DEF a, after, heard
  <1>. QED BY <1>5, <1>6, <1>7

LEMMA BecomesKeepsJob ==
    ASSUME NEW c, NEW pc, NEW heard, NEW got, Becomes(c, pc, heard, got)
    PROVE  \E call : client' = [client EXCEPT ![c] = call] /\ call.job = client[c].job
  <1> DEFINE call == [pc |-> pc, job |-> client[c].job, tries |-> client[c].tries, heard |-> heard, got |-> got]
  <1>1. client' = [client EXCEPT ![c] = call] /\ call.job = client[c].job
    BY DEF Becomes
  <1> HIDE DEF call
  <1>. QED BY <1>1

LEMMA StepKeepsStreams ==
    ASSUME SlotsOK, AdapterStreamIsWhole, [Next]_vars
    PROVE  AdapterStreamIsWhole'
  <1>1. ASSUME UNCHANGED client PROVE AdapterStreamIsWhole'
    BY <1>1, StreamsByCall, StreamsByCallNext
  <1>2. ASSUME NEW c \in Slots, client[c] # Free, client[c].job.kind # "stream", NEW call,
               client' = [client EXCEPT ![c] = call], call.job = client[c].job
        PROVE  AdapterStreamIsWhole'
    <2>1. StreamGood(call)
      BY <1>2 DEF StreamGood
    <2>. QED BY <1>2, <2>1, OneStreamMoves
  <1>3. ASSUME NEW c \in Slots, client[c].pc = "waiting"
        PROVE  /\ client[c] # Free /\ IsCall(c, client[c]) /\ IsJob(client[c].job) /\ StreamGood(client[c])
               /\ AtMock(client[c].job) => client[c].job.kind # "stream"
    <2>1. client[c] # Free
      BY <1>3 DEF Free
    <2>2. IsCall(c, client[c]) /\ IsJob(client[c].job)
      BY <2>1, SlotFacts
    <2>. QED BY <2>1, <2>2, StreamsByCall DEF IsJob
  <1>4. ASSUME NEW c \in Slots,
               \/ \E job \in Jobs[c] : Call(c, job)
               \/ Receive(c) \/ Raise(c) \/ SdkRetries(c) \/ HangUp(c) \/ Server(c)
               \/ ProviderAnswers(c) \/ ProviderFails(c) \/ ProviderSays(c) \/ ProviderEnds(c)
               \/ Return(c)
        PROVE  AdapterStreamIsWhole'
    <2> DEFINE job == client[c].job
    <2>1. CASE \E new \in Jobs[c] : Call(c, new)
      <3>1. PICK new \in Jobs[c] : Call(c, new)
        BY <2>1
      <3> DEFINE call == [pc |-> "waiting", job |-> new, tries |-> 0, heard |-> <<>>, got |-> <<>>]
      <3>2. client' = [client EXCEPT ![c] = call]
        BY <3>1 DEF Call, At
      <3>3. call.heard = <<>> /\ call.got = <<>> /\ call.pc # "done"
        OBVIOUS
      <3> HIDE DEF call
      <3>4. StreamGood(call)
        BY <3>3, NothingYet DEF StreamGood
      <3>. QED BY <3>2, <3>4, OneStreamMoves
    <2>2. CASE Receive(c) \/ Raise(c)
      <3>1. /\ client[c].pc = "waiting" /\ AtMock(job)
            /\ \E call : client' = [client EXCEPT ![c] = call] /\ call.job = job
        <4>1. client[c].pc = "waiting" /\ AtMock(job)
          BY <2>2 DEF Receive, Raise, HeardMock, Waiting
        <4>2. CASE Receive(c)
          <5> DEFINE got == CASE IsRaw(job) -> <<>>
                              [] job.kind = "health" -> TRUE
                              [] OTHER -> Understand(job.adapter, wire[c][2].body)
          <5>1. Becomes(c, "done", <<>>, got)
            BY <4>2 DEF Receive
          <5> HIDE DEF got
          <5>. QED BY <4>1, <5>1, BecomesKeepsJob
        <4>3. CASE Raise(c)
          <5> DEFINE no == FALSE
          <5>1. Becomes(c, "done", <<>>, no) \/ Becomes(c, "raised", <<>>, <<>>)
            BY <4>3 DEF Raise
          <5> HIDE DEF no
          <5>. QED BY <4>1, <5>1, BecomesKeepsJob
        <4>. QED BY <2>2, <4>2, <4>3
      <3>. QED BY <1>2, <1>3, <3>1
    <2>3. CASE SdkRetries(c) \/ HangUp(c)
      <3>1. client[c].pc = "waiting" /\ (AtMock(job) \/ IsRaw(job))
        BY <2>3 DEF SdkRetries, HangUp, HeardMock, Waiting
      <3>2. IsCall(c, client[c]) /\ client[c] # Free /\ job.kind # "stream"
        BY <3>1, <1>3 DEF IsRaw
      <3> DEFINE again == [client[c] EXCEPT !.tries = @ + 1]
                 gone == [client[c] EXCEPT !.pc = "gone"]
      <3>3. CASE SdkRetries(c)
        <4>1. client' = [client EXCEPT ![c].tries = @ + 1]
          BY <3>3 DEF SdkRetries
        <4>2. client' = [client EXCEPT ![c] = again]
          BY <4>1
        <4>3. again.job = job
          BY <3>2 DEF IsCall
        <4> HIDE DEF again
        <4>. QED BY <1>2, <3>2, <4>2, <4>3
      <3>4. CASE HangUp(c)
        <4>1. client' = [client EXCEPT ![c].pc = "gone"]
          BY <3>4 DEF HangUp
        <4>2. client' = [client EXCEPT ![c] = gone]
          BY <4>1
        <4>3. gone.job = job
          BY <3>2 DEF IsCall
        <4> HIDE DEF gone
        <4>. QED BY <1>2, <3>2, <4>2, <4>3
      <3>. QED BY <2>3, <3>3, <3>4
    <2>4. CASE Server(c)
      BY <1>1, <2>4 DEF Server
    <2>5. CASE ProviderAnswers(c)
      <3>1. /\ client[c].pc = "waiting" /\ job.kind # "stream"
            /\ \E call : client' = [client EXCEPT ![c] = call] /\ call.job = job
        BY <2>5 DEF ProviderAnswers, AtProvider, Waiting, Becomes
      <3>. QED BY <1>2, <1>3, <3>1
    <2>6. CASE ProviderFails(c)
      <3>1. client[c].pc = "waiting"
        BY <2>6 DEF ProviderFails, AtProvider, Waiting
      <3>2. CASE job.kind = "stream"
        <4> DEFINE call == [pc |-> "raised", job |-> job, tries |-> client[c].tries,
                            heard |-> client[c].heard, got |-> client[c].got]
        <4>1. client' = [client EXCEPT ![c] = call]
          BY <2>6, <3>2 DEF ProviderFails, Becomes
        <4>2. /\ call.pc # "done" /\ call.job = job
              /\ call.heard = client[c].heard /\ call.got = client[c].got
          OBVIOUS
        <4>3. StreamGood(client[c]) /\ client[c] # Free
          BY <1>3, <3>1
        <4> HIDE DEF call
        <4>4. StreamGood(call)
          BY <3>2, <4>2, <4>3 DEF StreamGood
        <4>. QED BY <4>1, <4>4, OneStreamMoves
      <3>3. CASE job.kind # "stream"
        <4>1. \E call : client' = [client EXCEPT ![c] = call] /\ call.job = job
          BY <2>6 DEF ProviderFails, Becomes
        <4>. QED BY <1>2, <1>3, <3>1, <3>3, <4>1
      <3>. QED BY <3>2, <3>3
    <2>7. CASE ProviderSays(c)
      <3>1. client[c].pc = "waiting" /\ ~AtMock(job) /\ job.kind = "stream"
        BY <2>7 DEF ProviderSays, AtProvider, Waiting
      <3>2. client[c] # Free /\ IsJob(job) /\ StreamGood(client[c])
        BY <1>3, <3>1
      <3>3. job.adapter \in Adapters
        BY <3>1, <3>2 DEF IsJob, IsRaw
      <3>4a. PICK type \in Follows(job.adapter)[LastType(client[c].heard)] : \E e \in Eventful(job.adapter, type) :
              Becomes(c, "waiting", Append(client[c].heard, e), client[c].got \o Chunks(job.adapter, e))
        BY <2>7 DEF ProviderSays
      <3>4. PICK e \in Eventful(job.adapter, type) :
              Becomes(c, "waiting", Append(client[c].heard, e), client[c].got \o Chunks(job.adapter, e))
        BY <3>4a
      <3> DEFINE call == [pc |-> "waiting", job |-> job, tries |-> client[c].tries,
                          heard |-> Append(client[c].heard, e),
                          got |-> client[c].got \o Chunks(job.adapter, e)]
      <3>5. client' = [client EXCEPT ![c] = call]
        BY <3>4 DEF Becomes
      <3>6. /\ call.pc # "done" /\ call.job = job /\ call # Free
            /\ call.heard = Append(client[c].heard, e)
            /\ call.got = client[c].got \o Chunks(job.adapter, e)
        BY DEF Free
      <3> HIDE DEF call
      <3>7. StreamGood(call)
        BY <3>1, <3>2, <3>3, <3>4, <3>6, OneMoreEvent
      <3>. QED BY <3>5, <3>7, OneStreamMoves
    <2>8. CASE ProviderEnds(c)
      <3>1. /\ client[c].pc = "waiting" /\ job.kind = "stream"
            /\ Follows(job.adapter)[LastType(client[c].heard)] = {}
            /\ client' = [client EXCEPT ![c] = [@ EXCEPT !.pc = "done"]]
        BY <2>8 DEF ProviderEnds, AtProvider, Waiting
      <3>2. IsCall(c, client[c]) /\ client[c] # Free /\ StreamGood(client[c])
        BY <1>3, <3>1
      <3> DEFINE call == [client[c] EXCEPT !.pc = "done"]
      <3>3. call.job = job /\ call.heard = client[c].heard /\ call.got = client[c].got
        BY <3>2 DEF IsCall
      <3>4. client' = [client EXCEPT ![c] = call]
        BY <3>1
      <3> HIDE DEF call
      <3>5. StreamGood(call)
        BY <3>1, <3>2, <3>3 DEF StreamGood
      <3>. QED BY <3>4, <3>5, OneStreamMoves
    <2>9. CASE Return(c)
      <3>1. client' = [client EXCEPT ![c] = Free]
        BY <2>9 DEF Return
      <3>2. StreamGood(Free)
        BY DEF StreamGood
      <3>. QED BY <3>1, <3>2, OneStreamMoves
    <2>. QED BY <1>4, <2>1, <2>2, <2>3, <2>4, <2>5, <2>6, <2>7, <2>8, <2>9
  <1>5. RegisterProviders \/ UNCHANGED vars => UNCHANGED client
    BY DEF RegisterProviders, vars
  <1>. QED BY <1>1, <1>4, <1>5 DEF Next

\* stream_chunks and `stream`: the client of a streaming route sees the events in order
\* and all of them before the end, and an adapter passes on all the text of a provider
\* in order and says once, at the end, that the answer is finished.
THEOREM StreamsStayWhole == Spec => []StreamsAreWhole
  <1>1. Init => AdapterStreamIsWhole
    <2>1. Init => \A c \in Slots : client[c] = Free
      BY DEF Init
    <2>. QED BY <2>1 DEF AdapterStreamIsWhole
  <1>2. ProvidersInv /\ OneShotAnswersOnce => SlotsOK
    BY InvariantInParts
  <1>3. ProvidersInv /\ OneShotAnswersOnce /\ AdapterStreamIsWhole /\ [Next]_vars => AdapterStreamIsWhole'
    BY <1>2, StepKeepsStreams
  <1>4. ProvidersInv /\ AdapterStreamIsWhole => StreamsAreWhole
    BY StreamsAreInOrder DEF StreamsAreWhole
  <1>. QED BY <1>1, <1>3, <1>4, ProvidersKeepTheirInvariant, OrdersAreAnsweredOnce, PTL DEF Spec

-----------------------------------------------------------------------------
\* A set of positions that is not empty has a last one, which is its Max.
LEMMA LastPosition ==
    ASSUME NEW m \in Nat, NEW I, I \subseteq 1 .. m, I # {}
    PROVE  \E x \in I : (\A i \in I : i <= x) /\ Max(I) = x
  <1> DEFINE T == {n \in Nat : \A i \in I : i <= n}
  <1>1. m \in T
    OBVIOUS
  <1>2. PICK x \in T : \A n \in T : x <= n
    <2>1. T \subseteq Nat /\ T # {}
      BY <1>1
    <2> HIDE DEF T
    <2>. QED BY <2>1, LeastNat
  <1>3. x \in Nat /\ \A i \in I : i \in Int /\ i >= 1 /\ i <= x
    BY <1>2
  <1>4. x >= 1 /\ x - 1 \in Nat
    <2>1. PICK i \in I : i \in Int /\ i >= 1 /\ i <= x
      BY <1>3
    <2>. QED BY <1>3, <2>1
  <1>5. x - 1 \notin T
    BY <1>2, <1>4
  <1>6. PICK i \in I : ~(i <= x - 1)
    BY <1>4, <1>5
  <1>7. i = x
    BY <1>3, <1>4, <1>6
  <1>8. x \in I /\ \A j \in I : x >= j
    BY <1>3, <1>6, <1>7
  <1>9. \A y \in I : (\A j \in I : y >= j) => y = x
    BY <1>3, <1>8
  <1>10. Max(I) = x
    BY <1>8, <1>9 DEF Max
  <1>. QED BY <1>3, <1>8, <1>10

LEMMA MaxIs ==
    ASSUME NEW I, I \subseteq Int, NEW x \in I, \A i \in I : i <= x
    PROVE  Max(I) = x
  <1>1. \A j \in I : x >= j
    OBVIOUS
  <1>2. \A y \in I : (\A j \in I : y >= j) => y = x
    OBVIOUS
  <1>. QED BY <1>1, <1>2 DEF Max

Users(messages) == {i \in DOMAIN messages : messages[i].role = "user"}

LEMMA OthersAre ==
    ASSUME NEW S, NEW messages \in Seq(S), NEW I, I = DOMAIN messages \ Prompts(messages)
    PROVE  /\ IsFiniteSet(I) /\ DOMAIN Others(messages) = 1 .. Cardinality(I) /\ Cardinality(I) \in Nat
           /\ \A i \in I : Nth(I, i) \in 1 .. Cardinality(I) /\ Others(messages)[Nth(I, i)] = messages[i]
           /\ \A n \in 1 .. Cardinality(I) : \E i \in I : Nth(I, i) = n
  <1>1. I \subseteq 1 .. Len(messages) /\ Len(messages) \in Nat
    OBVIOUS
  <1> DEFINE sel == Selected(messages, I)
  <1>2a. /\ IsFiniteSet(I) /\ Cardinality(I) \in Nat /\ DOMAIN sel = 1 .. Cardinality(I)
    BY <1>1, SelectedPuts
  <1>2b. ASSUME NEW i \in I PROVE Nth(I, i) \in 1 .. Cardinality(I) /\ sel[Nth(I, i)] = messages[i]
    <2>1. I \subseteq Int
      BY <1>1
    <2>. QED BY <1>2a, <2>1, SelectedAt
  <1>2c. \A n \in 1 .. Cardinality(I) : \E i \in I : Nth(I, i) = n
    BY <1>1, SelectedPuts
  <1>3. Others(messages) = sel
    BY DEF Others
  <1> HIDE DEF sel
  <1>. QED BY <1>2a, <1>2b, <1>2c, <1>3

\* Without the system prompts, the last message of the user is the same.
LEMMA LastUserSurvives ==
    ASSUME NEW S, NEW messages \in Seq(S)
    PROVE  LastUser(Others(messages)) = LastUser(messages)
  <1> DEFINE m == Len(messages)
             I == DOMAIN messages \ Prompts(messages)
             rest == Others(messages)
  <1>1. DOMAIN messages = 1 .. m /\ I \subseteq 1 .. m /\ m \in Nat
    OBVIOUS
  <1>2. Users(messages) \subseteq I
    BY DEF Users, Prompts
  <1>3. /\ IsFiniteSet(I) /\ DOMAIN rest = 1 .. Cardinality(I) /\ Cardinality(I) \in Nat
        /\ \A i \in I : Nth(I, i) \in 1 .. Cardinality(I) /\ rest[Nth(I, i)] = messages[i]
        /\ \A n \in 1 .. Cardinality(I) : \E i \in I : Nth(I, i) = n
    BY OthersAre
  <1> HIDE DEF I, m, rest
  <1>4. \A i \in I : i \in DOMAIN messages /\ i \in Int
    BY <1>1
  <1>5. \A n \in Users(rest) : \E i \in Users(messages) : Nth(I, i) = n
    <2> SUFFICES ASSUME NEW n \in Users(rest) PROVE \E i \in Users(messages) : Nth(I, i) = n
      OBVIOUS
    <2>1. n \in 1 .. Cardinality(I) /\ rest[n].role = "user"
      BY <1>3 DEF Users
    <2>2. PICK i \in I : Nth(I, i) = n
      BY <1>3, <2>1
    <2>3. messages[i].role = "user"
      BY <1>3, <2>1, <2>2
    <2>. QED BY <1>4, <2>2, <2>3 DEF Users
  <1>6. \A i \in Users(messages) : Nth(I, i) \in Users(rest)
    BY <1>2, <1>3 DEF Users
  <1>7. CASE Users(messages) = {}
    <2>1. Users(rest) = {}
      BY <1>5, <1>7
    <2>. QED BY <1>7, <2>1 DEF LastUser, Users, rest
  <1>8. CASE Users(messages) # {}
    <2>1. PICK x \in Users(messages) : (\A i \in Users(messages) : i <= x) /\ Max(Users(messages)) = x
      BY <1>1, <1>2, <1>8, LastPosition
    <2> DEFINE n == Nth(I, x)
    <2>2. n \in Users(rest) /\ rest[n] = messages[x] /\ x \in I
      BY <1>2, <1>3, <1>6, <2>1
    <2>3. Users(rest) \subseteq Int
      BY <1>3 DEF Users
    <2>4. ASSUME NEW k \in Users(rest) PROVE k <= n
      <3>1. PICK i \in Users(messages) : Nth(I, i) = k
        BY <1>5
      <3>2. i \in I /\ i \in Int /\ x \in Int /\ I \subseteq Int /\ i <= x
        BY <1>1, <1>2, <2>1, <2>2
      <3>3. Nth(I, i) \in Nat /\ Nth(I, x) \in Nat
        BY <1>3, <3>2, NthType
      <3>4. i < x => Nth(I, i) < Nth(I, x)
        BY <1>3, <2>2, <3>2, NthGrows
      <3>5. i = x \/ i < x
        BY <3>2
      <3>. QED BY <3>1, <3>3, <3>4, <3>5
    <2> HIDE DEF n
    <2>5. Max(Users(rest)) = n
      BY <2>2, <2>3, <2>4, MaxIs
    <2>6. LastUser(messages) = messages[x]
      BY <1>8, <2>1 DEF LastUser, Users
    <2>7. LastUser(rest) = rest[n]
      BY <2>2, <2>5 DEF LastUser, Users
    <2>. QED BY <2>2, <2>6, <2>7 DEF rest
  <1>. QED BY <1>7, <1>8

\* The last message of the user is one of the messages, if it is a string.
LEMMA LastUserIsAMessage ==
    ASSUME NEW S, NEW messages \in Seq(S), LastUser(messages).plain
    PROVE  \E i \in DOMAIN messages : LastUser(messages) = messages[i]
  <1>1. Users(messages) # {}
    <2>1. ASSUME Users(messages) = {} PROVE FALSE
      <3>1. LastUser(messages) = [text |-> Absent, said |-> 0, plain |-> FALSE]
        BY <2>1 DEF LastUser, Users
      <3>2. LastUser(messages).plain = FALSE
        BY <3>1
      <3>. QED BY <3>2, Zenon
    <2>. QED BY <2>1
  <1>2. Users(messages) \subseteq 1 .. Len(messages) /\ Len(messages) \in Nat
    BY DEF Users
  <1>3. PICK x \in Users(messages) : Max(Users(messages)) = x
    BY <1>1, <1>2, LastPosition
  <1>4. LastUser(messages) = messages[x]
    BY <1>1, <1>3 DEF LastUser, Users
  <1>. QED BY <1>4 DEF Users

\* One element of a sequence, taken out.
LEMMA OneSelected ==
    ASSUME NEW s, NEW k \in 1 .. 2, NEW I, I = {k}
    PROVE  Cardinality(I) = 1 /\ Selected(s, I) = <<s[k]>>
  <1>1. Cardinality(I) = 1
    BY FS_Singleton
  <1>2. DOMAIN Selected(s, I) = 1 .. 1 /\ Selected(s, I) = [n \in 1 .. 1 |-> Selected(s, I)[n]]
    BY <1>1 DEF Selected
  <1>3. Nth(I, k) \in 1 .. 1 /\ Selected(s, I)[Nth(I, k)] = s[k]
    <2>1. I \subseteq 1 .. 2
      OBVIOUS
    <2>. QED BY <1>1, <2>1, SelectedPuts
  <1>4. Selected(s, I)[1] = s[k]
    BY <1>3
  <1>. QED BY <1>1, <1>2, <1>4

LEMMA NoneSelected ==
    ASSUME NEW s
    PROVE  Cardinality({}) = 0 /\ Selected(s, {}) = <<>>
  <1>1. Cardinality({}) = 0
    BY FS_EmptySet
  <1>. QED BY <1>1 DEF Selected

-----------------------------------------------------------------------------
\* What the adapters make of the fields of an answer.
LEMMA OpenAIUnderstands ==
    ASSUME NEW resp
    PROVE  /\ OpenAIUnified(resp).content = Or(resp.content, <<>>)
           /\ OpenAIUnified(resp).finish = Or(resp.finish, "stop")
           /\ OpenAIUnified(resp).tools = IF Or(resp.tools, <<>>) = <<>> THEN Absent ELSE Or(resp.tools, <<>>)
           /\ OpenAIUnified(resp).usage.input = resp.input
  BY DEF OpenAIUnified, Unified

\* The calls in an answer of the Messages API, as the adapter hands them on.
Told(resp) ==
    LET calls == Selected(resp.blocks, BlocksOf(resp, "tool_use"))
    IN  [i \in DOMAIN calls |-> [name |-> calls[i].name, arguments |-> "object"]]

\* What TextsAreKept says of an answer.
KeepsTexts(resp, got, I) ==
    /\ got.content = [n \in 1 .. Cardinality(I) |-> got.content[n]]
    /\ Cardinality(I) \in Nat /\ Len(got.content) = Cardinality(I)
    /\ \A i \in I : got.content[Nth(I, i)] = resp.blocks[i].text
    /\ got.finish = MapStopReason(Or(resp.stop, "end_turn"))
    /\ got.tools = (IF Told(resp) = <<>> THEN Absent ELSE Told(resp))
    /\ got.usage.input = resp.input

LEMMA TextsAreKept ==
    ASSUME NEW resp, NEW S, resp.blocks \in Seq(S), NEW got, got = AnthropicUnified(resp),
           NEW I, I = BlocksOf(resp, "text")
    PROVE  /\ got.content = [n \in 1 .. Cardinality(I) |-> got.content[n]]
           /\ Cardinality(I) \in Nat /\ Len(got.content) = Cardinality(I)
           /\ \A i \in I : got.content[Nth(I, i)] = resp.blocks[i].text
           /\ got.finish = MapStopReason(Or(resp.stop, "end_turn"))
           /\ got.tools = (IF Told(resp) = <<>> THEN Absent ELSE Told(resp))
           /\ got.usage.input = resp.input
  <1> DEFINE texts == Selected(resp.blocks, I)
             said == [i \in DOMAIN texts |-> texts[i].text]
  <1>1. got = Unified(said, MapStopReason(Or(resp.stop, "end_turn")), Told(resp),
                      resp.input, resp.output, resp.cached)
    BY DEF AnthropicUnified, Told
  <1>2. I \subseteq 1 .. Len(resp.blocks) /\ Len(resp.blocks) \in Nat
    BY DEF BlocksOf
  <1>3. /\ Cardinality(I) \in Nat /\ DOMAIN texts = 1 .. Cardinality(I)
        /\ \A i \in I : Nth(I, i) \in 1 .. Cardinality(I) /\ texts[Nth(I, i)] = resp.blocks[i]
    BY <1>2, SelectedPuts
  <1> HIDE DEF texts
  <1>4. \A i \in I : said[Nth(I, i)] = resp.blocks[i].text
    BY <1>3
  <1>5. said = [n \in 1 .. Cardinality(I) |-> said[n]]
    BY <1>3
  <1> HIDE DEF said
  <1>6. Len(said) = Cardinality(I)
    BY <1>3, <1>5
  <1>7. /\ got.content = said /\ got.finish = MapStopReason(Or(resp.stop, "end_turn"))
        /\ got.tools = (IF Told(resp) = <<>> THEN Absent ELSE Told(resp)) /\ got.usage.input = resp.input
    BY <1>1 DEF Unified
  <1>. QED BY <1>3, <1>4, <1>5, <1>6, <1>7

LEMMA AnswersKeepTheirTexts ==
    ASSUME NEW resp, NEW S, resp.blocks \in Seq(S), NEW got, got = AnthropicUnified(resp)
    PROVE  KeepsTexts(resp, got, BlocksOf(resp, "text"))
  <1> DEFINE I == BlocksOf(resp, "text")
  <1>1. I = BlocksOf(resp, "text")
    OBVIOUS
  <1> HIDE DEF I
  <1>. QED BY <1>1, TextsAreKept DEF KeepsTexts

LEMMA CallsAreKept ==
    ASSUME NEW resp, NEW S, resp.blocks \in Seq(S), NEW J, J = BlocksOf(resp, "tool_use")
    PROVE  /\ Cardinality(J) \in Nat /\ Told(resp) = [n \in 1 .. Cardinality(J) |-> Told(resp)[n]]
           /\ \A i \in J : /\ Nth(J, i) \in 1 .. Cardinality(J)
                           /\ Told(resp)[Nth(J, i)] = [name |-> resp.blocks[i].name, arguments |-> "object"]
           /\ \A n \in 1 .. Cardinality(J) : \E i \in J : Nth(J, i) = n
           /\ (J = {}) <=> (Told(resp) = <<>>)
  <1> DEFINE calls == Selected(resp.blocks, J)
             told == [i \in DOMAIN calls |-> [name |-> calls[i].name, arguments |-> "object"]]
  <1>1. Told(resp) = told
    BY DEF Told
  <1>2. J \subseteq 1 .. Len(resp.blocks) /\ Len(resp.blocks) \in Nat
    BY DEF BlocksOf
  <1>3. /\ IsFiniteSet(J) /\ Cardinality(J) \in Nat /\ DOMAIN calls = 1 .. Cardinality(J)
        /\ \A i \in J : Nth(J, i) \in 1 .. Cardinality(J) /\ calls[Nth(J, i)] = resp.blocks[i]
        /\ \A n \in 1 .. Cardinality(J) : \E i \in J : Nth(J, i) = n
    <2>1. PICK m \in Nat : J \subseteq 1 .. m
      BY <1>2
    <2>2. PICK blocks : blocks = resp.blocks
      OBVIOUS
    <2>3. Puts(blocks, J)
      BY ONLY <2>1, SelectionPuts
    <2>. QED BY <2>2, <2>3 DEF Puts
  <1> HIDE DEF calls
  <1>4. \A i \in J : told[Nth(J, i)] = [name |-> resp.blocks[i].name, arguments |-> "object"]
    BY <1>3
  <1>5. told = [n \in 1 .. Cardinality(J) |-> told[n]]
    BY <1>3
  <1> HIDE DEF told
  <1>6. (J = {}) <=> (Cardinality(J) = 0)
    BY <1>3, FS_EmptySet
  <1>7. (Cardinality(J) = 0) <=> (told = <<>>)
    <2>1. Cardinality(J) = 0 => told = <<>>
      BY <1>5
    <2>2. told = <<>> => DOMAIN told = {}
      OBVIOUS
    <2>3. DOMAIN told = 1 .. Cardinality(J)
      BY <1>5
    <2>. QED BY <1>3, <2>1, <2>2, <2>3
  <1>. QED BY <1>1, <1>3, <1>4, <1>5, <1>6, <1>7

\* A single call, and a single text.
LEMMA AnthropicCalls ==
    ASSUME NEW resp, NEW S, resp.blocks \in Seq(S), BlocksOf(resp, "tool_use") = {1},
           NEW got, got = AnthropicUnified(resp)
    PROVE  /\ got.tools = <<[name |-> resp.blocks[1].name, arguments |-> "object"]>>
           /\ got.finish = MapStopReason(Or(resp.stop, "end_turn")) /\ got.usage.input = resp.input
  <1> DEFINE J == BlocksOf(resp, "tool_use")
             call == [name |-> resp.blocks[1].name, arguments |-> "object"]
  <1>1. /\ got.tools = (IF Told(resp) = <<>> THEN Absent ELSE Told(resp))
        /\ got.finish = MapStopReason(Or(resp.stop, "end_turn")) /\ got.usage.input = resp.input
    BY TextsAreKept
  <1>2. Cardinality(J) = 1 /\ 1 \in J
    BY FS_Singleton
  <1>3. /\ Told(resp) = [n \in 1 .. Cardinality(J) |-> Told(resp)[n]]
        /\ \A i \in J : Nth(J, i) \in 1 .. Cardinality(J) /\ Told(resp)[Nth(J, i)] =
                           [name |-> resp.blocks[i].name, arguments |-> "object"]
        /\ (J = {}) <=> (Told(resp) = <<>>)
    BY CallsAreKept
  <1> HIDE DEF J
  <1>4. Nth(J, 1) = 1 /\ Told(resp)[1] = call
    <2>1. Nth(J, 1) \in 1 .. Cardinality(J) /\ Told(resp)[Nth(J, 1)] = call
      BY ONLY <1>2, <1>3
    <2>2. Nth(J, 1) = 1
      BY ONLY <1>2, <2>1
    <2>. QED BY ONLY <2>1, <2>2
  <1> HIDE DEF call
  <1>5. Told(resp) = <<call>> /\ Told(resp) # <<>>
    BY <1>2, <1>3, <1>4
  <1>. QED BY <1>1, <1>5 DEF call

LEMMA AnthropicSays ==
    ASSUME NEW resp, NEW S, resp.blocks \in Seq(S),
           BlocksOf(resp, "tool_use") = {}, BlocksOf(resp, "text") = {1},
           NEW got, got = AnthropicUnified(resp)
    PROVE  /\ got.tools = Absent /\ got.content = <<resp.blocks[1].text>>
           /\ got.finish = MapStopReason(Or(resp.stop, "end_turn")) /\ got.usage.input = resp.input
  <1> DEFINE I == BlocksOf(resp, "text")
  <1>1. /\ got.content = [n \in 1 .. Cardinality(I) |-> got.content[n]]
        /\ \A i \in I : got.content[Nth(I, i)] = resp.blocks[i].text
        /\ got.finish = MapStopReason(Or(resp.stop, "end_turn"))
        /\ got.tools = (IF Told(resp) = <<>> THEN Absent ELSE Told(resp))
        /\ got.usage.input = resp.input
    BY TextsAreKept
  <1>2. Cardinality(I) = 1 /\ I = {1}
    BY FS_Singleton
  <1>3. Nth(I, 1) \in 1 .. 1
    <2>1. I \subseteq 1 .. 1
      BY <1>2
    <2> HIDE DEF I
    <2>. QED BY <1>2, <2>1, SelectedPuts
  <1>4. Told(resp) = <<>>
    BY CallsAreKept
  <1> HIDE DEF I
  <1>5. got.content[1] = resp.blocks[1].text
    BY <1>1, <1>2, <1>3
  <1>6. got.content = <<resp.blocks[1].text>>
    BY <1>1, <1>2, <1>5
  <1>. QED BY <1>1, <1>4, <1>6

AnswersTheUser(req, got, paid) ==
    /\ got.finish \in Documented
    /\ (got.finish = "tool_calls") = (got.tools # Absent)
    /\ (got.tools # Absent) = (req.tools \notin {Absent, <<>>})
    /\ (got.tools = Absent /\ req.response_format = Absent /\ LastUser(req.messages).plain) =>
          got.content = <<LastUser(req.messages).text>>
    /\ got.usage.input = Tokens(paid)

LEMMA Strings ==
    /\ Absent \notin Documented /\ Absent \notin StopReasons /\ Absent # "json_schema" /\ Absent \notin Int
    /\ Absent \notin Seq(ToolCalls)
    /\ \A arguments \in {"string", "object"} :
         <<[name |-> "do_something", arguments |-> arguments]>> # Absent
  <1>1. \A arguments \in {"string", "object"} : [name |-> "do_something", arguments |-> arguments] \in ToolCalls
    BY DEF ToolCalls
  <1>2. \A call \in ToolCalls : <<call>> \in Seq(ToolCalls)
    OBVIOUS
  <1>. QED BY <1>1, <1>2, ProvidersAssumption

LEMMA MockAnswersOpenAI ==
    ASSUME NEW req, IsRequest(req), NEW got,
           got = OpenAIUnified(ChatResponse(OpenAIArgs(req, FALSE)))
    PROVE  AnswersTheUser(req, got, req.messages)
  <1> DEFINE body == OpenAIArgs(req, FALSE)
             resp == ChatResponse(body)
             last == LastUser(req.messages)
             tool == [name |-> IF body.tools[1].nested THEN body.tools[1].name ELSE "do_something",
                      arguments |-> "string"]
  <1>1. /\ body.messages = req.messages /\ body.response_format = req.response_format
        /\ body.tools = IF req.tools = <<>> THEN Absent ELSE req.tools
    BY DEF OpenAIArgs
  <1> HIDE DEF body
  <1>2. resp.input = Tokens(req.messages)
    BY <1>1 DEF ChatResponse
  <1>3. CASE req.tools \notin {Absent, <<>>}
    <2>1. /\ resp.content = Absent /\ resp.tools = <<tool>> /\ resp.finish = "tool_calls"
      BY <1>1, <1>3 DEF ChatResponse
    <2>2. body.tools = req.tools
      BY <1>1, <1>3
    <2>3. <<tool>> # Absent
      BY <1>3, <2>2, Strings DEF IsRequest
    <2> HIDE DEF resp, tool
    <2>4. Or(resp.tools, <<>>) = <<tool>> /\ <<tool>> # <<>> /\ Or(resp.finish, "stop") = "tool_calls"
      BY <2>1, <2>3, Strings DEF Or, Documented
    <2>5. got.tools = <<tool>> /\ got.finish = "tool_calls" /\ got.usage.input = Tokens(req.messages)
      BY <1>2, <2>1, <2>4, OpenAIUnderstands DEF resp, body
    <2>. QED BY <1>3, <2>3, <2>5 DEF AnswersTheUser, Documented
  <1>4. CASE req.tools \in {Absent, <<>>}
    <2>1. body.tools = Absent
      BY <1>1, <1>4
    <2>2. resp.tools = Absent /\ resp.finish = "stop"
      BY <2>1 DEF ChatResponse
    <2>3. (req.response_format = Absent /\ last.plain) => resp.content = <<last.text>>
      BY <1>1, <2>1, Strings DEF ChatResponse, Echo
    <2>4. last.plain => <<last.text>> # Absent
      <3> SUFFICES ASSUME last.plain PROVE <<last.text>> # Absent
        OBVIOUS
      <3>1. PICK i \in DOMAIN req.messages : last = req.messages[i]
        BY LastUserIsAMessage DEF IsRequest
      <3> HIDE DEF last
      <3>. QED BY <3>1 DEF IsRequest
    <2> HIDE DEF resp, last
    <2>5. got.tools = Absent /\ got.finish = "stop" /\ got.usage.input = Tokens(req.messages)
      BY <1>2, <2>2, OpenAIUnderstands, Strings DEF resp, body, Or, Documented
    <2>6. (req.response_format = Absent /\ last.plain) => got.content = <<last.text>>
      BY <2>3, <2>4, OpenAIUnderstands DEF resp, body, Or
    <2>. QED BY <1>4, <2>5, <2>6 DEF AnswersTheUser, Documented, last
  <1>. QED BY <1>3, <1>4

-----------------------------------------------------------------------------
LEMMA MockAnswersAnthropic ==
    ASSUME NEW req, IsRequest(req), NEW got,
           got = AnthropicUnified(MessagesResponse(AnthropicArgs(req, FALSE)))
    PROVE  AnswersTheUser(req, got, Others(req.messages))
  <1> DEFINE body == AnthropicArgs(req, FALSE)
             resp == MessagesResponse(body)
             last == LastUser(req.messages)
             name == IF body.tools[1].nested THEN "do_something" ELSE body.tools[1].name
             tool == [name |-> name, arguments |-> "object"]
  <1>1. /\ body.messages = Others(req.messages)
        /\ body.tools = IF req.tools = <<>> THEN Absent ELSE req.tools
    BY DEF AnthropicArgs, SplitSystem
  <1>2. LastUser(body.messages) = last
    BY <1>1, LastUserSurvives DEF IsRequest
  <1> HIDE DEF body
  <1>3. resp.input = Tokens(Others(req.messages))
    BY <1>1 DEF MessagesResponse
  <1>4. ASSUME NEW b, resp.blocks = <<b>>
        PROVE  /\ resp.blocks \in Seq({b}) /\ resp.blocks[1] = b
               /\ \A type : BlocksOf(resp, type) = IF b.type = type THEN {1} ELSE {}
    <2> HIDE DEF resp
    <2>1. resp.blocks \in Seq({b}) /\ resp.blocks[1] = b /\ DOMAIN resp.blocks = {1}
      BY <1>4
    <2>. QED BY <2>1 DEF BlocksOf
  <1>5. CASE req.tools \notin {Absent, <<>>}
    <2> DEFINE b == [type |-> "tool_use", name |-> name,
                     chars |-> IF body.tools[1].nested THEN 12 ELSE body.tools[1].chars]
    <2>1. body.tools = req.tools /\ body.tools # Absent
      BY <1>1, <1>5
    <2>2. resp.blocks = <<b>> /\ resp.stop = "tool_use"
      BY <2>1 DEF MessagesResponse
    <2>3. <<tool>> # Absent
      BY <1>5, <2>1, Strings DEF IsRequest
    <2>4. b.type = "tool_use" /\ b.name = name
      OBVIOUS
    <2> HIDE DEF resp, b, tool
    <2>5. /\ resp.blocks \in Seq({b}) /\ resp.blocks[1].name = name
          /\ BlocksOf(resp, "tool_use") = {1}
      BY <1>4, <2>2, <2>4
    <2>6. Or(resp.stop, "end_turn") = "tool_use"
      BY <2>2, Strings DEF Or, StopReasons
    <2>8. /\ got.tools = <<[name |-> resp.blocks[1].name, arguments |-> "object"]>>
          /\ got.finish = MapStopReason("tool_use") /\ got.usage.input = resp.input
      <3>1. BlocksOf(resp, "tool_use") = {1}
        BY <2>5
      <3>2. got = AnthropicUnified(resp)
        BY DEF resp, body
      <3>3. resp.blocks \in Seq({b})
        BY <2>5
      <3> HIDE DEF name
      <3>4. /\ got.finish = MapStopReason(Or(resp.stop, "end_turn")) /\ got.usage.input = resp.input
            /\ got.tools = <<[name |-> resp.blocks[1].name, arguments |-> "object"]>>
        BY <3>1, <3>2, <3>3, AnthropicCalls
      <3>. QED BY <2>6, <3>4
    <2>9. got.tools = <<tool>> /\ got.finish = "tool_calls" /\ got.usage.input = Tokens(Others(req.messages))
      <3> HIDE DEF name
      <3>. QED BY <1>3, <2>5, <2>8 DEF tool, MapStopReason
    <2>. QED BY <1>5, <2>3, <2>9 DEF AnswersTheUser, Documented
  <1>6. CASE req.tools \in {Absent, <<>>}
    <2> DEFINE b == [type |-> "text", text |-> last.text, chars |-> Echo(last).chars]
    <2>1. body.tools = Absent
      BY <1>1, <1>6
    <2>2. resp.blocks = <<b>> /\ resp.stop = "end_turn"
      BY <1>2, <2>1 DEF MessagesResponse, Echo
    <2>4. b.type = "text" /\ b.text = last.text
      OBVIOUS
    <2> HIDE DEF resp, b, last
    <2>5. /\ resp.blocks \in Seq({b}) /\ resp.blocks[1].text = last.text
          /\ BlocksOf(resp, "tool_use") = {} /\ BlocksOf(resp, "text") = {1}
      BY <1>4, <2>2, <2>4
    <2>6. Or(resp.stop, "end_turn") = "end_turn"
      BY <2>2 DEF Or
    <2>8. /\ got.tools = Absent /\ got.content = <<resp.blocks[1].text>>
          /\ got.finish = MapStopReason("end_turn") /\ got.usage.input = resp.input
      <3>1. got = AnthropicUnified(resp)
        BY DEF resp, body
      <3>2. resp.blocks \in Seq({b}) /\ BlocksOf(resp, "tool_use") = {} /\ BlocksOf(resp, "text") = {1}
        BY <2>5
      <3>3. /\ got.tools = Absent /\ got.content = <<resp.blocks[1].text>>
            /\ got.finish = MapStopReason(Or(resp.stop, "end_turn")) /\ got.usage.input = resp.input
        BY <3>1, <3>2, AnthropicSays
      <3>. QED BY <2>6, <3>3
    <2>9. got.finish = "stop" /\ got.usage.input = Tokens(Others(req.messages)) /\ got.content = <<last.text>>
      BY <1>3, <2>5, <2>8 DEF MapStopReason
    <2>. QED BY <1>6, <2>8, <2>9 DEF AnswersTheUser, Documented, last
  <1>. QED BY <1>5, <1>6

\* Both APIs of the mock, and the adapters that go to them.
LEMMA MockAnswers ==
    ASSUME NEW job, job.kind = "complete", job.adapter \in Adapters, IsRequest(job.req),
           NEW got, got = Understand(job.adapter, Response(Pair(job), Body(job)))
    PROVE  AnswersTheUser(job.req, got,
             IF Api(job.adapter) = "anthropic" THEN Others(job.req.messages) ELSE job.req.messages)
  <1>1. Body(job) = Args(job.adapter, job.req, FALSE) /\ ~IsRaw(job)
    BY DEF Body, IsRaw
  <1>2. CASE Api(job.adapter) = "anthropic"
    <2>1. Pair(job)[2] = "messages"
      BY <1>1, <1>2 DEF Pair
    <2>2. Response(Pair(job), Body(job)) = MessagesResponse(AnthropicArgs(job.req, FALSE))
      BY <1>1, <1>2, <2>1 DEF Response, Args
    <2>3. got = AnthropicUnified(MessagesResponse(AnthropicArgs(job.req, FALSE)))
      BY <1>2, <2>2 DEF Understand
    <2>. QED BY <1>2, <2>3, MockAnswersAnthropic
  <1>3. CASE Api(job.adapter) # "anthropic"
    <2>1. Pair(job)[2] = "chat"
      BY <1>1, <1>3 DEF Pair
    <2>2. Response(Pair(job), Body(job)) = ChatResponse(OpenAIArgs(job.req, FALSE))
      BY <1>1, <1>3, <2>1 DEF Response, Args
    <2>3. got = OpenAIUnified(ChatResponse(OpenAIArgs(job.req, FALSE)))
      BY <1>3, <2>2 DEF Understand
    <2>. QED BY <1>3, <2>3, MockAnswersOpenAI
  <1>. QED BY <1>2, <1>3

TellsTheAnswer(a, heard, got) ==
    /\ got.finish \in Documented
    /\ got.finish = "length" <=> CutShort(a, heard)
    /\ got.finish = "tool_calls" <=> CallsTools(a, heard)
    /\ got.finish = "tool_calls" => got.tools # Absent
    /\ IF Api(a) = "anthropic"
       THEN LET texts == BlocksOf(heard, "text")  calls == BlocksOf(heard, "tool_use") IN
            /\ Len(got.content) = Cardinality(texts)
            /\ \A i \in texts : got.content[Nth(texts, i)] = heard.blocks[i].text
            /\ Len(Or(got.tools, <<>>)) = Cardinality(calls)
            /\ \A i \in calls : got.tools[Nth(calls, i)].name = heard.blocks[i].name
       ELSE /\ got.content = Or(heard.content, <<>>)
            /\ Or(got.tools, <<>>) = Or(heard.tools, <<>>)

LEMMA OpenAIAnswersAreTold ==
    ASSUME NEW a, Api(a) # "anthropic", NEW resp \in OpenAIAnswers, OpenAIAllows(resp),
           NEW got, got = OpenAIUnified(resp)
    PROVE  TellsTheAnswer(a, resp, got)
  <1> DEFINE Uses(name) == [name |-> name, arguments |-> "string"]
             calls == <<Uses("f"), Uses("g")>>
  <1>1. /\ resp.tools \in {Absent, calls}
        /\ resp.finish \in {Absent, "stop", "length", "tool_calls", "content_filter"}
        /\ resp.finish = "tool_calls" => resp.tools # Absent
    BY DEF OpenAIAnswers, OpenAIAllows
  <1>2. calls # Absent /\ calls # <<>>
    <2>1. Uses("f") \in ToolCalls /\ Uses("g") \in ToolCalls
      BY DEF ToolCalls
    <2> HIDE DEF Uses
    <2>2. calls \in Seq(ToolCalls)
      BY <2>1
    <2>. QED BY <2>2, Strings
  <1> HIDE DEF calls
  <1>3. /\ Or(resp.finish, "stop") \in Documented
        /\ Or(resp.finish, "stop") = "length" <=> resp.finish = "length"
        /\ Or(resp.finish, "stop") = "tool_calls" <=> resp.finish = "tool_calls"
    BY <1>1, Strings DEF Or, Documented
  <1>4. got.tools = resp.tools
    BY <1>1, <1>2, OpenAIUnderstands DEF Or
  <1>5. got.finish = Or(resp.finish, "stop") /\ got.content = Or(resp.content, <<>>)
    BY OpenAIUnderstands
  <1>. QED BY <1>1, <1>3, <1>4, <1>5 DEF TellsTheAnswer, CutShort, CallsTools

LEMMA AnthropicAnswersAreTold ==
    ASSUME NEW a, Api(a) = "anthropic", NEW resp \in AnthropicAnswers, AnthropicAllows(resp),
           NEW got, got = AnthropicUnified(resp)
    PROVE  TellsTheAnswer(a, resp, got)
  <1> DEFINE Says(text) == [type |-> "text", text |-> text]
             Uses(name) == [type |-> "tool_use", name |-> name]
             thought == [type |-> "thinking"]
             Blocks == {Says("one"), Says("two"), Uses("f"), Uses("g"), thought}
             I == BlocksOf(resp, "text")
             J == BlocksOf(resp, "tool_use")
  <1>1. /\ resp.blocks \in {<<>>, <<Says("one")>>, <<Uses("f")>>,
                             <<thought, Uses("g"), Says("two"), Uses("f"), Says("one")>>}
        /\ resp.stop \in StopReasons
        /\ resp.stop = "tool_use" => J # {}
    BY DEF AnthropicAnswers, AnthropicAllows
  <1>2. \A b \in Blocks : b.type = "tool_use" => [name |-> b.name, arguments |-> "object"] \in ToolCalls
    BY DEF ToolCalls
  <1>3. resp.blocks \in Seq(Blocks)
    <2>1. Says("one") \in Blocks /\ Says("two") \in Blocks /\ Uses("f") \in Blocks /\ Uses("g") \in Blocks
          /\ thought \in Blocks
      OBVIOUS
    <2> HIDE DEF Says, Uses, thought, Blocks
    <2>2. <<>> \in Seq(Blocks) /\ <<Says("one")>> \in Seq(Blocks) /\ <<Uses("f")>> \in Seq(Blocks)
      BY <2>1
    <2>3. <<thought, Uses("g"), Says("two"), Uses("f"), Says("one")>> \in Seq(Blocks)
      BY <2>1
    <2>. QED BY <1>1, <2>2, <2>3
  <1> HIDE DEF Says, Uses, thought, Blocks
  <1>4. Or(resp.stop, "end_turn") = resp.stop
    BY <1>1, Strings DEF Or
  <1>5. /\ Len(got.content) = Cardinality(I)
        /\ \A i \in I : got.content[Nth(I, i)] = resp.blocks[i].text
        /\ got.finish = MapStopReason(resp.stop)
        /\ got.tools = (IF Told(resp) = <<>> THEN Absent ELSE Told(resp))
    <2>1. KeepsTexts(resp, got, I)
      BY <1>3, AnswersKeepTheirTexts
    <2>. QED BY <1>4, <2>1 DEF KeepsTexts
  <1>6. /\ Cardinality(J) \in Nat /\ Told(resp) = [n \in 1 .. Cardinality(J) |-> Told(resp)[n]]
        /\ \A i \in J : /\ Nth(J, i) \in 1 .. Cardinality(J)
                        /\ Told(resp)[Nth(J, i)] = [name |-> resp.blocks[i].name, arguments |-> "object"]
        /\ \A n \in 1 .. Cardinality(J) : \E i \in J : Nth(J, i) = n
        /\ (J = {}) <=> (Told(resp) = <<>>)
    BY <1>3, CallsAreKept
  <1>7. \A i \in J : resp.blocks[i] \in Blocks /\ resp.blocks[i].type = "tool_use"
    BY <1>3 DEF BlocksOf
  <1> HIDE DEF I, J
  <1>8. Told(resp) # Absent /\ Len(Told(resp)) = Cardinality(J)
    <2>1. \A n \in 1 .. Cardinality(J) : Told(resp)[n] \in ToolCalls
      BY <1>2, <1>6, <1>7
    <2>2. Told(resp) \in Seq(ToolCalls) /\ Len(Told(resp)) = Cardinality(J)
      BY <1>6, <2>1
    <2>. QED BY <2>2, Strings
  <1>9. /\ got.finish \in Documented
        /\ (got.finish = "tool_calls") <=> (resp.stop = "tool_use")
        /\ (got.finish = "length") <=> (resp.stop = "max_tokens")
    BY <1>1, <1>5 DEF MapStopReason, Documented, StopReasons
  <1>10. resp.stop = "tool_use" => got.tools # Absent
    BY <1>1, <1>5, <1>6, <1>8
  <1>11. Or(got.tools, <<>>) = Told(resp)
    BY <1>5, <1>8 DEF Or
  <1>12. \A i \in J : got.tools[Nth(J, i)].name = resp.blocks[i].name
    <2> SUFFICES ASSUME NEW i \in J PROVE got.tools[Nth(J, i)].name = resp.blocks[i].name
      OBVIOUS
    <2>1. J # {}
      OBVIOUS
    <2>2. got.tools = Told(resp)
      BY ONLY <1>5, <1>6, <2>1
    <2>3. Told(resp)[Nth(J, i)] = [name |-> resp.blocks[i].name, arguments |-> "object"]
      BY ONLY <1>6, i \in J
    <2>. QED BY ONLY <2>2, <2>3
  <1>. QED BY <1>5, <1>8, <1>9, <1>10, <1>11, <1>12 DEF TellsTheAnswer, CutShort, CallsTools, I, J

\* No answer is lost on the way back through an adapter.
LEMMA CallersAreToldTheAnswer == ProvidersInv => AnswersAreUnderstood
  <1> SUFFICES ASSUME ProvidersInv, NEW c \in Slots, Completed(c)
               PROVE  /\ AtMock(client[c].job) =>
                            AnswersTheUser(client[c].job.req, client[c].got,
                              IF Api(client[c].job.adapter) = "anthropic"
                              THEN Others(client[c].job.req.messages) ELSE client[c].job.req.messages)
                      /\ ~AtMock(client[c].job) =>
                            TellsTheAnswer(client[c].job.adapter, client[c].heard, client[c].got)
    BY DEF AnswersAreUnderstood, AnswersWhatWasAsked, AnswersAreTranslated, AnswersTheUser, TellsTheAnswer
  <1> DEFINE job == client[c].job
  <1>1. client[c].pc = "done" /\ job.kind = "complete" /\ client[c] # Free
    BY DEF Completed, Free
  <1>2. job \in Jobs[c]
    BY <1>1 DEF ProvidersInv, TypeOK, IsCall
  <1>3. job.adapter \in Adapters /\ IsRequest(job.req)
    BY <1>1, <1>2, JobsAreJobs DEF IsJob, IsRaw
  <1>4. IF AtMock(job) THEN client[c].got = Understand(job.adapter, Response(Pair(job), Body(job)))
        ELSE /\ client[c].heard \in Allowed(job.adapter)
             /\ client[c].got = Understand(job.adapter, client[c].heard)
    BY <1>1 DEF ProvidersInv, ClientHasAnswer
  <1> HIDE DEF job
  <1>5. CASE AtMock(job)
    BY <1>1, <1>3, <1>4, <1>5, MockAnswers DEF job
  <1>6. CASE ~AtMock(job) /\ Api(job.adapter) = "anthropic"
    <2>1. client[c].heard \in AnthropicAnswers /\ AnthropicAllows(client[c].heard)
      BY <1>4, <1>6 DEF Allowed
    <2>2. client[c].got = AnthropicUnified(client[c].heard)
      BY <1>4, <1>6 DEF Understand
    <2>3. TellsTheAnswer(job.adapter, client[c].heard, client[c].got)
      BY <1>6, <2>1, <2>2, AnthropicAnswersAreTold
    <2>. QED BY <1>6, <2>3 DEF job
  <1>7. CASE ~AtMock(job) /\ Api(job.adapter) # "anthropic"
    <2>1. client[c].heard \in OpenAIAnswers /\ OpenAIAllows(client[c].heard)
      BY <1>4, <1>7 DEF Allowed
    <2>2. client[c].got = OpenAIUnified(client[c].heard)
      BY <1>4, <1>7 DEF Understand
    <2>3. TellsTheAnswer(job.adapter, client[c].heard, client[c].got)
      BY <1>7, <2>1, <2>2, OpenAIAnswersAreTold
    <2>. QED BY <1>7, <2>3 DEF job
  <1>. QED BY <1>5, <1>6, <1>7 DEF job

\* `complete`: against the mock the caller of an adapter gets the answer to the last
\* message of the user; against a provider every text and every call of a tool of the
\* answer in its place, "length" exactly when the limit on tokens cut it, and
\* "tool_calls" exactly when it waits for tools, which are then there.
THEOREM AnswersStayUnderstood == Spec => []AnswersAreUnderstood
  BY ProvidersKeepTheirInvariant, CallersAreToldTheAnswer, PTL

-----------------------------------------------------------------------------
Fair(tier) == Or(tier.cached, 0) <= tier.input

LEMMA ListsKeepTiers ==
    ASSUME NEW rows, \A row \in rows : Fair(row.tier)
    PROVE  \A id \in DOMAIN PriceList(rows) : Fair(PriceList(rows)[id])
  <1> SUFFICES ASSUME NEW id \in DOMAIN PriceList(rows) PROVE Fair(PriceList(rows)[id])
    OBVIOUS
  <1> DEFINE chosen == CHOOSE row \in rows : row.id = id
  <1>1. \E row \in rows : row.id = id
    BY DEF PriceList
  <1>2. chosen \in rows
    BY <1>1
  <1>3. PriceList(rows)[id] = chosen.tier
    BY DEF PriceList
  <1> HIDE DEF chosen
  <1>. QED BY <1>2, <1>3

\* The keys of a price list: a name, or a maker and a name.
Single(id) == \E x : id = <<x>>
Double(id) == \E x, y : id = <<x, y>>

LEMMA TiersAreFair ==
    /\ \A row \in OpenAIPricing : Fair(row.tier) /\ Single(row.id)
    /\ \A row \in AnthropicPricing : Fair(row.tier) /\ Single(row.id)
    /\ \A row \in GemmaPricing : Fair(row.tier) /\ Double(row.id)
    /\ \A row \in QwenPricing : Fair(row.tier) /\ Double(row.id)
  <1>1. ASSUME NEW input \in Nat, NEW output, NEW id
        PROVE  Fair(Row(id, Tier(input, output, Absent)).tier)
    BY <1>1 DEF Fair, Row, Tier, Or
  <1>2. ASSUME NEW input \in Nat, NEW output, NEW id, NEW cached \in Nat, cached <= input
        PROVE  Fair(Row(id, Tier(input, output, cached)).tier)
    BY <1>2, Strings DEF Fair, Row, Tier, Or
  <1>3. ASSUME NEW x, NEW tier PROVE Single(Row(<<x>>, tier).id)
    BY DEF Single, Row
  <1>4. ASSUME NEW x, NEW y, NEW tier PROVE Double(Row(<<x, y>>, tier).id)
    BY DEF Double, Row
  <1>5. \A row \in OpenAIPricing : Fair(row.tier)
    BY <1>1, <1>2 DEF OpenAIPricing
  <1>6. \A row \in OpenAIPricing : Single(row.id)
    BY <1>3 DEF OpenAIPricing
  <1>7. \A row \in AnthropicPricing : Fair(row.tier)
    BY <1>1, <1>2 DEF AnthropicPricing
  <1>8. \A row \in AnthropicPricing : Single(row.id)
    BY <1>3 DEF AnthropicPricing
  <1>9. \A row \in GemmaPricing : Fair(row.tier)
    BY <1>1 DEF GemmaPricing
  <1>10. \A row \in GemmaPricing : Double(row.id)
    BY <1>4 DEF GemmaPricing
  <1>11. \A row \in QwenPricing : Fair(row.tier)
    BY <1>1 DEF QwenPricing
  <1>12. \A row \in QwenPricing : Double(row.id)
    BY <1>4 DEF QwenPricing
  <1>. QED BY <1>5, <1>6, <1>7, <1>8, <1>9, <1>10, <1>11, <1>12

LEMMA KeysAreIds ==
    ASSUME NEW rows, NEW id \in DOMAIN PriceList(rows)
    PROVE  \E row \in rows : row.id = id
  BY DEF PriceList

\* How long a key is, and what the id of a catalogue entry is made of.
LEMMA LengthOfAKey ==
    ASSUME NEW id
    PROVE  /\ Single(id) => Len(id) = 1 /\ \E S : id \in Seq(S)
           /\ Double(id) => Len(id) = 2 /\ \E S : id \in Seq(S)
  <1>1. ASSUME Single(id) PROVE Len(id) = 1 /\ \E S : id \in Seq(S)
    <2>1. PICK x : id = <<x>>
      BY <1>1 DEF Single
    <2>2. <<x>> \in Seq({x}) /\ Len(<<x>>) = 1
      OBVIOUS
    <2>. QED BY <2>1, <2>2
  <1>2. ASSUME Double(id) PROVE Len(id) = 2 /\ \E S : id \in Seq(S)
    <2>1. PICK x, y : id = <<x, y>>
      BY <1>2 DEF Double
    <2>2. <<x, y>> \in Seq({x, y}) /\ Len(<<x, y>>) = 2
      OBVIOUS
    <2>. QED BY <2>1, <2>2
  <1>. QED BY <1>1, <1>2

LEMMA UnderTheProvider ==
    ASSUME NEW a, NEW key, Single(key) \/ Double(key)
    PROVE  /\ (<<a>> \o key)[1] = a /\ Tail(<<a>> \o key) = key
           /\ Len(<<a>> \o key) = Len(key) + 1
  <1>1. PICK T : key \in Seq(T)
    BY LengthOfAKey
  <1> DEFINE S == T \union {a}
             id == <<a>> \o key
  <1>2. key \in Seq(S) /\ <<a>> \in Seq(S) /\ Len(<<a>>) = 1 /\ <<a>>[1] = a
    BY <1>1, SeqMonotonic
  <1> HIDE DEF S
  <1>3. Len(key) \in Nat
    BY <1>2
  <1>4. /\ id \in Seq(S) /\ Len(id) = 1 + Len(key)
        /\ \A i \in 1 .. 1 + Len(key) : id[i] = IF i <= 1 THEN <<a>>[i] ELSE key[i - 1]
    <2> DEFINE one == <<a>>
    <2>1. one \in Seq(S) /\ Len(one) = 1
      BY <1>2
    <2> HIDE DEF one
    <2>2. /\ one \o key \in Seq(S) /\ Len(one \o key) = Len(one) + Len(key)
          /\ \A i \in 1 .. Len(one) + Len(key) :
               (one \o key)[i] = IF i <= Len(one) THEN one[i] ELSE key[i - Len(one)]
      BY ONLY <1>2, <2>1, ConcatProperties
    <2>. QED BY <2>1, <2>2 DEF one
  <1> HIDE DEF id
  <1>5. id[1] = a /\ id # << >>
    BY <1>2, <1>3, <1>4
  <1>6. /\ Tail(id) \in Seq(S) /\ Len(Tail(id)) = Len(id) - 1
        /\ \A i \in 1 .. Len(Tail(id)) : Tail(id)[i] = id[i + 1]
    BY ONLY <1>4, <1>5, HeadTailProperties
  <1>7. Len(Tail(id)) = Len(key)
    BY <1>3, <1>4, <1>6
  <1>8. \A i \in 1 .. Len(key) : Tail(id)[i] = key[i]
    <2> SUFFICES ASSUME NEW i \in 1 .. Len(key) PROVE Tail(id)[i] = key[i]
      OBVIOUS
    <2>1. Tail(id)[i] = id[i + 1]
      BY <1>6, <1>7
    <2>2. i + 1 \in 1 .. 1 + Len(key) /\ ~(i + 1 <= 1) /\ i + 1 - 1 = i
      BY <1>3
    <2>3. id[i + 1] = key[i + 1 - 1]
      BY <1>4, <2>2
    <2>. QED BY <2>1, <2>2, <2>3
  <1>9. Tail(id) = key
    BY ONLY <1>2, <1>6, <1>7, <1>8, SeqEqual
  <1>. QED BY <1>3, <1>4, <1>5, <1>9 DEF id

\* The lists of the four adapters: fair tiers, and keys that all have the same length.
LEMMA KeysOfAList ==
    ASSUME NEW a \in Adapters, NEW id \in DOMAIN PricingMap[a]
    PROVE  /\ Fair(PricingMap[a][id])
           /\ IF a \in {"openai", "anthropic"} THEN Single(id) ELSE Double(id)
  <1>1. PICK rows \in {OpenAIPricing, AnthropicPricing, GemmaPricing, QwenPricing} :
          /\ PricingMap[a] = PriceList(rows)
          /\ a \in {"openai", "anthropic"} => rows \in {OpenAIPricing, AnthropicPricing}
          /\ a \notin {"openai", "anthropic"} => rows \in {GemmaPricing, QwenPricing}
    BY DEF PricingMap, Adapters
  <1>2. \A row \in rows : Fair(row.tier)
    BY <1>1, TiersAreFair
  <1>3. PICK row \in rows : row.id = id
    BY <1>1, KeysAreIds
  <1>4. IF a \in {"openai", "anthropic"} THEN Single(id) ELSE Double(id)
    BY <1>1, <1>3, TiersAreFair
  <1>. QED BY <1>1, <1>2, <1>4, ListsKeepTiers

\* GET /models: the id that is listed, less the provider, is priced by the adapter as
\* listed, and the id itself by the Anthropic adapter only (pricing, list_models).
LEMMA ListsArePriced == registry \subseteq Adapters => CatalogueIsPriced
  <1> SUFFICES ASSUME registry \subseteq Adapters, NEW entry \in ListModels(registry)
               PROVE  /\ entry.id[1] = entry.provider
                      /\ Pricing(entry.id[1], Tail(entry.id)) = entry.pricing
                      /\ Pricing(entry.id[1], entry.id) =
                            IF entry.id[1] = "anthropic" THEN entry.pricing ELSE Absent
                      /\ Fair(entry.pricing)
    BY DEF CatalogueIsPriced, Fair
  <1>10. PICK a \in registry :
           \E key \in DOMAIN PricingMap[a] :
             entry.id = <<a>> \o key /\ entry.provider = a /\ entry.pricing = PricingMap[a][key]
    <2> DEFINE Entry(b, key) == [id |-> <<b>> \o key, provider |-> b, modalities |-> Modalities[b],
                                 pricing |-> PricingMap[b][key]]
               Entries(b) == {Entry(b, key) : key \in DOMAIN PricingMap[b]}
    <2>1. ListModels(registry) = UNION {Entries(b) : b \in registry}
      BY DEF ListModels
    <2>2. \A b, key : /\ Entry(b, key).id = <<b>> \o key /\ Entry(b, key).provider = b
                      /\ Entry(b, key).pricing = PricingMap[b][key]
      OBVIOUS
    <2> HIDE DEF Entry
    <2>3. PICK b \in registry : entry \in Entries(b)
      BY <2>1
    <2>4. PICK key \in DOMAIN PricingMap[b] : entry = Entry(b, key)
      BY <2>3
    <2>5. entry.id = <<b>> \o key /\ entry.provider = b /\ entry.pricing = PricingMap[b][key]
      BY <2>2, <2>4
    <2>. QED BY ZenonT(30), <2>5
  <1>0. PICK key \in DOMAIN PricingMap[a] :
          entry.id = <<a>> \o key /\ entry.provider = a /\ entry.pricing = PricingMap[a][key]
    BY <1>10
  <1> DEFINE id == entry.id
  <1>1. a \in Adapters
    OBVIOUS
  <1>2. /\ Fair(PricingMap[a][key])
        /\ IF a \in {"openai", "anthropic"} THEN Single(key) ELSE Double(key)
    BY <1>1, KeysOfAList
  <1>3. /\ id[1] = a /\ Tail(id) = key /\ Len(id) = Len(key) + 1
        /\ Single(key) => Len(key) = 1
        /\ Double(key) => Len(key) = 2
    BY <1>0, <1>2, UnderTheProvider, LengthOfAKey
  <1> HIDE DEF id
  <1>4. Single(key) => Len(id) > 1 /\ ~(Len(key) > 1)
    <2> SUFFICES ASSUME Single(key) PROVE Len(id) > 1 /\ ~(Len(key) > 1)
      OBVIOUS
    <2>1. Len(key) = 1 /\ Len(id) = Len(key) + 1
      BY <1>3
    <2>2. Len(id) = 2
      BY ONLY <2>1
    <2>. QED BY ONLY <2>1, <2>2
  <1>5. a = "anthropic" => StripPrefix(key) = key /\ StripPrefix(id) = key
    BY <1>2, <1>3, <1>4 DEF StripPrefix
  <1>6. Pricing(a, key) = PricingMap[a][key]
    BY <1>5 DEF Pricing
  <1>9. Pricing(a, Tail(id)) = PricingMap[a][key]
    BY <1>3, <1>6
  <1>7. a = "anthropic" => Pricing(a, id) = PricingMap[a][key]
    BY <1>2, <1>3, <1>5, <1>6 DEF Pricing
  <1>8. ASSUME a # "anthropic" PROVE Pricing(a, id) = Absent
    <2>1. id \notin DOMAIN PricingMap[a]
      <3> SUFFICES ASSUME id \in DOMAIN PricingMap[a] PROVE FALSE
        OBVIOUS
      <3>1. IF a \in {"openai", "anthropic"} THEN Single(id) ELSE Double(id)
        BY <1>1, KeysOfAList
      <3>2. (Single(id) => Len(id) = 1) /\ (Double(id) => Len(id) = 2)
        BY LengthOfAKey
      <3>3. CASE a \in {"openai", "anthropic"}
        <4>1. Len(id) = 1 /\ Len(key) = 1 /\ Len(id) = Len(key) + 1
          BY <1>2, <1>3, <3>1, <3>2, <3>3
        <4>. QED BY ONLY <4>1
      <3>4. CASE a \notin {"openai", "anthropic"}
        <4>1. Len(id) = 2 /\ Len(key) = 2 /\ Len(id) = Len(key) + 1
          BY <1>2, <1>3, <3>1, <3>2, <3>4
        <4>. QED BY ONLY <4>1
      <3>. QED BY <3>3, <3>4
    <2>. QED BY <1>2, <1>3, <1>6, <1>8, <2>1 DEF Pricing
  <1>. QED BY <1>0, <1>2, <1>3, <1>9, <1>7, <1>8 DEF id

THEOREM CatalogueStaysPriced == Spec => []CatalogueIsPriced
  <1>1. ProvidersInv => registry \subseteq Adapters
    BY DEF ProvidersInv, TypeOK
  <1>. QED BY <1>1, ListsArePriced, ProvidersKeepTheirInvariant, PTL

=============================================================================
