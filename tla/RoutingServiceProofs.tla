------------------------ MODULE RoutingServiceProofs ------------------------
(* Proofs about the processes of the backend, for any documents, processes and *)
(* hints: what a process keeps, what its log says, that a reload nobody writes *)
(* into is one switch, and that the answers of RoutingService are the best the *)
(* configuration allows.                                                       *)
EXTENDS RoutingService, FiniteSetTheorems, FunctionTheorems, SequenceTheorems, WellFoundedInduction, TLAPS

-----------------------------------------------------------------------------
\* A set of naturals that is not empty has a least member: what an induction over
\* data comes down to here.
LEMMA LeastNat ==
    ASSUME NEW T, T \subseteq Nat, T # {}
    PROVE  \E n \in T : \A m \in T : n <= m
  <1> DEFINE R == {ss \in Nat \X Nat : ss[1] < ss[2]}
  <1>1. IsWellFoundedOn(R, Nat)
    BY NatLessThanWellFounded DEF OpToRel
  <1>2. \A x, y \in Nat : x < y => <<x, y>> \in R
    OBVIOUS
  <1> HIDE DEF R
  <1>3. \E x \in T : \A y \in T : ~(<<y, x>> \in R)
    BY <1>1, WFMin
  <1>4. PICK n \in T : \A y \in T : ~(<<y, n>> \in R)
    BY <1>3
  <1>5. \A m \in T : ~(m < n)
    BY <1>2, <1>4
  <1>. QED BY <1>5

\* Numbers are in one order by key, equal keys in their own.
LEMMA PrecedesOrders ==
    ASSUME NEW U, U \subseteq Int, NEW key \in [U -> Int]
    PROVE  /\ \A i \in U : ~Precedes(key, i, i)
           /\ \A i, j \in U : i # j => Precedes(key, i, j) \/ Precedes(key, j, i)
           /\ \A i, j, k \in U : Precedes(key, i, j) /\ Precedes(key, j, k) => Precedes(key, i, k)
  <1>1. \A i \in U : i \in Int /\ key[i] \in Int
    OBVIOUS
  <1>. QED BY <1>1 DEF Precedes

\* f lists the numbers of S by key, n of them.
Sorts(f, n, S, key) ==
    /\ f \in [1 .. n -> S]
    /\ \A i, j \in 1 .. n : i < j => Precedes(key, f[i], f[j])

\* One more number goes before the first that it precedes.
LEMMA InsertOne ==
    ASSUME NEW U, U \subseteq Int, NEW key \in [U -> Int], NEW S \in SUBSET U, NEW x \in S,
           NEW n \in Nat, NEW g, Sorts(g, n, S \ {x}, key)
    PROVE  \E f : Sorts(f, n + 1, S, key)
  <1>0. /\ x \in U
        /\ \A i, j \in U : i # j => Precedes(key, i, j) \/ Precedes(key, j, i)
        /\ \A i, j, k \in U : Precedes(key, i, j) /\ Precedes(key, j, k) => Precedes(key, i, k)
    BY PrecedesOrders
  <1> USE DEF Sorts
  <1> DEFINE Q == {m \in 1 .. n + 1 : m = n + 1 \/ Precedes(key, x, g[m])}
  <1>1. PICK q \in Q : \A m \in Q : q <= m
    <2>1. Q \subseteq Nat /\ n + 1 \in Q
      OBVIOUS
    <2>. QED BY <2>1, LeastNat
  <1> DEFINE f == [m \in 1 .. n + 1 |-> IF m < q THEN g[m] ELSE IF m = q THEN x ELSE g[m - 1]]
  <1>2. \A m \in 1 .. n : g[m] \in S /\ g[m] # x /\ g[m] \in U
    OBVIOUS
  <1>3. f \in [1 .. n + 1 -> S]
    BY <1>2
  <1>4. \A m \in 1 .. n : m < q => Precedes(key, g[m], x)
    <2>1. \A m \in 1 .. n : m < q => ~Precedes(key, x, g[m])
      BY <1>1
    <2>. QED BY <1>0, <1>2, <2>1
  <1>5. ASSUME NEW m \in 1 .. n, m >= q
        PROVE  Precedes(key, x, g[m])
    <2>1. q \in 1 .. n /\ Precedes(key, x, g[q])
      BY <1>1, <1>5
    <2>2. CASE m > q
      <3>1. Precedes(key, g[q], g[m])
        BY <2>1, <2>2
      <3>. QED BY <1>0, <1>2, <2>1, <3>1
    <2>. QED BY <1>5, <2>1, <2>2
  <1>6. ASSUME NEW i \in 1 .. n + 1, NEW j \in 1 .. n + 1, i < j
        PROVE  Precedes(key, f[i], f[j])
    <2>1. CASE j < q
      BY <1>6, <2>1
    <2>2. CASE j = q
      BY <1>1, <1>4, <1>6, <2>2
    <2>3. CASE j > q /\ i = q
      BY <1>1, <1>5, <1>6, <2>3
    <2>4. CASE j > q /\ i < q
      <3>1. Precedes(key, g[i], x) /\ Precedes(key, x, g[j - 1])
        BY <1>1, <1>4, <1>5, <1>6, <2>4
      <3>2. f[i] = g[i] /\ f[j] = g[j - 1] /\ {i, j - 1} \subseteq 1 .. n
        BY <1>1, <1>6, <2>4
      <3>3. Precedes(key, g[i], g[j - 1])
        BY <1>0, <1>2, <3>1, <3>2
      <3>. QED BY <3>2, <3>3
    <2>5. CASE j > q /\ i > q
      BY <1>1, <1>6, <2>5
    <2>. QED BY <1>1, <2>1, <2>2, <2>3, <2>4, <2>5
  <1>. QED BY <1>3, <1>6

\* Every finite set of numbers can be listed by any key: a least set that could
\* not would lose the property with any one of its members.
LEMMA SortExists ==
    ASSUME NEW U, U \subseteq Int, IsFiniteSet(U), NEW key \in [U -> Int]
    PROVE  \E f : Sorts(f, Cardinality(U), U, key)
  <1> DEFINE Unsorted(S) == ~\E f : Sorts(f, Cardinality(S), S, key)
             T == {n \in Nat : \E S \in SUBSET U : Cardinality(S) = n /\ Unsorted(S)}
  <1>1. \A S \in SUBSET U : IsFiniteSet(S) /\ Cardinality(S) \in Nat
    BY FS_Subset, FS_CardinalityType
  <1>2. ASSUME NEW n \in T, \A m \in T : n <= m
        PROVE  FALSE
    <2>1. PICK S \in SUBSET U : Cardinality(S) = n /\ Unsorted(S)
      BY <1>2
    <2>2. S # {}
      <3>1. SUFFICES ASSUME S = {} PROVE FALSE
        OBVIOUS
      <3>2. Cardinality(S) = 0
        BY <3>1, FS_EmptySet
      <3>3. Sorts([m \in 1 .. 0 |-> m], 0, S, key)
        BY <3>1 DEF Sorts
      <3>. QED BY <2>1, <3>2, <3>3
    <2>3. PICK x \in S : TRUE
      BY <2>2
    <2>4. Cardinality(S \ {x}) = n - 1 /\ n - 1 \in Nat
      <3>1. Cardinality(S \ {x}) = n - 1
        BY <1>1, <2>1, <2>3, FS_RemoveElement
      <3>2. S \ {x} \in SUBSET U
        OBVIOUS
      <3>. QED BY <1>1, <3>1, <3>2
    <2>5. n - 1 \notin T
      BY <1>2, <2>4
    <2>6. PICK g : Sorts(g, n - 1, S \ {x}, key)
      BY <2>4, <2>5
    <2>7. \E f : Sorts(f, (n - 1) + 1, S, key)
      BY <2>4, <2>6, InsertOne
    <2>. QED BY <2>1, <2>4, <2>7
  <1>3. T = {}
    <2>1. T \subseteq Nat
      OBVIOUS
    <2>. QED BY <1>2, <2>1, LeastNat
  <1>. QED BY <1>1, <1>3

SortsAll(f, S, key) ==
    /\ Sorts(f, Cardinality(S), S, key)
    /\ \A i \in S : \E n \in 1 .. Cardinality(S) : f[n] = i

\* sorted(): a list of all the candidates, each once, by key and then in the order
\* they came in.
LEMMA InOrderSorts ==
    ASSUME NEW S, S \subseteq Int, IsFiniteSet(S), NEW key \in [S -> Int]
    PROVE  SortsAll(InOrder(S, key), S, key)
  <1> DEFINE n == Cardinality(S)
             f == InOrder(S, key)
  <1>1. n \in Nat
    BY FS_CardinalityType
  <1>2. Sorts(f, n, S, key)
    BY SortExists DEF Sorts, InOrder
  <1>3. f \in Injection(1 .. n, S)
    <2>1. \A i, j \in 1 .. n : i < j => f[i] # f[j]
      <3>1. \A i, j \in 1 .. n : i < j => Precedes(key, f[i], f[j]) /\ f[i] \in S
        BY <1>2 DEF Sorts
      <3> HIDE DEF f
      <3>. QED BY <3>1, PrecedesOrders
    <2>. QED BY <1>1, <1>2, <2>1 DEF Sorts, Injection, IsInjective
  <1>4. Cardinality(1 .. n) = n
    BY <1>1, FS_Interval
  <1>5. f \in Surjection(1 .. n, S)
    BY <1>3, <1>4, FS_Injection
  <1>. QED BY <1>2, <1>5 DEF Surjection, SortsAll

-----------------------------------------------------------------------------
\* _parse: the pool is a list, and its numbers and the defaults are numbers.
LEMMA ConfigType ==
    ASSUME NEW c \in Configs
    PROVE  /\ Len(c.pool) \in Nat /\ DOMAIN c.pool = 1 .. Len(c.pool)
           /\ \A i \in DOMAIN c.pool :
                 c.pool[i].price \in Int /\ c.pool[i].quality \in Int /\ c.pool[i].latency \in Int
           /\ c.fallback_max \in Int /\ c.quality_floor \in Int /\ c.latency_max \in Int
  <1>1. PICK d \in Documents : WellFormed(d) /\ c = Parse(d)
    BY DEF Configs
  <1>2. HasNumbers(d)
    BY <1>1, RoutingAssumption DEF RoutingAssumption
  <1>3. Len(d.pool) \in Nat /\ DOMAIN d.pool = 1 .. Len(d.pool)
    BY <1>2, LenProperties DEF HasNumbers
  <1>4. c.pool = [i \in 1 .. Len(d.pool) |-> PoolEntry(d.pool[i])]
    BY <1>1, <1>3 DEF Parse
  <1>5. Len(c.pool) = Len(d.pool)
    BY <1>3, <1>4
  <1>6. c.fallback_max \in Int /\ c.quality_floor \in Int /\ c.latency_max \in Int
    BY <1>1, <1>2 DEF Parse, Default, HasNumbers
  <1>. QED BY <1>2, <1>3, <1>4, <1>5, <1>6 DEF HasNumbers, PoolEntry

\* RoutingConfig.filter keeps the entries that fit, by what fitting means.
LEMMA FilterKeepsFitting ==
    ASSUME NEW c \in Configs, NEW hints
    PROVE  /\ Filter(c, hints) = Fitting(c, hints)
           /\ Filter(c, hints) \subseteq Int /\ IsFiniteSet(Filter(c, hints))
  <1>1. \A i \in DOMAIN c.pool : c.pool[i].quality \in Int /\ c.pool[i].latency \in Int
    BY ConfigType
  <1>2. c.quality_floor \in Int /\ c.latency_max \in Int
    BY ConfigType
  <1>3. Filter(c, hints) = Fitting(c, hints)
    <2>1. ASSUME NEW i \in DOMAIN c.pool
          PROVE  i \in Filter(c, hints) <=> i \in Fitting(c, hints)
      <3> DEFINE entry == c.pool[i]
      <3>1. hints.needs \subseteq entry.capabilities
              <=> \A need \in hints.needs : need \in entry.capabilities
        OBVIOUS
      <3>2. "*" \in entry.geos \/ hints.geo \in entry.geos <=> {hints.geo, "*"} \cap entry.geos # {}
        OBVIOUS
      <3>3. hints.residency \cap entry.residency # {}
              <=> \E j \in hints.residency : j \in entry.residency
        OBVIOUS
      <3>4. KeepsToTheFloors(c, entry)
              <=> ~(entry.quality < c.quality_floor \/ c.latency_max < entry.latency)
        BY <1>1, <1>2 DEF KeepsToTheFloors
      <3>. QED BY <3>1, <3>2, <3>3, <3>4 DEF Filter, Fitting, Within
    <2>. QED BY <2>1 DEF Filter, Fitting
  <1>4. Filter(c, hints) \in SUBSET (1 .. Len(c.pool))
    BY ConfigType DEF Filter
  <1>5. IsFiniteSet(1 .. Len(c.pool))
    BY ConfigType, FS_Interval
  <1>. QED BY <1>3, <1>4, <1>5, FS_Subset

\* The first of a list and a slice of the others, in whatever way fallback_max is
\* out of range: a beginning of the list, never an empty one.
LEMMA SliceIsBeginning ==
    ASSUME NEW S, NEW r \in Seq(S), r # <<>>, NEW k \in Int
    PROVE  LET chosen == <<r[1]>> \o Slice(Tail(r), k)
           IN \E l \in 1 .. Len(r) :
                 /\ chosen = [n \in 1 .. l |-> r[n]]
                 /\ k >= 0 => l = Least(Len(r), k + 1)
  <1> DEFINE t == Tail(r)
             e == IF k < 0 THEN (IF Len(t) + k < 0 THEN 0 ELSE Len(t) + k)
                  ELSE IF k < Len(t) THEN k ELSE Len(t)
             chosen == <<r[1]>> \o Slice(t, k)
  <1>1. Len(r) \in Nat \ {0} /\ r[1] \in S
    BY EmptySeq, LenProperties, ElementOfSeq
  <1>2. t \in Seq(S) /\ Len(t) = Len(r) - 1 /\ \A i \in 1 .. Len(t) : t[i] = r[i + 1]
    BY HeadTailProperties
  <1>3. e \in 0 .. Len(t) /\ (k >= 0 => e + 1 = Least(Len(r), k + 1))
    BY <1>1, <1>2 DEF Least
  <1>4. Slice(t, k) = SubSeq(t, 1, e)
    BY DEF Slice
  <1> HIDE DEF t, e
  <1>5. \A i \in 1 .. e : t[i] \in S
    BY <1>2, <1>3, ElementOfSeq
  <1>6. /\ SubSeq(t, 1, e) \in Seq(S) /\ Len(SubSeq(t, 1, e)) = e
        /\ \A i \in 1 .. e : SubSeq(t, 1, e)[i] = t[i]
    BY <1>3, <1>5, SubSeqProperties
  <1>7. <<r[1]>> \in Seq(S) /\ Len(<<r[1]>>) = 1 /\ <<r[1]>>[1] = r[1]
    BY <1>1
  <1>8. /\ chosen \in Seq(S) /\ Len(chosen) = e + 1
        /\ \A i \in 1 .. e + 1 : chosen[i] = IF i <= 1 THEN <<r[1]>>[i] ELSE SubSeq(t, 1, e)[i - 1]
    BY <1>3, <1>4, <1>6, <1>7, ConcatProperties
  <1>9. chosen = [n \in 1 .. e + 1 |-> r[n]]
    <2>1. DOMAIN chosen = 1 .. e + 1 /\ chosen = [n \in DOMAIN chosen |-> chosen[n]]
      BY <1>8, LenProperties
    <2>2. \A i \in 1 .. e + 1 : chosen[i] = r[i]
      <3>1. ASSUME NEW i \in 1 .. e, i > 0 PROVE SubSeq(t, 1, e)[i] = r[i + 1]
        BY <1>2, <1>3, <1>6
      <3>2. ASSUME NEW i \in 1 .. e + 1, i > 1 PROVE chosen[i] = r[i]
        <4>1. i - 1 \in 1 .. e /\ i - 1 > 0 /\ (i - 1) + 1 = i
          BY <1>3, <3>2
        <4>2. SubSeq(t, 1, e)[i - 1] = r[i]
          BY <3>1, <4>1
        <4>3. chosen[i] = SubSeq(t, 1, e)[i - 1]
          BY <1>3, <1>8, <3>2
        <4>. QED BY <4>2, <4>3
      <3>. QED BY <1>3, <1>7, <1>8, <3>2
    <2> HIDE DEF chosen
    <2>. QED BY <2>1, <2>2
  <1>. QED BY <1>1, <1>2, <1>3, <1>9 DEF t

\* What a registered strategy sorts by: a smaller key is a better entry.
LEMMA KeysTellAhead ==
    ASSUME NEW c \in Configs, c.default_strategy \in Strategies,
           NEW S \in SUBSET DOMAIN c.pool
    PROVE  LET key == [i \in S |-> SortKey(c.default_strategy, c.pool[i])]
           IN /\ key \in [S -> Int]
              /\ \A i, j \in S : Precedes(key, i, j) => Ahead(c, i, j)
  <1> DEFINE st == c.default_strategy
             key == [i \in S |-> SortKey(st, c.pool[i])]
  <1>1. \A i \in S : /\ c.pool[i].price \in Int
                     /\ c.pool[i].quality \in Int
                     /\ c.pool[i].latency \in Int
    BY ConfigType
  <1>2. CASE st = "cost"
    BY <1>1, <1>2 DEF SortKey, Precedes, Ahead, Better
  <1>3. CASE st = "latency"
    BY <1>1, <1>3 DEF SortKey, Precedes, Ahead, Better
  <1>4. CASE st = "quality"
    BY <1>1, <1>4 DEF SortKey, Precedes, Ahead, Better
  <1>. QED BY <1>2, <1>3, <1>4 DEF Strategies

\* ResolveModel, where something fits and the strategy is registered: its chain is a
\* beginning of the sorted candidates.
LEMMA ResolveNamesTheBest ==
    ASSUME NEW c \in Configs, NEW hints, Fitting(c, hints) # {}, c.default_strategy \in Strategies
    PROVE  LET fits == Fitting(c, hints)
               chain == Resolve(c, hints).chain
           IN /\ \E pick \in [DOMAIN chain -> fits] : IsBestChain(c, fits, chain, pick)
              /\ chain # <<>>
              /\ c.fallback_max >= 0 =>
                    Len(chain) = Least(Cardinality(fits), c.fallback_max + 1)
  <1> DEFINE fits == Fitting(c, hints)
             k == c.fallback_max
             key == [i \in fits |-> SortKey(c.default_strategy, c.pool[i])]
             r == InOrder(fits, key)
             chosen == <<r[1]>> \o Slice(Tail(r), k)
             chain == Resolve(c, hints).chain
  <1>1. fits \subseteq Int /\ IsFiniteSet(fits) /\ Filter(c, hints) = fits
    BY FilterKeepsFitting
  <1>2. key \in [fits -> Int] /\ \A i, j \in fits : Precedes(key, i, j) => Ahead(c, i, j)
    <2>1. fits \in SUBSET DOMAIN c.pool
      BY DEF Fitting
    <2>. QED BY <2>1, KeysTellAhead
  <1>3. Cardinality(fits) \in Nat \ {0}
    BY <1>1, FS_CardinalityType, FS_EmptySet
  <1>4. chain = [n \in DOMAIN chosen |-> Target(c.pool[chosen[n]])]
    BY <1>1 DEF Resolve, Ranked
  <1> HIDE DEF key, fits
  <1>5. /\ r \in [1 .. Cardinality(fits) -> fits]
        /\ \A m, n \in 1 .. Cardinality(fits) : m < n => Precedes(key, r[m], r[n])
        /\ \A i \in fits : \E n \in 1 .. Cardinality(fits) : r[n] = i
    <2>1. SortsAll(r, fits, key)
      <3>1. key \in [fits -> Int]
        BY <1>2
      <3>. QED BY <1>1, <3>1, InOrderSorts
    <2> HIDE DEF r
    <2>. QED BY <2>1 DEF Sorts, SortsAll
  <1> HIDE DEF r
  <1>6. r \in Seq(fits) /\ Len(r) = Cardinality(fits) /\ r # <<>>
    <2>1. r \in Seq(fits)
      BY <1>3, <1>5, SeqDef
    <2>2. DOMAIN r = 1 .. Len(r) /\ Len(r) \in Nat
      BY <2>1, LenProperties
    <2>3. DOMAIN r = 1 .. Cardinality(fits)
      BY <1>5
    <2>. QED BY <1>3, <2>1, <2>2, <2>3, EmptySeq
  <1>7. PICK l \in 1 .. Len(r) : /\ chosen = [n \in 1 .. l |-> r[n]]
                                 /\ k >= 0 => l = Least(Len(r), k + 1)
    BY <1>6, ConfigType, SliceIsBeginning
  <1> HIDE DEF chosen
  <1>8. chain = [n \in 1 .. l |-> Target(c.pool[r[n]])]
    BY <1>4, <1>7
  <1>9. l \in 1 .. Cardinality(fits)
    BY <1>6, <1>7
  <1> HIDE DEF chain
  <1>10. IsBestChain(c, fits, chain, [n \in 1 .. l |-> r[n]])
    <2>1. \A m, n \in 1 .. l : m < n => Ahead(c, r[m], r[n])
      BY <1>2, <1>3, <1>5, <1>9
    <2>2. ASSUME NEW n \in 1 .. l, NEW i \in fits, i \notin {r[m] : m \in 1 .. l}
          PROVE  Ahead(c, r[n], i)
      <3>1. PICK m \in 1 .. Cardinality(fits) : r[m] = i
        BY <1>5
      <3>2. n < m
        BY <1>3, <1>9, <2>2, <3>1
      <3>. QED BY <1>2, <1>3, <1>5, <1>9, <3>1, <3>2
    <2>. QED BY <1>8, <2>1, <2>2 DEF IsBestChain
  <1>11. [n \in 1 .. l |-> r[n]] \in [DOMAIN chain -> fits]
    BY <1>3, <1>5, <1>8, <1>9
  <1>12. chain # <<>> /\ Len(chain) = l
    BY <1>8, <1>9
  <1>. QED BY <1>6, <1>7, <1>10, <1>11, <1>12 DEF fits, chain

\* A score is between 0 and 1, however slow the entry is.
LEMMA ScoreIsClamped ==
    ASSUME NEW e, e.latency \in Int
    PROVE  Score(e) \in 0 .. One
  <1> DEFINE s == One - (e.latency * One) \div 2000
  <1>1. s \in Int
    BY DEF One
  <1>2. Score(e) = IF s < 0 THEN 0 ELSE IF s > One THEN One ELSE s
    BY DEF Score
  <1> HIDE DEF s
  <1>. QED BY <1>1, <1>2 DEF One

\* A slower entry scores no better.
LEMMA ScoreFalls ==
    ASSUME NEW e, NEW f, e.latency \in Int, f.latency \in Int, e.latency <= f.latency
    PROVE  Score(e) >= Score(f)
  BY DEF Score, One

\* ProviderScores: the entries asked for in the order of the pool, with scores that
\* a smaller latency does not lower.
LEMMA ScoresListThePool ==
    ASSUME NEW c \in Configs, NEW wanted
    PROVE  ListsThePool(c, wanted, ProviderScores(c, wanted))
  <1> DEFINE scores == ProviderScores(c, wanted)
             asked == {i \in DOMAIN c.pool : wanted # {} => c.pool[i].model \in wanted}
             S == {i \in DOMAIN c.pool : wanted = {} \/ c.pool[i].model \in wanted}
             key == [i \in S |-> i]
             at == InOrder(S, key)
  <1>1. S = asked
    OBVIOUS
  <1>2. \A i \in DOMAIN c.pool : i \in Int /\ c.pool[i].latency \in Int
    BY ConfigType
  <1>3. S \subseteq Int /\ IsFiniteSet(S) /\ S \subseteq DOMAIN c.pool
    <2>1. S \in SUBSET (1 .. Len(c.pool))
      BY ConfigType
    <2>2. IsFiniteSet(1 .. Len(c.pool))
      BY ConfigType, FS_Interval
    <2>. QED BY <1>2, <2>1, <2>2, FS_Subset
  <1> HIDE DEF S, asked
  <1>4. key \in [S -> Int] /\ \A i, j \in S : Precedes(key, i, j) => i < j
    BY <1>3 DEF Precedes
  <1>5. scores = [n \in DOMAIN at |-> [target |-> Target(c.pool[at[n]]),
                                       score |-> Score(c.pool[at[n]])]]
    BY DEF ProviderScores, S
  <1> HIDE DEF key
  <1>6. SortsAll(at, S, key)
    BY <1>3, <1>4, InOrderSorts
  <1> HIDE DEF at, scores
  <1>7. /\ at \in [1 .. Cardinality(S) -> S]
        /\ \A m, n \in 1 .. Cardinality(S) : m < n => at[m] < at[n]
    BY <1>4, <1>6 DEF Sorts, SortsAll
  <1>8. DOMAIN scores = 1 .. Cardinality(S)
    BY <1>5, <1>7
  <1>9. ASSUME NEW n \in 1 .. Cardinality(S)
        PROVE  scores[n].target = Target(c.pool[at[n]]) /\ scores[n].score = Score(c.pool[at[n]])
    BY <1>5, <1>7
  <1>10. ASSUME NEW n \in 1 .. Cardinality(S)
         PROVE  c.pool[at[n]].latency \in Int
    BY <1>2, <1>3, <1>7
  <1>11. ASSUME NEW m \in 1 .. Cardinality(S), NEW n \in 1 .. Cardinality(S)
         PROVE  /\ scores[n].score \in 0 .. One
                /\ c.pool[at[m]].latency <= c.pool[at[n]].latency => scores[m].score >= scores[n].score
    <2>1. Score(c.pool[at[n]]) \in 0 .. One
      BY <1>10, ScoreIsClamped, Zenon
    <2>2. c.pool[at[m]].latency <= c.pool[at[n]].latency =>
             Score(c.pool[at[m]]) >= Score(c.pool[at[n]])
      BY <1>10, ScoreFalls
    <2>3. scores[m].score = Score(c.pool[at[m]]) /\ scores[n].score = Score(c.pool[at[n]])
      BY <1>9, Zenon
    <2>. QED BY <2>1, <2>2, <2>3, Zenon
  <1>12. at \in [DOMAIN scores -> asked]
    BY <1>1, <1>7, <1>8
  <1>13. \A i \in asked : \E n \in DOMAIN scores : at[n] = i
    BY <1>1, <1>6, <1>8 DEF SortsAll
  <1>14. \A m, n \in DOMAIN scores : m < n => at[m] < at[n]
    BY <1>7, <1>8
  <1>15. ListsThePool(c, wanted, scores)
    <2>1. \A n \in DOMAIN scores : scores[n].target = Target(c.pool[at[n]])
      BY <1>8, <1>9, Zenon
    <2>2. \A n \in DOMAIN scores : scores[n].score \in 0 .. One
      BY <1>8, <1>11, Zenon
    <2>3. \A m, n \in DOMAIN scores : c.pool[at[m]].latency <= c.pool[at[n]].latency =>
             scores[m].score >= scores[n].score
      BY <1>8, <1>11
    <2>. QED BY <1>12, <1>13, <1>14, <2>1, <2>2, <2>3, Zenon DEF ListsThePool, asked
  <1>. QED BY <1>15 DEF scores

-----------------------------------------------------------------------------
\* A document that parses gives one of the configurations.
LEMMA ParsedIsConfig ==
    ASSUME file \in Documents, WellFormed(file)
    PROVE  Parse(file) \in Configs
  BY DEF Configs

\* No configuration is the empty cache.
LEMMA ConfigsAreNotNil == Nil \notin Configs
  BY RoutingAssumption DEF RoutingAssumption, Configs

\* What get_routing_config returns is a configuration, or nothing.
LEMMA LoadedType ==
    ASSUME TypeOK, NEW p \in Processes
    PROVE  Loaded(p) \in Configs \cup {Nil}
  BY ParsedIsConfig DEF TypeOK, Loaded

-----------------------------------------------------------------------------
\* At the start nothing runs, nothing is cached and nothing has been logged.
LEMMA InitReload == Init => RoutingInv
  <1> SUFFICES ASSUME Init PROVE RoutingInv
    OBVIOUS
  <1> USE DEF Init
  <1>1. TypeOK
    BY DEF TypeOK, Phases
  <1>2. Validated
    BY DEF Validated, Processes
  <1>3. LogTellsTheTruth
    BY RoutingAssumption DEF LogTellsTheTruth, RoutingAssumption, Processes
  <1>4. NoReloadYet
    BY RoutingAssumption DEF NoReloadYet, RoutingAssumption, Processes
  <1>5. AnsweredFromConfig
    BY DEF AnsweredFromConfig
  <1>. QED BY <1>1, <1>2, <1>3, <1>4, <1>5 DEF RoutingInv

\* A process that ends forgets what it was doing and what it logged.
LEMMA DieReload ==
    ASSUME RoutingInv, NEW p \in Processes, Die(p)
    PROVE  RoutingInv'
  <1> USE DEF RoutingInv, Die, TypeOK
  <1>1. TypeOK'
    BY DEF Phases
  <1>2. Validated'
    BY DEF Validated, Processes
  <1>3. LogTellsTheTruth'
    BY RoutingAssumption DEF LogTellsTheTruth, RoutingAssumption, Processes
  <1>4. NoReloadYet'
    BY RoutingAssumption DEF NoReloadYet, RoutingAssumption, Processes
  <1>5. AnsweredFromConfig'
    BY DEF AnsweredFromConfig
  <1>. QED BY <1>1, <1>2, <1>3, <1>4, <1>5

\* A step of the start only moves the process on, and not into a reload.
LEMMA StartReload ==
    ASSUME RoutingInv, NEW p \in Processes, NEW from, NEW to \in {"redis", "bus", "up"},
           Goto(p, from, to), from \in {"down", "redis", "bus"},
           UNCHANGED <<file, cache, parsed, edited, log, answer>>
    PROVE  RoutingInv'
  <1> USE DEF RoutingInv, Goto, TypeOK
  <1>1. TypeOK'
    BY DEF Phases
  <1>2. Validated'
    BY DEF Validated, Processes
  <1>3. LogTellsTheTruth'
    BY DEF LogTellsTheTruth, NoReloadYet, Processes
  <1>4. NoReloadYet'
    BY DEF NoReloadYet, Processes
  <1>5. AnsweredFromConfig'
    BY DEF AnsweredFromConfig
  <1>. QED BY <1>1, <1>2, <1>3, <1>4, <1>5

\* The first reading: what it holds on to is the document.
LEMMA HupReload ==
    ASSUME RoutingInv, NEW p \in Http, Hup(p)
    PROVE  RoutingInv'
  <1> USE DEF RoutingInv, Hup, Goto, Logged, TypeOK
  <1>1. TypeOK'
    BY ParsedIsConfig DEF Phases, Processes
  <1>2. Validated'
    BY DEF Validated, Processes
  <1>3. LogTellsTheTruth'
    BY DEF LogTellsTheTruth, Processes
  <1>4. NoReloadYet'
    BY DEF NoReloadYet, Processes
  <1>5. AnsweredFromConfig'
    BY DEF AnsweredFromConfig
  <1>. QED BY <1>1, <1>2, <1>3, <1>4, <1>5

\* The second reading: success is logged only of the pool that was validated.
LEMMA SwapReload ==
    ASSUME RoutingInv, NEW p \in Http, Swap(p)
    PROVE  RoutingInv'
  <1> USE DEF RoutingInv, Swap, Goto, Logged, TypeOK
  <1>1. TypeOK'
    BY ParsedIsConfig DEF Phases, Processes
  <1>2. Validated'
    BY DEF Validated, Processes
  <1>3. LogTellsTheTruth'
    BY ParsedIsConfig, ConfigsAreNotNil DEF LogTellsTheTruth, Processes
  <1>4. NoReloadYet'
    BY DEF NoReloadYet, Processes
  <1>5. AnsweredFromConfig'
    BY DEF AnsweredFromConfig
  <1>. QED BY <1>1, <1>2, <1>3, <1>4, <1>5

\* An answer may load the configuration of a gRPC process, never of an HTTP one.
LEMMA CallReload ==
    ASSUME RoutingInv, NEW p \in Processes, NEW rpc \in {"ResolveModel", "ProviderScores"},
           NEW question, NEW reply, Call(p, rpc, question, reply),
           rpc = "ResolveModel" => reply = Resolve(Loaded(p), question),
           rpc = "ProviderScores" => reply = ProviderScores(Loaded(p), question)
    PROVE  RoutingInv'
  <1> USE DEF RoutingInv, Call, Answers
  <1>1. TypeOK'
    BY LoadedType DEF TypeOK
  <1>2. Validated'
    BY DEF Validated, TypeOK, Processes
  <1>3. LogTellsTheTruth'
    BY RoutingAssumption DEF LogTellsTheTruth, RoutingAssumption, TypeOK, Processes
  <1>4. NoReloadYet'
    BY DEF NoReloadYet
  <1>5. AnsweredFromConfig'
    BY LoadedType DEF AnsweredFromConfig
  <1>. QED BY <1>1, <1>2, <1>3, <1>4, <1>5

\* A document that is written under a reload is remembered as such.
LEMMA EditReload ==
    ASSUME RoutingInv, NEW d \in Documents, Edit(d)
    PROVE  RoutingInv'
  <1> USE DEF RoutingInv, Edit, TypeOK
  <1>1. TypeOK'
    OBVIOUS
  <1>2. Validated'
    BY DEF Validated, Processes
  <1>3. LogTellsTheTruth'
    BY DEF LogTellsTheTruth
  <1>4. NoReloadYet'
    BY DEF NoReloadYet
  <1>5. AnsweredFromConfig'
    BY DEF AnsweredFromConfig
  <1>. QED BY <1>1, <1>2, <1>3, <1>4, <1>5

-----------------------------------------------------------------------------
LEMMA StepReload ==
    ASSUME RoutingInv, [Next]_vars
    PROVE  RoutingInv'
  <1>1. ASSUME NEW p \in Processes, InitDb(p) PROVE RoutingInv'
    BY <1>1, StartReload DEF InitDb
  <1>2. ASSUME NEW p \in Processes, InitRedis(p) PROVE RoutingInv'
    BY <1>2, StartReload, DieReload DEF InitRedis
  <1>3. ASSUME NEW p \in Processes, Stop(p) PROVE RoutingInv'
    BY <1>3, DieReload DEF Stop
  <1>4. ASSUME NEW p \in Http, InitEventBus(p) PROVE RoutingInv'
    BY <1>4, StartReload, DieReload DEF InitEventBus, Processes
  <1>5. ASSUME NEW p \in Http, Hup(p) PROVE RoutingInv'
    BY <1>5, HupReload
  <1>6. ASSUME NEW p \in Http, Swap(p) PROVE RoutingInv'
    BY <1>6, SwapReload
  <1>7. ASSUME NEW p \in Processes, NEW h \in Hints, ResolveModel(p, h) PROVE RoutingInv'
    BY <1>7, CallReload DEF ResolveModel
  <1>8. ASSUME NEW p \in Processes, NEW w \in Wanted, AskScores(p, w) PROVE RoutingInv'
    BY <1>8, CallReload DEF AskScores
  <1>9. ASSUME NEW d \in Documents, Edit(d) PROVE RoutingInv'
    BY <1>9, EditReload
  <1>10. CASE UNCHANGED vars
    BY <1>10 DEF vars, RoutingInv, TypeOK, Validated, NoReloadYet, LogTellsTheTruth, AnsweredFromConfig
  <1>. QED BY <1>1, <1>2, <1>3, <1>4, <1>5, <1>6, <1>7, <1>8, <1>9, <1>10 DEF Next

\* The inductive invariant of the processes: types, what a reload holds on to, and
\* what the log says.
THEOREM RoutingInvariant == Spec => []RoutingInv
  BY InitReload, StepReload, PTL DEF Spec

\* reload_routing_config: after a success in the log of an HTTP process, it serves
\* the pool that was validated, whoever wrote the document meanwhile.
THEOREM LogIsTrue == Spec => []LogTellsTheTruth
  BY RoutingInvariant, PTL DEF RoutingInv

\* ResolveModel: an answer names the best models that fit the request, each once and
\* as many as fallback_max asks for, and is the sentinel exactly when none fits.
THEOREM AnswersAreChosenWell == Spec => []ChosenWell
  <1>1. RoutingInv => ChosenWell
    <2> SUFFICES ASSUME RoutingInv, answer # Nil, answer.rpc = "ResolveModel", answer.config # Nil
                 PROVE  ChosenWell
      BY DEF ChosenWell
    <2> DEFINE cfg == answer.config
               fits == Fitting(cfg, answer.question)
    <2>1. cfg \in Configs /\ answer.reply = Resolve(cfg, answer.question)
      BY DEF RoutingInv, AnsweredFromConfig
    <2> HIDE DEF cfg
    <2>2. (answer.reply = Sentinel) <=> fits = {}
      BY <2>1, FilterKeepsFitting DEF Resolve, Sentinel, Failure, Strategies
    <2>3. fits # {} /\ cfg.default_strategy \in Strategies =>
             /\ \E pick \in [DOMAIN answer.reply.chain -> fits] :
                   IsBestChain(cfg, fits, answer.reply.chain, pick)
             /\ answer.reply.chain # <<>>
             /\ cfg.fallback_max >= 0 =>
                   Len(answer.reply.chain) = Least(Cardinality(fits), cfg.fallback_max + 1)
      BY <2>1, ResolveNamesTheBest
    <2>. QED BY <2>2, <2>3 DEF ChosenWell, cfg
  <1>. QED BY <1>1, RoutingInvariant, PTL

\* ProviderScores: an answer lists the entries asked for in the order of the pool,
\* with scores between 0 and 1 that a smaller latency does not lower.
THEOREM ScoresAreInOrder == Spec => []ScoresInOrder
  <1>1. RoutingInv => ScoresInOrder
    <2> SUFFICES ASSUME RoutingInv, answer # Nil, answer.rpc = "ProviderScores", answer.config # Nil
                 PROVE  ScoresInOrder
      BY DEF ScoresInOrder
    <2>1. /\ answer.config \in Configs
          /\ answer.reply = ProviderScores(answer.config, answer.question)
      BY DEF RoutingInv, AnsweredFromConfig
    <2>. QED BY <2>1, ScoresListThePool DEF ScoresInOrder
  <1>. QED BY <1>1, RoutingInvariant, PTL

\* Only the second reading of a reload changes what a running HTTP process has
\* cached, and nothing written since the first means that it reads the same.
LEMMA CacheStep ==
    ASSUME RoutingInv, [Next]_vars, NEW p \in Http,
           phase[p] \in {"up", "reload"}, phase'[p] # "down", ~edited[p], cache'[p] # cache[p]
    PROVE  cache'[p] = parsed[p]
  <1> USE DEF RoutingInv, TypeOK, Processes
  <1>1. Swap(p)
    <2>1. ASSUME NEW q \in Processes, Die(q) PROVE FALSE
      BY <2>1 DEF Die
    <2>2. ASSUME NEW q \in Processes, NEW rpc, NEW question, NEW reply,
                 Call(q, rpc, question, reply)
          PROVE  FALSE
      BY <2>2, RoutingAssumption DEF Call, Answers, RoutingAssumption
    <2>3. ASSUME NEW q \in Http, Swap(q) PROVE q = p
      BY <2>3 DEF Swap
    <2>. QED
      BY <2>1, <2>2, <2>3 DEF Next, vars, InitDb, InitRedis, InitEventBus, Stop, Hup, Edit,
                              ResolveModel, AskScores
  <1>2. WellFormed(file) /\ parsed[p] = Parse(file)
    BY <1>1 DEF Swap, Goto, Validated
  <1>. QED BY <1>1, <1>2 DEF Swap

\* reload_routing_config: a reload replaces the cached configuration by the one it
\* validated or leaves it, unless the document is edited between its two readings.
THEOREM ReloadIsOneSwitch == Spec => ReloadIsAtomicUnlessEdited
  <1>1. RoutingInv /\ [Next]_vars =>
        [\A p \in Http :
            phase[p] \in {"up", "reload"} /\ phase'[p] # "down" /\ ~edited[p] /\ cache'[p] # cache[p]
               => cache'[p] = parsed[p]]_vars
    BY CacheStep
  <1>. QED BY <1>1, RoutingInvariant, PTL DEF Spec, ReloadIsAtomicUnlessEdited

=============================================================================
