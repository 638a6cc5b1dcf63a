---------------------------- MODULE StreamPathProofs ----------------------------
(* Proofs about a streamed answer, for any answers of upstreams.              *)
EXTENDS StreamPath, WellFoundedInduction, TLAPS

\* Text without the sentinel.
Wordless(s) == \A i \in 1 .. Len(s) : s[i] # DataHead(Done)

\* A stream that is translated has no sentinel until it is finished, and finished it
\* is that text and one more event.
DoneInv ==
    upstream.adapter = "anthropic" =>
      /\ wire \in Seq(ToSet(wire))
      /\ ~finished => Wordless(wire)
      /\ finished => /\ pc = "over" /\ closed
                     /\ \E told \in Seq(ToSet(wire)) : Wordless(told) /\ wire = told \o EventOf(Done)

\* ---------------------------------------------------------------- text
LEMMA Joined ==
    ASSUME NEW S, NEW s \in Seq(S), NEW T, NEW t \in Seq(T)
    PROVE  /\ s \o t \in Seq(S \union T) /\ Len(s \o t) = Len(s) + Len(t) /\ Len(s) \in Nat /\ Len(t) \in Nat
           /\ \A i \in 1 .. Len(s) : (s \o t)[i] = s[i]
           /\ \A i \in Len(s) + 1 .. Len(s) + Len(t) : (s \o t)[i] = t[i - Len(s)]
  OBVIOUS

LEMMA OfItsOwn ==
    ASSUME NEW S, NEW s \in Seq(S)
    PROVE  s \in Seq(ToSet(s)) /\ DOMAIN s = 1 .. Len(s) /\ Len(s) \in Nat
  BY DEF ToSet

LEMMA WordlessJoined ==
    ASSUME NEW S, NEW s \in Seq(S), NEW T, NEW t \in Seq(T), Wordless(s), Wordless(t)
    PROVE  Wordless(s \o t)
  <1>1. /\ Len(s \o t) = Len(s) + Len(t) /\ Len(s) \in Nat /\ Len(t) \in Nat
        /\ \A i \in 1 .. Len(s) : (s \o t)[i] = s[i]
        /\ \A i \in Len(s) + 1 .. Len(s) + Len(t) : (s \o t)[i] = t[i - Len(s)]
    BY Joined
  <1>2. ASSUME NEW i \in 1 .. Len(s) + Len(t) PROVE (s \o t)[i] # DataHead(Done)
    <2>1. CASE i \in 1 .. Len(s)
      BY <1>1, <2>1 DEF Wordless
    <2>2. CASE i \notin 1 .. Len(s)
      <3>1. i \in Len(s) + 1 .. Len(s) + Len(t) /\ i - Len(s) \in 1 .. Len(t)
        BY <1>1, <2>2
      <3>. QED BY <1>1, <3>1 DEF Wordless
    <2>. QED BY <2>1, <2>2
  <1>. QED BY <1>1, <1>2 DEF Wordless

LEMMA FourJoined ==
    ASSUME NEW a, NEW b, NEW c
    PROVE  /\ <<a, b>> \o <<c, c>> = <<a, b, c, c>>
           /\ <<a, b, c, c>> \in Seq({a, b, c}) /\ Len(<<a, b, c, c>>) = 4
  <1>1. <<a, b, c, c>> \in Seq({a, b, c}) /\ Len(<<a, b, c, c>>) = 4
    OBVIOUS
  <1> DEFINE s == <<a, b>>
             t == <<c, c>>
  <1>2. s \in Seq({a, b, c}) /\ Len(s) = 2 /\ t \in Seq({a, b, c}) /\ Len(t) = 2
    OBVIOUS
  <1>3. s[1] = a /\ s[2] = b /\ t[1] = c /\ t[2] = c
    OBVIOUS
  <1> HIDE DEF s, t
  <1> DEFINE S == {a, b, c}
  <1>4. s \in Seq(S) /\ Len(s) = 2 /\ t \in Seq(S) /\ Len(t) = 2
    BY <1>2
  <1> HIDE DEF S
  <1> DEFINE u == s \o t
  <1>5. /\ u \in Seq(S \union S) /\ Len(u) = Len(s) + Len(t)
        /\ \A i \in 1 .. Len(s) : u[i] = s[i]
        /\ \A i \in Len(s) + 1 .. Len(s) + Len(t) : u[i] = t[i - Len(s)]
    <2>1. s \in Seq(S) /\ t \in Seq(S)
      BY <1>4
    <2>2. u \in Seq(S \union S)
      BY <2>1, Joined
    <2>. QED BY <2>1, <2>2, Joined
  <1> HIDE DEF u
  <1>6. s \o t = <<a, b, c, c>>
    <2>1. Len(u) = 4 /\ u = [i \in 1 .. 4 |-> u[i]]
      BY <1>4, <1>5
    <2>2. u[1] = a /\ u[2] = b /\ u[3] = c /\ u[4] = c
      BY <1>3, <1>4, <1>5
    <2>3. <<a, b, c, c>> = [i \in 1 .. 4 |-> u[i]]
      BY <2>2
    <2>. QED BY <2>1, <2>3 DEF u
  <1>. QED BY <1>1, <1>6 DEF s, t

\* The four fragments of an event.
LEMMA EventIs ==
    ASSUME NEW doc
    PROVE  /\ EventOf(doc) = <<DataHead(doc), DataRest(doc), LF, LF>>
           /\ EventOf(doc) \in Seq({DataHead(doc), DataRest(doc), LF}) /\ Len(EventOf(doc)) = 4
  <1> DEFINE a == DataHead(doc)
             b == DataRest(doc)
             c == LF
  <1>1. EventOf(doc) = <<a, b>> \o <<c, c>>
    BY DEF EventOf, DataLine
  <1> HIDE DEF a, b, c
  <1>2. EventOf(doc) = <<a, b, c, c>> /\ <<a, b, c, c>> \in Seq({a, b, c}) /\ Len(<<a, b, c, c>>) = 4
    BY <1>1, FourJoined
  <1>. QED BY <1>2 DEF a, b, c

LEMMA AndDone ==
    ASSUME NEW S, NEW s \in Seq(S), NEW t, t = s \o EventOf(Done)
    PROVE  /\ Len(s) \in Nat /\ Len(t) = Len(s) + 4
           /\ \A j \in 1 .. Len(s) : t[j] = s[j]
           /\ t[Len(s) + 1] = DataHead(Done) /\ t[Len(s) + 2] = DataRest(Done)
           /\ t[Len(s) + 3] = LF /\ t[Len(s) + 4] = LF
  <1> DEFINE T == {DataHead(Done), DataRest(Done), LF}
  <1>1. /\ EventOf(Done) = <<DataHead(Done), DataRest(Done), LF, LF>>
        /\ EventOf(Done) \in Seq(T) /\ Len(EventOf(Done)) = 4
    BY EventIs
  <1> HIDE DEF T
  <1>2. PICK e : e \in Seq(T) /\ Len(e) = 4 /\ t = s \o e /\ e = <<DataHead(Done), DataRest(Done), LF, LF>>
    BY <1>1
  <1>3. /\ Len(s \o e) = Len(s) + Len(e) /\ Len(s) \in Nat
        /\ \A i \in 1 .. Len(s) : (s \o e)[i] = s[i]
        /\ \A i \in Len(s) + 1 .. Len(s) + Len(e) : (s \o e)[i] = e[i - Len(s)]
    <2>1. s \in Seq(S) /\ e \in Seq(T)
      BY <1>2
    <2>. QED BY <2>1, Joined
  <1>4. \A k \in 1 .. 4 : t[Len(s) + k] = e[k]
    <2>1. \A k \in 1 .. 4 : Len(s) + k \in Len(s) + 1 .. Len(s) + 4 /\ (Len(s) + k) - Len(s) = k
      BY <1>3
    <2>. QED BY <1>2, <1>3, <2>1
  <1>5. e[1] = DataHead(Done) /\ e[2] = DataRest(Done) /\ e[3] = LF /\ e[4] = LF
    <2> DEFINE a == DataHead(Done)
               b == DataRest(Done)
               c == LF
    <2>1. e = <<a, b, c, c>>
      BY <1>2
    <2> HIDE DEF a, b, c
    <2>2. e[1] = a /\ e[2] = b /\ e[3] = c /\ e[4] = c
      BY ONLY <2>1
    <2>. QED BY <2>2 DEF a, b, c
  <1>6. /\ t[Len(s) + 1] = e[1] /\ t[Len(s) + 2] = e[2] /\ t[Len(s) + 3] = e[3] /\ t[Len(s) + 4] = e[4]
    <2>1. 1 \in 1 .. 4 /\ 2 \in 1 .. 4 /\ 3 \in 1 .. 4 /\ 4 \in 1 .. 4
      OBVIOUS
    <2>. QED BY <1>4, <2>1
  <1>. QED BY <1>2, <1>3, <1>5, <1>6

LEMMA Apart ==
    /\ \A doc : DataRest(doc) # DataHead(Done)
    /\ LF # DataHead(Done) /\ ErrorBody # DataHead(Done)
    /\ \A doc : doc.kind = "chunk" => DataHead(doc) # DataHead(Done)
  <1>1. \A doc : DataRest(doc).t = "rest" /\ DataHead(doc).t = "data" /\ DataHead(doc).doc = doc
    BY DEF DataRest, DataHead
  <1>2. LF.t = "LF" /\ ErrorBody.t = "error_body" /\ Done.kind = "[DONE]"
    BY DEF LF, ErrorBody, Done
  <1>3. ASSUME NEW doc PROVE DataRest(doc) # DataHead(Done)
    BY <1>1
  <1>4. LF # DataHead(Done) /\ ErrorBody # DataHead(Done)
    BY <1>1, <1>2
  <1>5. ASSUME NEW doc, doc.kind = "chunk" PROVE DataHead(doc) # DataHead(Done)
    <2>1. doc # Done
      BY <1>2, <1>5
    <2>. QED BY <1>1, <2>1
  <1>. QED BY <1>3, <1>4, <1>5

\* What the translator writes for an event is no sentinel.
LEMMA ChunksAreChunks ==
    ASSUME NEW name, NEW doc, NEW i, NEW w, w = Written(ChunksOf(name, doc, i))
    PROVE  w \in Seq(ToSet(w)) /\ Wordless(w)
  <1>1. \/ ChunksOf(name, doc, i) = <<>>
        \/ \E a, b, c, d : ChunksOf(name, doc, i) = <<Chunk(a, b, c, d)>>
    BY DEF ChunksOf
  <1>2. CASE ChunksOf(name, doc, i) = <<>>
    <2>1. w = <<>>
      BY <1>2 DEF Written
    <2>. QED BY <2>1 DEF Wordless, ToSet
  <1>3. ASSUME NEW a, NEW b, NEW c, NEW d, ChunksOf(name, doc, i) = <<Chunk(a, b, c, d)>>
        PROVE  w \in Seq(ToSet(w)) /\ Wordless(w)
    <2> DEFINE chunk == Chunk(a, b, c, d)
    <2>1. chunk.kind = "chunk"
      BY DEF Chunk
    <2> HIDE DEF chunk
    <2>2. w = EventOf(chunk)
      <3>1. <<chunk>> # <<>> /\ <<chunk>>[1] = chunk
        OBVIOUS
      <3>. QED BY <1>3, <3>1 DEF Written, chunk
    <2>3. w \in Seq({DataHead(chunk), DataRest(chunk), LF})
      BY <2>2, EventIs
    <2>4. w = <<DataHead(chunk), DataRest(chunk), LF, LF>> /\ Len(w) = 4
      BY <2>2, EventIs
    <2>5. \A k \in 1 .. 4 : w[k] \in {DataHead(chunk), DataRest(chunk), LF}
      BY <2>4
    <2>6. \A x \in {DataHead(chunk), DataRest(chunk), LF} : x # DataHead(Done)
      BY <2>1, Apart
    <2>7. Wordless(w)
      BY <2>4, <2>5, <2>6 DEF Wordless
    <2>. QED BY <2>3, <2>7, OfItsOwn
  <1>. QED BY <1>1, <1>2, <1>3

\* ---------------------------------------------------------------- steps
\* More text without the sentinel.
LEMMA WordsKeepDoneInv ==
    ASSUME DoneInv, ~finished, UNCHANGED <<upstream, finished>>, NEW S, NEW more \in Seq(S),
           Wordless(more), wire' = wire \o more
    PROVE  DoneInv'
  <1> SUFFICES ASSUME upstream.adapter = "anthropic" PROVE wire' \in Seq(ToSet(wire')) /\ Wordless(wire')
    BY DEF DoneInv
  <1>1. wire \in Seq(ToSet(wire)) /\ Wordless(wire)
    BY DEF DoneInv
  <1>2. wire' \in Seq(ToSet(wire) \union S)
    BY <1>1, Joined
  <1>3. Wordless(wire')
    BY <1>1, WordlessJoined
  <1>. QED BY <1>2, <1>3, OfItsOwn

LEMMA StepKeepsDone == DoneInv /\ [Next]_vars => DoneInv'
  <1> SUFFICES ASSUME DoneInv, [Next]_vars, upstream.adapter = "anthropic" PROVE DoneInv'
    BY DEF DoneInv, Next, GatewayStep, ReaderStep, ReaderAborts, vars, gatewayVars, Gateway, Read,
           ConsumeLine, TakesLine, Dispatch, AwaitMore, Eof, Fail
  <1>1. UNCHANGED <<upstream, finished, wire, pc, closed>> => DoneInv'
    BY DEF DoneInv
  <1>2. CASE ReaderStep \/ ReaderAborts \/ UNCHANGED vars
    BY <1>1, <1>2 DEF ReaderStep, ReaderAborts, vars, gatewayVars, translator
  <1>3. finished => pc = "over"
    BY DEF DoneInv
  <1>4. CASE (\E n \in 1 .. (Len(text) - pos) : Read(n)) \/ ConsumeLine \/ AwaitMore
    <2>1. ~finished /\ UNCHANGED <<upstream, finished, wire>>
      BY <1>3, <1>4 DEF Read, ConsumeLine, TakesLine, AwaitMore, translator
    <2>. QED BY <2>1 DEF DoneInv
  <1>5. CASE Dispatch
    <2>1. ~finished /\ UNCHANGED <<upstream, finished>>
      BY <1>3, <1>5 DEF Dispatch, TakesLine
    <2>2. CASE Pending
      <3>1. PICK more : more = Written(ChunksOf(currentEvent, Json(currentData), id)) /\ wire' = wire \o more
        BY <1>5, <2>2 DEF Dispatch
      <3>2. more \in Seq(ToSet(more)) /\ Wordless(more)
        BY <3>1, ChunksAreChunks
      <3>. QED BY <2>1, <3>1, <3>2, WordsKeepDoneInv
    <2>3. CASE ~Pending
      <3>1. UNCHANGED wire
        BY <1>5, <2>3 DEF Dispatch
      <3>. QED BY <2>1, <3>1 DEF DoneInv
    <2>. QED BY <2>2, <2>3
  <1>6. CASE Fail
    <2>1. ~finished /\ UNCHANGED <<upstream, finished>> /\ wire' = Append(wire, ErrorBody)
      BY <1>3, <1>6 DEF Fail, translator
    <2>2. wire \in Seq(ToSet(wire))
      BY DEF DoneInv
    <2>3. wire' = wire \o <<ErrorBody>>
      <3> DEFINE e == ErrorBody
      <3>1. wire' = Append(wire, e)
        BY <2>1
      <3> HIDE DEF e
      <3>2. wire' = wire \o <<e>>
        BY <2>2, <3>1
      <3>. QED BY <3>2 DEF e
    <2>4. Wordless(<<ErrorBody>>) /\ <<ErrorBody>> \in Seq({ErrorBody})
      BY Apart DEF Wordless
    <2>. QED BY <2>1, <2>3, <2>4, WordsKeepDoneInv
  <1>7. CASE Eof
    <2>1. ~finished /\ wire \in Seq(ToSet(wire)) /\ Wordless(wire)
      BY <1>3, <1>7 DEF Eof, DoneInv
    <2>2. finished' /\ wire' = wire \o EventOf(Done) /\ pc' = "over" /\ closed'
      BY <1>7, <2>1 DEF Eof, WriteChunk
    <2>3. wire' \in Seq(ToSet(wire) \union {DataHead(Done), DataRest(Done), LF})
      BY <2>1, <2>2, EventIs, Joined
    <2>4. wire' \in Seq(ToSet(wire'))
      BY <2>3, OfItsOwn
    <2>5. wire \in Seq(ToSet(wire'))
      <3>1. \A i \in 1 .. Len(wire) : wire[i] = wire'[i] /\ i \in DOMAIN wire'
        <4>1. /\ Len(wire') = Len(wire) + 4 /\ Len(wire) \in Nat
              /\ \A i \in 1 .. Len(wire) : wire'[i] = wire[i]
          BY <2>1, <2>2, AndDone
        <4>2. DOMAIN wire' = 1 .. Len(wire')
          BY <2>3
        <4>. QED BY <4>1, <4>2
      <3>2. \A i \in 1 .. Len(wire) : wire[i] \in ToSet(wire')
        BY <3>1 DEF ToSet
      <3>. QED BY <2>1, <3>2
    <2>. QED BY <2>1, <2>2, <2>4, <2>5 DEF DoneInv
  <1>. QED BY <1>2, <1>4, <1>5, <1>6, <1>7 DEF Next, GatewayStep, Gateway

\* What DoneInv says of the text.
LEMMA DoneIsTheEnd == DoneInv => DoneIsLast
  <1> SUFFICES ASSUME DoneInv, upstream.adapter = "anthropic", NEW i \in DOMAIN wire, wire[i] = DataHead(Done)
               PROVE  SubSeq(wire, i, Len(wire)) = EventOf(Done) /\ finished /\ closed
    BY DEF DoneIsLast
  <1>1. wire \in Seq(ToSet(wire)) /\ i \in 1 .. Len(wire)
    BY DEF DoneInv
  <1>2. finished /\ closed
    BY <1>1 DEF DoneInv, Wordless
  <1>3. PICK told \in Seq(ToSet(wire)) : Wordless(told) /\ wire = told \o EventOf(Done)
    BY <1>2 DEF DoneInv
  <1> DEFINE n == Len(told)
  <1>4. /\ n \in Nat /\ Len(wire) = n + 4
        /\ \A j \in 1 .. n : wire[j] = told[j]
        /\ wire[n + 1] = DataHead(Done) /\ wire[n + 2] = DataRest(Done)
        /\ wire[n + 3] = LF /\ wire[n + 4] = LF
    BY <1>3, AndDone
  <1>5. i = n + 1
    <2>1. i \notin 1 .. n
      BY <1>3, <1>4 DEF Wordless
    <2> HIDE DEF n
    <2>2. i \in {n + 1, n + 2, n + 3, n + 4}
      BY <1>1, <1>4, <2>1
    <2>. QED BY <1>4, <2>2, Apart
  <1> HIDE DEF n
  <1>6. SubSeq(wire, i, Len(wire)) = <<DataHead(Done), DataRest(Done), LF, LF>>
    <2>1. SubSeq(wire, i, Len(wire)) = [k \in 1 .. Len(wire) - i + 1 |-> wire[i + k - 1]]
      BY <1>1
    <2>2. SubSeq(wire, i, Len(wire)) = [k \in 1 .. 4 |-> wire[n + k]]
      <3>1. Len(wire) - i + 1 = 4 /\ \A k \in 1 .. 4 : i + k - 1 = n + k
        BY <1>4, <1>5
      <3>. QED BY <2>1, <3>1
    <2>3. <<DataHead(Done), DataRest(Done), LF, LF>> = [k \in 1 .. 4 |-> wire[n + k]]
      BY <1>4
    <2>. QED BY <2>2, <2>3
  <1>. QED BY <1>2, <1>6, EventIs

\* finishStream and Translator.Close: a stream that is translated says [DONE] once, as
\* its last word, and only after the upstream ended without an error.
THEOREM DoneStaysLast == FairSpec => []DoneIsLast
  <1>1. Init => DoneInv
    <2>1. <<>> \in Seq(ToSet(<<>>)) /\ Wordless(<<>>)
      BY DEF Wordless, ToSet
    <2>2. Init => wire = <<>> /\ finished = FALSE
      BY DEF Init, GatewayInit
    <2>. QED BY <2>1, <2>2 DEF DoneInv
  <1>. QED BY <1>1, StepKeepsDone, DoneIsTheEnd, PTL DEF FairSpec

\* The first n of a sequence.
First(s, n) == [i \in 1 .. n |-> s[i]]

\* A set of naturals that is not empty has a least member: what an induction over
\* data comes down to here.
LEMMA LeastNat ==
    ASSUME NEW T, T \subseteq Nat, T # {}
    PROVE  \E n \in T : \A m \in T : n <= m
  <1> DEFINE R == {ss \in Nat \X Nat : ss[1] < ss[2]}
  <1>1. IsWellFoundedOn(R, Nat)
    BY NatLessThanWellFounded DEF OpToRel
  <1>2. \A x, y \in Nat : x < y => <<x, y>> \in R
    OBVIOUS
  <1> HIDE DEF R
  <1>3. \E x \in T : \A y \in T : ~(<<y, x>> \in R)
    BY <1>1, WFMin
  <1>4. PICK n \in T : \A y \in T : ~(<<y, n>> \in R)
    BY <1>3
  <1>5. \A m \in T : ~(m < n)
    BY <1>2, <1>4
  <1>. QED BY <1>5

\* f[k] is the first k sequences of s, one after the other, for k up to m.
Flattens(f, m, s, S) ==
    /\ f \in [1 .. m -> Seq(S)]
    /\ \A k \in 1 .. m : f[k] = IF k = 1 THEN s[k] ELSE f[k - 1] \o s[k]

LEMMA FlattensFurther ==
    ASSUME NEW S, NEW s, NEW m \in Nat, NEW f, Flattens(f, m, s, S), s[m + 1] \in Seq(S)
    PROVE  \E g : Flattens(g, m + 1, s, S) /\ \A k \in 1 .. m : g[k] = f[k]
  <1> DEFINE more == IF m = 0 THEN s[1] ELSE f[m] \o s[m + 1]
             g == [k \in 1 .. m + 1 |-> IF k <= m THEN f[k] ELSE more]
  <1>1. more \in Seq(S)
    BY DEF Flattens
  <1>2. g \in [1 .. m + 1 -> Seq(S)]
    BY <1>1 DEF Flattens
  <1>3. \A k \in 1 .. m : g[k] = f[k]
    OBVIOUS
  <1>4. ASSUME NEW k \in 1 .. m + 1 PROVE g[k] = IF k = 1 THEN s[k] ELSE g[k - 1] \o s[k]
    <2>1. CASE k \in 1 .. m
      <3>1. k # 1 => k - 1 \in 1 .. m
        BY <2>1
      <3>. QED BY <1>3, <2>1, <3>1 DEF Flattens
    <2>2. CASE k = m + 1
      <3>1. g[k] = more
        BY <2>2
      <3>2. m # 0 => k - 1 = m /\ m \in 1 .. m /\ k # 1
        BY <2>2
      <3>3. m = 0 => k = 1
        BY <2>2
      <3> HIDE DEF g
      <3>. QED BY <1>3, <2>2, <3>1, <3>2, <3>3
    <2>. QED BY <2>1, <2>2
  <1> HIDE DEF g
  <1>5. Flattens(g, m + 1, s, S)
    BY <1>2, <1>4 DEF Flattens
  <1>. QED BY <1>3, <1>5

LEMMA FlattensExists ==
    ASSUME NEW S, NEW n \in Nat, NEW s, \A k \in 1 .. n : s[k] \in Seq(S)
    PROVE  \E f : Flattens(f, n, s, S)
  <1> DEFINE T == {m \in 0 .. n : ~\E f : Flattens(f, m, s, S)}
  <1>1. SUFFICES ASSUME T # {} PROVE FALSE
    OBVIOUS
  <1>2. PICK m \in T : \A k \in T : m <= k
    <2>1. T \subseteq Nat
      OBVIOUS
    <2>. QED BY <1>1, <2>1, LeastNat
  <1>3. m # 0
    <2>1. [k \in 1 .. 0 |-> <<>>] \in [1 .. 0 -> Seq(S)]
      OBVIOUS
    <2>2. Flattens([k \in 1 .. 0 |-> <<>>], 0, s, S)
      BY <2>1 DEF Flattens
    <2>. QED BY <2>2
  <1>4. m - 1 \in 0 .. n /\ m - 1 \notin T /\ m - 1 \in Nat /\ m \in 1 .. n
    BY <1>2, <1>3
  <1>5. PICK f : Flattens(f, m - 1, s, S)
    BY <1>4
  <1>6. \E g : Flattens(g, (m - 1) + 1, s, S)
    BY <1>4, <1>5, FlattensFurther
  <1>. QED BY <1>4, <1>6

\* What FlattenSeq is.
LEMMA FlattenIs ==
    ASSUME NEW S, NEW s, NEW g, Len(s) \in Nat, Len(s) # 0, Flattens(g, Len(s), s, S)
    PROVE  FlattenSeq(s) = g[Len(s)]
  <1> DEFINE n == Len(s)
             Is(h) == h = [i \in 1 .. n |-> IF i = 1 THEN s[i] ELSE h[i - 1] \o s[i]]
  <1>1. FlattenSeq(s) = (CHOOSE h : Is(h))[n]
    BY DEF FlattenSeq
  <1> HIDE DEF n
  <1>2. n \in Nat /\ n # 0 /\ Flattens(g, n, s, S)
    BY DEF n
  <1>3. Is(g)
    BY <1>2 DEF Flattens
  <1>4. ASSUME NEW h, Is(h) PROVE h = g
    <2>1. \A i \in 1 .. n : h[i] = IF i = 1 THEN s[i] ELSE h[i - 1] \o s[i]
      BY <1>4
    <2>2. \A i \in 1 .. n : g[i] = IF i = 1 THEN s[i] ELSE g[i - 1] \o s[i]
      BY <1>2 DEF Flattens
    <2>3. h = [i \in 1 .. n |-> h[i]] /\ g = [i \in 1 .. n |-> g[i]]
      BY <1>3, <1>4
    <2> DEFINE T == {i \in 1 .. n : h[i] # g[i]}
    <2> HIDE DEF Is
    <2>4. CASE T # {}
      <3>1. PICK i \in T : \A k \in T : i <= k
        <4>1. T \subseteq Nat
          BY <1>2
        <4>. QED BY <2>4, <4>1, LeastNat
      <3>2. i # 1 => i - 1 \in 1 .. n /\ i - 1 \notin T
        BY <1>2, <3>1
      <3>. QED BY <2>1, <2>2, <3>1, <3>2
    <2>5. CASE T = {}
      <3>1. \A i \in 1 .. n : h[i] = g[i]
        BY <2>5
      <3>. QED BY <2>3, <3>1
    <2>. QED BY <2>4, <2>5
  <1>5. (CHOOSE h : Is(h)) = g
    <2> HIDE DEF Is
    <2>. QED BY <1>3, <1>4
  <1>. QED BY <1>1, <1>5 DEF n

LEMMA FlattenEmpty == ASSUME NEW s, Len(s) = 0 PROVE FlattenSeq(s) = s
  BY DEF FlattenSeq

LEMMA FlattenType ==
    ASSUME NEW S, NEW s \in Seq(Seq(S))
    PROVE  FlattenSeq(s) \in Seq(S) /\ Len(FlattenSeq(s)) \in Nat
  <1>0. Len(s) \in Nat
    OBVIOUS
  <1>1. CASE Len(s) = 0
    <2>1. s = <<>>
      BY <1>1
    <2>2. FlattenSeq(s) = <<>>
      BY <1>1, <2>1, FlattenEmpty
    <2>3. <<>> \in Seq(S) /\ Len(<<>>) \in Nat
      OBVIOUS
    <2>. QED BY <2>2, <2>3
  <1>2. CASE Len(s) # 0
    <2>1. PICK g : Flattens(g, Len(s), s, S)
      BY <1>0, FlattensExists
    <2>2. FlattenSeq(s) = g[Len(s)]
      BY <1>0, <1>2, <2>1, FlattenIs
    <2>3. g[Len(s)] \in Seq(S)
      <3>1. Len(s) \in 1 .. Len(s)
        BY <1>0, <1>2
      <3>. QED BY <2>1, <3>1 DEF Flattens
    <2>. QED BY <2>2, <2>3
  <1>. QED BY <1>1, <1>2

\* One sequence more.
LEMMA FlattenNext ==
    ASSUME NEW S, NEW s \in Seq(Seq(S)), NEW t \in Seq(Seq(S)), Len(t) = Len(s) + 1,
           \A i \in 1 .. Len(s) : t[i] = s[i]
    PROVE  FlattenSeq(t) = FlattenSeq(s) \o t[Len(s) + 1]
  <1> DEFINE n == Len(s)
  <1>0. n \in Nat /\ (\A k \in 1 .. n + 1 : t[k] \in Seq(S)) /\ t[n + 1] \in Seq(S)
    <2>1. n \in Nat /\ (\A k \in 1 .. Len(t) : t[k] \in Seq(S)) /\ Len(t) = n + 1
      OBVIOUS
    <2>2. n + 1 \in 1 .. n + 1
      BY <2>1
    <2>. QED BY <2>1, <2>2
  <1> HIDE DEF n
  <1>1. PICK g : Flattens(g, n + 1, t, S)
    <2> DEFINE m == n + 1
    <2>1. m \in Nat /\ \A k \in 1 .. m : t[k] \in Seq(S)
      BY <1>0
    <2> HIDE DEF m
    <2>2. \E g : Flattens(g, m, t, S)
      BY <2>1, FlattensExists
    <2>. QED BY <2>2 DEF m
  <1>2. FlattenSeq(t) = g[n + 1]
    <2>1. Len(t) = n + 1 /\ n + 1 \in Nat /\ n + 1 # 0
      BY <1>0 DEF n
    <2>2. Flattens(g, Len(t), t, S) /\ Len(t) \in Nat /\ Len(t) # 0
      BY <1>1, <2>1
    <2>3. FlattenSeq(t) = g[Len(t)]
      BY <2>2, FlattenIs
    <2>. QED BY <2>1, <2>3
  <1>3. CASE n = 0
    <2>1. s = <<>>
      BY <1>3 DEF n
    <2>2. FlattenSeq(s) = <<>>
      BY <1>3, <2>1, FlattenEmpty DEF n
    <2>3. g[n + 1] = t[n + 1]
      BY <1>1, <1>3 DEF Flattens
    <2>4. <<>> \o t[n + 1] = t[n + 1]
      BY <1>0
    <2>. QED BY <1>2, <2>2, <2>3, <2>4 DEF n
  <1>4. CASE n # 0
    <2>1. Flattens([k \in 1 .. n |-> g[k]], n, s, S)
      <3>1. \A k \in 1 .. n : k \in 1 .. n + 1 /\ (k # 1 => k - 1 \in 1 .. n)
        BY <1>0
      <3>. QED BY <1>1, <3>1 DEF Flattens, n
    <2>2. FlattenSeq(s) = [k \in 1 .. n |-> g[k]][n]
      BY <1>0, <1>4, <2>1, FlattenIs DEF n
    <2>3. n \in 1 .. n /\ n + 1 \in 1 .. n + 1 /\ n + 1 # 1 /\ (n + 1) - 1 = n
      BY <1>0, <1>4
    <2>4. g[n + 1] = g[n] \o t[n + 1]
      BY <1>1, <2>3 DEF Flattens
    <2>. QED BY <1>2, <2>2, <2>3, <2>4 DEF n
  <1>. QED BY <1>3, <1>4

\* Where each of the sequences lies in the whole.
Places(off, s) ==
    /\ off \in [0 .. Len(s) -> Nat]
    /\ off[0] = 0 /\ off[Len(s)] = Len(FlattenSeq(s))
    /\ \A k \in 1 .. Len(s) :
         /\ off[k] = off[k - 1] + Len(s[k])
         /\ off[k] <= Len(FlattenSeq(s))
         /\ \A i \in 1 .. Len(s[k]) : FlattenSeq(s)[off[k - 1] + i] = s[k][i]

LEMMA FlattenPlaces ==
    ASSUME NEW S, NEW s \in Seq(Seq(S))
    PROVE  \E off : /\ Places(off, s)
                    /\ \A k \in 0 .. Len(s) : off[k] = Len(FlattenSeq(First(s, k)))
  <1> DEFINE n == Len(s)
             u(k) == First(s, k)
             g(k) == FlattenSeq(u(k))
  <1>0. n \in Nat /\ \A k \in 1 .. n : s[k] \in Seq(S)
    OBVIOUS
  <1> HIDE DEF n
  <1> USE DEF First
  <1>1. ASSUME NEW k \in 0 .. n PROVE u(k) \in Seq(Seq(S)) /\ Len(u(k)) = k
    BY <1>0
  <1>2. ASSUME NEW k \in 0 .. n PROVE g(k) \in Seq(S) /\ Len(g(k)) \in Nat
    <2> HIDE DEF u
    <2>. QED BY <1>1, FlattenType
  <1>3. ASSUME NEW k \in 1 .. n PROVE g(k) = g(k - 1) \o s[k]
    <2>1. k - 1 \in 0 .. n /\ k \in 0 .. n
      BY <1>0
    <2>2. \A i \in 1 .. k - 1 : u(k)[i] = u(k - 1)[i]
      BY <1>0
    <2>3. u(k)[k] = s[k]
      OBVIOUS
    <2>4. /\ u(k - 1) \in Seq(Seq(S)) /\ Len(u(k - 1)) = k - 1
          /\ u(k) \in Seq(Seq(S)) /\ Len(u(k)) = k
      BY <1>1, <2>1
    <2> HIDE DEF u
    <2>5. Len(u(k)) = Len(u(k - 1)) + 1 /\ Len(u(k - 1)) + 1 = k
      BY <2>1, <2>4
    <2>6. \A i \in 1 .. Len(u(k - 1)) : u(k)[i] = u(k - 1)[i]
      BY <2>2, <2>4
    <2>7. FlattenSeq(u(k)) = FlattenSeq(u(k - 1)) \o u(k)[Len(u(k - 1)) + 1]
      BY <2>4, <2>5, <2>6, FlattenNext
    <2>. QED BY <2>3, <2>5, <2>7
  <1>4. u(n) = s /\ g(0) = <<>>
    <2>1. u(n) = s
      BY <1>0 DEF n
    <2>2. u(0) = <<>>
      OBVIOUS
    <2>3. Len(<<>>) = 0
      OBVIOUS
    <2>4. g(0) = <<>>
      BY <2>2, <2>3, FlattenEmpty
    <2>. QED BY <2>1, <2>4
  <1> HIDE DEF u
  <1>5. g(n) = FlattenSeq(s) /\ Len(g(0)) = 0
    BY <1>4
  <1> HIDE DEF g
  <1>6. ASSUME NEW k \in 1 .. n
        PROVE  /\ k - 1 \in 0 .. n /\ k \in 0 .. n
               /\ Len(g(k - 1)) \in Nat /\ Len(s[k]) \in Nat
               /\ Len(g(k)) = Len(g(k - 1)) + Len(s[k])
               /\ \A i \in 1 .. Len(g(k - 1)) : g(k)[i] = g(k - 1)[i]
               /\ \A i \in 1 .. Len(s[k]) : g(k)[Len(g(k - 1)) + i] = s[k][i]
    <2>1. k - 1 \in 0 .. n /\ k \in 0 .. n
      BY <1>0
    <2>2. g(k - 1) \in Seq(S) /\ s[k] \in Seq(S) /\ g(k) = g(k - 1) \o s[k]
      BY <1>0, <1>2, <1>3, <2>1
    <2>3. /\ Len(g(k)) = Len(g(k - 1)) + Len(s[k]) /\ Len(g(k - 1)) \in Nat /\ Len(s[k]) \in Nat
          /\ \A i \in 1 .. Len(g(k - 1)) : g(k)[i] = g(k - 1)[i]
          /\ \A i \in Len(g(k - 1)) + 1 .. Len(g(k - 1)) + Len(s[k]) : g(k)[i] = s[k][i - Len(g(k - 1))]
      <3> DEFINE a == g(k - 1)
                 b == s[k]
                 c == g(k)
      <3>1. a \in Seq(S) /\ b \in Seq(S) /\ c = a \o b
        BY <2>2
      <3> HIDE DEF a, b, c
      <3>2. /\ Len(c) = Len(a) + Len(b) /\ Len(a) \in Nat /\ Len(b) \in Nat
            /\ \A i \in 1 .. Len(a) : c[i] = a[i]
            /\ \A i \in Len(a) + 1 .. Len(a) + Len(b) : c[i] = b[i - Len(a)]
        BY <3>1, Joined
      <3>. QED BY <3>2 DEF a, b, c
    <2>4. ASSUME NEW i \in 1 .. Len(s[k]) PROVE g(k)[Len(g(k - 1)) + i] = s[k][i]
      <3>1. /\ Len(g(k - 1)) + i \in Len(g(k - 1)) + 1 .. Len(g(k - 1)) + Len(s[k])
            /\ (Len(g(k - 1)) + i) - Len(g(k - 1)) = i
        BY <2>3
      <3>. QED BY <2>3, <3>1
    <2>. QED BY <2>1, <2>3, <2>4
  <1>7. ASSUME NEW k \in 0 .. n
        PROVE  Len(g(k)) <= Len(g(n)) /\ \A i \in 1 .. Len(g(k)) : g(n)[i] = g(k)[i]
    <2> DEFINE Keeps(m) == Len(g(k)) <= Len(g(m)) /\ \A i \in 1 .. Len(g(k)) : g(m)[i] = g(k)[i]
               T == {m \in k .. n : ~Keeps(m)}
    <2>0. \A m \in k .. n : m \in 0 .. n /\ Len(g(m)) \in Nat
      BY <1>0, <1>2
    <2>1. CASE T = {}
      <3>1. n \in k .. n
        BY <1>0
      <3>. QED BY <2>1, <3>1
    <2>2. CASE T # {}
      <3>1. PICK m \in T : \A j \in T : m <= j
        <4>1. T \subseteq Nat
          BY <1>0
        <4>. QED BY <2>2, <4>1, LeastNat
      <3>2. m # k
        <4>1. k \in k .. n
          BY <1>0
        <4>2. Keeps(k)
          BY <2>0, <4>1
        <4>. QED BY <3>1, <4>2
      <3>3. m \in 1 .. n /\ m - 1 \in k .. n /\ m - 1 \notin T
        BY <1>0, <3>1, <3>2
      <3>4. Keeps(m - 1)
        BY <3>3
      <3>5. Keeps(m)
        <4>1. /\ Len(g(m - 1)) \in Nat /\ Len(g(m)) \in Nat /\ Len(g(k)) \in Nat /\ Len(s[m]) \in Nat
              /\ Len(g(m)) = Len(g(m - 1)) + Len(s[m])
              /\ \A i \in 1 .. Len(g(m - 1)) : g(m)[i] = g(m - 1)[i]
          <5>1. /\ Len(g(m - 1)) \in Nat /\ Len(s[m]) \in Nat
                /\ Len(g(m)) = Len(g(m - 1)) + Len(s[m])
                /\ \A i \in 1 .. Len(g(m - 1)) : g(m)[i] = g(m - 1)[i]
            BY <1>6, <3>3
          <5>2. m \in 0 .. n
            BY <1>0, <3>3
          <5>. QED BY <1>2, <5>1, <5>2
        <4>2. Len(g(k)) <= Len(g(m - 1)) /\ \A i \in 1 .. Len(g(k)) : g(m - 1)[i] = g(k)[i]
          BY <3>4
        <4>3. Len(g(k)) <= Len(g(m))
          <5>1. /\ Len(g(k)) \in Nat /\ Len(g(m - 1)) \in Nat /\ Len(s[m]) \in Nat
                /\ Len(g(m)) = Len(g(m - 1)) + Len(s[m]) /\ Len(g(k)) <= Len(g(m - 1))
            BY <4>1, <4>2
          <5> DEFINE a == Len(g(k))
                     b == Len(g(m - 1))
                     c == Len(s[m])
                     d == Len(g(m))
          <5>2. a \in Nat /\ b \in Nat /\ c \in Nat /\ d = b + c /\ a <= b
            BY <5>1
          <5> HIDE DEF a, b, c, d
          <5>3. a <= d
            BY <5>2
          <5>. QED BY <5>3 DEF a, d
        <4>4. ASSUME NEW i \in 1 .. Len(g(k)) PROVE g(m)[i] = g(k)[i]
          <5>0. /\ Len(g(k)) \in Nat /\ Len(g(m - 1)) \in Nat /\ Len(g(k)) <= Len(g(m - 1))
                /\ i \in 1 .. Len(g(k))
            BY <4>1, <4>2
          <5>1. i \in 1 .. Len(g(m - 1))
            BY ONLY <5>0
          <5>. QED BY <4>1, <4>2, <5>1
        <4>. QED BY <4>3, <4>4
      <3>. QED BY <3>1, <3>5
    <2>. QED BY <2>1, <2>2
  <1> DEFINE off == [k \in 0 .. n |-> Len(g(k))]
  <1>8. off \in [0 .. n -> Nat] /\ off[0] = 0 /\ off[n] = Len(FlattenSeq(s))
    BY <1>0, <1>2, <1>5
  <1>9. \A k \in 0 .. n : off[k] = Len(g(k))
    OBVIOUS
  <1>10. ASSUME NEW k \in 1 .. n
         PROVE  /\ off[k] = off[k - 1] + Len(s[k])
                /\ off[k] <= Len(FlattenSeq(s))
                /\ \A i \in 1 .. Len(s[k]) : FlattenSeq(s)[off[k - 1] + i] = s[k][i]
    <2>1. /\ k - 1 \in 0 .. n /\ k \in 0 .. n
          /\ Len(g(k - 1)) \in Nat /\ Len(s[k]) \in Nat
          /\ Len(g(k)) = Len(g(k - 1)) + Len(s[k])
          /\ \A i \in 1 .. Len(s[k]) : g(k)[Len(g(k - 1)) + i] = s[k][i]
      BY <1>6
    <2>2. Len(g(k - 1)) \in Nat /\ Len(g(k)) \in Nat /\ Len(s[k]) \in Nat
      BY <1>0, <1>2, <2>1
    <2>3. Len(g(k)) <= Len(g(n)) /\ \A i \in 1 .. Len(g(k)) : g(n)[i] = g(k)[i]
      BY <1>7, <2>1
    <2>4. \A i \in 1 .. Len(s[k]) : Len(g(k - 1)) + i \in 1 .. Len(g(k))
      BY <2>1, <2>2
    <2>. QED BY <1>5, <1>9, <2>1, <2>3, <2>4
  <1>11. \A k \in 0 .. n : Len(g(k)) = Len(FlattenSeq(First(s, k)))
    BY DEF g, u
  <1> HIDE DEF off
  <1>12. Places(off, s)
    BY <1>8, <1>10 DEF Places, n
  <1>. QED BY <1>9, <1>11, <1>12 DEF n

\* ---------------------------------------------------------------- places in a text
\* s lies in t behind the first p.
Has(t, p, s) ==
    /\ p \in Nat /\ Len(s) \in Nat /\ Len(t) \in Nat /\ p + Len(s) <= Len(t)
    /\ \A i \in 1 .. Len(s) : t[p + i] = s[i]

LEMMA HasWithin ==
    ASSUME NEW t, NEW p, NEW s, NEW q, NEW r, Has(t, p, s), Has(s, q, r)
    PROVE  Has(t, p + q, r)
  <1> USE DEF Has
  <1>1. /\ p \in Nat /\ q \in Nat /\ Len(r) \in Nat /\ Len(s) \in Nat /\ Len(t) \in Nat
        /\ p + Len(s) <= Len(t) /\ q + Len(r) <= Len(s)
    OBVIOUS
  <1>2. (p + q) \in Nat /\ (p + q) + Len(r) <= Len(t)
    BY <1>1
  <1>3. ASSUME NEW i \in 1 .. Len(r) PROVE t[(p + q) + i] = r[i]
    <2>1. q + i \in 1 .. Len(s) /\ p + (q + i) = (p + q) + i
      BY <1>1
    <2>2. t[p + (q + i)] = s[q + i] /\ s[q + i] = r[i]
      BY <2>1
    <2>. QED BY <2>1, <2>2
  <1>. QED BY <1>1, <1>2, <1>3

LEMMA HasPlace ==
    ASSUME NEW S, NEW s \in Seq(Seq(S)), NEW k \in 1 .. Len(s)
    PROVE  /\ Has(FlattenSeq(s), Len(FlattenSeq(First(s, k - 1))), s[k])
           /\ Len(FlattenSeq(First(s, k)))
                = Len(FlattenSeq(First(s, k - 1))) + Len(s[k])
           /\ Len(FlattenSeq(First(s, k - 1))) \in Nat
           /\ Len(FlattenSeq(First(s, k))) <= Len(FlattenSeq(s))
  <1> DEFINE at(m) == Len(FlattenSeq(First(s, m)))
  <1>1. PICK off : Places(off, s) /\ \A m \in 0 .. Len(s) : off[m] = at(m)
    BY FlattenPlaces
  <1> HIDE DEF at
  <1>2. /\ Len(s) \in Nat /\ k - 1 \in 0 .. Len(s) /\ k \in 0 .. Len(s) /\ s[k] \in Seq(S)
        /\ Len(s[k]) \in Nat
    OBVIOUS
  <1>3. off[k - 1] = at(k - 1) /\ off[k] = at(k)
    BY <1>1, <1>2
  <1>4. Len(FlattenSeq(s)) \in Nat
    BY FlattenType
  <1>5. /\ off[k - 1] \in Nat
        /\ off[k] = off[k - 1] + Len(s[k])
        /\ off[k] <= Len(FlattenSeq(s))
        /\ \A i \in 1 .. Len(s[k]) : FlattenSeq(s)[off[k - 1] + i] = s[k][i]
    BY <1>1, <1>2 DEF Places
  <1>6. Has(FlattenSeq(s), off[k - 1], s[k])
    BY <1>2, <1>4, <1>5 DEF Has
  <1>. QED BY <1>3, <1>5, <1>6 DEF at

LEMMA Slice ==
    ASSUME NEW S, NEW s \in Seq(S), NEW m \in Int, NEW n \in Int
    PROVE  SubSeq(s, m, n) = [i \in 1 .. n - m + 1 |-> s[m + i - 1]]
  OBVIOUS

LEMMA Beginning ==
    ASSUME NEW S, NEW s \in Seq(S), NEW n \in Nat
    PROVE  SubSeq(s, 1, n) = [i \in 1 .. n |-> s[i]]
  OBVIOUS

LEMMA MinIs ==
    ASSUME NEW S, NEW x \in S, x \in Int, \A y \in S : y \in Int /\ x <= y
    PROVE  Min(S) = x
  <1>1. \A z \in S : (\A y \in S : z =< y) => z = x
    OBVIOUS
  <1>2. x \in S /\ \A y \in S : x =< y
    OBVIOUS
  <1>. QED BY <1>1, <1>2 DEF Min

\* What follows the first c of t is a line of n fragments and its end; buf is what has
\* arrived of it.
LineAhead(t, p, buf, c, n, line) ==
    /\ buf = SubSeq(t, c + 1, p)
    /\ t \in Seq(ToSet(t)) /\ p \in 0 .. Len(t) /\ c \in 0 .. p /\ n \in Nat
    /\ Has(t, c, line) /\ Len(line) = n + 1
    /\ line[n + 1] = LF /\ \A i \in 1 .. n : line[i] # LF

\* The line is found in the buffer once it is there, and can be taken off.
LineFound(t, p, buf, c, n, line) ==
    /\ Contains(buf, LF) <=> c + n + 1 <= p
    /\ Contains(buf, LF) =>
         /\ Len(LineAt(buf, 1)) = n /\ LineAt(buf, 1) = First(line, n)
         /\ SubSeq(buf, n + 2, Len(buf)) = SubSeq(t, c + n + 2, p)

LEMMA FirstLine ==
    ASSUME NEW t, NEW p, NEW buf, NEW c, NEW n, NEW line,
           LineAhead(t, p, buf, c, n, line)
    PROVE  LineFound(t, p, buf, c, n, line)
  <1>1. /\ Len(t) \in Nat /\ p \in Nat /\ c \in Nat /\ p <= Len(t) /\ c <= p
        /\ \A i \in 1 .. n + 1 : t[c + i] = line[i]
        /\ buf = SubSeq(t, c + 1, p) /\ n \in Nat /\ t \in Seq(ToSet(t)) /\ p \in 0 .. Len(t) /\ c \in 0 .. p
        /\ Len(line) = n + 1 /\ line[n + 1] = LF /\ \A i \in 1 .. n : line[i] # LF
    BY DEF Has, LineAhead
  <1>2. buf = [i \in 1 .. p - c |-> t[c + i]] /\ Len(buf) = p - c
    <2>1. SubSeq(t, c + 1, p) = [i \in 1 .. p - (c + 1) + 1 |-> t[c + 1 + i - 1]]
      BY <1>1
    <2>2. p - (c + 1) + 1 = p - c /\ \A i \in 1 .. p - c : c + 1 + i - 1 = c + i
      BY <1>1
    <2>3. buf = [i \in 1 .. p - c |-> t[c + i]]
      BY <1>1, <2>1, <2>2
    <2>. QED BY <1>1, <2>3
  <1>3. \A i \in 1 .. p - c : buf[i] = t[c + i]
    BY <1>2
  <1>4. ASSUME c + n + 1 <= p PROVE Contains(buf, LF)
    <2>1. n + 1 \in 1 .. p - c /\ n + 1 \in 1 .. n + 1
      BY <1>1, <1>4
    <2>2. buf[n + 1] = LF
      BY <1>1, <1>3, <2>1
    <2>. QED BY <1>2, <2>1, <2>2 DEF Contains
  <1>5. ASSUME NEW i \in 1 .. p - c, buf[i] = LF PROVE n + 1 <= i
    <2>1. ~(i \in 1 .. n)
      <3>1. i \in 1 .. n => i \in 1 .. n + 1
        BY <1>1
      <3>. QED BY <1>1, <1>3, <1>5, <3>1
    <2>. QED BY <1>1, <2>1
  <1>6. ASSUME Contains(buf, LF) PROVE c + n + 1 <= p
    <2>1. PICK i \in 1 .. p - c : buf[i] = LF
      BY <1>2, <1>6 DEF Contains
    <2>. QED BY <1>1, <1>5, <2>1
  <1>7. ASSUME Contains(buf, LF)
        PROVE  /\ Len(LineAt(buf, 1)) = n
               /\ LineAt(buf, 1) = First(line, n)
               /\ SubSeq(buf, n + 2, Len(buf)) = SubSeq(t, c + n + 2, p)
    <2>1. c + n + 1 <= p /\ n + 1 \in 1 .. p - c /\ buf[n + 1] = LF
      <3>1. c + n + 1 <= p /\ n + 1 \in 1 .. p - c /\ n + 1 \in 1 .. n + 1
        BY <1>1, <1>6, <1>7
      <3>. QED BY <1>1, <1>3, <3>1
    <2> DEFINE ends == {j \in 1 .. Len(buf) : buf[j] = LF} \cup {Len(buf) + 1}
    <2>2. n + 1 \in ends /\ \A j \in ends : n + 1 <= j /\ j \in Int
      BY <1>1, <1>2, <1>5, <2>1
    <2>3. Min(ends) = n + 1
      <3> DEFINE x == n + 1
      <3>1. x \in ends /\ x \in Int /\ \A j \in ends : j \in Int /\ x <= j
        BY <2>2
      <3> HIDE DEF ends, x
      <3>2. Min(ends) = x
        BY <3>1, MinIs
      <3>. QED BY <3>2 DEF x
    <2>4. LineAt(buf, 1) = SubSeq(buf, 1, n)
      <3>1. Min(ends) - 1 = n
        <4> HIDE DEF ends
        <4>. QED BY <1>1, <2>3
      <3>. QED BY <3>1 DEF LineAt
    <2>5. buf \in Seq(ToSet(t))
      BY <1>1
    <2>6. SubSeq(buf, 1, n) = [i \in 1 .. n |-> buf[i]]
      <3>1. buf \in Seq(ToSet(t)) /\ n \in Nat
        BY <1>1, <2>5
      <3>. QED BY ONLY <3>1, Beginning
    <2>7. \A i \in 1 .. n : buf[i] = line[i]
      <3>1. \A i \in 1 .. n : i \in 1 .. p - c /\ i \in 1 .. n + 1
        BY <1>1, <2>1
      <3>. QED BY <1>1, <1>3, <3>1
    <2>8. SubSeq(buf, n + 2, Len(buf)) = SubSeq(t, c + n + 2, p)
      <3>1. SubSeq(buf, n + 2, Len(buf)) = [i \in 1 .. Len(buf) - (n + 2) + 1 |-> buf[n + 2 + i - 1]]
        <4>1. n + 2 \in Int /\ Len(buf) \in Int
          BY <1>1, <1>2
        <4>2. SubSeq(buf, n + 2, Len(buf)) = [i \in 1 .. Len(buf) - (n + 2) + 1 |-> buf[n + 2 + i - 1]]
          BY ONLY <2>5, <4>1, Slice
        <4>. QED BY <4>2
      <3>2. SubSeq(t, c + n + 2, p) = [i \in 1 .. p - (c + n + 2) + 1 |-> t[c + n + 2 + i - 1]]
        <4>1. c + n + 2 \in Int /\ p \in Int
          BY <1>1
        <4>. QED BY <4>1, Slice
      <3>3. Len(buf) - (n + 2) + 1 = p - (c + n + 2) + 1
        BY <1>1, <1>2
      <3>4. ASSUME NEW i \in 1 .. p - (c + n + 2) + 1
            PROVE  buf[n + 2 + i - 1] = t[c + n + 2 + i - 1]
        <4>1. n + 2 + i - 1 \in 1 .. p - c /\ c + (n + 2 + i - 1) = c + n + 2 + i - 1
          BY <1>1, <2>1
        <4>. QED BY <1>3, <4>1
      <3>. QED BY <3>1, <3>2, <3>3, <3>4
    <2>9. LineAt(buf, 1) = First(line, n)
      BY <2>4, <2>6, <2>7 DEF First
    <2>10. Len(First(line, n)) = n
      BY <1>1 DEF First
    <2>. QED BY <2>8, <2>9, <2>10
  <1>. QED BY <1>4, <1>6, <1>7 DEF LineFound

\* ---------------------------------------------------------------- lines
LineEnds == {<<LF>>, <<CR, LF>>}

\* The text of a line, with no line end in it.
Clean(body) == body \in Seq(ToSet(body)) /\ \A i \in 1 .. Len(body) : body[i] # LF /\ body[i] # CR

LEMMA EndIs ==
    ASSUME NEW eol \in LineEnds
    PROVE  /\ eol \in Seq({LF, CR}) /\ eol[Len(eol)] = LF
           /\ Len(eol) \in Nat /\ (Len(eol) = 1 \/ Len(eol) = 2)
           /\ Len(eol) = 2 => eol[1] = CR
  <1> DEFINE a == LF
             b == CR
  <1>1. eol \in {<<a>>, <<b, a>>}
    BY DEF LineEnds
  <1> HIDE DEF a, b
  <1>2. /\ eol \in Seq({a, b}) /\ eol[Len(eol)] = a
        /\ Len(eol) \in Nat /\ (Len(eol) = 1 \/ Len(eol) = 2)
        /\ Len(eol) = 2 => eol[1] = b
    <2>1. CASE eol = <<a>>
      BY <2>1
    <2>2. CASE eol = <<b, a>>
      <3>1. eol \in Seq({a, b}) /\ Len(eol) = 2 /\ eol[2] = a /\ eol[1] = b
        BY <2>2
      <3>. QED BY <3>1
    <2>. QED BY <1>1, <2>1, <2>2
  <1>. QED BY <1>2 DEF a, b

LEMMA LineIs ==
    ASSUME NEW eol \in LineEnds, NEW body, Clean(body)
    PROVE  \E n, line :
             /\ n \in Nat /\ line = body \o eol /\ n + 1 = Len(body) + Len(eol)
             /\ Len(line) = n + 1 /\ Len(body) \in Nat
             /\ line[n + 1] = LF /\ \A i \in 1 .. n : line[i] # LF
             /\ WithoutCR(First(line, n)) = body
  <1> DEFINE line == body \o eol
             n == Len(body) + Len(eol) - 1
             w == Len(eol)
             m == Len(body)
             first == First(line, n)
  <1>0. LF # CR
    BY DEF LF, CR
  <1> USE DEF First
  <1>1. /\ m \in Nat /\ w \in Nat /\ (w = 1 \/ w = 2) /\ Len(line) = m + w
        /\ \A i \in 1 .. m : line[i] = body[i]
        /\ \A i \in m + 1 .. m + w : line[i] = eol[i - m]
    BY EndIs, Joined DEF Clean
  <1>2. eol[w] = LF /\ (w = 2 => eol[1] = CR)
    BY EndIs
  <1>3. body = [i \in 1 .. m |-> body[i]] /\ \A i \in 1 .. m : body[i] # LF /\ body[i] # CR
    BY DEF Clean
  <1>4. n = m + w - 1
    OBVIOUS
  <1> HIDE DEF line, n, w, m
  <1>5. n \in Nat /\ Len(line) = n + 1
    BY <1>1, <1>4
  <1>6. line[n + 1] = LF
    <2>1. n + 1 \in m + 1 .. m + w /\ (n + 1) - m = w
      BY <1>1, <1>4
    <2>. QED BY <1>1, <1>2, <2>1
  <1>7. ASSUME w = 1 PROVE (\A i \in 1 .. n : line[i] # LF) /\ WithoutCR(first) = body
    <2>1. n = m
      BY <1>1, <1>4, <1>7
    <2>2. first = body
      BY <1>1, <1>3, <2>1
    <2>3. WithoutCR(body) = body
      <3>1. CASE body = <<>>
        BY <3>1 DEF WithoutCR
      <3>2. CASE body # <<>>
        <4>1. m # 0
          BY <3>2 DEF m, Clean
        <4>2. m \in 1 .. m
          BY <1>1, <4>1
        <4>3. Last(body) # CR
          BY <1>3, <4>2 DEF Last, m
        <4>. QED BY <4>3 DEF WithoutCR
      <3>. QED BY <3>1, <3>2
    <2>. QED BY <1>1, <1>3, <2>1, <2>2, <2>3
  <1>8. ASSUME w = 2 PROVE (\A i \in 1 .. n : line[i] # LF) /\ WithoutCR(first) = body
    <2>1. n = m + 1 /\ n \in m + 1 .. m + w /\ n - m = 1
      BY <1>1, <1>4, <1>8
    <2>2. line[n] = CR
      BY <1>1, <1>2, <1>8, <2>1
    <2>3. \A i \in 1 .. n : line[i] # LF
      <3>1. \A i \in 1 .. n : i \in 1 .. m \/ i = n
        BY <1>1, <2>1
      <3>. QED BY <1>0, <1>1, <1>3, <2>2, <3>1
    <2>4. first \in Seq({line[i] : i \in 1 .. n}) /\ Len(first) = n
      BY <1>5
    <2>5. first[n] = CR /\ \A i \in 1 .. m : first[i] = body[i]
      <3>1. n \in 1 .. n /\ \A i \in 1 .. m : i \in 1 .. n
        BY <1>1, <2>1
      <3>. QED BY <1>1, <2>2, <3>1
    <2> HIDE DEF first
    <2>6. first # <<>> /\ Last(first) = CR
      BY <1>5, <2>1, <1>1, <2>4, <2>5 DEF Last
    <2>7. Front(first) = SubSeq(first, 1, m)
      <3>1. n - 1 = m
        BY <1>1, <2>1
      <3>. QED BY <2>4, <3>1 DEF Front
    <2>8. SubSeq(first, 1, m) = [i \in 1 .. m |-> first[i]]
      BY ONLY <1>1, <2>4, Beginning
    <2>9. WithoutCR(first) = body
      <3>1. [i \in 1 .. m |-> first[i]] = [i \in 1 .. m |-> body[i]]
        BY <2>5
      <3>. QED BY <1>3, <2>6, <2>7, <2>8, <3>1 DEF WithoutCR
    <2>. QED BY <2>3, <2>9 DEF first
  <1>9. n + 1 = m + w
    BY <1>1, <1>4
  <1>10. (\A i \in 1 .. n : line[i] # LF) /\ WithoutCR(First(line, n)) = body
    BY <1>1, <1>7, <1>8
  <1>11. line = body \o eol /\ n + 1 = Len(body) + Len(eol) /\ Len(body) \in Nat
    BY <1>1, <1>9 DEF line, w, m
  <1>. QED BY <1>5, <1>6, <1>10, <1>11

\* The line the translator takes next, when it is the line body.
LEMMA NextLineIs ==
    ASSUME text \in Seq(ToSet(text)), pos \in 0 .. Len(text), NEW c \in 0 .. pos,
           lineBuf = SubSeq(text, c + 1, pos),
           NEW eol \in LineEnds, NEW body, Clean(body), Has(text, c, body \o eol)
    PROVE  /\ Contains(lineBuf, LF) <=> c + Len(body) + Len(eol) <= pos
           /\ Contains(lineBuf, LF) =>
                /\ NextLine = body
                /\ SubSeq(lineBuf, Len(LineAt(lineBuf, 1)) + 2, Len(lineBuf))
                     = SubSeq(text, c + Len(body) + Len(eol) + 1, pos)
  <1>1. PICK n, line :
             /\ n \in Nat /\ line = body \o eol /\ n + 1 = Len(body) + Len(eol)
             /\ Len(line) = n + 1 /\ Len(body) \in Nat
             /\ line[n + 1] = LF /\ \A i \in 1 .. n : line[i] # LF
             /\ WithoutCR(First(line, n)) = body
    BY LineIs
  <1>2. Len(eol) \in Nat
    BY EndIs
  <1>4. Has(text, c, line)
    BY <1>1
  <1>5. /\ Contains(lineBuf, LF) <=> c + n + 1 <= pos
        /\ Contains(lineBuf, LF) =>
             /\ Len(LineAt(lineBuf, 1)) = n
             /\ LineAt(lineBuf, 1) = First(line, n)
             /\ SubSeq(lineBuf, n + 2, Len(lineBuf)) = SubSeq(text, c + n + 2, pos)
    <2>1. LineAhead(text, pos, lineBuf, c, n, line)
      BY <1>1, <1>4 DEF LineAhead
    <2>2. LineFound(text, pos, lineBuf, c, n, line)
      BY <2>1, FirstLine
    <2>. QED BY <2>2 DEF LineFound
  <1>6. c + n + 1 = c + Len(body) + Len(eol) /\ c + n + 2 = c + Len(body) + Len(eol) + 1
    <2>1. /\ c \in Int /\ n \in Int /\ Len(body) \in Int /\ Len(eol) \in Int
          /\ n + 1 = Len(body) + Len(eol)
      BY <1>1, <1>2
    <2>. QED BY ONLY <2>1
  <1>. QED BY <1>1, <1>5, <1>6 DEF NextLine

LEMMA CleanBodies ==
    /\ Clean(<<Comment>>) /\ Len(<<Comment>>) = 1 /\ <<Comment>> # <<>>
    /\ <<Comment>>[1].t = "comment"
    /\ \A name : /\ Clean(<<EventField(name)>>) /\ Len(<<EventField(name)>>) = 1
                 /\ <<EventField(name)>> # <<>>
                 /\ <<EventField(name)>>[1].t = "event" /\ <<EventField(name)>>[1].name = name
    /\ \A doc : /\ Clean(DataLine(doc)) /\ Len(DataLine(doc)) = 2 /\ DataLine(doc) # <<>>
                /\ DataLine(doc)[1] = DataHead(doc) /\ DataLine(doc)[2] = DataRest(doc)
                /\ DataLine(doc)[1].t = "data"
    /\ Clean(<<>>) /\ Len(<<>>) = 0
  <1>1. LF.t = "LF" /\ CR.t = "CR" /\ Comment.t = "comment"
    BY DEF LF, CR, Comment
  <1>2. ASSUME NEW name PROVE EventField(name).t = "event" /\ EventField(name).name = name
    BY DEF EventField
  <1>3. ASSUME NEW doc PROVE DataHead(doc).t = "data" /\ DataRest(doc).t = "rest"
    BY DEF DataHead, DataRest
  <1>4. ASSUME NEW x, x # LF, x # CR PROVE Clean(<<x>>) /\ Len(<<x>>) = 1 /\ <<x>> # <<>> /\ <<x>>[1] = x
    BY <1>4 DEF Clean, ToSet
  <1>5. ASSUME NEW x, NEW y, x # LF, x # CR, y # LF, y # CR
        PROVE  /\ Clean(<<x, y>>) /\ Len(<<x, y>>) = 2 /\ <<x, y>> # <<>>
               /\ <<x, y>>[1] = x /\ <<x, y>>[2] = y
    BY <1>5 DEF Clean, ToSet
  <1>6. Clean(<<>>) /\ Len(<<>>) = 0
    BY DEF Clean, ToSet
  <1>7. Comment # LF /\ Comment # CR
    BY <1>1
  <1>8. ASSUME NEW name
        PROVE  /\ Clean(<<EventField(name)>>) /\ Len(<<EventField(name)>>) = 1
               /\ <<EventField(name)>> # <<>>
               /\ <<EventField(name)>>[1].t = "event" /\ <<EventField(name)>>[1].name = name
    <2> DEFINE x == EventField(name)
    <2>1. x # LF /\ x # CR /\ x.t = "event" /\ x.name = name
      BY <1>1, <1>2
    <2> HIDE DEF x
    <2>2. Clean(<<x>>) /\ Len(<<x>>) = 1 /\ <<x>> # <<>> /\ <<x>>[1] = x
      BY <1>4, <2>1
    <2>. QED BY <2>1, <2>2 DEF x
  <1>9. ASSUME NEW doc
        PROVE  /\ Clean(DataLine(doc)) /\ Len(DataLine(doc)) = 2 /\ DataLine(doc) # <<>>
               /\ DataLine(doc)[1] = DataHead(doc) /\ DataLine(doc)[2] = DataRest(doc)
               /\ DataLine(doc)[1].t = "data"
    <2> DEFINE x == DataHead(doc)
               y == DataRest(doc)
    <2>1. x # LF /\ x # CR /\ y # LF /\ y # CR /\ x.t = "data"
      BY <1>1, <1>3
    <2> HIDE DEF x, y
    <2>2. /\ Clean(<<x, y>>) /\ Len(<<x, y>>) = 2 /\ <<x, y>> # <<>>
          /\ <<x, y>>[1] = x /\ <<x, y>>[2] = y
      BY <1>5, <2>1
    <2>. QED BY <2>1, <2>2 DEF x, y, DataLine
  <1>10. Clean(<<Comment>>) /\ Len(<<Comment>>) = 1 /\ <<Comment>> # <<>> /\ <<Comment>>[1].t = "comment"
    <2> DEFINE x == Comment
    <2>1. x # LF /\ x # CR /\ x.t = "comment"
      BY <1>1
    <2> HIDE DEF x
    <2>2. Clean(<<x>>) /\ Len(<<x>>) = 1 /\ <<x>> # <<>> /\ <<x>>[1] = x
      BY <1>4, <2>1
    <2>. QED BY <2>1, <2>2 DEF x
  <1>. QED BY <1>6, <1>8, <1>9, <1>10

\* ---------------------------------------------------------------- the text of an answer
IsSeq(s) == s \in Seq(ToSet(s))

LEMMA SeqOfOwn == ASSUME NEW S, NEW s \in Seq(S) PROVE IsSeq(s)
  BY DEF IsSeq, ToSet

LEMMA JoinedSeqs ==
    ASSUME NEW a, NEW b, IsSeq(a), IsSeq(b), NEW t, t = a \o b
    PROVE  /\ IsSeq(t) /\ Has(t, 0, a) /\ Has(t, Len(a), b) /\ Len(t) = Len(a) + Len(b)
           /\ Len(a) \in Nat /\ Len(b) \in Nat
  <1>1. /\ t \in Seq(ToSet(a) \union ToSet(b)) /\ Len(t) = Len(a) + Len(b) /\ Len(a) \in Nat /\ Len(b) \in Nat
        /\ \A i \in 1 .. Len(a) : t[i] = a[i]
        /\ \A i \in Len(a) + 1 .. Len(a) + Len(b) : t[i] = b[i - Len(a)]
    <2>1. t \in Seq(ToSet(a) \union ToSet(b))
      BY Joined DEF IsSeq
    <2>. QED BY <2>1, Joined DEF IsSeq
  <1>2. IsSeq(t)
    BY <1>1, SeqOfOwn
  <1>3. Has(t, 0, a)
    BY <1>1 DEF Has
  <1>4. ASSUME NEW i \in 1 .. Len(b) PROVE t[Len(a) + i] = b[i]
    <2>1. Len(a) + i \in Len(a) + 1 .. Len(a) + Len(b) /\ (Len(a) + i) - Len(a) = i
      BY <1>1
    <2>. QED BY <1>1, <2>1
  <1>5. Has(t, Len(a), b)
    BY <1>1, <1>4 DEF Has
  <1>. QED BY <1>1, <1>2, <1>3, <1>5

\* t is made of four sequences, one behind the other.
InFour(t, a, b, c, d) ==
    /\ IsSeq(t) /\ Has(t, 0, a) /\ Has(t, Len(a), b) /\ Has(t, Len(a) + Len(b), c)
    /\ Has(t, Len(a) + Len(b) + Len(c), d)
    /\ Len(t) = Len(a) + Len(b) + Len(c) + Len(d)
    /\ Len(a) \in Nat /\ Len(b) \in Nat /\ Len(c) \in Nat /\ Len(d) \in Nat

LEMMA FourParts ==
    ASSUME NEW a, NEW b, NEW c, NEW d, IsSeq(a), IsSeq(b), IsSeq(c), IsSeq(d)
    PROVE  InFour(a \o b \o c \o d, a, b, c, d)
  <1> DEFINE ab == a \o b
             abc == ab \o c
             t == a \o b \o c \o d
  <1>1. /\ IsSeq(ab) /\ Has(ab, 0, a) /\ Has(ab, Len(a), b) /\ Len(ab) = Len(a) + Len(b)
        /\ Len(a) \in Nat /\ Len(b) \in Nat
    BY JoinedSeqs
  <1>2. t = abc \o d
    OBVIOUS
  <1> HIDE DEF ab, t
  <1>3. /\ IsSeq(abc) /\ Has(abc, 0, ab) /\ Has(abc, Len(ab), c) /\ Len(abc) = Len(ab) + Len(c)
        /\ Len(c) \in Nat
    BY <1>1, JoinedSeqs
  <1> HIDE DEF abc
  <1>4. /\ IsSeq(t) /\ Has(t, 0, abc) /\ Has(t, Len(abc), d) /\ Len(t) = Len(abc) + Len(d)
        /\ Len(d) \in Nat
    BY <1>2, <1>3, JoinedSeqs
  <1>5. \A s, q, r : Has(t, 0, s) /\ Has(s, q, r) => Has(t, q, r)
    <2>1. ASSUME NEW s, NEW q, NEW r, Has(t, 0, s), Has(s, q, r) PROVE Has(t, q, r)
      <3>1. Has(t, 0 + q, r)
        BY <2>1, HasWithin
      <3>2. 0 + q = q
        BY <2>1 DEF Has
      <3>. QED BY <3>1, <3>2
    <2>. QED BY <2>1
  <1>6. Has(t, 0, ab) /\ Has(t, Len(ab), c)
    BY <1>3, <1>4, <1>5
  <1>7. Has(t, 0, a) /\ Has(t, Len(a), b)
    BY <1>1, <1>5, <1>6
  <1>8. InFour(t, a, b, c, d)
    BY <1>1, <1>3, <1>4, <1>6, <1>7 DEF InFour
  <1>. QED BY <1>8 DEF t

\* A sequence of sequences, and where the next of them starts.
IsSeqs(s) == s = First(s, Len(s)) /\ Len(s) \in Nat /\ \A i \in 1 .. Len(s) : IsSeq(s[i])
StartAt(s, k) == Len(FlattenSeq(First(s, k)))

LEMMA PlaceOf ==
    ASSUME NEW s, IsSeqs(s)
    PROVE  /\ IsSeq(FlattenSeq(s)) /\ StartAt(s, 0) = 0 /\ StartAt(s, Len(s)) = Len(FlattenSeq(s))
           /\ \A k \in 0 .. Len(s) : StartAt(s, k) \in Nat
           /\ \A k \in 1 .. Len(s) : /\ Has(FlattenSeq(s), StartAt(s, k - 1), s[k])
                                    /\ StartAt(s, k) = StartAt(s, k - 1) + Len(s[k])
                                    /\ StartAt(s, k) <= Len(FlattenSeq(s))
  <1> DEFINE S == UNION {ToSet(s[i]) : i \in 1 .. Len(s)}
  <1>1. s \in Seq(Seq(S))
    <2>1. ASSUME NEW i \in 1 .. Len(s) PROVE s[i] \in Seq(S)
      <3>1. s[i] \in Seq(ToSet(s[i])) /\ ToSet(s[i]) \subseteq S
        BY DEF IsSeqs, IsSeq
      <3>. QED BY <3>1
    <2> HIDE DEF S
    <2>2. First(s, Len(s)) \in Seq(Seq(S))
      BY <2>1 DEF First, IsSeqs
    <2>. QED BY <2>2 DEF IsSeqs
  <1> HIDE DEF S
  <1>2. IsSeq(FlattenSeq(s)) /\ Len(FlattenSeq(s)) \in Nat
    BY <1>1, FlattenType, SeqOfOwn
  <1>3. PICK off : Places(off, s) /\ \A k \in 0 .. Len(s) : off[k] = StartAt(s, k)
    BY <1>1, FlattenPlaces DEF StartAt
  <1>4. Len(s) \in Nat /\ 0 \in 0 .. Len(s) /\ Len(s) \in 0 .. Len(s)
    BY <1>1
  <1>5. \A k \in 0 .. Len(s) : StartAt(s, k) \in Nat
    BY <1>3 DEF Places
  <1>6. StartAt(s, 0) = 0 /\ StartAt(s, Len(s)) = Len(FlattenSeq(s))
    BY <1>3, <1>4 DEF Places
  <1>7. ASSUME NEW k \in 1 .. Len(s)
        PROVE  /\ Has(FlattenSeq(s), StartAt(s, k - 1), s[k])
               /\ StartAt(s, k) = StartAt(s, k - 1) + Len(s[k])
               /\ StartAt(s, k) <= Len(FlattenSeq(s))
    BY <1>1, HasPlace DEF StartAt
  <1>. QED BY <1>2, <1>5, <1>6, <1>7

\* The lines of an event: a comment, its name, its documents and the empty line.
DataLines(docs, eol) == [i \in 1 .. Len(docs) |-> DataLine(docs[i]) \o eol]
CommentPart(e, eol) == IF e.comment THEN <<Comment>> \o eol ELSE <<>>
NamePart(e, eol) == IF e.name # Blank THEN <<EventField(e.name)>> \o eol ELSE <<>>

\* The lines of an event in their order: the comment, the name, d documents taken.
InStage(e, stage, d) ==
    \/ stage = "comment" /\ d = 0 /\ e.comment = TRUE
    \/ stage = "name" /\ d = 0 /\ e.name # Blank
    \/ stage = "data" /\ d \in 0 .. Len(e.docs)

\* The next line there, and where it starts in the text of the event.
LineOf(e, stage, d) ==
    CASE stage = "comment" -> <<Comment>>
      [] stage = "name" -> <<EventField(e.name)>>
      [] OTHER -> IF d < Len(e.docs) THEN DataLine(e.docs[d + 1]) ELSE <<>>

StartOf(e, eol, stage, d) ==
    CASE stage = "comment" -> 0
      [] stage = "name" -> Len(CommentPart(e, eol))
      [] OTHER -> Len(CommentPart(e, eol)) + Len(NamePart(e, eol)) + StartAt(DataLines(e.docs, eol), d)

IsEvent(e) == e.comment \in BOOLEAN /\ IsSeq(e.docs)

LEMMA EndIsSeq == \A eol \in LineEnds : IsSeq(eol) /\ Len(eol) \in Nat /\ Len(eol) >= 1
  BY EndIs, SeqOfOwn

LEMMA LineIsSeq ==
    ASSUME NEW eol \in LineEnds, NEW body, Clean(body)
    PROVE  IsSeq(body \o eol) /\ Len(body \o eol) = Len(body) + Len(eol) /\ Len(body) \in Nat
  BY EndIsSeq, JoinedSeqs DEF Clean, IsSeq

LEMMA DataLinesAre ==
    ASSUME NEW docs, IsSeq(docs), NEW eol \in LineEnds
    PROVE  /\ IsSeqs(DataLines(docs, eol)) /\ Len(DataLines(docs, eol)) = Len(docs)
           /\ Len(docs) \in Nat
           /\ \A i \in 1 .. Len(docs) : /\ DataLines(docs, eol)[i] = DataLine(docs[i]) \o eol
                                       /\ Len(DataLines(docs, eol)[i]) = 2 + Len(eol)
  <1> DEFINE s == DataLines(docs, eol)
  <1>1. Len(docs) \in Nat
    BY DEF IsSeq
  <1>2. s = [i \in 1 .. Len(docs) |-> s[i]] /\ \A i \in 1 .. Len(docs) : s[i] = DataLine(docs[i]) \o eol
    BY DEF DataLines
  <1> HIDE DEF s
  <1>3. ASSUME NEW i \in 1 .. Len(docs) PROVE IsSeq(s[i]) /\ Len(s[i]) = 2 + Len(eol)
    <2>1. Clean(DataLine(docs[i])) /\ Len(DataLine(docs[i])) = 2
      BY CleanBodies
    <2>. QED BY <1>2, <2>1, LineIsSeq
  <1>4. Len(s) = Len(docs)
    BY <1>1, <1>2
  <1>. QED BY <1>1, <1>2, <1>3, <1>4 DEF IsSeqs, First, s

\* How the parts of an event follow one another.
LEMMA PartsOf ==
    ASSUME NEW e, IsEvent(e), NEW eol \in LineEnds, NEW t, t = EventText(e, eol)
    PROVE  LET c == CommentPart(e, eol)
               n == NamePart(e, eol)
               f == FlattenSeq(DataLines(e.docs, eol))
           IN  /\ IsSeq(t) /\ Len(t) = Len(c) + Len(n) + Len(f) + Len(eol)
               /\ Has(t, 0, c) /\ Has(t, Len(c), n) /\ Has(t, Len(c) + Len(n), f)
               /\ Has(t, Len(c) + Len(n) + Len(f), eol)
               /\ Len(c) \in Nat /\ Len(n) \in Nat /\ Len(f) \in Nat
               /\ e.comment = TRUE => c = <<Comment>> \o eol /\ Len(c) = 1 + Len(eol)
               /\ e.comment # TRUE => Len(c) = 0
               /\ e.name # Blank => n = <<EventField(e.name)>> \o eol /\ Len(n) = 1 + Len(eol)
               /\ e.name = Blank => Len(n) = 0
  <1> DEFINE c == CommentPart(e, eol)
             n == NamePart(e, eol)
             f == FlattenSeq(DataLines(e.docs, eol))
  <1>1. IsSeq(<<>>) /\ Len(<<>>) = 0
    BY DEF IsSeq, ToSet
  <1>2. Clean(<<Comment>>) /\ Len(<<Comment>>) = 1
    BY CleanBodies
  <1>3. IsSeq(<<Comment>> \o eol) /\ Len(<<Comment>> \o eol) = 1 + Len(eol)
    <2> DEFINE body == <<Comment>>
    <2>1. Clean(body) /\ Len(body) = 1
      BY <1>2
    <2> HIDE DEF body
    <2>2. IsSeq(body \o eol) /\ Len(body \o eol) = 1 + Len(eol)
      BY <2>1, LineIsSeq
    <2>. QED BY <2>2 DEF body
  <1>4. IsSeq(<<EventField(e.name)>> \o eol) /\ Len(<<EventField(e.name)>> \o eol) = 1 + Len(eol)
    <2> DEFINE body == <<EventField(e.name)>>
    <2>1. Clean(body) /\ Len(body) = 1
      BY CleanBodies
    <2> HIDE DEF body
    <2>2. IsSeq(body \o eol) /\ Len(body \o eol) = 1 + Len(eol)
      BY <2>1, LineIsSeq
    <2>. QED BY <2>2 DEF body
  <1>5. e.comment \in BOOLEAN /\ IsSeq(e.docs)
    BY DEF IsEvent
  <1>6. /\ e.comment = TRUE => c = <<Comment>> \o eol
        /\ e.comment # TRUE => c = <<>>
    BY <1>5 DEF CommentPart
  <1>7. /\ e.name # Blank => n = <<EventField(e.name)>> \o eol
        /\ e.name = Blank => n = <<>>
    BY DEF NamePart
  <1>8. IsSeq(c) /\ IsSeq(n)
    BY <1>1, <1>3, <1>4, <1>6, <1>7
  <1>9. IsSeq(f)
    BY <1>5, DataLinesAre, PlaceOf
  <1>10. t = c \o n \o f \o eol
    BY DEF EventText, CommentPart, NamePart, DataLines
  <1>11. IsSeq(eol)
    BY EndIsSeq
  <1> HIDE DEF c, n, f
  <1>12. /\ IsSeq(t) /\ Len(t) = Len(c) + Len(n) + Len(f) + Len(eol)
         /\ Has(t, 0, c) /\ Has(t, Len(c), n) /\ Has(t, Len(c) + Len(n), f)
         /\ Has(t, Len(c) + Len(n) + Len(f), eol)
         /\ Len(c) \in Nat /\ Len(n) \in Nat /\ Len(f) \in Nat
    <2>1. InFour(c \o n \o f \o eol, c, n, f, eol)
      BY <1>8, <1>9, <1>11, FourParts
    <2>2. InFour(t, c, n, f, eol)
      BY <1>10, <2>1
    <2>. QED BY <2>2 DEF InFour
  <1>. QED BY <1>1, <1>3, <1>4, <1>6, <1>7, <1>12 DEF c, n, f

\* The line at each stage of an event.
LEMMA LineOfAnEvent ==
    ASSUME NEW e, IsEvent(e), NEW eol \in LineEnds, NEW t, t = EventText(e, eol),
           NEW stage, NEW d, InStage(e, stage, d)
    PROVE  /\ Clean(LineOf(e, stage, d)) /\ Len(LineOf(e, stage, d)) \in Nat
           /\ Has(t, StartOf(e, eol, stage, d), LineOf(e, stage, d) \o eol)
           /\ StartOf(e, eol, stage, d) \in Nat
  <1> DEFINE c == CommentPart(e, eol)
             n == NamePart(e, eol)
             s == DataLines(e.docs, eol)
             f == FlattenSeq(s)
             body == LineOf(e, stage, d)
             start == StartOf(e, eol, stage, d)
  <1>1. /\ Has(t, 0, c) /\ Has(t, Len(c), n) /\ Has(t, Len(c) + Len(n), f)
        /\ Has(t, Len(c) + Len(n) + Len(f), eol)
        /\ Len(c) \in Nat /\ Len(n) \in Nat /\ Len(f) \in Nat
        /\ e.comment = TRUE => c = <<Comment>> \o eol
        /\ e.name # Blank => n = <<EventField(e.name)>> \o eol
    BY PartsOf
  <1>2. \A x : Clean(x) => Len(x) \in Nat
    BY DEF Clean
  <1>3. CASE stage = "comment" /\ e.comment = TRUE
    <2>1. body = <<Comment>> /\ start = 0
      BY <1>3 DEF LineOf, StartOf
    <2>2. Clean(<<Comment>>)
      BY CleanBodies
    <2>3. Has(t, start, body \o eol)
      BY <1>1, <1>3, <2>1
    <2>. QED BY <1>2, <2>1, <2>2, <2>3
  <1>4. CASE stage = "name" /\ e.name # Blank
    <2>1. body = <<EventField(e.name)>> /\ start = Len(c)
      BY <1>4 DEF LineOf, StartOf
    <2>2. Clean(<<EventField(e.name)>>)
      BY CleanBodies
    <2>3. Has(t, start, body \o eol)
      BY <1>1, <1>4, <2>1
    <2>. QED BY <1>1, <1>2, <2>1, <2>2, <2>3
  <1>5. CASE stage = "data" /\ d \in 0 .. Len(e.docs)
    <2>1. start = Len(c) + Len(n) + StartAt(s, d)
      BY <1>5 DEF StartOf
    <2>2. /\ IsSeqs(s) /\ Len(s) = Len(e.docs) /\ Len(e.docs) \in Nat
          /\ \A i \in 1 .. Len(e.docs) : s[i] = DataLine(e.docs[i]) \o eol
      BY DataLinesAre DEF IsEvent
    <2>3. /\ StartAt(s, Len(s)) = Len(f) /\ \A k \in 0 .. Len(s) : StartAt(s, k) \in Nat
          /\ \A k \in 1 .. Len(s) : Has(f, StartAt(s, k - 1), s[k])
      BY <2>2, PlaceOf
    <2>4. d \in 0 .. Len(s) /\ StartAt(s, d) \in Nat
      BY <1>5, <2>2, <2>3
    <2>5. start \in Nat
      <3> HIDE DEF c, n, start, s
      <3>. QED BY <1>1, <2>1, <2>4
    <2>6. CASE d < Len(e.docs)
      <3>1. body = DataLine(e.docs[d + 1])
        BY <1>5, <2>6 DEF LineOf
      <3>2. Clean(DataLine(e.docs[d + 1]))
        BY CleanBodies
      <3>3. d + 1 \in 1 .. Len(s) /\ (d + 1) - 1 = d /\ d + 1 \in 1 .. Len(e.docs)
        BY <1>5, <2>2, <2>6
      <3>4. s[d + 1] = body \o eol
        BY <2>2, <3>1, <3>3
      <3> HIDE DEF c, n, f, s, body, start
      <3>5. Has(f, StartAt(s, d), body \o eol)
        BY <2>3, <3>3, <3>4
      <3>6. Has(t, (Len(c) + Len(n)) + StartAt(s, d), body \o eol)
        BY <1>1, <3>5, HasWithin
      <3>7. Has(t, start, body \o eol)
        BY <2>1, <3>6
      <3>. QED BY <1>2, <2>5, <3>1, <3>2, <3>7 DEF body, start
    <2>7. CASE ~(d < Len(e.docs))
      <3>1. body = <<>> /\ d = Len(s)
        BY <1>5, <2>2, <2>7 DEF LineOf
      <3>2. <<>> \o eol = eol
        BY EndIs
      <3>3. start = Len(c) + Len(n) + Len(f)
        BY <2>1, <2>3, <3>1
      <3>4. Has(t, start, body \o eol)
        BY <1>1, <3>1, <3>2, <3>3
      <3>5. Clean(<<>>)
        BY CleanBodies
      <3>. QED BY <1>2, <2>5, <3>1, <3>4, <3>5
    <2>. QED BY <2>6, <2>7
  <1>. QED BY <1>3, <1>4, <1>5 DEF InStage

\* What comes behind it.
LEMMA EventGoesOn ==
    ASSUME NEW e, IsEvent(e), NEW eol \in LineEnds, NEW t, t = EventText(e, eol),
           NEW stage, NEW d, InStage(e, stage, d),
           NEW next, next = StartOf(e, eol, stage, d) + Len(LineOf(e, stage, d)) + Len(eol)
    PROVE  /\ stage = "comment" /\ e.name # Blank => next = StartOf(e, eol, "name", 0)
           /\ stage = "comment" /\ e.name = Blank => next = StartOf(e, eol, "data", 0)
           /\ stage = "name" => next = StartOf(e, eol, "data", 0)
           /\ stage = "data" /\ d < Len(e.docs) => next = StartOf(e, eol, "data", d + 1)
           /\ stage = "data" /\ d = Len(e.docs) => next = Len(t)
  <1> DEFINE c == CommentPart(e, eol)
             n == NamePart(e, eol)
             s == DataLines(e.docs, eol)
             f == FlattenSeq(s)
  <1>1. /\ Len(t) = Len(c) + Len(n) + Len(f) + Len(eol)
        /\ Len(c) \in Nat /\ Len(n) \in Nat /\ Len(f) \in Nat
        /\ e.comment = TRUE => Len(c) = 1 + Len(eol)
        /\ e.name # Blank => Len(n) = 1 + Len(eol)
        /\ e.name = Blank => Len(n) = 0
    BY PartsOf
  <1>2. Len(eol) \in Nat
    BY EndIs
  <1>3. /\ IsSeqs(s) /\ Len(s) = Len(e.docs) /\ Len(e.docs) \in Nat
        /\ \A i \in 1 .. Len(e.docs) : Len(s[i]) = 2 + Len(eol)
    BY DataLinesAre DEF IsEvent
  <1>4. /\ StartAt(s, 0) = 0 /\ StartAt(s, Len(s)) = Len(f)
        /\ \A k \in 0 .. Len(s) : StartAt(s, k) \in Nat
        /\ \A k \in 1 .. Len(s) : StartAt(s, k) = StartAt(s, k - 1) + Len(s[k])
    BY <1>3, PlaceOf
  <1>5. /\ StartOf(e, eol, "comment", d) = 0 /\ StartOf(e, eol, "name", 0) = Len(c)
        /\ StartOf(e, eol, "name", d) = Len(c)
        /\ \A k : StartOf(e, eol, "data", k) = Len(c) + Len(n) + StartAt(s, k)
    BY DEF StartOf
  <1>6. Len(<<Comment>>) = 1 /\ Len(<<EventField(e.name)>>) = 1 /\ Len(<<>>) = 0
        /\ \A doc : Len(DataLine(doc)) = 2
    BY CleanBodies
  <1> DEFINE w == Len(LineOf(e, stage, d))
  <1>7. /\ stage = "comment" => w = 1
        /\ stage = "name" => w = 1
        /\ stage = "data" /\ d < Len(e.docs) => w = 2
        /\ stage = "data" /\ ~(d < Len(e.docs)) => w = 0
    BY <1>6 DEF LineOf
  <1>8. next = StartOf(e, eol, stage, d) + w + Len(eol)
    OBVIOUS
  <1> HIDE DEF c, n, s, f, w
  <1>9. ASSUME stage = "comment" PROVE next = Len(c) /\ (e.name = Blank => Len(n) = 0)
    <2>1. e.comment = TRUE
      BY <1>9 DEF InStage
    <2>. QED BY <1>1, <1>2, <1>5, <1>7, <1>8, <1>9, <2>1
  <1>10. ASSUME stage = "name" PROVE next = Len(c) + Len(n)
    <2>1. e.name # Blank
      BY <1>10 DEF InStage
    <2>2. StartOf(e, eol, stage, d) = Len(c) /\ w = 1
      BY <1>5, <1>7, <1>10
    <2>3. next = Len(c) + 1 + Len(eol)
      BY <1>8, <2>2
    <2>4. Len(n) = 1 + Len(eol)
      BY <1>1, <2>1
    <2>. QED BY <1>1, <1>2, <2>3, <2>4
  <1>11. ASSUME stage = "data", d < Len(e.docs) PROVE next = StartOf(e, eol, "data", d + 1)
    <2>1. d \in 0 .. Len(e.docs)
      BY <1>11 DEF InStage
    <2>2. d + 1 \in 1 .. Len(s) /\ (d + 1) - 1 = d /\ d \in 0 .. Len(s) /\ d + 1 \in 1 .. Len(e.docs)
      BY <1>3, <1>11, <2>1
    <2>3. StartAt(s, d + 1) = StartAt(s, d) + (2 + Len(eol)) /\ StartAt(s, d) \in Nat
      BY <1>3, <1>4, <2>2
    <2>4. next = Len(c) + Len(n) + StartAt(s, d) + 2 + Len(eol)
      BY <1>5, <1>7, <1>8, <1>11
    <2>5. next = Len(c) + Len(n) + StartAt(s, d + 1)
      BY <1>1, <1>2, <2>3, <2>4
    <2>. QED BY <1>5, <2>5
  <1>12. ASSUME stage = "data", d = Len(e.docs) PROVE next = Len(t)
    <2>1. ~(d < Len(e.docs)) /\ d = Len(s)
      BY <1>3, <1>12
    <2>2. next = Len(c) + Len(n) + Len(f) + 0 + Len(eol)
      BY <1>4, <1>5, <1>7, <1>8, <1>12, <2>1
    <2>. QED BY <1>1, <1>2, <2>2
  <1>13. StartOf(e, eol, "data", 0) = Len(c) + Len(n)
    BY <1>1, <1>4, <1>5
  <1>. QED BY <1>1, <1>5, <1>9, <1>10, <1>11, <1>12, <1>13

\* And where an event starts.
LEMMA EventStarts ==
    ASSUME NEW e, IsEvent(e), NEW eol \in LineEnds
    PROVE  \E stage \in {"comment", "name", "data"} :
             InStage(e, stage, 0) /\ StartOf(e, eol, stage, 0) = 0 /\ (stage = "data" => e.name = Blank)
  <1> DEFINE c == CommentPart(e, eol)
             n == NamePart(e, eol)
             s == DataLines(e.docs, eol)
  <1>1. /\ e.comment # TRUE => Len(c) = 0
        /\ e.name = Blank => Len(n) = 0
    BY PartsOf
  <1>2. IsSeqs(s) /\ 0 \in 0 .. Len(e.docs)
    BY DataLinesAre DEF IsEvent
  <1>3. StartAt(s, 0) = 0
    BY <1>2, PlaceOf
  <1>4. CASE e.comment = TRUE
    <2>1. InStage(e, "comment", 0) /\ StartOf(e, eol, "comment", 0) = 0
      BY <1>4 DEF InStage, StartOf
    <2>. QED BY <2>1
  <1>5. CASE e.comment # TRUE /\ e.name # Blank
    <2>1. InStage(e, "name", 0) /\ StartOf(e, eol, "name", 0) = 0
      BY <1>1, <1>5 DEF InStage, StartOf
    <2>. QED BY <2>1
  <1>6. CASE e.comment # TRUE /\ e.name = Blank
    <2>1. InStage(e, "data", 0)
      BY <1>2 DEF InStage
    <2>2. StartOf(e, eol, "data", 0) = Len(c) + Len(n) + StartAt(s, 0)
      BY DEF StartOf
    <2>3. StartOf(e, eol, "data", 0) = 0
      BY <1>1, <1>3, <1>6, <2>2
    <2>. QED BY <1>6, <2>1, <2>3
  <1>. QED BY <1>4, <1>5, <1>6

\* ---------------------------------------------------------------- the events of an answer
\* A list of events of any names and documents.
GoodEvents(events, eol) ==
    /\ events = First(events, Len(events)) /\ Len(events) \in Nat
    /\ \A i \in 1 .. Len(events) : IsEvent(events[i])
    /\ eol \in LineEnds

\* The text of each.
Texts(events, eol) == [i \in 1 .. Len(events) |-> EventText(events[i], eol)]

LEMMA TextsAre ==
    ASSUME NEW events, NEW eol, GoodEvents(events, eol)
    PROVE  /\ IsSeqs(Texts(events, eol)) /\ Len(Texts(events, eol)) = Len(events)
           /\ \A i \in 1 .. Len(events) : Texts(events, eol)[i] = EventText(events[i], eol)
           /\ TextOf(events, eol) = FlattenSeq(Texts(events, eol))
  <1> DEFINE s == Texts(events, eol)
             n == Len(events)
  <1>1. n \in Nat /\ \A i \in 1 .. n : IsEvent(events[i]) /\ eol \in LineEnds
    BY DEF GoodEvents
  <1>2. TextOf(events, eol) = FlattenSeq(s)
    BY DEF TextOf, Texts
  <1>3. s = [i \in 1 .. n |-> s[i]] /\ \A i \in 1 .. n : s[i] = EventText(events[i], eol)
    BY DEF Texts
  <1>4. ASSUME NEW i \in 1 .. n PROVE IsSeq(s[i])
    <2>1. IsEvent(events[i]) /\ eol \in LineEnds /\ s[i] = EventText(events[i], eol)
      BY <1>1, <1>3, <1>4
    <2>. QED BY <2>1, PartsOf
  <1> HIDE DEF s, n
  <1>5. Len(s) = n
    BY <1>1, <1>3
  <1>. QED BY <1>1, <1>2, <1>3, <1>4, <1>5 DEF IsSeqs, First, s, n

\* The place of a line in the text of an answer.
LEMMA LinePlace ==
    ASSUME NEW events, NEW eol, GoodEvents(events, eol), NEW k \in 0 .. Len(events) - 1,
           NEW stage, NEW d, InStage(events[k + 1], stage, d),
           NEW c, c = StartAt(Texts(events, eol), k) + StartOf(events[k + 1], eol, stage, d)
    PROVE  /\ Clean(LineOf(events[k + 1], stage, d)) /\ Len(LineOf(events[k + 1], stage, d)) \in Nat
           /\ Has(TextOf(events, eol), c, LineOf(events[k + 1], stage, d) \o eol)
           /\ c \in Nat /\ StartAt(Texts(events, eol), k) \in Nat
           /\ StartAt(Texts(events, eol), k + 1) \in Nat
           /\ StartAt(Texts(events, eol), k) <= c
           /\ c + Len(LineOf(events[k + 1], stage, d)) + Len(eol) <= StartAt(Texts(events, eol), k + 1)
  <1> DEFINE s == Texts(events, eol)
             e == events[k + 1]
             t == s[k + 1]
             body == LineOf(e, stage, d)
             start == StartOf(e, eol, stage, d)
             b == StartAt(s, k)
             a == StartAt(s, k + 1)
  <1>1. /\ Len(events) \in Nat /\ k + 1 \in 1 .. Len(events) /\ (k + 1) - 1 = k /\ k \in 0 .. Len(events)
        /\ k + 1 \in 0 .. Len(events)
    BY DEF GoodEvents
  <1>2. IsEvent(e) /\ eol \in LineEnds
    BY <1>1 DEF GoodEvents
  <1>3. /\ IsSeqs(s) /\ Len(s) = Len(events) /\ t = EventText(e, eol)
        /\ TextOf(events, eol) = FlattenSeq(s)
    BY <1>1, TextsAre
  <1>4. Clean(body) /\ Len(body) \in Nat /\ Has(t, start, body \o eol) /\ start \in Nat
    BY <1>2, <1>3, LineOfAnEvent
  <1>5. Has(FlattenSeq(s), b, t) /\ a = b + Len(t) /\ b \in Nat /\ a \in Nat
    <2> HIDE DEF s, e, t
    <2>1. /\ Has(FlattenSeq(s), StartAt(s, (k + 1) - 1), s[k + 1])
          /\ StartAt(s, k + 1) = StartAt(s, (k + 1) - 1) + Len(s[k + 1])
          /\ StartAt(s, k) \in Nat /\ StartAt(s, k + 1) \in Nat
      BY <1>1, <1>3, PlaceOf
    <2>. QED BY <1>1, <2>1 DEF t
  <1>6. IsSeq(body \o eol) /\ Len(body \o eol) = Len(body) + Len(eol) /\ Len(eol) \in Nat
    BY <1>2, <1>4, LineIsSeq, EndIsSeq
  <1> HIDE DEF s, e, t, body, start, a, b
  <1>7. Has(FlattenSeq(s), b + start, body \o eol)
    BY <1>4, <1>5, HasWithin
  <1>8. start + (Len(body) + Len(eol)) <= Len(t) /\ Len(t) \in Nat
    BY <1>4, <1>6 DEF Has
  <1>9. c = b + start
    BY DEF b, s, start, e
  <1>10. c \in Nat /\ b <= c /\ c + Len(body) + Len(eol) <= a
    BY <1>4, <1>5, <1>6, <1>8, <1>9
  <1>. QED BY <1>3, <1>4, <1>5, <1>7, <1>9, <1>10 DEF a, b, s, body, e

\* Texts follow one another.
LEMMA TextsGrow ==
    ASSUME NEW s, IsSeqs(s), NEW j \in 0 .. Len(s), NEW k \in 0 .. Len(s), j <= k
    PROVE  StartAt(s, j) <= StartAt(s, k) /\ StartAt(s, j) \in Nat /\ StartAt(s, k) \in Nat
  <1>1. /\ Len(s) \in Nat /\ (\A m \in 0 .. Len(s) : StartAt(s, m) \in Nat)
        /\ \A m \in 1 .. Len(s) : StartAt(s, m) = StartAt(s, m - 1) + Len(s[m]) /\ Len(s[m]) \in Nat
    <2>1. \A m \in 1 .. Len(s) : IsSeq(s[m])
      BY DEF IsSeqs
    <2>2. \A x : IsSeq(x) => Len(x) \in Nat
      BY DEF IsSeq
    <2>3. Len(s) \in Nat
      BY DEF IsSeqs
    <2>4. /\ \A m \in 0 .. Len(s) : StartAt(s, m) \in Nat
          /\ \A m \in 1 .. Len(s) : StartAt(s, m) = StartAt(s, m - 1) + Len(s[m])
      BY PlaceOf
    <2>. QED BY <2>1, <2>2, <2>3, <2>4
  <1> DEFINE T == {m \in j .. Len(s) : ~(StartAt(s, j) <= StartAt(s, m))}
  <1>2. CASE T = {}
    <2>1. k \in j .. Len(s)
      BY <1>1
    <2>2. StartAt(s, j) <= StartAt(s, k)
      BY <1>2, <2>1
    <2>. QED BY <1>1, <2>2
  <1>3. CASE T # {}
    <2>1. PICK m \in T : \A i \in T : m <= i
      <3>1. T \subseteq Nat
        BY <1>1
      <3>. QED BY <1>3, <3>1, LeastNat
    <2>2. m # j
      BY <1>1, <2>1
    <2>3. m \in 1 .. Len(s) /\ m - 1 \in j .. Len(s) /\ m - 1 \notin T /\ m - 1 \in 0 .. Len(s)
      BY <1>1, <2>1, <2>2
    <2>4. StartAt(s, j) <= StartAt(s, m - 1)
      BY <2>3
    <2>5. StartAt(s, j) \in Nat /\ StartAt(s, m - 1) \in Nat /\ StartAt(s, m) \in Nat
      BY <1>1, <2>3
    <2>6. StartAt(s, m) = StartAt(s, m - 1) + Len(s[m]) /\ Len(s[m]) \in Nat
      BY <1>1, <2>3
    <2>. QED BY <2>1, <2>4, <2>5, <2>6
  <1>. QED BY <1>2, <1>3

LEMMA MaxIs ==
    ASSUME NEW S, NEW x \in S, x \in Int, \A y \in S : y \in Int /\ y <= x
    PROVE  Max(S) = x
  <1>1. \A z \in S : (\A y \in S : z >= y) => z = x
    OBVIOUS
  <1>2. x \in S /\ \A y \in S : x >= y
    OBVIOUS
  <1>. QED BY <1>1, <1>2 DEF Max

\* The first k events as a text of their own.
LEMMA TextUpto ==
    ASSUME NEW events, NEW eol, GoodEvents(events, eol), NEW k \in 0 .. Len(events)
    PROVE  Len(TextOf(SubSeq(events, 1, k), eol)) = StartAt(Texts(events, eol), k)
  <1>1. Len(events) \in Nat /\ k \in Nat /\ k <= Len(events)
    BY DEF GoodEvents
  <1>2. SubSeq(events, 1, k) = First(events, k)
    <2>1. events \in Seq({events[i] : i \in 1 .. Len(events)})
      BY <1>1 DEF GoodEvents, First
    <2>. QED BY <1>1, <2>1, Beginning DEF First
  <1>3. Texts(First(events, k), eol) = First(Texts(events, eol), k)
    <2>1. Len(First(events, k)) = k
      BY <1>1 DEF First
    <2>2. \A i \in 1 .. k : i \in 1 .. Len(events) /\ First(events, k)[i] = events[i]
      BY <1>1 DEF First
    <2>3. Texts(First(events, k), eol) = [i \in 1 .. k |-> EventText(events[i], eol)]
      BY <2>1, <2>2 DEF Texts
    <2>4. First(Texts(events, eol), k) = [i \in 1 .. k |-> EventText(events[i], eol)]
      BY <2>2 DEF Texts, First
    <2>. QED BY <2>3, <2>4
  <1>4. TextOf(First(events, k), eol) = FlattenSeq(Texts(First(events, k), eol))
    BY DEF TextOf, Texts
  <1>. QED BY <1>2, <1>3, <1>4 DEF StartAt

\* How many events have arrived.
LEMMA ArrivedIs ==
    ASSUME GoodEvents(Events, upstream.eol), pos \in Nat, NEW k \in 0 .. Len(Events),
           StartAt(Texts(Events, upstream.eol), k) <= pos,
           k # Len(Events) => pos < StartAt(Texts(Events, upstream.eol), k + 1)
    PROVE  Arrived = k
  <1> DEFINE s == Texts(Events, upstream.eol)
             n == Len(Events)
             S == {j \in 0 .. n : Len(TextOf(SubSeq(Events, 1, j), upstream.eol)) <= pos}
  <1>1. n \in Nat /\ IsSeqs(s) /\ Len(s) = n
    BY TextsAre DEF GoodEvents
  <1>2. \A j \in 0 .. n : Len(TextOf(SubSeq(Events, 1, j), upstream.eol)) = StartAt(s, j)
    BY TextUpto
  <1>3. k \in S
    BY <1>2
  <1>4. ASSUME NEW j \in S PROVE j \in Int /\ j <= k
    <2>1. j \in 0 .. n /\ StartAt(s, j) <= pos
      BY <1>2
    <2>2. CASE k = n
      BY <1>1, <2>1, <2>2
    <2>3. ASSUME k # n, k < j PROVE FALSE
      <3>1. k + 1 \in 0 .. Len(s) /\ j \in 0 .. Len(s) /\ k + 1 <= j
        BY <1>1, <2>1, <2>3
      <3> HIDE DEF s, n
      <3>2. StartAt(s, k + 1) <= StartAt(s, j) /\ StartAt(s, k + 1) \in Nat /\ StartAt(s, j) \in Nat
        BY <1>1, <3>1, TextsGrow
      <3>3. pos < StartAt(s, k + 1)
        BY <2>3 DEF s, n
      <3>. QED BY <2>1, <3>2, <3>3
    <2>. QED BY <1>1, <2>1, <2>2, <2>3
  <1>5. k \in Int
    BY <1>1
  <1>6. Arrived = Max(S)
    BY DEF Arrived
  <1> HIDE DEF S
  <1>. QED BY <1>3, <1>4, <1>5, <1>6, MaxIs

\* ---------------------------------------------------------------- what is told of the events
\* What the gateway has written after k events.
Told(k) == FlattenSeq([i \in 1 .. Len(ChunksUpto(k)) |-> EventOf(ChunksUpto(k)[i])])

\* The events of chunks, and the meanings of the first k events of the upstream.
EachTold(s) == [i \in 1 .. Len(s) |-> EventOf(s[i])]
Meanings(k) == [i \in 1 .. k |-> Meaning(i)]

\* None, or one.
AtMostOne(s) == s = <<>> \/ \E x : s = <<x>>

LEMMA MeaningIsShort == upstream.adapter = "anthropic" => \A i : AtMostOne(Meaning(i))
  <1> SUFFICES ASSUME upstream.adapter = "anthropic", NEW i PROVE AtMostOne(Meaning(i))
    OBVIOUS
  <1>1. upstream.adapter # "openai"
    OBVIOUS
  <1>2. \A name, doc, id0 : AtMostOne(ChunksOf(name, doc, id0))
    <2> SUFFICES ASSUME NEW name, NEW doc, NEW id0 PROVE AtMostOne(ChunksOf(name, doc, id0))
      OBVIOUS
    <2>1. \/ ChunksOf(name, doc, id0) = <<>>
          \/ \E a, b, c, d : ChunksOf(name, doc, id0) = <<Chunk(a, b, c, d)>>
      BY DEF ChunksOf
    <2>. QED BY <2>1 DEF AtMostOne
  <1>3. \/ Meaning(i) = <<>>
        \/ Meaning(i) = ChunksOf(Events[i].name, Events[i].docs[1], IdAt(i))
    BY <1>1 DEF Meaning
  <1>. QED BY <1>2, <1>3 DEF AtMostOne

LEMMA UptoIs ==
    ASSUME upstream.adapter = "anthropic", NEW k, \A i \in 1 .. k : ~Fatal(Events[i])
    PROVE  Upto(k) = k
  <1>1. {i \in 1 .. k : IF upstream.adapter = "openai"
                        THEN Events[i].docs = <<Done>> ELSE Fatal(Events[i])} = {}
    OBVIOUS
  <1>. QED BY <1>1 DEF Upto

LEMMA OfLength ==
    ASSUME NEW S, NEW n \in Nat, NEW f, f = First(f, n), \A i \in 1 .. n : f[i] \in S
    PROVE  f \in Seq(S) /\ Len(f) = n
  BY DEF First

\* One chunk more.
LEMMA ToldMore ==
    ASSUME NEW s, IsSeq(s), NEW x
    PROVE  FlattenSeq(EachTold(s \o <<x>>)) = FlattenSeq(EachTold(s)) \o EventOf(x)
  <1> DEFINE u == s \o <<x>>
             n == Len(s)
             a == EachTold(s)
             b == EachTold(u)
             S == UNION {ToSet(EventOf(u[i])) : i \in 1 .. n + 1}
  <1>1. n \in Nat /\ Len(u) = n + 1 /\ (\A i \in 1 .. n : u[i] = s[i]) /\ u[n + 1] = x
    BY DEF IsSeq
  <1>2. a = [i \in 1 .. n |-> a[i]] /\ b = [i \in 1 .. n + 1 |-> b[i]]
        /\ (\A i \in 1 .. n : a[i] = EventOf(s[i])) /\ \A i \in 1 .. n + 1 : b[i] = EventOf(u[i])
    <2> HIDE DEF n, u
    <2>. QED BY <1>1 DEF EachTold, n
  <1> HIDE DEF u, n, a, b
  <1>3. \A i \in 1 .. n + 1 : EventOf(u[i]) \in Seq(S)
    <2>1. ASSUME NEW i \in 1 .. n + 1 PROVE EventOf(u[i]) \in Seq(S)
      <3>1. EventOf(u[i]) \in Seq(ToSet(EventOf(u[i])))
        BY EventIs, OfItsOwn
      <3>2. ToSet(EventOf(u[i])) \subseteq S
        OBVIOUS
      <3>. QED BY <3>1, <3>2
    <2>. QED BY <2>1
  <1> HIDE DEF S
  <1>4. \A i \in 1 .. n : i \in 1 .. n + 1
    BY <1>1
  <1>5. \A i \in 1 .. n : b[i] = a[i]
    BY <1>1, <1>2, <1>4
  <1>6. a \in Seq(Seq(S)) /\ Len(a) = n /\ b \in Seq(Seq(S)) /\ Len(b) = n + 1
    <2>1. \A i \in 1 .. n + 1 : b[i] \in Seq(S)
      BY <1>2, <1>3
    <2>2. \A i \in 1 .. n : a[i] \in Seq(S)
      BY <1>4, <1>5, <2>1
    <2>3. a = First(a, n) /\ b = First(b, n + 1) /\ n \in Nat /\ n + 1 \in Nat
      BY <1>1, <1>2 DEF First
    <2>4. a \in Seq(Seq(S)) /\ Len(a) = n
      BY <2>2, <2>3, OfLength
    <2>5. b \in Seq(Seq(S)) /\ Len(b) = n + 1
      BY <2>1, <2>3, OfLength
    <2>. QED BY <2>4, <2>5
  <1>7. FlattenSeq(b) = FlattenSeq(a) \o b[n + 1]
    <2>1. Len(b) = Len(a) + 1 /\ \A i \in 1 .. Len(a) : b[i] = a[i]
      BY <1>5, <1>6
    <2>2. FlattenSeq(b) = FlattenSeq(a) \o b[Len(a) + 1]
      BY <1>6, <2>1, FlattenNext
    <2>. QED BY <1>6, <2>2
  <1>8. b[n + 1] = EventOf(x)
    <2>1. n + 1 \in 1 .. n + 1
      BY <1>1
    <2>. QED BY <1>1, <1>2, <2>1
  <1>. QED BY <1>7, <1>8 DEF a, b, u

\* The meanings of k events, one after the other.
LEMMA MeaningsGrow ==
    ASSUME upstream.adapter = "anthropic", NEW k \in Nat
    PROVE  /\ IsSeq(FlattenSeq(Meanings(k)))
           /\ FlattenSeq(Meanings(k + 1)) = FlattenSeq(Meanings(k)) \o Meaning(k + 1)
  <1> DEFINE a == Meanings(k)
             b == Meanings(k + 1)
             S == UNION {ToSet(Meaning(i)) : i \in 1 .. k + 1}
  <1>1. \A i : IsSeq(Meaning(i))
    <2>1. IsSeq(<<>>) /\ \A x : IsSeq(<<x>>)
      BY DEF IsSeq, ToSet
    <2>2. ASSUME NEW i PROVE IsSeq(Meaning(i))
      <3>1. AtMostOne(Meaning(i))
        BY MeaningIsShort
      <3>. QED BY <2>1, <3>1 DEF AtMostOne
    <2>. QED BY <2>2
  <1>2. a = [i \in 1 .. k |-> a[i]] /\ b = [i \in 1 .. k + 1 |-> b[i]]
        /\ (\A i \in 1 .. k : a[i] = Meaning(i)) /\ \A i \in 1 .. k + 1 : b[i] = Meaning(i)
    BY DEF Meanings
  <1> HIDE DEF a, b
  <1>3. \A i \in 1 .. k + 1 : Meaning(i) \in Seq(S)
    <2>1. ASSUME NEW i \in 1 .. k + 1 PROVE Meaning(i) \in Seq(S)
      <3>1. Meaning(i) \in Seq(ToSet(Meaning(i)))
        BY <1>1 DEF IsSeq
      <3>2. ToSet(Meaning(i)) \subseteq S
        OBVIOUS
      <3>. QED BY <3>1, <3>2
    <2>. QED BY <2>1
  <1> HIDE DEF S
  <1>4. \A i \in 1 .. k : i \in 1 .. k + 1
    OBVIOUS
  <1>5. \A i \in 1 .. k : b[i] = a[i]
    BY <1>2, <1>4
  <1>6. a \in Seq(Seq(S)) /\ Len(a) = k /\ b \in Seq(Seq(S)) /\ Len(b) = k + 1
    <2>1. \A i \in 1 .. k + 1 : b[i] \in Seq(S)
      BY <1>2, <1>3
    <2>2. \A i \in 1 .. k : a[i] \in Seq(S)
      BY <1>4, <1>5, <2>1
    <2>3. a = First(a, k) /\ b = First(b, k + 1) /\ k \in Nat /\ k + 1 \in Nat
      BY <1>1, <1>2 DEF First
    <2>4. a \in Seq(Seq(S)) /\ Len(a) = k
      BY <2>2, <2>3, OfLength
    <2>5. b \in Seq(Seq(S)) /\ Len(b) = k + 1
      BY <2>1, <2>3, OfLength
    <2>. QED BY <2>4, <2>5
  <1>7. FlattenSeq(b) = FlattenSeq(a) \o b[k + 1]
    <2>1. Len(b) = Len(a) + 1 /\ \A i \in 1 .. Len(a) : b[i] = a[i]
      BY <1>5, <1>6
    <2>2. FlattenSeq(b) = FlattenSeq(a) \o b[Len(a) + 1]
      BY <1>6, <2>1, FlattenNext
    <2>. QED BY <1>6, <2>2
  <1>8. b[k + 1] = Meaning(k + 1)
    BY <1>2
  <1>9. IsSeq(FlattenSeq(a))
    BY <1>6, FlattenType, SeqOfOwn
  <1>. QED BY <1>7, <1>8, <1>9 DEF a, b

\* With each event the gateway tells what the event means.
LEMMA ToldNext ==
    ASSUME upstream.adapter = "anthropic", NEW k \in Nat, \A i \in 1 .. k + 1 : ~Fatal(Events[i])
    PROVE  Told(k + 1) = Told(k) \o Written(Meaning(k + 1)) /\ IsSeq(Told(k))
  <1> DEFINE a == FlattenSeq(Meanings(k))
             b == FlattenSeq(Meanings(k + 1))
             m == Meaning(k + 1)
  <1>1. Upto(k) = k /\ Upto(k + 1) = k + 1
    <2>1. \A i \in 1 .. k : i \in 1 .. k + 1
      OBVIOUS
    <2>. QED BY <2>1, UptoIs
  <1>2. ChunksUpto(k) = a /\ ChunksUpto(k + 1) = b
    BY <1>1 DEF ChunksUpto, Meanings
  <1>3. IsSeq(a) /\ b = a \o m /\ AtMostOne(m)
    BY MeaningsGrow, MeaningIsShort
  <1>4. Told(k) = FlattenSeq(EachTold(a)) /\ Told(k + 1) = FlattenSeq(EachTold(b))
    BY <1>2 DEF Told, EachTold
  <1> HIDE DEF a, b, m
  <1>5. IsSeq(FlattenSeq(EachTold(a)))
    <2> DEFINE u == EachTold(a)
    <2>1. Len(a) \in Nat /\ u = [i \in 1 .. Len(a) |-> u[i]] /\ \A i \in 1 .. Len(a) : u[i] = EventOf(a[i])
      BY <1>3 DEF IsSeq, EachTold
    <2>2. \A i \in 1 .. Len(a) : IsSeq(EventOf(a[i]))
      BY EventIs, SeqOfOwn
    <2> HIDE DEF u
    <2>3. Len(u) = Len(a)
      BY <2>1
    <2>4. IsSeqs(u)
      BY <2>1, <2>2, <2>3 DEF IsSeqs, First
    <2>. QED BY <2>4, PlaceOf DEF u
  <1>6. CASE m = <<>>
    <2>1. b = a
      BY <1>3, <1>6 DEF IsSeq
    <2>2. FlattenSeq(EachTold(a)) \o <<>> = FlattenSeq(EachTold(a))
      BY <1>5 DEF IsSeq
    <2>. QED BY <1>4, <1>5, <1>6, <2>1, <2>2 DEF Written, m
  <1>7. ASSUME NEW x, m = <<x>> PROVE Told(k + 1) = Told(k) \o Written(m)
    <2>1. FlattenSeq(EachTold(a \o <<x>>)) = FlattenSeq(EachTold(a)) \o EventOf(x)
      BY <1>3, ToldMore
    <2>2. Written(m) = EventOf(x)
      <3>1. <<x>> # <<>> /\ <<x>>[1] = x
        OBVIOUS
      <3>. QED BY <1>7, <3>1 DEF Written
    <2>. QED BY <1>3, <1>4, <1>7, <2>1, <2>2
  <1>. QED BY <1>3, <1>4, <1>5, <1>6, <1>7 DEF AtMostOne, m

\* ---------------------------------------------------------------- what an event holds
LEMMA BlankIsNoName ==
    Blank # "message_start" /\ Blank # "content_block_delta" /\ Blank # "message_delta" /\ Blank # "error"
  BY Zenon DEF Blank

LEMMA BlankSaysNothing ==
    /\ Blank \notin Parsed
    /\ \A doc, i : ChunksOf(Blank, doc, i) = <<>>
  <1> DEFINE blank == Blank
  <1>1. blank # "message_start" /\ blank # "content_block_delta" /\ blank # "message_delta" /\ blank # "error"
    BY BlankIsNoName
  <1> HIDE DEF blank
  <1>2. blank \notin Parsed
    BY <1>1 DEF Parsed
  <1>3. \A doc, i : ChunksOf(blank, doc, i) = <<>>
    BY <1>1 DEF ChunksOf
  <1>. QED BY <1>2, <1>3 DEF blank

\* The message of the next event.
LEMMA IdNext ==
    ASSUME NEW k \in Nat
    PROVE  IdAt(k + 2) = IF Events[k + 1].name = "message_start" /\ Events[k + 1].docs # <<>>
                         THEN Events[k + 1].docs[1].id ELSE IdAt(k + 1)
  <1> DEFINE starts(i) == {j \in 1 .. (i - 1) : Events[j].name = "message_start" /\ Events[j].docs # <<>>}
             is == Events[k + 1].name = "message_start" /\ Events[k + 1].docs # <<>>
  <1>1. \A i : IdAt(i) = IF starts(i) = {} THEN Blank ELSE Events[Max(starts(i))].docs[1].id
    BY DEF IdAt
  <1>2. starts(k + 2) = starts(k + 1) \cup {j \in {k + 1} : is}
    <2>1. 1 .. ((k + 2) - 1) = 1 .. ((k + 1) - 1) \cup {k + 1}
      OBVIOUS
    <2>. QED BY <2>1
  <1>3. CASE ~is
    <2>1. starts(k + 2) = starts(k + 1)
      BY <1>2, <1>3
    <2> HIDE DEF starts, is
    <2>. QED BY <1>1, <1>3, <2>1 DEF is
  <1>4. CASE is
    <2>1. k + 1 \in starts(k + 2) /\ k + 1 \in Int
      BY <1>2, <1>4
    <2>2. \A y \in starts(k + 2) : y \in Int /\ y <= k + 1
      OBVIOUS
    <2>3. Max(starts(k + 2)) = k + 1
      <3> DEFINE S == starts(k + 2)
                 x == k + 1
      <3>1. x \in S /\ x \in Int /\ \A y \in S : y \in Int /\ y <= x
        BY <2>1, <2>2
      <3> HIDE DEF S, x
      <3>2. Max(S) = x
        BY <3>1, MaxIs
      <3>. QED BY <3>2 DEF S, x
    <2> HIDE DEF starts
    <2>4. starts(k + 2) # {}
      BY <2>1
    <2>. QED BY <1>1, <1>4, <2>3, <2>4
  <1>. QED BY <1>3, <1>4

\* Data of more than one document: two fragments of the first, and one of the second.
Scattered(data) ==
    /\ IsSeq(data) /\ Len(data) >= 4
    /\ data[1] \notin {CR, LF} /\ data[2] \notin {CR, LF} /\ data[4] \notin {CR, LF}

LEMMA ScatteredIsBad == ASSUME NEW data, Scattered(data) PROVE Json(data) = Bad
  <1> DEFINE marks == {i \in DOMAIN data : data[i] \notin {CR, LF}}
             whole == {i \in marks : /\ marks = {i, i + 1}
                                     /\ data[i].t = "data"
                                     /\ data[i + 1] = DataRest(data[i].doc)
                                     /\ data[i].doc # Done}
  <1>1. 1 \in marks /\ 2 \in marks /\ 4 \in marks
    BY DEF Scattered, IsSeq
  <1>2. whole = {}
    <2> HIDE DEF marks
    <2>1. \A i : marks # {i, i + 1}
      BY <1>1
    <2>. QED BY <2>1
  <1>3. Json(data) = IF whole = {} THEN Bad ELSE data[Min(whole)].doc
    BY DEF Json
  <1> HIDE DEF whole
  <1>. QED BY <1>2, <1>3

LEMMA OneDocument ==
    ASSUME NEW doc
    PROVE  Json(DataLine(doc)) = IF doc = Done THEN Bad ELSE doc
  <1> DEFINE data == DataLine(doc)
             marks == {i \in DOMAIN data : data[i] \notin {CR, LF}}
             whole == {i \in marks : /\ marks = {i, i + 1}
                                     /\ data[i].t = "data"
                                     /\ data[i + 1] = DataRest(data[i].doc)
                                     /\ data[i].doc # Done}
  <1>1. Clean(data) /\ Len(data) = 2 /\ data[1] = DataHead(doc) /\ data[2] = DataRest(doc)
    BY CleanBodies
  <1>2. data[1].t = "data" /\ data[1].doc = doc
    BY <1>1 DEF DataHead
  <1>3. Json(data) = IF whole = {} THEN Bad ELSE data[Min(whole)].doc
    BY DEF Json
  <1> HIDE DEF data
  <1>4. marks = {1, 2}
    <2>1. DOMAIN data = 1 .. 2
      BY <1>1 DEF Clean
    <2>2. data[1] \notin {CR, LF} /\ data[2] \notin {CR, LF}
      BY <1>1 DEF Clean
    <2>3. 1 .. 2 = {1, 2}
      OBVIOUS
    <2>. QED BY <2>1, <2>2, <2>3
  <1> HIDE DEF marks
  <1>5. CASE doc = Done
    <2>1. whole = {}
      <3>1. ASSUME NEW i \in whole PROVE FALSE
        <4>1. i = 1
          BY <1>4, <3>1
        <4>. QED BY <1>2, <1>5, <3>1, <4>1
      <3>. QED BY <3>1
    <2>. QED BY <1>3, <1>5, <2>1 DEF data
  <1>6. CASE doc # Done
    <2>1. 1 \in whole
      BY <1>1, <1>2, <1>4, <1>6
    <2>2. \A i \in whole : i = 1
      BY <1>4
    <2> HIDE DEF whole
    <2>3. Min(whole) = 1
      <3> DEFINE x == 1
      <3>1. x \in whole /\ x \in Int /\ \A y \in whole : y \in Int /\ x <= y
        BY <2>1, <2>2
      <3> HIDE DEF x
      <3>2. Min(whole) = x
        BY <3>1, MinIs
      <3>. QED BY <3>2 DEF x
    <2>4. whole # {}
      BY <2>1
    <2>. QED BY <1>2, <1>3, <1>6, <2>3, <2>4 DEF data
  <1>. QED BY <1>5, <1>6

\* The data gathered from the first d documents of an event.
Holds(data, docs, d) ==
    /\ d = 0 => data = <<>>
    /\ d = 1 => data = DataLine(docs[1])
    /\ d >= 2 => Scattered(data)

LEMMA HoldsMore ==
    ASSUME NEW data, NEW docs, NEW d \in Nat, Holds(data, docs, d),
           NEW line, line = DataLine(docs[d + 1]),
           NEW more, more = IF data = <<>> THEN line ELSE data \o <<LF>> \o line
    PROVE  Holds(more, docs, d + 1)
  <1> USE DEF Holds
  <1>1. /\ IsSeq(line) /\ Len(line) = 2
        /\ \A i \in 1 .. 2 : line[i] \notin {CR, LF}
    BY CleanBodies DEF Clean, IsSeq
  <1>2. CASE d = 0
    BY <1>2
  <1>3. CASE d # 0
    <2>1. /\ IsSeq(data) /\ Len(data) >= 2 /\ data # <<>>
          /\ data[1] \notin {CR, LF} /\ data[2] \notin {CR, LF}
      <3>1. CASE d = 1
        BY <3>1, CleanBodies DEF Clean, IsSeq
      <3>2. CASE d # 1
        <4>1. Scattered(data)
          BY <1>3, <3>2
        <4>2. data # <<>>
          BY <4>1 DEF Scattered, IsSeq
        <4>. QED BY <4>1, <4>2 DEF Scattered
      <3>. QED BY <3>1, <3>2
    <2>2. more = data \o <<LF>> \o line
      BY <2>1
    <2> DEFINE lf == LF
               u == data \o <<lf>>
    <2>3. IsSeq(<<lf>>) /\ Len(<<lf>>) = 1
      BY DEF IsSeq, ToSet
    <2>4. /\ IsSeq(u) /\ Has(u, 0, data) /\ Len(u) = Len(data) + 1 /\ Len(data) \in Nat
      BY <2>1, <2>3, JoinedSeqs
    <2>5. more = u \o line
      BY <2>2
    <2> HIDE DEF u
    <2>6. IsSeq(more) /\ Has(more, 0, u) /\ Has(more, Len(u), line) /\ Len(more) = Len(u) + 2
      <3>1. IsSeq(u) /\ IsSeq(line) /\ more = u \o line /\ Len(line) = 2
        BY <1>1, <2>4, <2>5
      <3>2. IsSeq(more) /\ Has(more, 0, u) /\ Has(more, Len(u), line) /\ Len(more) = Len(u) + Len(line)
        BY ONLY <3>1, JoinedSeqs
      <3>. QED BY <3>1, <3>2
    <2>7. more[1] = data[1] /\ more[2] = data[2]
      <3>1. u[0 + 1] = data[1] /\ u[0 + 2] = data[2]
        BY <2>1, <2>4 DEF Has
      <3>2. more[0 + 1] = u[1] /\ more[0 + 2] = u[2]
        BY <2>1, <2>4, <2>6 DEF Has
      <3>. QED BY <3>1, <3>2
    <2>8. more[4] \notin {CR, LF}
      <3>1. CASE d = 1
        <4>1. Len(data) = 2
          BY <3>1, CleanBodies
        <4>2. Len(u) = 3 /\ more[3 + 1] = line[1]
          BY <1>1, <2>4, <2>6, <4>1 DEF Has
        <4>. QED BY <1>1, <4>2
      <3>2. CASE d # 1
        <4>1. Len(data) >= 4 /\ data[4] \notin {CR, LF}
          BY <1>3, <3>2 DEF Scattered
        <4>2. u[0 + 4] = data[4]
          BY <2>4, <4>1 DEF Has
        <4>3. more[0 + 4] = u[4]
          BY <2>4, <2>6, <4>1 DEF Has
        <4>. QED BY <4>1, <4>2, <4>3
      <3>. QED BY <3>1, <3>2
    <2>9. Scattered(more)
      BY <2>1, <2>4, <2>6, <2>7, <2>8 DEF Scattered
    <2>. QED BY <1>3, <2>9
  <1>. QED BY <1>2, <1>3

\* ---------------------------------------------------------------- the invariant
EventTexts == Texts(Events, upstream.eol)

\* What the translator keeps of an event it is inside of.
Gathered(e, stage, d) ==
    IF stage = "data" THEN currentEvent = e.name /\ Holds(currentData, e.docs, d)
    ELSE currentEvent = Blank /\ currentData = <<>>

\* The translator has taken k events and a part of the next, c fragments in all.
Between(k, c) ==
    \/ k = Len(Events) /\ c = Len(text) /\ currentEvent = Blank /\ currentData = <<>>
    \/ /\ k < Len(Events)
       /\ \E stage, d : /\ InStage(Events[k + 1], stage, d) /\ Gathered(Events[k + 1], stage, d)
                        /\ c = StartAt(EventTexts, k) + StartOf(Events[k + 1], upstream.eol, stage, d)

\* The line buffer is what was read and not taken.
Consumed(k, c) ==
    /\ k \in 0 .. Len(Events) /\ c \in 0 .. pos
    /\ lineBuf = SubSeq(text, c + 1, pos)
    /\ pc = "read" => ~Contains(lineBuf, LF)
    /\ Between(k, c)

\* They had a meaning, and it was told.
Said(k) ==
    /\ \A i \in 1 .. k : ~Fatal(Events[i])
    /\ id = IdAt(k + 1)
    /\ wire = Told(k)

\* The upstream answers as it may, and no more was read than there is.
Body ==
    /\ upstream \in Answers
    /\ text = TextOf(Events, upstream.eol)
    /\ pos \in 0 .. Len(text)

\* Between two calls of src.Read and inside Translate: what was told is what the whole
\* events so far mean, and the rest is in the line buffer and the event being read.
TranslatorInv ==
    /\ Body
    /\ upstream.adapter = "anthropic" /\ pc # "over" => \E k, c : Consumed(k, c) /\ Said(k)

LEMMA AnswersAreGood == upstream \in Answers => GoodEvents(Events, upstream.eol)
  <1> SUFFICES ASSUME upstream \in Answers PROVE GoodEvents(Events, upstream.eol)
    OBVIOUS
  <1>1. /\ upstream.eol \in LineEnds
        /\ Events \in Seq(ToSet(Events))
        /\ \A e \in ToSet(Events) : e.comment \in BOOLEAN /\ IsSeq(e.docs)
    BY AnswersAssumption DEF LineEnds, IsSeq, Events
  <1>2. \A i \in 1 .. Len(Events) : Events[i] \in ToSet(Events)
    BY <1>1
  <1>3. \A i \in 1 .. Len(Events) : IsEvent(Events[i])
    BY <1>1, <1>2 DEF IsEvent
  <1>4. Len(Events) \in Nat /\ Events = First(Events, Len(Events))
    BY <1>1 DEF First
  <1>. QED BY <1>1, <1>3, <1>4 DEF GoodEvents

LEMMA BodyIs ==
    ASSUME Body
    PROVE  /\ GoodEvents(Events, upstream.eol) /\ upstream.eol \in LineEnds /\ Len(Events) \in Nat
           /\ IsSeq(text) /\ text \in Seq(ToSet(text)) /\ Len(text) \in Nat /\ pos \in Nat
           /\ pos <= Len(text) /\ pos \in 0 .. Len(text) /\ text = TextOf(Events, upstream.eol)
           /\ Len(text) = StartAt(EventTexts, Len(Events))
           /\ IsSeqs(EventTexts) /\ Len(EventTexts) = Len(Events)
  <1>1. GoodEvents(Events, upstream.eol)
    BY AnswersAreGood DEF Body
  <1>2. IsSeqs(EventTexts) /\ Len(EventTexts) = Len(Events) /\ text = FlattenSeq(EventTexts)
    BY <1>1, TextsAre DEF Body, EventTexts
  <1>3. IsSeq(text) /\ Len(text) = StartAt(EventTexts, Len(Events))
    BY <1>2, PlaceOf
  <1>4. Len(text) \in Nat
    BY <1>3 DEF IsSeq
  <1>. QED BY <1>1, <1>2, <1>3, <1>4 DEF Body, GoodEvents, IsSeq

\* The line ahead of the translator, when an event is left.
LEMMA AheadIs ==
    ASSUME Body, NEW k \in 0 .. Len(Events), k # Len(Events), NEW c, c \in 0 .. pos,
           lineBuf = SubSeq(text, c + 1, pos),
           NEW stage, NEW d, InStage(Events[k + 1], stage, d),
           c = StartAt(EventTexts, k) + StartOf(Events[k + 1], upstream.eol, stage, d),
           NEW body, body = LineOf(Events[k + 1], stage, d),
           NEW next, next = c + Len(body) + Len(upstream.eol)
    PROVE  /\ Contains(lineBuf, LF) <=> next <= pos
           /\ Contains(lineBuf, LF) =>
                /\ NextLine = body
                /\ SubSeq(lineBuf, Len(LineAt(lineBuf, 1)) + 2, Len(lineBuf)) = SubSeq(text, next + 1, pos)
           /\ next <= StartAt(EventTexts, k + 1) /\ StartAt(EventTexts, k) <= c
           /\ next \in Nat /\ Clean(body)
  <1> DEFINE eol == upstream.eol
  <1>1. /\ GoodEvents(Events, eol) /\ eol \in LineEnds /\ Len(Events) \in Nat
        /\ text \in Seq(ToSet(text)) /\ pos \in 0 .. Len(text) /\ text = TextOf(Events, eol)
    BY BodyIs
  <1>2. k \in 0 .. Len(Events) - 1
    BY <1>1
  <1>3. /\ Clean(body) /\ Len(body) \in Nat /\ Has(text, c, body \o eol)
        /\ StartAt(EventTexts, k) <= c
        /\ c + Len(body) + Len(eol) <= StartAt(EventTexts, k + 1)
    <2> DEFINE s == Texts(Events, eol)
    <2>1. c = StartAt(s, k) + StartOf(Events[k + 1], eol, stage, d)
      BY DEF EventTexts
    <2>2. /\ Clean(LineOf(Events[k + 1], stage, d)) /\ Len(LineOf(Events[k + 1], stage, d)) \in Nat
          /\ Has(TextOf(Events, eol), c, LineOf(Events[k + 1], stage, d) \o eol)
          /\ StartAt(s, k) <= c
          /\ c + Len(LineOf(Events[k + 1], stage, d)) + Len(eol) <= StartAt(s, k + 1)
      BY <1>1, <1>2, <2>1, LinePlace
    <2>. QED BY <1>1, <2>2 DEF EventTexts
  <1>4. Len(eol) \in Nat /\ c \in Nat
    <2>1. pos \in Nat
      BY BodyIs
    <2>2. c \in Nat
      BY <2>1
    <2>. QED BY <1>1, <2>2, EndIsSeq
  <1>5. /\ Contains(lineBuf, LF) <=> c + Len(body) + Len(eol) <= pos
        /\ Contains(lineBuf, LF) =>
             /\ NextLine = body
             /\ SubSeq(lineBuf, Len(LineAt(lineBuf, 1)) + 2, Len(lineBuf))
                  = SubSeq(text, c + Len(body) + Len(eol) + 1, pos)
    BY <1>1, <1>3, NextLineIs
  <1>6. next \in Nat
    BY <1>3, <1>4
  <1>. QED BY <1>3, <1>5, <1>6

LEMMA NothingAhead ==
    ASSUME Body, NEW c, c = Len(text), c \in 0 .. pos, lineBuf = SubSeq(text, c + 1, pos)
    PROVE  ~Contains(lineBuf, LF) /\ pos = Len(text)
  <1>1. pos = c /\ c \in Nat /\ text \in Seq(ToSet(text))
    BY BodyIs
  <1>2. SubSeq(text, c + 1, pos) = <<>>
    BY <1>1
  <1>. QED BY <1>1, <1>2 DEF Contains

\* The answer does not change.
LEMMA SameAnswer ==
    ASSUME UNCHANGED upstream, NEW k
    PROVE  Told(k)' = Told(k) /\ IdAt(k)' = IdAt(k)
  BY DEF Told, ChunksUpto, Upto, Meaning, IdAt, Events

LEMMA InvIsTranslated == TranslatorInv => TranslatedSoFar
  <1> SUFFICES ASSUME TranslatorInv, pc = "read", upstream.adapter = "anthropic"
               PROVE  wire = Told(Arrived)
    BY DEF TranslatedSoFar, Told
  <1>1. PICK k, c : Consumed(k, c) /\ Said(k)
    BY DEF TranslatorInv
  <1>2. Body /\ k \in 0 .. Len(Events) /\ c \in 0 .. pos
        /\ lineBuf = SubSeq(text, c + 1, pos) /\ ~Contains(lineBuf, LF) /\ Between(k, c)
    BY <1>1 DEF TranslatorInv, Consumed
  <1>3. /\ GoodEvents(Events, upstream.eol) /\ Len(Events) \in Nat /\ pos \in Nat
        /\ Len(text) = StartAt(EventTexts, Len(Events))
    BY <1>2, BodyIs
  <1>4. StartAt(EventTexts, k) <= pos /\ (k # Len(Events) => pos < StartAt(EventTexts, k + 1))
    <2>1. CASE k = Len(Events)
      <3>1. c = Len(text)
        BY <1>2, <1>3, <2>1 DEF Between
      <3>. QED BY <1>2, <1>3, <2>1, <3>1
    <2>2. CASE k # Len(Events)
      <3>1. PICK stage, d :
              /\ InStage(Events[k + 1], stage, d)
              /\ c = StartAt(EventTexts, k) + StartOf(Events[k + 1], upstream.eol, stage, d)
        BY <1>2, <2>2 DEF Between
      <3> DEFINE body == LineOf(Events[k + 1], stage, d)
                 next == c + Len(body) + Len(upstream.eol)
      <3> HIDE DEF body, next
      <3>2. /\ Contains(lineBuf, LF) <=> next <= pos
            /\ next <= StartAt(EventTexts, k + 1) /\ StartAt(EventTexts, k) <= c /\ next \in Nat
        BY <1>2, <2>2, <3>1, AheadIs DEF body, next
      <3>3. k + 1 \in 0 .. Len(EventTexts) /\ k \in 0 .. Len(EventTexts) /\ IsSeqs(EventTexts)
        BY <1>2, <1>3, <2>2, BodyIs
      <3>4. StartAt(EventTexts, k + 1) \in Nat /\ StartAt(EventTexts, k) \in Nat
        BY <3>3, PlaceOf
      <3>. QED BY <1>2, <1>3, <2>2, <3>2, <3>4
    <2>. QED BY <2>1, <2>2
  <1>5. Arrived = k
    BY <1>2, <1>3, <1>4, ArrivedIs DEF EventTexts
  <1>. QED BY <1>1, <1>5 DEF Said

\* ---------------------------------------------------------------- steps
LEMMA SlicesJoined ==
    ASSUME NEW S, NEW s \in Seq(S), NEW a \in Nat, NEW b \in Nat, NEW n \in Nat, a <= b, b + n <= Len(s)
    PROVE  SubSeq(s, a + 1, b) \o SubSeq(s, b + 1, b + n) = SubSeq(s, a + 1, b + n)
  <1> DEFINE u == SubSeq(s, a + 1, b)
             v == SubSeq(s, b + 1, b + n)
             w == SubSeq(s, a + 1, b + n)
  <1>0. b - a \in Nat /\ (b + n) - a \in Nat /\ Len(s) \in Nat
    OBVIOUS
  <1>1. u \in Seq(S) /\ Len(u) = b - a /\ \A i \in 1 .. b - a : u[i] = s[a + i]
    <2>1. u = [i \in 1 .. b - (a + 1) + 1 |-> s[a + 1 + i - 1]]
      BY Slice
    <2>2. b - (a + 1) + 1 = b - a /\ \A i \in 1 .. b - a : a + 1 + i - 1 = a + i
      OBVIOUS
    <2>3. u = [i \in 1 .. b - a |-> s[a + i]]
      BY <2>1, <2>2
    <2> HIDE DEF u
    <2>4. \A i \in 1 .. b - a : s[a + i] \in S
      OBVIOUS
    <2>. QED BY <1>0, <2>3, <2>4
  <1>2. v \in Seq(S) /\ Len(v) = n /\ \A i \in 1 .. n : v[i] = s[b + i]
    <2>1. v = [i \in 1 .. (b + n) - (b + 1) + 1 |-> s[b + 1 + i - 1]]
      BY Slice
    <2>2. (b + n) - (b + 1) + 1 = n /\ \A i \in 1 .. n : b + 1 + i - 1 = b + i
      OBVIOUS
    <2>3. v = [i \in 1 .. n |-> s[b + i]]
      BY <2>1, <2>2
    <2> HIDE DEF v
    <2>4. \A i \in 1 .. n : s[b + i] \in S
      OBVIOUS
    <2>. QED BY <1>0, <2>3, <2>4
  <1>3. w = [i \in 1 .. (b + n) - a |-> s[a + i]]
    <2>1. w = [i \in 1 .. (b + n) - (a + 1) + 1 |-> s[a + 1 + i - 1]]
      BY Slice
    <2>2. (b + n) - (a + 1) + 1 = (b + n) - a /\ \A i \in 1 .. (b + n) - a : a + 1 + i - 1 = a + i
      OBVIOUS
    <2>. QED BY <2>1, <2>2
  <1> HIDE DEF u, v, w
  <1>4. /\ u \o v \in Seq(S) /\ Len(u \o v) = (b + n) - a
        /\ \A i \in 1 .. Len(u) : (u \o v)[i] = u[i]
        /\ \A i \in Len(u) + 1 .. Len(u) + Len(v) : (u \o v)[i] = v[i - Len(u)]
    <2>1. u \in Seq(S) /\ v \in Seq(S) /\ S \union S = S
      BY <1>1, <1>2
    <2>2. /\ u \o v \in Seq(S \union S) /\ Len(u \o v) = Len(u) + Len(v)
          /\ \A i \in 1 .. Len(u) : (u \o v)[i] = u[i]
          /\ \A i \in Len(u) + 1 .. Len(u) + Len(v) : (u \o v)[i] = v[i - Len(u)]
      BY <2>1, Joined
    <2>3. Len(u) + Len(v) = (b + n) - a
      BY <1>0, <1>1, <1>2
    <2>. QED BY <2>1, <2>2, <2>3
  <1>5. ASSUME NEW i \in 1 .. (b + n) - a PROVE (u \o v)[i] = s[a + i]
    <2>1. CASE i \in 1 .. b - a
      BY <1>1, <1>4, <2>1
    <2>2. CASE i \notin 1 .. b - a
      <3>1. i \in (b - a) + 1 .. (b - a) + n /\ i - (b - a) \in 1 .. n /\ b + (i - (b - a)) = a + i
        BY <1>0, <2>2
      <3>2. (u \o v)[i] = v[i - (b - a)]
        BY <1>1, <1>2, <1>4, <3>1
      <3>3. v[i - (b - a)] = s[b + (i - (b - a))]
        BY <1>2, <3>1
      <3>. QED BY <3>1, <3>2, <3>3
    <2>. QED BY <2>1, <2>2
  <1>6. u \o v = [i \in 1 .. (b + n) - a |-> s[a + i]]
    <2> DEFINE x == u \o v
    <2>1. x \in Seq(S) /\ Len(x) = (b + n) - a /\ \A i \in 1 .. (b + n) - a : x[i] = s[a + i]
      BY <1>4, <1>5
    <2> HIDE DEF x
    <2>2. x = [i \in 1 .. (b + n) - a |-> x[i]]
      BY <1>0, <2>1
    <2>3. x = [i \in 1 .. (b + n) - a |-> s[a + i]]
      BY <2>1, <2>2
    <2>. QED BY <2>3 DEF x
  <1>7. u \o v = w
    BY <1>3, <1>6
  <1>. QED BY <1>7 DEF u, v, w

LEMMA StaysBetween ==
    ASSUME UNCHANGED <<upstream, text, currentEvent, currentData>>, NEW k, NEW c, Between(k, c)
    PROVE  Between(k, c)'
  BY DEF Between, Gathered, EventTexts, Events

LEMMA StaysSaid ==
    ASSUME UNCHANGED <<upstream, id, wire>>, NEW k, Said(k)
    PROVE  Said(k)'
  <1>1. Told(k)' = Told(k) /\ IdAt(k + 1)' = IdAt(k + 1)
    BY SameAnswer
  <1>. QED BY <1>1 DEF Said, Events

LEMMA StaysBody ==
    ASSUME Body, UNCHANGED <<upstream, text, pos>>
    PROVE  Body'
  BY DEF Body, Events

LEMMA ReadKeeps ==
    ASSUME TranslatorInv, NEW n \in 1 .. (Len(text) - pos), Read(n)
    PROVE  TranslatorInv'
  <1>1. /\ pc = "read" /\ pos + n <= Len(text) /\ pos' = pos + n
        /\ UNCHANGED <<upstream, text, currentEvent, currentData, id, closed>>
    BY DEF Read
  <1>2. Body /\ Body'
    <2>1. pos + n \in 0 .. Len(text)
      <3>1. Len(text) \in Nat /\ pos \in Nat
        BY BodyIs DEF TranslatorInv
      <3>. QED BY <1>1, <3>1
    <2>. QED BY <1>1, <2>1 DEF TranslatorInv, Body, Events
  <1> SUFFICES ASSUME upstream.adapter = "anthropic" PROVE \E k, c : (Consumed(k, c) /\ Said(k))'
    BY <1>1, <1>2 DEF TranslatorInv
  <1>3. /\ lineBuf' = lineBuf \o SubSeq(text, pos + 1, pos + n) /\ pc' = "lines" /\ UNCHANGED wire
    <2>1. upstream.adapter # "openai"
      OBVIOUS
    <2>. QED BY <2>1 DEF Read
  <1>4. PICK k, c : Consumed(k, c) /\ Said(k)
    BY <1>1 DEF TranslatorInv
  <1>5. /\ k \in 0 .. Len(Events) /\ c \in 0 .. pos /\ lineBuf = SubSeq(text, c + 1, pos) /\ Between(k, c)
        /\ text \in Seq(ToSet(text)) /\ pos \in Nat /\ n \in Nat /\ c \in Nat /\ c <= pos
    <2>1. pos \in Nat /\ text \in Seq(ToSet(text)) /\ Len(text) \in Nat
      BY <1>2, BodyIs
    <2>. QED BY <1>4, <2>1 DEF Consumed
  <1>6. lineBuf' = SubSeq(text, c + 1, pos + n)
    BY <1>1, <1>3, <1>5, SlicesJoined
  <1>7. Between(k, c)' /\ Said(k)'
    BY <1>1, <1>3, <1>4, <1>5, StaysBetween, StaysSaid
  <1>8. c \in 0 .. pos + n
    BY <1>5
  <1>9. Consumed(k, c)'
    BY <1>1, <1>3, <1>5, <1>6, <1>7, <1>8 DEF Consumed, Events
  <1>. QED BY <1>7, <1>9

LEMMA AwaitMoreKeeps ==
    ASSUME TranslatorInv, AwaitMore
    PROVE  TranslatorInv'
  <1>1. /\ pc = "lines" /\ ~Contains(lineBuf, LF)
        /\ UNCHANGED <<upstream, text, pos, lineBuf, currentEvent, currentData, id, wire>>
    BY DEF AwaitMore, translator
  <1>2. Body'
    BY <1>1, StaysBody DEF TranslatorInv
  <1> SUFFICES ASSUME upstream.adapter = "anthropic" PROVE \E k, c : (Consumed(k, c) /\ Said(k))'
    BY <1>1, <1>2 DEF TranslatorInv
  <1>3. PICK k, c : Consumed(k, c) /\ Said(k)
    BY <1>1 DEF TranslatorInv
  <1>4. Between(k, c)' /\ Said(k)'
    BY <1>1, <1>3, StaysBetween, StaysSaid DEF Consumed
  <1>5. Consumed(k, c)'
    BY <1>1, <1>3, <1>4 DEF Consumed, Events
  <1>. QED BY <1>4, <1>5

\* A line is taken: it is the line ahead.
LEMMA LineTaken ==
    ASSUME Body, TakesLine, NEW k, NEW c, Consumed(k, c)
    PROVE  /\ k \in 0 .. Len(Events) /\ k < Len(Events) /\ Len(Events) \in Nat /\ IsEvent(Events[k + 1])
           /\ \E stage, d :
                /\ InStage(Events[k + 1], stage, d) /\ Gathered(Events[k + 1], stage, d)
                /\ c = StartAt(EventTexts, k) + StartOf(Events[k + 1], upstream.eol, stage, d)
                /\ NextLine = LineOf(Events[k + 1], stage, d)
                /\ \A next : next = c + Len(NextLine) + Len(upstream.eol) =>
                     next \in 0 .. pos /\ lineBuf' = SubSeq(text, next + 1, pos)
  <1>1. /\ k \in 0 .. Len(Events) /\ c \in 0 .. pos /\ lineBuf = SubSeq(text, c + 1, pos) /\ Between(k, c)
        /\ Contains(lineBuf, LF)
        /\ lineBuf' = SubSeq(lineBuf, Len(LineAt(lineBuf, 1)) + 2, Len(lineBuf))
    BY DEF Consumed, TakesLine
  <1>2. GoodEvents(Events, upstream.eol) /\ Len(Events) \in Nat /\ pos \in Nat
    BY BodyIs
  <1>3. k < Len(Events)
    <2>1. CASE k = Len(Events)
      <3>1. c = Len(text)
        BY <1>1, <1>2, <2>1 DEF Between
      <3>. QED BY <1>1, <3>1, NothingAhead
    <2>. QED BY <1>1, <1>2, <2>1
  <1>4. PICK stage, d : /\ InStage(Events[k + 1], stage, d) /\ Gathered(Events[k + 1], stage, d)
                        /\ c = StartAt(EventTexts, k) + StartOf(Events[k + 1], upstream.eol, stage, d)
    BY <1>1, <1>3 DEF Between
  <1> DEFINE body == LineOf(Events[k + 1], stage, d)
             next == c + Len(body) + Len(upstream.eol)
  <1> HIDE DEF body, next
  <1>5. k # Len(Events) /\ k + 1 \in 1 .. Len(Events)
    BY <1>1, <1>2, <1>3
  <1>6. /\ NextLine = body /\ next <= pos /\ next \in Nat
        /\ lineBuf' = SubSeq(text, next + 1, pos)
    <2>1. /\ Contains(lineBuf, LF) <=> next <= pos
          /\ Contains(lineBuf, LF) =>
               /\ NextLine = body
               /\ SubSeq(lineBuf, Len(LineAt(lineBuf, 1)) + 2, Len(lineBuf)) = SubSeq(text, next + 1, pos)
          /\ next \in Nat
      BY <1>1, <1>4, <1>5, AheadIs DEF body, next
    <2>. QED BY <1>1, <2>1
  <1>7. IsEvent(Events[k + 1])
    BY <1>2, <1>5 DEF GoodEvents
  <1>8. \A m : m = c + Len(NextLine) + Len(upstream.eol) => m \in 0 .. pos /\ lineBuf' = SubSeq(text, m + 1, pos)
    BY <1>2, <1>6 DEF next
  <1>. QED BY <1>1, <1>2, <1>3, <1>4, <1>6, <1>7, <1>8 DEF body

LEMMA ConsumeLineKeeps ==
    ASSUME TranslatorInv, ConsumeLine
    PROVE  TranslatorInv'
  <1>1. /\ TakesLine /\ NextLine # <<>> /\ pc = "lines"
        /\ currentEvent' = IF IsField(NextLine, "event") THEN NextLine[1].name ELSE currentEvent
        /\ currentData' = IF ~IsField(NextLine, "data") THEN currentData
                          ELSE IF currentData = <<>> THEN NextLine
                          ELSE currentData \o <<LF>> \o NextLine
        /\ UNCHANGED <<upstream, text, pos, id, pc, wire>>
    BY DEF ConsumeLine, TakesLine
  <1>a. /\ NextLine[1].t = "event" => currentEvent' = NextLine[1].name
        /\ NextLine[1].t # "event" => currentEvent' = currentEvent
        /\ NextLine[1].t # "data" => currentData' = currentData
        /\ NextLine[1].t = "data" =>
             currentData' = IF currentData = <<>> THEN NextLine ELSE currentData \o <<LF>> \o NextLine
    <2> DEFINE t == NextLine[1].t
    <2>1. NextLine # <<>>
      BY <1>1
    <2>2. t = "event" => IsField(NextLine, "event")
      BY <2>1, Zenon DEF IsField
    <2>3. t # "event" => ~IsField(NextLine, "event")
      BY Zenon DEF IsField
    <2>4. t # "data" => ~IsField(NextLine, "data")
      BY Zenon DEF IsField
    <2>5. t = "data" => IsField(NextLine, "data")
      BY <2>1, Zenon DEF IsField
    <2> HIDE DEF t
    <2>6. t = "event" => currentEvent' = NextLine[1].name
      BY <1>1, <2>2
    <2>7. t # "event" => currentEvent' = currentEvent
      BY <1>1, <2>3
    <2>8. t # "data" => currentData' = currentData
      BY <1>1, <2>4
    <2>9. t = "data" => currentData' = IF currentData = <<>> THEN NextLine ELSE currentData \o <<LF>> \o NextLine
      BY <1>1, <2>5
    <2>. QED BY <2>6, <2>7, <2>8, <2>9 DEF t
  <1>2. Body /\ Body'
    BY <1>1, StaysBody DEF TranslatorInv
  <1> SUFFICES ASSUME upstream.adapter = "anthropic" PROVE \E k, c : (Consumed(k, c) /\ Said(k))'
    BY <1>1, <1>2 DEF TranslatorInv
  <1>3. PICK k, c : Consumed(k, c) /\ Said(k)
    BY <1>1 DEF TranslatorInv
  <1>4. /\ k \in 0 .. Len(Events) /\ k < Len(Events) /\ Len(Events) \in Nat /\ IsEvent(Events[k + 1])
        /\ \E stage, d :
             /\ InStage(Events[k + 1], stage, d) /\ Gathered(Events[k + 1], stage, d)
             /\ c = StartAt(EventTexts, k) + StartOf(Events[k + 1], upstream.eol, stage, d)
             /\ NextLine = LineOf(Events[k + 1], stage, d)
             /\ \A next : next = c + Len(NextLine) + Len(upstream.eol) =>
                  next \in 0 .. pos /\ lineBuf' = SubSeq(text, next + 1, pos)
    BY <1>1, <1>2, <1>3, LineTaken
  <1>0. PICK e, eol, b : e = Events[k + 1] /\ eol = upstream.eol /\ b = StartAt(EventTexts, k)
    OBVIOUS
  <1>5. PICK stage, d :
             /\ InStage(e, stage, d) /\ Gathered(e, stage, d)
             /\ c = b + StartOf(e, eol, stage, d)
             /\ NextLine = LineOf(e, stage, d)
             /\ \A next : next = c + Len(NextLine) + Len(eol) =>
                  next \in 0 .. pos /\ lineBuf' = SubSeq(text, next + 1, pos)
    BY <1>0, <1>4
  <1>6. PICK next : next = c + Len(NextLine) + Len(eol)
    OBVIOUS
  <1>7. next \in 0 .. pos /\ lineBuf' = SubSeq(text, next + 1, pos)
    BY <1>5, <1>6
  <1>8. /\ eol \in LineEnds /\ IsEvent(e) /\ b \in Nat /\ Len(eol) \in Nat
    <2>1. eol \in LineEnds /\ IsSeqs(EventTexts) /\ Len(EventTexts) = Len(Events)
      BY <1>0, <1>2, BodyIs
    <2>2. k \in 0 .. Len(EventTexts)
      BY <1>4, <2>1
    <2>. QED BY <1>0, <1>4, <2>1, <2>2, PlaceOf, EndIsSeq
  <1> DEFINE start == StartOf(e, eol, stage, d)
             on == start + Len(NextLine) + Len(eol)
  <1>9. start \in Nat /\ Len(NextLine) \in Nat
    BY <1>5, <1>8, LineOfAnEvent
  <1>10. next = b + on
    <2> HIDE DEF start
    <2>1. c = b + start
      BY <1>5 DEF start
    <2>. QED BY <1>6, <1>8, <1>9, <2>1
  <1>11. /\ stage = "comment" /\ e.name # Blank => on = StartOf(e, eol, "name", 0)
         /\ stage = "comment" /\ e.name = Blank => on = StartOf(e, eol, "data", 0)
         /\ stage = "name" => on = StartOf(e, eol, "data", 0)
         /\ stage = "data" /\ d < Len(e.docs) => on = StartOf(e, eol, "data", d + 1)
    <2>1. on = StartOf(e, eol, stage, d) + Len(LineOf(e, stage, d)) + Len(eol)
      BY <1>5
    <2> HIDE DEF on
    <2>. QED BY <1>5, <1>8, <2>1, EventGoesOn
  <1> HIDE DEF start, on
  <1>12. \E st, m : InStage(e, st, m) /\ Gathered(e, st, m)' /\ on = StartOf(e, eol, st, m)
    <2>0. /\ Len(e.docs) \in Nat /\ 0 \in 0 .. Len(e.docs)
      BY <1>8 DEF IsEvent, IsSeq
    <2>1. CASE stage = "comment"
      <3>1. NextLine = <<Comment>> /\ currentEvent = Blank /\ currentData = <<>>
        BY <1>5, <2>1 DEF LineOf, Gathered
      <3>2. NextLine[1].t = "comment"
        BY <3>1, CleanBodies
      <3>3. currentEvent' = Blank /\ currentData' = <<>>
        BY <1>a, <3>1, <3>2
      <3>4. CASE e.name # Blank
        <4>1. InStage(e, "name", 0) /\ Gathered(e, "name", 0)'
          BY <3>3, <3>4 DEF InStage, Gathered
        <4>. QED BY <1>11, <2>1, <3>4, <4>1
      <3>5. CASE e.name = Blank
        <4>1. InStage(e, "data", 0) /\ Gathered(e, "data", 0)'
          BY <2>0, <3>3, <3>5 DEF InStage, Gathered, Holds
        <4>. QED BY <1>11, <2>1, <3>5, <4>1
      <3>. QED BY <3>4, <3>5
    <2>2. CASE stage = "name"
      <3>1. NextLine = <<EventField(e.name)>> /\ currentData = <<>>
        BY <1>5, <2>2 DEF LineOf, Gathered
      <3>2. NextLine[1].t = "event" /\ NextLine[1].name = e.name
        BY <3>1, CleanBodies
      <3>3. currentEvent' = e.name /\ currentData' = <<>>
        BY <1>a, <3>1, <3>2
      <3>4. InStage(e, "data", 0) /\ Gathered(e, "data", 0)'
        BY <2>0, <3>3 DEF InStage, Gathered, Holds
      <3>. QED BY <1>11, <2>2, <3>4
    <2>3. CASE stage = "data"
      <3>1. d \in 0 .. Len(e.docs) /\ currentEvent = e.name /\ Holds(currentData, e.docs, d)
        BY <1>5, <2>3 DEF InStage, Gathered
      <3>2. d < Len(e.docs) /\ NextLine = DataLine(e.docs[d + 1])
        BY <1>1, <1>5, <2>3 DEF LineOf
      <3>3. NextLine[1].t = "data"
        BY <3>2, CleanBodies
      <3>4. currentEvent' = e.name
        BY <1>a, <3>1, <3>3
      <3>5. currentData' = IF currentData = <<>> THEN NextLine ELSE currentData \o <<LF>> \o NextLine
        BY <1>a, <3>3
      <3>6. d \in Nat /\ d + 1 \in 0 .. Len(e.docs)
        BY <2>0, <3>1, <3>2
      <3>7. Holds(currentData', e.docs, d + 1)
        BY <3>1, <3>2, <3>5, <3>6, HoldsMore
      <3>8. InStage(e, "data", d + 1) /\ Gathered(e, "data", d + 1)'
        BY <3>4, <3>6, <3>7 DEF InStage, Gathered
      <3>. QED BY <1>11, <2>3, <3>2, <3>8
    <2>. QED BY <1>5, <2>1, <2>2, <2>3 DEF InStage
  <1>13. Between(k, next)'
    <2>1. PICK st, m : InStage(e, st, m) /\ Gathered(e, st, m)' /\ on = StartOf(e, eol, st, m)
      BY <1>12
    <2>2. next = b + StartOf(e, eol, st, m)
      BY <1>10, <2>1
    <2>3. upstream' = upstream /\ k < Len(Events)
      BY <1>1, <1>4
    <2>. QED BY <1>0, <2>1, <2>2, <2>3 DEF Between, EventTexts, Events
  <1>14. Consumed(k, next)'
    BY <1>1, <1>4, <1>7, <1>13 DEF Consumed, Events
  <1>15. Said(k)'
    BY <1>1, <1>3, StaysSaid
  <1>. QED BY <1>14, <1>15

\* The events the translator gives up at are those of no document.
LEMMA FatalIsMalformed ==
    ASSUME NEW e, IsEvent(e), currentEvent = e.name, Holds(currentData, e.docs, Len(e.docs)), Fatal(e)
    PROVE  Malformed
  <1>1. Len(e.docs) \in Nat /\ e.name \in Parsed /\ e.name # Blank
    BY BlankSaysNothing DEF IsEvent, IsSeq, Fatal
  <1>2. CASE Len(e.docs) > 1
    <2>1. Scattered(currentData)
      BY <1>1, <1>2 DEF Holds
    <2>2. currentData # <<>> /\ Json(currentData) = Bad
      BY <2>1, ScatteredIsBad DEF Scattered, IsSeq
    <2>. QED BY <1>1, <2>2 DEF Malformed, Pending
  <1>3. CASE ~(Len(e.docs) > 1)
    <2>1. PICK i \in 1 .. Len(e.docs) : e.docs[i] = Bad \/ e.docs[i] = Done
      <3>1. Contains(e.docs, Bad) \/ Contains(e.docs, Done)
        BY <1>3, Zenon DEF Fatal
      <3>. QED BY <3>1 DEF Contains
    <2>2. Len(e.docs) = 1 /\ i = 1
      <3> DEFINE n == Len(e.docs)
      <3>1. n \in Nat /\ ~(n > 1) /\ i \in 1 .. n
        BY <1>1, <1>3
      <3> HIDE DEF n
      <3>2. n = 1 /\ i = 1
        BY <3>1
      <3>. QED BY <3>2 DEF n
    <2>3. currentData = DataLine(e.docs[1]) /\ (e.docs[1] = Bad \/ e.docs[1] = Done)
      BY <2>1, <2>2 DEF Holds
    <2>4. Json(currentData) = Bad
      BY <2>3, OneDocument
    <2>5. currentData # <<>>
      BY <2>3, CleanBodies
    <2>. QED BY <1>1, <2>4, <2>5 DEF Malformed, Pending
  <1>. QED BY <1>2, <1>3

\* What the end of an event makes the translator write and remember is what the
\* event means.
LEMMA EndOfEvent ==
    ASSUME upstream.adapter = "anthropic", NEW k \in Nat, IsEvent(Events[k + 1]),
           currentEvent = Events[k + 1].name,
           Holds(currentData, Events[k + 1].docs, Len(Events[k + 1].docs)),
           ~Malformed, id = IdAt(k + 1)
    PROVE  /\ ~Fatal(Events[k + 1])
           /\ Written(Meaning(k + 1))
                = IF Pending THEN Written(ChunksOf(currentEvent, Json(currentData), id)) ELSE <<>>
           /\ IdAt(k + 2) = IF Pending /\ currentEvent = "message_start" THEN Json(currentData).id ELSE id
  <1> DEFINE e == Events[k + 1]
  <1>1. ~Fatal(e)
    BY FatalIsMalformed
  <1>2. Meaning(k + 1) = IF e.docs = <<>> THEN <<>> ELSE ChunksOf(e.name, e.docs[1], IdAt(k + 1))
    <2>1. upstream.adapter # "openai"
      OBVIOUS
    <2>. QED BY <2>1 DEF Meaning
  <1>3. IdAt(k + 2) = IF e.name = "message_start" /\ e.docs # <<>> THEN e.docs[1].id ELSE IdAt(k + 1)
    BY IdNext
  <1> HIDE DEF e
  <1>4. /\ currentEvent = e.name /\ Holds(currentData, e.docs, Len(e.docs)) /\ Len(e.docs) \in Nat
        /\ e.docs = <<>> <=> Len(e.docs) = 0
    BY DEF IsEvent, IsSeq, e
  <1>5. currentData = <<>> <=> e.docs = <<>>
    <2>1. CASE Len(e.docs) = 0
      BY <1>4, <2>1 DEF Holds
    <2>2. CASE Len(e.docs) = 1
      BY <1>4, <2>2, CleanBodies DEF Holds
    <2>3. CASE Len(e.docs) >= 2
      <3>1. Scattered(currentData)
        BY <1>4, <2>3 DEF Holds
      <3>2. currentData # <<>>
        BY <3>1 DEF Scattered, IsSeq
      <3>. QED BY <1>4, <2>3, <3>2
    <2>4. Len(e.docs) = 0 \/ Len(e.docs) = 1 \/ Len(e.docs) >= 2
      <3> DEFINE n == Len(e.docs)
      <3>1. n \in Nat
        BY <1>4
      <3> HIDE DEF n
      <3>2. n = 0 \/ n = 1 \/ n >= 2
        BY <3>1
      <3>. QED BY <3>2 DEF n
    <2>. QED BY <2>1, <2>2, <2>3, <2>4
  <1>6. Written(<<>>) = <<>>
    BY DEF Written
  <1>7. CASE ~Pending
    <2>1. e.name = Blank \/ e.docs = <<>>
      BY <1>4, <1>5, <1>7 DEF Pending
    <2>2. Meaning(k + 1) = <<>>
      BY <1>2, <2>1, BlankSaysNothing
    <2>3. ~(e.name = "message_start" /\ e.docs # <<>>)
      BY <2>1, BlankIsNoName
    <2>4. IdAt(k + 2) = id
      BY <1>3, <2>3
    <2>. QED BY <1>1, <1>6, <1>7, <2>2, <2>4 DEF e
  <1>8. CASE Pending
    <2>1. e.docs # <<>> /\ currentEvent = e.name
      BY <1>4, <1>5, <1>8 DEF Pending
    <2>2. CASE e.name \in Parsed
      <3>1. Len(e.docs) = 1 /\ e.docs[1] # Done
        <4>1. ~(Len(e.docs) > 1) /\ ~Contains(e.docs, Done)
          BY <1>1, <2>2, Zenon DEF Fatal
        <4>2. Len(e.docs) = 1
          <5> DEFINE n == Len(e.docs)
          <5>1. n \in Nat /\ n # 0 /\ ~(n > 1)
            BY <1>4, <2>1, <4>1
          <5> HIDE DEF n
          <5>2. n = 1
            BY <5>1
          <5>. QED BY <5>2 DEF n
        <4>. QED BY <4>1, <4>2 DEF Contains
      <3>2. currentData = DataLine(e.docs[1])
        BY <1>4, <3>1 DEF Holds
      <3>3. Json(currentData) = e.docs[1]
        BY <3>1, <3>2, OneDocument
      <3>4. Meaning(k + 1) = ChunksOf(currentEvent, Json(currentData), id)
        BY <1>2, <2>1, <3>3
      <3>5. IdAt(k + 2) = IF currentEvent = "message_start" THEN Json(currentData).id ELSE id
        BY <1>3, <2>1, <3>3
      <3>. QED BY <1>1, <1>8, <3>4, <3>5 DEF e
    <2>3. CASE e.name \notin Parsed
      <3>1. e.name # "message_start" /\ e.name # "content_block_delta" /\ e.name # "message_delta"
        BY <2>3 DEF Parsed
      <3>2. \A x, y, i : ChunksOf(e.name, x, i) = ChunksOf(e.name, y, i)
        BY <3>1 DEF ChunksOf
      <3>3. Meaning(k + 1) = ChunksOf(currentEvent, Json(currentData), id)
        BY <1>2, <2>1, <3>2
      <3>4. IdAt(k + 2) = id /\ currentEvent # "message_start"
        BY <1>3, <2>1, <3>1
      <3>. QED BY <1>1, <1>8, <3>3, <3>4 DEF e
    <2>. QED BY <2>2, <2>3
  <1>. QED BY <1>7, <1>8

LEMMA DispatchKeeps ==
    ASSUME TranslatorInv, Dispatch
    PROVE  TranslatorInv'
  <1>1. /\ TakesLine /\ NextLine = <<>> /\ ~Malformed /\ pc = "lines"
        /\ Pending => /\ id' = IF currentEvent = "message_start" THEN Json(currentData).id ELSE id
                      /\ wire' = wire \o Written(ChunksOf(currentEvent, Json(currentData), id))
        /\ ~Pending => UNCHANGED <<id, wire>>
        /\ currentEvent' = Blank /\ currentData' = <<>>
        /\ UNCHANGED <<upstream, text, pos, pc>>
    BY DEF Dispatch, TakesLine
  <1>2. Body /\ Body'
    BY <1>1, StaysBody DEF TranslatorInv
  <1> SUFFICES ASSUME upstream.adapter = "anthropic" PROVE \E k, c : (Consumed(k, c) /\ Said(k))'
    BY <1>1, <1>2 DEF TranslatorInv
  <1>3. PICK k, c : Consumed(k, c) /\ Said(k)
    BY <1>1 DEF TranslatorInv
  <1>4. /\ k \in 0 .. Len(Events) /\ k < Len(Events) /\ Len(Events) \in Nat /\ IsEvent(Events[k + 1])
        /\ \E stage, d :
             /\ InStage(Events[k + 1], stage, d) /\ Gathered(Events[k + 1], stage, d)
             /\ c = StartAt(EventTexts, k) + StartOf(Events[k + 1], upstream.eol, stage, d)
             /\ NextLine = LineOf(Events[k + 1], stage, d)
             /\ \A next : next = c + Len(NextLine) + Len(upstream.eol) =>
                  next \in 0 .. pos /\ lineBuf' = SubSeq(text, next + 1, pos)
    BY <1>1, <1>2, <1>3, LineTaken
  <1>0. PICK e, eol : e = Events[k + 1] /\ eol = upstream.eol
    OBVIOUS
  <1>5. PICK stage, d :
             /\ InStage(e, stage, d) /\ Gathered(e, stage, d)
             /\ c = StartAt(EventTexts, k) + StartOf(e, eol, stage, d)
             /\ NextLine = LineOf(e, stage, d)
             /\ \A next : next = c + Len(NextLine) + Len(eol) =>
                  next \in 0 .. pos /\ lineBuf' = SubSeq(text, next + 1, pos)
    BY <1>0, <1>4
  <1>6. PICK next : next = c + Len(NextLine) + Len(eol)
    OBVIOUS
  <1>7. next \in 0 .. pos /\ lineBuf' = SubSeq(text, next + 1, pos)
    BY <1>5, <1>6
  <1>8. /\ eol \in LineEnds /\ IsEvent(e) /\ Len(eol) \in Nat /\ Len(e.docs) \in Nat
        /\ IsSeqs(EventTexts) /\ Len(EventTexts) = Len(Events) /\ k \in Nat
        /\ EventTexts[k + 1] = EventText(e, eol)
        /\ Len(text) = StartAt(EventTexts, Len(Events))
    <2>1. /\ eol \in LineEnds /\ IsSeqs(EventTexts) /\ Len(EventTexts) = Len(Events)
          /\ GoodEvents(Events, eol) /\ Len(text) = StartAt(EventTexts, Len(Events))
      BY <1>0, <1>2, BodyIs
    <2>2. k + 1 \in 1 .. Len(Events) /\ k \in Nat
      BY <1>4
    <2>3. EventTexts[k + 1] = EventText(e, eol)
      BY <1>0, <2>1, <2>2, TextsAre DEF EventTexts
    <2>. QED BY <1>0, <1>4, <2>1, <2>2, <2>3, EndIsSeq DEF IsEvent, IsSeq
  \* The empty line is the last of the event.
  <1>9. stage = "data" /\ d = Len(e.docs)
    <2>1. stage # "comment" /\ stage # "name"
      BY <1>1, <1>5, CleanBodies DEF LineOf
    <2>2. stage = "data" /\ d \in 0 .. Len(e.docs)
      BY <1>5, <2>1 DEF InStage
    <2>3. ~(d < Len(e.docs))
      BY <1>1, <1>5, <2>2, CleanBodies DEF LineOf
    <2> DEFINE n == Len(e.docs)
    <2>4. n \in Nat /\ d \in 0 .. n /\ ~(d < n)
      BY <1>8, <2>2, <2>3
    <2> HIDE DEF n
    <2>5. d = n
      BY <2>4
    <2>. QED BY <2>2, <2>5 DEF n
  <1>10. next = StartAt(EventTexts, k + 1) /\ StartAt(EventTexts, k + 1) \in Nat
    <2> DEFINE start == StartOf(e, eol, stage, d)
               w == Len(NextLine)
               t == EventText(e, eol)
               b == StartAt(EventTexts, k)
               a == StartAt(EventTexts, k + 1)
    <2>1. start \in Nat /\ w \in Nat
      BY <1>5, <1>8, LineOfAnEvent
    <2>2. start + w + Len(eol) = Len(t)
      <3>1. w = Len(LineOf(e, stage, d))
        BY <1>5
      <3> HIDE DEF start, w, t
      <3>2. \A x : x = start + w + Len(eol) => x = Len(t)
        BY <1>5, <1>8, <1>9, <3>1, EventGoesOn DEF start, t
      <3>. QED BY <3>2
    <2>3. k \in 0 .. Len(EventTexts) /\ k + 1 \in 1 .. Len(EventTexts) /\ (k + 1) - 1 = k
          /\ k + 1 \in 0 .. Len(EventTexts)
      BY <1>4, <1>8
    <2>4. b \in Nat /\ a \in Nat /\ a = b + Len(t)
      <3> HIDE DEF t
      <3>1. StartAt(EventTexts, k + 1) = StartAt(EventTexts, (k + 1) - 1) + Len(EventTexts[k + 1])
        BY <1>8, <2>3, PlaceOf
      <3>2. StartAt(EventTexts, k) \in Nat /\ StartAt(EventTexts, k + 1) \in Nat
        BY <1>8, <2>3, PlaceOf
      <3>. QED BY <1>8, <2>3, <3>1, <3>2 DEF t
    <2>5. c = b + start /\ next = c + w + Len(eol)
      BY <1>5, <1>6
    <2> HIDE DEF start, w, t, b, a
    <2>6. next = a
      BY <1>8, <2>1, <2>2, <2>4, <2>5
    <2>. QED BY <2>4, <2>6 DEF a
  \* What it means has been told, and the next event is begun.
  <1>11. Said(k + 1)'
    <2>1. /\ \A i \in 1 .. k : ~Fatal(Events[i])
          /\ id = IdAt(k + 1) /\ wire = Told(k)
      BY <1>3 DEF Said
    <2>2. currentEvent = e.name /\ Holds(currentData, e.docs, Len(e.docs))
      BY <1>5, <1>9 DEF Gathered
    <2>3. /\ ~Fatal(Events[k + 1])
          /\ Written(Meaning(k + 1))
               = IF Pending THEN Written(ChunksOf(currentEvent, Json(currentData), id)) ELSE <<>>
          /\ IdAt(k + 2) = IF Pending /\ currentEvent = "message_start" THEN Json(currentData).id ELSE id
      BY <1>0, <1>1, <1>4, <1>8, <2>1, <2>2, EndOfEvent
    <2>4. \A i \in 1 .. k + 1 : ~Fatal(Events[i])
      <3>1. \A i \in 1 .. k + 1 : i \in 1 .. k \/ i = k + 1
        BY <1>8
      <3>. QED BY <2>1, <2>3, <3>1
    <2>5. Told(k + 1) = Told(k) \o Written(Meaning(k + 1)) /\ IsSeq(Told(k))
      BY <1>8, <2>4, ToldNext
    <2>6. wire' = Told(k + 1) /\ id' = IdAt(k + 2)
      <3>1. CASE Pending
        <4>1. wire' = wire \o Written(Meaning(k + 1))
          BY <1>1, <2>3, <3>1
        <4>2. id' = IdAt(k + 2)
          BY <1>1, <2>3, <3>1
        <4>. QED BY <2>1, <2>5, <4>1, <4>2
      <3>2. CASE ~Pending
        <4>1. Written(Meaning(k + 1)) = <<>> /\ IdAt(k + 2) = id
          BY <2>3, <3>2
        <4>2. Told(k) \o <<>> = Told(k)
          BY <2>5 DEF IsSeq
        <4>3. wire' = wire /\ id' = id
          BY <1>1, <3>2
        <4>. QED BY <2>1, <2>5, <4>1, <4>2, <4>3
      <3>. QED BY <3>1, <3>2
    <2>7. Told(k + 1)' = Told(k + 1) /\ IdAt(k + 2)' = IdAt(k + 2) /\ Events' = Events
      BY <1>1, SameAnswer DEF Events
    <2>8. (k + 1) + 1 = k + 2
      BY <1>8
    <2>. QED BY <2>4, <2>6, <2>7, <2>8 DEF Said
  <1>12. Between(k + 1, next)'
    <2>1. CASE k + 1 = Len(Events)
      <3>1. next = Len(text)
        BY <1>8, <1>10, <2>1
      <3>. QED BY <1>1, <2>1, <3>1 DEF Between, Events
    <2>2. CASE k + 1 # Len(Events)
      <3>0. k + 1 < Len(Events) /\ (k + 1) + 1 \in 1 .. Len(Events)
        BY <1>4, <2>2
      <3>1. PICK f : f = Events[(k + 1) + 1]
        OBVIOUS
      <3>2. IsEvent(f)
        <4>1. GoodEvents(Events, eol)
          BY <1>0, <1>2, BodyIs
        <4>. QED BY <3>0, <3>1, <4>1 DEF GoodEvents
      <3>3. PICK st \in {"comment", "name", "data"} :
              InStage(f, st, 0) /\ StartOf(f, eol, st, 0) = 0 /\ (st = "data" => f.name = Blank)
        BY <1>8, <3>2, EventStarts
      <3>4. Gathered(f, st, 0)'
        BY <1>1, <3>3 DEF Gathered, Holds
      <3>5. next = StartAt(EventTexts, k + 1) + StartOf(f, eol, st, 0)
        BY <1>10, <3>3
      <3>6. upstream' = upstream
        BY <1>1
      <3>. QED BY <1>0, <3>0, <3>1, <3>3, <3>4, <3>5, <3>6 DEF Between, EventTexts, Events
    <2>. QED BY <2>1, <2>2
  <1>13. Consumed(k + 1, next)'
    <2>1. k + 1 \in 0 .. Len(Events)
      BY <1>4
    <2>. QED BY <1>1, <1>7, <1>12, <2>1 DEF Consumed, Events
  <1>. QED BY <1>11, <1>13

LEMMA StepKeepsTranslator == TranslatorInv /\ [Next]_vars => TranslatorInv'
  <1> SUFFICES ASSUME TranslatorInv, [Next]_vars PROVE TranslatorInv'
    OBVIOUS
  <1>1. CASE ReaderStep \/ ReaderAborts \/ UNCHANGED vars
    <2>1. UNCHANGED <<upstream, text, pos, lineBuf, currentEvent, currentData, id, pc, wire>>
      BY <1>1 DEF ReaderStep, ReaderAborts, vars, gatewayVars, translator
    <2>2. Body'
      BY <2>1, StaysBody DEF TranslatorInv
    <2>3. ASSUME NEW k, NEW c, Consumed(k, c), Said(k) PROVE Consumed(k, c)' /\ Said(k)'
      <3>1. Between(k, c)'
        BY <2>1, <2>3, StaysBetween DEF Consumed
      <3>2. Said(k)'
        BY <2>1, <2>3, StaysSaid
      <3>. QED BY <2>1, <2>3, <3>1, <3>2 DEF Consumed, Events
    <2>. QED BY <2>1, <2>2, <2>3 DEF TranslatorInv
  <1>2. CASE \E n \in 1 .. (Len(text) - pos) : Read(n)
    BY <1>2, ReadKeeps
  <1>3. CASE Eof \/ Fail
    <2>1. pc' = "over" /\ UNCHANGED <<upstream, text, pos>>
      BY <1>3 DEF Eof, Fail
    <2>2. Body'
      BY <2>1, StaysBody DEF TranslatorInv
    <2>. QED BY <2>1, <2>2 DEF TranslatorInv
  <1>. QED BY <1>1, <1>2, <1>3, ConsumeLineKeeps, DispatchKeeps, AwaitMoreKeeps DEF Next, GatewayStep, Gateway

LEMMA StartsTranslator == Init => TranslatorInv
  <1> SUFFICES ASSUME Init PROVE TranslatorInv
    OBVIOUS
  <1>1. /\ upstream \in Answers /\ text = TextOf(upstream.events, upstream.eol)
        /\ pos = 0 /\ lineBuf = <<>> /\ currentEvent = Blank /\ currentData = <<>>
        /\ id = Blank /\ wire = <<>>
    BY DEF Init, GatewayInit
  <1>2. GoodEvents(Events, upstream.eol) /\ text = TextOf(Events, upstream.eol)
    BY <1>1, AnswersAreGood DEF Events
  <1>3. /\ IsSeqs(EventTexts) /\ Len(EventTexts) = Len(Events) /\ text = FlattenSeq(EventTexts)
        /\ Len(Events) \in Nat
    BY <1>2, TextsAre DEF EventTexts, GoodEvents
  <1>4. IsSeq(text) /\ Len(text) = StartAt(EventTexts, Len(Events)) /\ StartAt(EventTexts, 0) = 0
    BY <1>3, PlaceOf
  <1>5. Len(text) \in Nat /\ text \in Seq(ToSet(text))
    BY <1>4 DEF IsSeq
  <1>6. Body
    BY <1>1, <1>2, <1>5 DEF Body
  <1>7. Between(0, 0)
    <2>1. CASE Len(Events) = 0
      BY <1>1, <1>4, <2>1 DEF Between
    <2>2. CASE Len(Events) # 0
      <3>1. 0 < Len(Events) /\ 0 + 1 \in 1 .. Len(Events)
        BY <1>3, <2>2
      <3>2. IsEvent(Events[0 + 1]) /\ upstream.eol \in LineEnds
        BY <1>2, <3>1 DEF GoodEvents
      <3>3. PICK st \in {"comment", "name", "data"} :
              /\ InStage(Events[0 + 1], st, 0) /\ StartOf(Events[0 + 1], upstream.eol, st, 0) = 0
              /\ st = "data" => Events[0 + 1].name = Blank
        BY <3>2, EventStarts
      <3>4. Gathered(Events[0 + 1], st, 0)
        BY <1>1, <3>3 DEF Gathered, Holds
      <3>5. 0 = StartAt(EventTexts, 0) + StartOf(Events[0 + 1], upstream.eol, st, 0)
        BY <1>4, <3>3
      <3>. QED BY <3>1, <3>3, <3>4, <3>5 DEF Between
    <2>. QED BY <2>1, <2>2
  <1>8. ASSUME upstream.adapter = "anthropic" PROVE Said(0)
    <2>1. \A i \in 1 .. 0 : ~Fatal(Events[i])
      OBVIOUS
    <2>2. IdAt(0 + 1) = Blank
      <3>1. {j \in 1 .. ((0 + 1) - 1) : Events[j].name = "message_start" /\ Events[j].docs # <<>>} = {}
        OBVIOUS
      <3>. QED BY <3>1 DEF IdAt
    <2>3. Told(0) = <<>>
      <3>1. Upto(0) = 0
        BY <1>8, <2>1, UptoIs
      <3>2. ChunksUpto(0) = <<>>
        <4>1. [i \in 1 .. 0 |-> Meaning(i)] = <<>> /\ Len(<<>>) = 0
          OBVIOUS
        <4>. QED BY <3>1, <4>1, FlattenEmpty DEF ChunksUpto
      <3>3. [i \in 1 .. Len(ChunksUpto(0)) |-> EventOf(ChunksUpto(0)[i])] = <<>> /\ Len(<<>>) = 0
        BY <3>2
      <3>. QED BY <3>3, FlattenEmpty DEF Told
    <2>. QED BY <1>1, <2>1, <2>2, <2>3 DEF Said
  <1>9. Consumed(0, 0)
    <2>1. lineBuf = SubSeq(text, 0 + 1, pos)
      BY <1>1, <1>5
    <2>2. ~Contains(lineBuf, LF)
      BY <1>1 DEF Contains
    <2>. QED BY <1>1, <1>3, <1>7, <2>1, <2>2 DEF Consumed
  <1>. QED BY <1>6, <1>8, <1>9 DEF TranslatorInv

\* Proxy.streamResponse and the Anthropic Translate: whenever the translator waits for
\* more bytes it has written the chunks of the events that arrived whole, wherever the
\* reads cut the text, with comments, unnamed events and several data lines in between.
THEOREM TranslationLeavesNoTrace == FairSpec => []TranslatedSoFar
  BY StartsTranslator, StepKeepsTranslator, InvIsTranslated, PTL DEF FairSpec
================================================================================
