--------------------------- MODULE RateLimiterProofs ---------------------------
(***************************************************************************)
(* Proofs about RateLimiter, for every limit, window, skew, delay and      *)
(* number of requests.                                                     *)
(*                                                                         *)
(* BucketsAgree carries the argument: a member leaves the set by a reading *)
(* that is at most Skew ahead, and its own score is at most Delay behind,  *)
(* so what was let in less than Window - Drift ago is still there and the  *)
(* size of the set bounds what was let in.                                 *)
(***************************************************************************)
EXTENDS RateLimiter, FiniteSetTheorems, TLAPS

\* What Redis holds, apart from the calls under way.
RedisInv == BucketsAgree /\ WithinLimit /\ WindowBound

\* The readings of a period are the image of finitely many entries.
LEMMA PeriodsAreFinite ==
    ASSUME NEW k \in Keys, IsFiniteSet(admitted[k]), NEW t, NEW u
    PROVE  IsFiniteSet(AdmittedIn(k, t, u))
  <1> DEFINE S == {b \in admitted[k] : t <= b.at /\ b.at <= u}
             f == [b \in S |-> b.stamp]
  <1>1. IsFiniteSet(S)
    BY FS_Subset
  <1>2. f \in Surjection(S, AdmittedIn(k, t, u))
    BY DEF AdmittedIn, Surjection
  <1> QED
    BY <1>1, <1>2, FS_Surjection

LEMMA InitEstablishes == Init => RateInv
  <1> SUFFICES ASSUME Init PROVE RateInv
    OBVIOUS
  <1> USE DEF Init
  <1>1. NoCall \in [key: Keys, stamp: Instants, at: Time]
    BY RateAssumption DEF NoCall, Instants, Time
  <1>2. TypeOK
    BY <1>1, RateAssumption DEF TypeOK, Time
  <1>3. CallsAreRecent
    BY DEF CallsAreRecent
  <1>4. BucketsAgree
    BY FS_EmptySet DEF BucketsAgree
  <1>5. WithinLimit
    BY FS_EmptySet, RateAssumption DEF WithinLimit
  <1>6. WindowBound
    <2> SUFFICES ASSUME NEW k \in Keys, NEW t \in Time, NEW u \in Time
                 PROVE  Cardinality(AdmittedIn(k, t, u)) <= LimitOf[k]
      BY DEF WindowBound
    <2>1. AdmittedIn(k, t, u) = {}
      BY DEF AdmittedIn
    <2> QED
      BY <2>1, FS_EmptySet, RateAssumption
  <1> QED
    BY <1>2, <1>3, <1>4, <1>5, <1>6 DEF RateInv

-----------------------------------------------------------------------------
\* What the script sees: the members that are still in the window of the
\* reading r sends, and among them everything let in of late.
LEMMA PrunedFacts ==
    ASSUME RateInv, NEW r \in Requests, pc[r] = "eval", NEW k, k = call[r].key
    PROVE  /\ k \in Keys /\ call[r].stamp \in Instants
           /\ Pruned(r) \subseteq bucket[k] /\ IsFiniteSet(Pruned(r))
           /\ \A a \in admitted[k] :
                 now - a.at < Window - Drift => a.stamp \in Pruned(r)
           /\ \A i \in Pruned(r) :
                 \E a \in admitted[k] : a.stamp = i /\ now - Window - Drift <= a.at
  <1>1. /\ k \in Keys /\ call[r].stamp \in Instants /\ call[r].at \in Int
        /\ call[r].stamp.ms \in Int /\ now \in Int /\ expiresAt[k] \in Int
        /\ Skew \in Nat /\ Delay \in Nat /\ Window \in Nat
    BY RateAssumption DEF RateInv, TypeOK, Instants, Time
  <1>2. Drift = Skew + Delay
    BY DEF Drift
  <1>3. /\ call[r].at <= now /\ now <= call[r].at + Delay
        /\ call[r].at <= call[r].stamp.ms /\ call[r].stamp.ms <= call[r].at + Skew
    BY DEF RateInv, CallsAreRecent
  <1>4. Pruned(r) \subseteq bucket[k]
    BY DEF Pruned, Live
  <1>5. IsFiniteSet(Pruned(r))
    BY <1>1, <1>4, FS_Subset DEF RateInv, WithinLimit
  <1>6. ASSUME NEW a \in admitted[k] PROVE a.at \in Int /\ a.stamp.ms \in Int
    BY <1>1 DEF RateInv, TypeOK, Instants, Time
  <1>7. ASSUME NEW a \in admitted[k], now - a.at < Window - Drift
        PROVE  a.stamp \in Pruned(r)
    <2>1. /\ a.at - Delay <= a.stamp.ms /\ a.at + Window <= expiresAt[k]
          /\ a.stamp \in bucket[k]
      BY <1>1, <1>7 DEF RateInv, BucketsAgree
    <2>2. now < expiresAt[k]
      BY <1>1, <1>2, <1>6, <1>7, <2>1
    <2>3. a.stamp.ms > call[r].stamp.ms - Window
      BY <1>1, <1>2, <1>3, <1>6, <1>7, <2>1
    <2> QED
      BY <2>1, <2>2, <2>3 DEF Pruned, Live
  <1>8. ASSUME NEW i \in Pruned(r)
        PROVE  \E a \in admitted[k] : a.stamp = i /\ now - Window - Drift <= a.at
    <2>1. i \in bucket[k] /\ i.ms > call[r].stamp.ms - Window
      BY <1>4 DEF Pruned
    <2>2. PICK a \in admitted[k] : a.stamp = i
      BY <1>1, <2>1 DEF RateInv, BucketsAgree
    <2>3. a.stamp.ms <= a.at + Skew
      BY <1>1 DEF RateInv, BucketsAgree
    <2>4. now - Window - Drift <= a.at
      BY <1>1, <1>2, <1>3, <1>6, <2>1, <2>2, <2>3
    <2> QED
      BY <2>2, <2>4
  <1> QED
    BY <1>1, <1>4, <1>5, <1>7, <1>8

\* Letting a request in keeps the books, and the bound on every period.
LEMMA AddKeeps ==
    ASSUME RateInv, NEW r \in Requests, pc[r] = "eval", HasRoom(r), Add(r), now' = now
    PROVE  /\ RedisInv'
           /\ bucket' \in [Keys -> SUBSET Instants]
           /\ expiresAt' \in [Keys -> 0..(MaxTime + Window)]
           /\ admitted' \in [Keys -> SUBSET [stamp: Instants, at: Time]]
  <1> DEFINE k == call[r].key
             new == [stamp |-> call[r].stamp, at |-> now]
  <1>1. /\ k \in Keys /\ call[r].stamp \in Instants
        /\ Pruned(r) \subseteq bucket[k] /\ IsFiniteSet(Pruned(r))
        /\ \A a \in admitted[k] :
              now - a.at < Window - Drift => a.stamp \in Pruned(r)
    BY PrunedFacts
  <1>2. /\ now \in Time /\ now \in Int /\ call[r].at \in Int /\ call[r].stamp.ms \in Int
        /\ Skew \in Nat /\ Delay \in Nat /\ Window \in Nat \ {0} /\ MaxTime \in Nat
        /\ Drift = Skew + Delay /\ LimitOf[k] \in Nat
    BY <1>1, RateAssumption DEF RateInv, TypeOK, Instants, Time, Drift
  <1>3. /\ bucket' = [bucket EXCEPT ![k] = Pruned(r) \cup {call[r].stamp}]
        /\ expiresAt' = [expiresAt EXCEPT ![k] = now + Window]
        /\ admitted' = [admitted EXCEPT ![k] = @ \cup {new}]
    BY DEF Add
  <1>4. /\ bucket \in [Keys -> SUBSET Instants]
        /\ expiresAt \in [Keys -> 0..(MaxTime + Window)]
        /\ admitted \in [Keys -> SUBSET [stamp: Instants, at: Time]]
    BY DEF RateInv, TypeOK
  <1>5. /\ bucket' \in [Keys -> SUBSET Instants]
        /\ admitted' \in [Keys -> SUBSET [stamp: Instants, at: Time]]
    BY <1>1, <1>2, <1>3, <1>4
  <1>6. expiresAt' \in [Keys -> 0..(MaxTime + Window)]
    <2>1. now + Window \in 0..(MaxTime + Window)
      BY <1>2 DEF Time
    <2> QED
      BY <1>3, <1>4, <2>1
  <1>7. /\ bucket'[k] = Pruned(r) \cup {call[r].stamp}
        /\ expiresAt'[k] = now + Window
        /\ admitted'[k] = admitted[k] \cup {new}
        /\ \A j \in Keys : j # k => /\ bucket'[j] = bucket[j]
                                    /\ expiresAt'[j] = expiresAt[j]
                                    /\ admitted'[j] = admitted[j]
    BY <1>1, <1>3, <1>4
  <1>8. ASSUME NEW a \in admitted'[k]
        PROVE  /\ a.at \in Int /\ a.stamp.ms \in Int /\ a.at <= now
               /\ a.at - Delay <= a.stamp.ms /\ a.stamp.ms <= a.at + Skew
               /\ now - a.at < Window - Drift => a.stamp \in bucket'[k]
    <2>1. CASE a \in admitted[k]
      <3>1. a.at \in Int /\ a.stamp.ms \in Int
        BY <1>1, <1>4, <2>1 DEF Instants, Time
      <3> QED
        BY <1>1, <1>7, <2>1, <3>1 DEF RateInv, BucketsAgree
    <2>2. CASE a = new
      <3>1. /\ call[r].at <= now /\ now <= call[r].at + Delay
            /\ call[r].at <= call[r].stamp.ms /\ call[r].stamp.ms <= call[r].at + Skew
        BY DEF RateInv, CallsAreRecent
      <3>2. a.at = now /\ a.stamp = call[r].stamp
        BY <2>2
      <3> QED
        BY <1>2, <1>7, <3>1, <3>2
    <2> QED
      BY <1>7, <2>1, <2>2
  <1>9. IsFiniteSet(admitted'[k])
    <2>1. IsFiniteSet(admitted[k])
      BY <1>1 DEF RateInv, BucketsAgree
    <2>2. IsFiniteSet(admitted[k] \cup {new})
      BY <2>1, FS_AddElement
    <2> QED
      BY <1>7, <2>2
  <1>10. BucketsAgree'
    <2> SUFFICES ASSUME NEW j \in Keys
                 PROVE  /\ IsFiniteSet(admitted'[j])
                        /\ \A a \in admitted'[j] :
                              /\ a.at <= now
                              /\ a.at - Delay <= a.stamp.ms /\ a.stamp.ms <= a.at + Skew
                              /\ a.at + Window <= expiresAt'[j]
                              /\ now - a.at < Window - Drift => a.stamp \in bucket'[j]
                        /\ \A i \in bucket'[j] : \E a \in admitted'[j] : a.stamp = i
      BY DEF BucketsAgree, Drift
    <2>1. CASE j = k
      <3>1. \A a \in admitted'[k] : a.at + Window <= expiresAt'[k]
        BY <1>2, <1>7, <1>8
      <3>2. ASSUME NEW i \in bucket'[k] PROVE \E a \in admitted'[k] : a.stamp = i
        <4>1. CASE i = call[r].stamp
          <5>1. new \in admitted'[k] /\ new.stamp = i
            BY <1>7, <4>1
          <5> QED
            BY <5>1
        <4>2. CASE i \in Pruned(r)
          BY <1>1, <1>7, <4>2 DEF RateInv, BucketsAgree
        <4> QED
          BY <1>7, <4>1, <4>2
      <3> QED
        BY <1>8, <1>9, <2>1, <3>1, <3>2
    <2>2. CASE j # k
      BY <1>7, <2>2 DEF RateInv, BucketsAgree
    <2> QED
      BY <2>1, <2>2
  <1>11. /\ IsFiniteSet(bucket'[k])
         /\ Cardinality(bucket'[k]) <= LimitOf[k]
    <2>1. Cardinality(Pruned(r)) < LimitOf[k] /\ Cardinality(Pruned(r)) \in Nat
      BY <1>1, FS_CardinalityType DEF HasRoom
    <2>2. /\ IsFiniteSet(bucket'[k])
          /\ Cardinality(bucket'[k]) <= Cardinality(Pruned(r)) + 1
          /\ Cardinality(bucket'[k]) \in Nat
      BY <1>1, <1>7, <2>1, FS_AddElement, FS_CardinalityType
    <2> QED
      BY <1>2, <2>1, <2>2
  <1>12. WithinLimit'
    BY <1>7, <1>11 DEF RateInv, WithinLimit
  <1>13. WindowBound'
    <2> SUFFICES ASSUME NEW j \in Keys, NEW t \in Time, NEW u \in Time,
                        u - t < Window - Drift
                 PROVE  Cardinality(AdmittedIn(j, t, u)') <= LimitOf[j]
      BY DEF WindowBound, Drift
    <2>1. CASE j = k /\ t <= now /\ now <= u
      <3>1. AdmittedIn(j, t, u)' \subseteq bucket'[k]
        <4> SUFFICES ASSUME NEW a \in admitted'[k], t <= a.at
                     PROVE  a.stamp \in bucket'[k]
          BY <2>1 DEF AdmittedIn
        <4>1. now - a.at < Window - Drift
          BY <1>2, <1>8, <2>1 DEF Time
        <4> QED
          BY <1>8, <4>1
      <3>2. /\ IsFiniteSet(AdmittedIn(j, t, u)')
            /\ Cardinality(AdmittedIn(j, t, u)') <= Cardinality(bucket'[k])
        BY <1>11, <3>1, FS_Subset
      <3>3. Cardinality(AdmittedIn(j, t, u)') \in Nat /\ Cardinality(bucket'[k]) \in Nat
        BY <1>11, <3>2, FS_CardinalityType
      <3> QED
        BY <1>2, <1>11, <2>1, <3>2, <3>3
    <2>2. CASE j # k \/ ~(t <= now /\ now <= u)
      <3>1. AdmittedIn(j, t, u)' = AdmittedIn(j, t, u)
        <4>1. {b \in admitted'[j] : t <= b.at /\ b.at <= u}
                = {b \in admitted[j] : t <= b.at /\ b.at <= u}
          BY <1>7, <2>2
        <4> QED
          BY <4>1 DEF AdmittedIn
      <3> QED
        BY <3>1 DEF RateInv, WindowBound
    <2> QED
      BY <2>1, <2>2
  <1> QED
    BY <1>5, <1>6, <1>10, <1>12, <1>13 DEF RedisInv

\* Refusing a request only drops what is out of the window.
LEMMA RefuseKeeps ==
    ASSUME RateInv, NEW r \in Requests, pc[r] = "eval", Refuse(r), now' = now
    PROVE  RedisInv' /\ bucket' \in [Keys -> SUBSET Instants]
  <1> DEFINE k == call[r].key
  <1> USE DEF Refuse
  <1>1. /\ k \in Keys
        /\ Pruned(r) \subseteq bucket[k] /\ IsFiniteSet(Pruned(r))
        /\ \A a \in admitted[k] :
              now - a.at < Window - Drift => a.stamp \in Pruned(r)
    BY PrunedFacts
  <1>2. /\ bucket'[k] = Pruned(r)
        /\ \A j \in Keys : j # k => bucket'[j] = bucket[j]
        /\ bucket' \in [Keys -> SUBSET Instants]
    BY <1>1 DEF RateInv, TypeOK
  <1>3. BucketsAgree'
    <2> SUFFICES ASSUME NEW j \in Keys
                 PROVE  /\ IsFiniteSet(admitted[j])
                        /\ \A a \in admitted[j] :
                              /\ a.at <= now
                              /\ a.at - Delay <= a.stamp.ms /\ a.stamp.ms <= a.at + Skew
                              /\ a.at + Window <= expiresAt[j]
                              /\ now - a.at < Window - Drift => a.stamp \in bucket'[j]
                        /\ \A i \in bucket'[j] : \E a \in admitted[j] : a.stamp = i
      BY DEF BucketsAgree, Drift
    <2>1. CASE j = k
      BY <1>1, <1>2, <2>1 DEF RateInv, BucketsAgree
    <2>2. CASE j # k
      BY <1>2, <2>2 DEF RateInv, BucketsAgree
    <2> QED
      BY <2>1, <2>2
  <1>4. WithinLimit'
    <2>1. /\ Cardinality(Pruned(r)) <= Cardinality(bucket[k])
          /\ Cardinality(bucket[k]) <= LimitOf[k] /\ LimitOf[k] \in Nat
          /\ Cardinality(Pruned(r)) \in Nat /\ Cardinality(bucket[k]) \in Nat
      BY <1>1, RateAssumption, FS_Subset, FS_CardinalityType DEF RateInv, WithinLimit
    <2>2. Cardinality(Pruned(r)) <= LimitOf[k]
      BY <2>1
    <2> QED
      BY <1>1, <1>2, <2>2 DEF RateInv, WithinLimit
  <1>5. WindowBound'
    BY DEF RateInv, WindowBound, AdmittedIn, Drift
  <1> QED
    BY <1>2, <1>3, <1>4, <1>5 DEF RedisInv

\* One run of the script, whether or not its reply arrives.
LEMMA ScriptKeeps ==
    ASSUME RateInv, NEW r \in Requests, Script(r), now' = now
    PROVE  /\ RedisInv'
           /\ bucket' \in [Keys -> SUBSET Instants]
           /\ expiresAt' \in [Keys -> 0..(MaxTime + Window)]
           /\ admitted' \in [Keys -> SUBSET [stamp: Instants, at: Time]]
  <1>1. CASE HasRoom(r) /\ Add(r)
    BY <1>1, AddKeeps DEF Script
  <1>2. CASE Refuse(r)
    <2>1. expiresAt' = expiresAt /\ admitted' = admitted
      BY <1>2 DEF Refuse
    <2> QED
      BY <1>2, <2>1, RefuseKeeps DEF Script, RateInv, TypeOK
  <1> QED
    BY <1>1, <1>2 DEF Script

\* The other steps leave what Redis holds alone.
LEMMA RedisUntouched ==
    ASSUME RateInv, UNCHANGED redis, now' = now
    PROVE  RedisInv'
  <1> USE DEF redis
  <1>1. BucketsAgree' /\ WithinLimit'
    BY DEF RateInv, BucketsAgree, WithinLimit
  <1>2. WindowBound'
    BY DEF RateInv, WindowBound, AdmittedIn, Drift
  <1> QED
    BY <1>1, <1>2 DEF RedisInv

\* A request that is answered is out of the books.
LEMMA AnswerKeeps ==
    ASSUME RateInv, NEW r \in Requests, NEW a \in {"none", "on", "limited"},
           Answer(r, a), now' = now
    PROVE  /\ CallsAreRecent'
           /\ pc' \in [Requests -> {"idle", "eval"}]
           /\ call' \in [Requests -> [key: Keys, stamp: Instants, at: Time]]
           /\ answer' \in [Requests -> {"none", "on", "limited"}]
  <1> USE DEF Answer
  <1>1. NoCall \in [key: Keys, stamp: Instants, at: Time]
    BY RateAssumption DEF NoCall, Instants, Time
  <1>2. /\ pc' \in [Requests -> {"idle", "eval"}]
        /\ call' \in [Requests -> [key: Keys, stamp: Instants, at: Time]]
        /\ answer' \in [Requests -> {"none", "on", "limited"}]
    BY <1>1 DEF RateInv, TypeOK
  <1>3. \A s \in Requests : pc'[s] = "eval" => /\ s # r /\ pc[s] = "eval"
                                                  /\ call'[s] = call[s] /\ answer'[s] = answer[s]
    BY DEF RateInv, TypeOK
  <1>4. CallsAreRecent'
    BY <1>3 DEF RateInv, CallsAreRecent
  <1> QED
    BY <1>2, <1>4

LEMMA CheckKeeps ==
    ASSUME RateInv, NEW r \in Requests, NEW k \in Keys, Check(r, k)
    PROVE  RateInv'
  <1> USE DEF Check
  <1>1. now \in Int /\ now \in 0..MaxTime /\ Skew \in Nat /\ Delay \in Nat /\ MaxTime \in Nat
    BY RateAssumption DEF RateInv, TypeOK, Time
  <1>2. PICK ms \in now..(now + Skew), s \in Subs :
            call' = [call EXCEPT ![r] = [key |-> k, stamp |-> [ms |-> ms, sub |-> s], at |-> now]]
    OBVIOUS
  <1>3. ms \in Int /\ now <= ms /\ ms <= now + Skew /\ ms \in 0..(MaxTime + Skew)
    BY <1>1, <1>2
  <1>4. [key |-> k, stamp |-> [ms |-> ms, sub |-> s], at |-> now]
            \in [key: Keys, stamp: Instants, at: Time]
    BY <1>1, <1>3 DEF Instants, Time
  <1>5. TypeOK'
    BY <1>2, <1>4 DEF RateInv, TypeOK, redis
  <1>6. /\ call'[r].key = k /\ call'[r].at = now /\ call'[r].stamp.ms = ms
        /\ answer'[r] = "none"
        /\ \A q \in Requests : q # r => /\ pc'[q] = pc[q] /\ call'[q] = call[q]
                                       /\ answer'[q] = answer[q]
    BY <1>2 DEF RateInv, TypeOK
  <1>7. CallsAreRecent'
    BY <1>1, <1>3, <1>6 DEF RateInv, CallsAreRecent
  <1>8. RedisInv'
    BY RedisUntouched
  <1> QED
    BY <1>5, <1>7, <1>8 DEF RateInv, RedisInv

LEMMA TickKeeps ==
    ASSUME RateInv, Tick
    PROVE  RateInv'
  <1> USE DEF Tick, redis
  <1>1. now \in Int /\ now' = now + 1 /\ Window \in Int /\ Drift \in Int
    BY RateAssumption DEF RateInv, TypeOK, Time, Drift
  <1>2. TypeOK'
    BY RateAssumption DEF RateInv, TypeOK, Time
  <1>3. CallsAreRecent'
    <2> SUFFICES ASSUME NEW r \in Requests, pc[r] = "eval"
                 PROVE  /\ LimitOf[call[r].key] # 0 /\ answer[r] = "none"
                        /\ call[r].at <= now + 1 /\ now + 1 <= call[r].at + Delay
                        /\ call[r].at <= call[r].stamp.ms
                        /\ call[r].stamp.ms <= call[r].at + Skew
      BY <1>1 DEF CallsAreRecent
    <2>1. call[r].at \in Int /\ Delay \in Int
      BY RateAssumption DEF RateInv, TypeOK, Time
    <2> QED
      BY <1>1, <2>1 DEF RateInv, CallsAreRecent
  <1>4. BucketsAgree'
    <2>2. bucket' = bucket /\ expiresAt' = expiresAt /\ admitted' = admitted
      OBVIOUS
    <2> HIDE DEF Tick, redis
    <2>3. ASSUME NEW k \in Keys, NEW a \in admitted[k]
          PROVE  /\ a.at <= now'
                 /\ now' - a.at < Window - Drift => a.stamp \in bucket[k]
      <3>1. a.at \in Int
        BY DEF RateInv, TypeOK, Time
      <3>2. /\ a.at <= now
            /\ now - a.at < Window - Drift => a.stamp \in bucket[k]
        BY DEF RateInv, BucketsAgree
      <3> QED
        BY <1>1, <3>1, <3>2
    <2>4. Drift' = Drift
      BY DEF Drift
    <2> QED
      BY <2>2, <2>3, <2>4 DEF RateInv, BucketsAgree
  <1>5. WithinLimit' /\ WindowBound'
    BY DEF RateInv, WithinLimit, WindowBound, AdmittedIn, Drift
  <1> QED
    BY <1>2, <1>3, <1>4, <1>5 DEF RateInv

LEMMA StepKeeps == RateInv /\ [Next]_vars => RateInv'
  <1> SUFFICES ASSUME RateInv, [Next]_vars PROVE RateInv'
    OBVIOUS
  <1>1. ASSUME NEW r \in Requests, NEW k \in Keys, Unlimited(r, k) PROVE RateInv'
    <2>1. RedisInv'
      BY <1>1, RedisUntouched DEF Unlimited
    <2>2. CallsAreRecent' /\ TypeOK'
      BY <1>1, AnswerKeeps DEF Unlimited, RateInv, TypeOK, redis
    <2> QED
      BY <2>1, <2>2 DEF RateInv, RedisInv
  <1>2. ASSUME NEW r \in Requests, NEW k \in Keys, Check(r, k) PROVE RateInv'
    BY <1>2, CheckKeeps
  <1>3. ASSUME NEW r \in Requests, Eval(r) PROVE RateInv'
    <2>1. CallsAreRecent' /\ TypeOK' /\ RedisInv'
      BY <1>3, ScriptKeeps, AnswerKeeps DEF Eval, RateInv, TypeOK
    <2> QED
      BY <2>1 DEF RateInv, RedisInv
  <1>4. ASSUME NEW r \in Requests, LostReply(r) PROVE RateInv'
    <2>1. TypeOK' /\ RedisInv'
      BY <1>4, ScriptKeeps DEF LostReply, RateInv, TypeOK
    <2>2. CallsAreRecent'
      BY <1>4 DEF LostReply, RateInv, CallsAreRecent
    <2> QED
      BY <2>1, <2>2 DEF RateInv, RedisInv
  <1>5. ASSUME NEW r \in Requests, FailOpen(r) PROVE RateInv'
    <2>1. RedisInv'
      BY <1>5, RedisUntouched DEF FailOpen
    <2>2. CallsAreRecent' /\ TypeOK'
      BY <1>5, AnswerKeeps DEF FailOpen, RateInv, TypeOK, redis
    <2> QED
      BY <2>1, <2>2 DEF RateInv, RedisInv
  <1>6. CASE Tick
    BY <1>6, TickKeeps
  <1>7. CASE UNCHANGED vars
    <2>1. RedisInv'
      BY <1>7, RedisUntouched DEF vars, redis
    <2>2. CallsAreRecent' /\ TypeOK'
      BY <1>7 DEF vars, RateInv, CallsAreRecent, TypeOK
    <2> QED
      BY <2>1, <2>2 DEF RateInv, RedisInv
  <1> QED
    BY <1>1, <1>2, <1>3, <1>4, <1>5, <1>6, <1>7 DEF Next

-----------------------------------------------------------------------------
\* The sorted sets agree with what was let in, under every interleaving of
\* checks, late and repeated scripts and clocks that differ.
THEOREM RateInvariant == Spec => []RateInv
  BY InitEstablishes, StepKeeps, PTL DEF Spec

\* In no period shorter than Window - Drift does a key get more than its
\* limit through the script.
THEOREM LimitIsKept == Spec => []WindowBound
  <1>1. RateInv => WindowBound
    BY DEF RateInv
  <1> QED
    BY <1>1, RateInvariant, PTL

\* A refused key did use up its limit within Window + Drift.
THEOREM RefusalsAreDeserved == Spec => RefusedForCause
  <1> DEFINE Deserved(r) ==
               (pc[r] = "eval" /\ answer'[r] = "limited") =>
                   Cardinality(AdmittedIn(call[r].key, now - Window - Drift, now))
                       >= LimitOf[call[r].key]
  <1>1. ASSUME RateInv, [Next]_vars PROVE [\A r \in Requests : Deserved(r)]_vars
    <2> SUFFICES ASSUME Next, NEW r \in Requests, pc[r] = "eval", answer'[r] = "limited"
                 PROVE  Cardinality(AdmittedIn(call[r].key, now - Window - Drift, now))
                            >= LimitOf[call[r].key]
      BY <1>1
    <2> USE <1>1
    <2> DEFINE k == call[r].key
               A == AdmittedIn(k, now - Window - Drift, now)
    <2>1. ~HasRoom(r)
      <3>1. answer[r] = "none"
        BY DEF RateInv, CallsAreRecent
      <3>2. PICK q \in Requests : \/ \E j \in Keys : Unlimited(q, j) \/ Check(q, j)
                                  \/ Eval(q) \/ LostReply(q) \/ FailOpen(q)
        BY <3>1 DEF Next, Tick
      <3>3. Eval(q) /\ q = r
        BY <3>1, <3>2 DEF Unlimited, Check, Eval, LostReply, FailOpen, Answer, RateInv, TypeOK
      <3> QED
        BY <3>1, <3>3 DEF Eval, Answer, RateInv, TypeOK
    <2>2. /\ k \in Keys /\ IsFiniteSet(Pruned(r))
          /\ \A i \in Pruned(r) :
                \E a \in admitted[k] : a.stamp = i /\ now - Window - Drift <= a.at
      BY PrunedFacts
    <2>3. Pruned(r) \subseteq A
      BY <2>2 DEF AdmittedIn, RateInv, BucketsAgree
    <2>4. IsFiniteSet(A)
      BY <2>2, PeriodsAreFinite DEF RateInv, BucketsAgree
    <2>5. Cardinality(Pruned(r)) <= Cardinality(A)
      BY <2>3, <2>4, FS_Subset
    <2>6. Cardinality(Pruned(r)) \in Nat /\ Cardinality(A) \in Nat /\ LimitOf[k] \in Nat
      BY <2>2, <2>4, FS_CardinalityType, RateAssumption
    <2> QED
      BY <2>1, <2>5, <2>6 DEF HasRoom
  <1> QED
    BY <1>1, RateInvariant, PTL DEF Spec, RefusedForCause
=============================================================================
