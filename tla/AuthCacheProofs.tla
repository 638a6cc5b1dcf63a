---------------------------- MODULE AuthCacheProofs ----------------------------
(***************************************************************************)
(* The gateway's key cache for any number of pods, keys and requests, any  *)
(* capacity, TTL and load timeout.                                         *)
(***************************************************************************)
EXTENDS AuthCache, FiniteSetTheorems, TLAPS

Answers == EndsInTime /\ NoFalseReject /\ NoFalseAccept

LEMMA InitEstablishes == Init => AuthInv
  <1> SUFFICES ASSUME Init PROVE AuthInv
    OBVIOUS
  <1> USE AuthAssumption
  <1>1. NoRequest \in [pod: Pods, key: Keys, startedAt: Time, valid: BOOLEAN]
    BY DEF NoRequest, Time
  <1>2. TypeOK
    BY <1>1 DEF Init, TypeOK, Time, Services
  <1>3. PastIsPast /\ EntriesRecent /\ LoadsRecent
    BY DEF Init, PastIsPast, EntriesRecent, LoadsRecent
  <1>4. Answers
    BY DEF Init, Answers, EndsInTime, NoFalseReject, NoFalseAccept
  <1>5. Bounded
    BY FS_EmptySet DEF Init, Bounded
  <1> QED
    BY <1>2, <1>3, <1>4, <1>5 DEF AuthInv, Answers

\* The maps and the backend stand still while a request moves on to a
\* loader, or gets a verdict that is right.
LEMMA RequestMoves ==
    ASSUME AuthInv, NEW r \in Requests,
           UNCHANGED <<now, backend, map>>,
           NEW to \in {"idle", "redis", "backend", "put"},
           pc' = [pc EXCEPT ![r] = to],
           NEW q \in [pod: Pods, key: Keys, startedAt: Time, valid: BOOLEAN],
           req' = [req EXCEPT ![r] = q],
           NEW a \in {"none", "accepted", "rejected", "unavailable"},
           answer' = [answer EXCEPT ![r] = a],
           NEW t \in Time, t <= now,
           answeredAt' = [answeredAt EXCEPT ![r] = t],
           up' \subseteq Services,
           to # "idle" => /\ a = "none"
                          /\ q.startedAt <= now
                          /\ now <= q.startedAt + LoadTimeout
                          /\ to = "put" =>
                                IF q.valid THEN StillActiveAt(q.key, q.startedAt)
                                ELSE state[q.key] # "active",
           to = "idle" =>
              /\ a = "accepted" =>
                    /\ state[q.key] # "unknown"
                    /\ state[q.key] = "ended" => t < endedAt[q.key] + TTL + LoadTimeout
              /\ a = "rejected" => state[q.key] # "active"
    PROVE  AuthInv'
  <1> USE DEF backend, map
  <1>1. TypeOK'
    BY DEF AuthInv, TypeOK
  <1>2. /\ pc'[r] = to /\ req'[r] = q /\ answer'[r] = a /\ answeredAt'[r] = t
        /\ \A s \in Requests : s # r =>
              /\ pc'[s] = pc[s]
              /\ req'[s] = req[s]
              /\ answer'[s] = answer[s]
              /\ answeredAt'[s] = answeredAt[s]
    BY DEF AuthInv, TypeOK
  <1>3. PastIsPast'
    BY <1>2 DEF AuthInv, PastIsPast
  <1>4. EntriesRecent' /\ Bounded'
    BY DEF AuthInv, EntriesRecent, Bounded, StillActiveAt
  <1>5. LoadsRecent'
    BY <1>2 DEF AuthInv, LoadsRecent, StillActiveAt
  <1>6. EndsInTime' /\ NoFalseReject' /\ NoFalseAccept'
    BY <1>2 DEF AuthInv, EndsInTime, NoFalseReject, NoFalseAccept
  <1> QED
    BY <1>1, <1>3, <1>4, <1>5, <1>6 DEF AuthInv

\* A young entry gives the right verdict: it was put at most TTL ago, of a
\* row read at most LoadTimeout before that.
LEMMA HitKeeps ==
    ASSUME AuthInv, NEW r \in Requests, NEW p \in Pods, NEW k \in Keys, Hit(r, p, k)
    PROVE  AuthInv'
  <1> DEFINE q == [pod |-> p, key |-> k, startedAt |-> now, valid |-> FALSE]
             e == entry[p][k]
  <1> USE DEF Hit, Asks, Reply, Verdict, Fresh
  <1>1. q \in [pod: Pods, key: Keys, startedAt: Time, valid: BOOLEAN] /\ now \in Time
    BY DEF AuthInv, TypeOK
  <1>2. /\ e.valid \in BOOLEAN /\ e.cachedAt \in Int /\ now \in Int
        /\ endedAt[k] \in Int /\ TTL \in Int /\ LoadTimeout \in Int
    BY AuthAssumption DEF AuthInv, TypeOK, Time
  <1>3. /\ k \in cached[p]
        /\ now - e.cachedAt < TTL
        /\ IF e.valid THEN StillActiveAt(k, e.cachedAt - LoadTimeout)
           ELSE state[k] # "active"
    BY DEF AuthInv, EntriesRecent
  <1>4. e.valid => /\ state[k] # "unknown"
                   /\ state[k] = "ended" => now < endedAt[k] + TTL + LoadTimeout
    BY <1>2, <1>3 DEF StillActiveAt
  <1>5. pc' = [pc EXCEPT ![r] = "idle"]
    BY DEF AuthInv, TypeOK
  <1>6. answer' = [answer EXCEPT ![r] = Verdict(e.valid)]
    OBVIOUS
  <1>7. now <= now /\ up' \subseteq Services
    BY <1>2 DEF AuthInv, TypeOK
  <1> HIDE DEF e
  <1>8. CASE e.valid
    BY <1>1, <1>4, <1>5, <1>6, <1>7, <1>8, RequestMoves
  <1>9. CASE ~e.valid
    <2>1. answer' = [answer EXCEPT ![r] = "rejected"]
      BY <1>6, <1>9
    <2>2. state[k] # "active"
      BY <1>3, <1>9
    <2>3. q.key = k
      OBVIOUS
    <2> HIDE DEF q
    <2>4. /\ UNCHANGED <<now, backend, map>>
          /\ req' = [req EXCEPT ![r] = q]
          /\ answeredAt' = [answeredAt EXCEPT ![r] = now]
      BY DEF q
    <2> QED
      BY <1>1, <1>5, <1>7, <2>1, <2>2, <2>3, <2>4, RequestMoves
  <1> QED
    BY <1>8, <1>9

LEMMA MissKeeps ==
    ASSUME AuthInv, NEW r \in Requests, NEW p \in Pods, NEW k \in Keys, Miss(r, p, k)
    PROVE  AuthInv'
  <1> DEFINE q == [pod |-> p, key |-> k, startedAt |-> now, valid |-> FALSE]
  <1> USE DEF Miss, Asks, Reply, Goto
  <1>1. q \in [pod: Pods, key: Keys, startedAt: Time, valid: BOOLEAN] /\ now \in Time
    BY DEF AuthInv, TypeOK
  <1>2. now <= now /\ now <= now + LoadTimeout /\ up' \subseteq Services
    BY AuthAssumption DEF AuthInv, TypeOK, Time
  <1> QED
    BY <1>1, <1>2, RequestMoves

\* A loader moves the request on, with what it read or without a verdict.
LEMMA LoadersKeep ==
    ASSUME AuthInv, NEW r \in Requests,
           RedisMiss(r) \/ RedisFails(r) \/ BackendReads(r) \/ BackendFails(r)
    PROVE  AuthInv'
  <1> DEFINE q == req[r]
  <1>1. /\ q \in [pod: Pods, key: Keys, startedAt: Time, valid: BOOLEAN]
        /\ now \in Time /\ now \in Int /\ q.startedAt \in Int /\ q.key \in Keys
        /\ answeredAt[r] \in Time /\ answeredAt[r] <= now
        /\ up' \subseteq Services /\ now <= now
    BY DEF AuthInv, TypeOK, Time, PastIsPast, RedisMiss, RedisFails, BackendReads, BackendFails
  <1>2. pc[r] # "idle"
    BY DEF RedisMiss, RedisFails, BackendReads, BackendFails, Goto
  <1>3. q.startedAt <= now /\ now <= q.startedAt + LoadTimeout /\ answer[r] = "none"
    BY <1>2 DEF AuthInv, LoadsRecent
  <1>4. /\ req = [req EXCEPT ![r] = q]
        /\ answer = [answer EXCEPT ![r] = "none"]
        /\ answeredAt = [answeredAt EXCEPT ![r] = answeredAt[r]]
    BY <1>3 DEF AuthInv, TypeOK
  <1>5. CASE RedisMiss(r)
    BY <1>1, <1>3, <1>4, <1>5, RequestMoves DEF RedisMiss, Goto, replies
  <1>6. CASE RedisFails(r)
    BY <1>1, <1>3, <1>4, <1>6, RequestMoves DEF RedisFails, Goto, Reply
  <1>7. CASE BackendFails(r)
    BY <1>1, <1>3, <1>4, <1>7, RequestMoves DEF BackendFails, Goto, Reply
  <1>8. CASE BackendReads(r)
    <2> DEFINE v == (state[q.key] = "active")
               n == [q EXCEPT !.valid = v]
    <2>1. /\ n \in [pod: Pods, key: Keys, startedAt: Time, valid: BOOLEAN]
          /\ n.key = q.key /\ n.startedAt = q.startedAt /\ n.valid = v
      BY <1>1
    <2>2. req' = [req EXCEPT ![r] = n]
      BY <1>8 DEF BackendReads
    <2>3. IF n.valid THEN StillActiveAt(n.key, n.startedAt) ELSE state[n.key] # "active"
      BY <2>1 DEF StillActiveAt
    <2>4. /\ UNCHANGED <<now, backend, up, map, replies>>
          /\ pc' = [pc EXCEPT ![r] = "put"]
      BY <1>8 DEF BackendReads, Goto
    <2>5. /\ answer' = [answer EXCEPT ![r] = "none"]
          /\ answeredAt' = [answeredAt EXCEPT ![r] = answeredAt[r]]
      BY <1>4, <2>4 DEF replies
    <2>6. n.startedAt <= now /\ now <= n.startedAt + LoadTimeout
      BY <1>3, <2>1
    <2>7. UNCHANGED <<now, backend, map>> /\ up' \subseteq Services
      BY <1>1, <2>4
    <2>8. answeredAt[r] \in Time /\ answeredAt[r] <= now
      BY <1>1
    <2>9. n \in [pod: Pods, key: Keys, startedAt: Time, valid: BOOLEAN]
      BY <2>1
    <2>10. pc' = [pc EXCEPT ![r] = "put"]
      BY <2>4
    <2> HIDE DEF n
    <2> QED
      BY <2>2, <2>3, <2>5, <2>6, <2>7, <2>8, <2>9, <2>10, RequestMoves
  <1> QED
    BY <1>5, <1>6, <1>7, <1>8

\* What is put was read since the load began.
LEMMA PutKeeps ==
    ASSUME AuthInv, NEW r \in Requests, Put(r)
    PROVE  AuthInv'
  <1> DEFINE p == req[r].pod
             k == req[r].key
             v == req[r].valid
  <1> USE DEF Put, Store, Reply, Verdict, Goto, backend
  <1>1. /\ p \in Pods /\ k \in Keys /\ v \in BOOLEAN /\ now \in Time
        /\ now \in Int /\ endedAt[k] \in Int /\ req[r].startedAt \in Int
        /\ TTL \in Int /\ LoadTimeout \in Int /\ TTL > 0
    BY AuthAssumption DEF AuthInv, TypeOK, Time
  <1>2. /\ req[r].startedAt <= now
        /\ now <= req[r].startedAt + LoadTimeout
        /\ IF v THEN StillActiveAt(k, req[r].startedAt) ELSE state[k] # "active"
    BY DEF AuthInv, LoadsRecent
  <1>3. IF v THEN /\ StillActiveAt(k, now - LoadTimeout)
                  /\ state[k] = "ended" => now < endedAt[k] + TTL + LoadTimeout
        ELSE state[k] # "active"
    BY <1>1, <1>2 DEF StillActiveAt
  <1>4. PICK kept \in SUBSET Keys :
            /\ kept \subseteq cached[p] \cup {k}
            /\ cached' = [cached EXCEPT ![p] = kept]
            /\ Cardinality(kept) <= Cap
    <2>1. cached[p] \subseteq Keys /\ IsFiniteSet(cached[p]) /\ Cardinality(cached[p]) \in Nat
          /\ Cardinality(cached[p]) <= Cap /\ Cap \in Nat
      BY <1>1, AuthAssumption, FS_Subset, FS_CardinalityType DEF AuthInv, TypeOK, Bounded
    <2>2. CASE Cardinality(cached[p]) >= Cap
      <3>1. PICK e \in cached[p] :
                cached' = [cached EXCEPT ![p] = (cached[p] \ {e}) \cup {k}]
        BY <2>2
      <3>2. /\ IsFiniteSet(cached[p] \ {e})
            /\ Cardinality(cached[p] \ {e}) = Cardinality(cached[p]) - 1
        BY <2>1, <3>1, FS_RemoveElement
      <3>3. Cardinality((cached[p] \ {e}) \cup {k}) \in
                {Cardinality(cached[p] \ {e}), Cardinality(cached[p] \ {e}) + 1}
        BY <3>2, FS_AddElement
      <3>4. Cardinality((cached[p] \ {e}) \cup {k}) <= Cap
        BY <2>1, <3>2, <3>3
      <3>5. (cached[p] \ {e}) \cup {k} \in SUBSET Keys
        BY <1>1, <2>1
      <3> QED
        BY <3>1, <3>4, <3>5
    <2>3. CASE ~(Cardinality(cached[p]) >= Cap)
      <3>1. Cardinality(cached[p] \cup {k}) \in
                {Cardinality(cached[p]), Cardinality(cached[p]) + 1}
        BY <2>1, FS_AddElement
      <3>2. Cardinality(cached[p] \cup {k}) <= Cap
        BY <2>1, <2>3, <3>1
      <3>3. cached[p] \cup {k} \in SUBSET Keys
        BY <1>1, <2>1
      <3> QED
        BY <2>3, <3>2, <3>3
    <2> QED
      BY <2>2, <2>3
  <1>5. entry' = [entry EXCEPT ![p][k] = [valid |-> v, cachedAt |-> now]]
    OBVIOUS
  <1>6. TypeOK'
    <2>1. cached' \in [Pods -> SUBSET Keys]
      BY <1>1, <1>4 DEF AuthInv, TypeOK
    <2>2. entry' \in [Pods -> [Keys -> [valid: BOOLEAN, cachedAt: Time]]]
      BY <1>1, <1>5 DEF AuthInv, TypeOK
    <2> QED
      BY <1>1, <2>1, <2>2 DEF AuthInv, TypeOK
  <1>7. /\ pc'[r] = "idle" /\ answeredAt'[r] = now /\ req' = req
        /\ answer'[r] = IF v THEN "accepted" ELSE "rejected"
        /\ \A s \in Requests : s # r =>
              pc'[s] = pc[s] /\ answer'[s] = answer[s] /\ answeredAt'[s] = answeredAt[s]
    BY DEF AuthInv, TypeOK
  <1>8. PastIsPast'
    BY <1>1, <1>7 DEF AuthInv, PastIsPast
  <1>9. EntriesRecent'
    <2> SUFFICES ASSUME NEW o \in Pods, NEW j \in cached'[o]
                 PROVE  /\ entry'[o][j].cachedAt <= now
                        /\ IF entry'[o][j].valid
                           THEN StillActiveAt(j, entry'[o][j].cachedAt - LoadTimeout)
                           ELSE state[j] # "active"
      BY DEF EntriesRecent, StillActiveAt
    <2>1. j \in Keys
      BY <1>6 DEF TypeOK
    <2>2. CASE o = p /\ j = k
      <3>1. entry'[o][j] = [valid |-> v, cachedAt |-> now]
        BY <1>1, <1>5, <2>2 DEF AuthInv, TypeOK
      <3> QED
        BY <1>1, <1>3, <2>2, <3>1
    <2>3. CASE ~(o = p /\ j = k)
      <3>1. entry'[o][j] = entry[o][j]
        BY <1>1, <1>5, <2>1, <2>3 DEF AuthInv, TypeOK
      <3>2. j \in cached[o]
        BY <1>1, <1>4, <2>3 DEF AuthInv, TypeOK
      <3> QED
        BY <3>1, <3>2 DEF AuthInv, EntriesRecent
    <2> QED
      BY <2>2, <2>3
  <1>10. LoadsRecent'
    BY <1>7 DEF AuthInv, LoadsRecent, StillActiveAt
  <1>11. EndsInTime' /\ NoFalseReject' /\ NoFalseAccept'
    BY <1>3, <1>7 DEF AuthInv, EndsInTime, NoFalseReject, NoFalseAccept, StillActiveAt
  <1>12. Bounded'
    BY <1>1, <1>4 DEF AuthInv, TypeOK, Bounded
  <1> QED
    BY <1>6, <1>8, <1>9, <1>10, <1>11, <1>12 DEF AuthInv

\* Revoking ends the key at the present moment, after every load so far.
LEMMA EndKeeps ==
    ASSUME AuthInv, NEW k \in Keys, End(k)
    PROVE  AuthInv'
  <1> USE DEF End, map, replies
  <1>1. now \in Time /\ now \in Int /\ LoadTimeout \in Nat /\ TTL \in Nat \ {0}
    BY AuthAssumption DEF AuthInv, TypeOK, Time
  <1>2. /\ state'[k] = "ended" /\ endedAt'[k] = now
        /\ \A j \in Keys : j # k => state'[j] = state[j] /\ endedAt'[j] = endedAt[j]
    BY DEF AuthInv, TypeOK
  <1>3. TypeOK'
    BY <1>1 DEF AuthInv, TypeOK
  <1>4. PastIsPast'
    BY <1>1, <1>2 DEF AuthInv, PastIsPast
  <1>5. ASSUME NEW j \in Keys, NEW t \in Int, t <= now, StillActiveAt(j, t)
        PROVE  StillActiveAt(j, t)'
    BY <1>2, <1>5 DEF StillActiveAt
  <1>6. EntriesRecent'
    <2> SUFFICES ASSUME NEW p \in Pods, NEW j \in cached[p]
                 PROVE  /\ entry[p][j].cachedAt <= now
                        /\ IF entry[p][j].valid
                           THEN StillActiveAt(j, entry[p][j].cachedAt - LoadTimeout)'
                           ELSE state'[j] # "active"
      BY DEF EntriesRecent
    <2>1. j \in Keys /\ entry[p][j].cachedAt \in Int
      BY DEF AuthInv, TypeOK, Time
    <2>2. entry[p][j].cachedAt <= now
      BY DEF AuthInv, EntriesRecent
    <2>3. CASE entry[p][j].valid
      <3>1. StillActiveAt(j, entry[p][j].cachedAt - LoadTimeout)
        BY <2>3 DEF AuthInv, EntriesRecent
      <3>2. StillActiveAt(j, entry[p][j].cachedAt - LoadTimeout)'
        BY <1>1, <1>2, <2>1, <2>2, <3>1 DEF StillActiveAt
      <3> QED
        BY <2>2, <2>3, <3>2
    <2>4. CASE ~entry[p][j].valid
      BY <1>2, <2>1, <2>2, <2>4 DEF AuthInv, EntriesRecent
    <2> QED
      BY <2>3, <2>4
  <1>7. LoadsRecent'
    BY <1>1, <1>2 DEF AuthInv, TypeOK, Time, LoadsRecent, StillActiveAt
  <1>8. EndsInTime'
    <2> SUFFICES ASSUME NEW r \in Requests,
                        answer[r] = "accepted", state'[req[r].key] = "ended", pc[r] = "idle"
                 PROVE  answeredAt[r] < endedAt'[req[r].key] + TTL + LoadTimeout
      BY DEF EndsInTime
    <2>1. req[r].key \in Keys /\ answeredAt[r] \in Int /\ answeredAt[r] <= now
      BY DEF AuthInv, TypeOK, Time, PastIsPast
    <2>2. CASE req[r].key = k
      <3>1. answeredAt[r] < now + TTL + LoadTimeout
        BY <1>1, <2>1
      <3> QED
        BY <1>2, <2>2, <3>1
    <2>3. CASE req[r].key # k
      <3>1. state'[req[r].key] = state[req[r].key] /\ endedAt'[req[r].key] = endedAt[req[r].key]
        BY <1>2, <2>1, <2>3
      <3> QED
        BY <3>1 DEF AuthInv, EndsInTime
    <2> QED
      BY <2>2, <2>3
  <1>9. NoFalseReject' /\ NoFalseAccept' /\ Bounded'
    BY <1>2 DEF AuthInv, TypeOK, NoFalseReject, NoFalseAccept, Bounded
  <1> QED
    BY <1>3, <1>4, <1>6, <1>7, <1>8, <1>9 DEF AuthInv

\* A new pod starts with an empty map.
LEMMA RestartKeeps ==
    ASSUME AuthInv, NEW p \in Pods, Restart(p)
    PROVE  AuthInv'
  <1> USE DEF Restart, backend, replies
  <1>1. TypeOK' /\ PastIsPast'
    BY DEF AuthInv, TypeOK, PastIsPast
  <1>2. \A o \in Pods : cached'[o] = cached[o] \/ cached'[o] = {}
    BY DEF AuthInv, TypeOK
  <1>3. EntriesRecent'
    BY <1>2 DEF AuthInv, EntriesRecent, StillActiveAt
  <1>4. \A r \in Requests : pc'[r] = pc[r] \/ (pc'[r] = "idle" /\ pc[r] = "idle")
                               \/ (pc'[r] = "idle" /\ answer[r] = "none")
    BY DEF AuthInv, TypeOK, LoadsRecent
  <1>5. LoadsRecent'
    BY <1>4 DEF AuthInv, LoadsRecent, StillActiveAt
  <1>6. EndsInTime' /\ NoFalseReject' /\ NoFalseAccept'
    BY <1>4 DEF AuthInv, EndsInTime, NoFalseReject, NoFalseAccept
  <1>7. Bounded'
    BY <1>2, AuthAssumption, FS_EmptySet DEF AuthInv, Bounded
  <1> QED
    BY <1>1, <1>3, <1>5, <1>6, <1>7 DEF AuthInv

\* The clock does not pass the end of a load.
LEMMA TickKeeps ==
    ASSUME AuthInv, Tick
    PROVE  AuthInv'
  <1> USE DEF Tick, backend, map, replies
  <1>1. TypeOK'
    BY AuthAssumption DEF AuthInv, TypeOK, Time
  <1>2. now \in Int /\ now' = now + 1 /\ LoadTimeout \in Int
    BY AuthAssumption DEF AuthInv, TypeOK, Time
  <1>3. PastIsPast' /\ EntriesRecent'
    BY <1>2 DEF AuthInv, TypeOK, Time, PastIsPast, EntriesRecent, StillActiveAt
  <1>4. LoadsRecent'
    BY <1>2 DEF AuthInv, TypeOK, Time, LoadsRecent, StillActiveAt
  <1>5. EndsInTime' /\ NoFalseReject' /\ NoFalseAccept' /\ Bounded'
    BY DEF AuthInv, EndsInTime, NoFalseReject, NoFalseAccept, Bounded
  <1> QED
    BY <1>1, <1>3, <1>4, <1>5 DEF AuthInv

LEMMA StepKeeps == AuthInv /\ [Next]_vars => AuthInv'
  <1> SUFFICES ASSUME AuthInv, [Next]_vars PROVE AuthInv'
    OBVIOUS
  <1>1. ASSUME NEW r \in Requests, NEW p \in Pods, NEW k \in Keys, Hit(r, p, k) \/ Miss(r, p, k)
        PROVE  AuthInv'
    BY <1>1, HitKeeps, MissKeeps
  <1>2. ASSUME NEW r \in Requests,
               RedisMiss(r) \/ RedisFails(r) \/ BackendReads(r) \/ BackendFails(r) \/ Put(r)
        PROVE  AuthInv'
    BY <1>2, LoadersKeep, PutKeeps
  <1>3. ASSUME NEW k \in Keys, End(k) PROVE AuthInv'
    BY <1>3, EndKeeps
  <1>4. ASSUME NEW p \in Pods, Restart(p) PROVE AuthInv'
    BY <1>4, RestartKeeps
  <1>5. CASE Tick
    BY <1>5, TickKeeps
  <1>6. ASSUME UNCHANGED <<now, backend, map, pc, req, replies>>, up' \subseteq Services
        PROVE  AuthInv'
    <2> USE <1>6 DEF backend, map, replies
    <2>1. TypeOK'
      BY DEF AuthInv, TypeOK
    <2>2. PastIsPast' /\ EntriesRecent' /\ LoadsRecent'
      BY DEF AuthInv, PastIsPast, EntriesRecent, LoadsRecent, StillActiveAt
    <2>3. EndsInTime' /\ NoFalseReject' /\ NoFalseAccept' /\ Bounded'
      BY DEF AuthInv, EndsInTime, NoFalseReject, NoFalseAccept, Bounded
    <2> QED
      BY <2>1, <2>2, <2>3 DEF AuthInv
  <1>7. ASSUME NEW s \in Services, Outage(s) PROVE AuthInv'
    BY <1>6, <1>7 DEF Outage, AuthInv, TypeOK
  <1>8. CASE UNCHANGED vars
    BY <1>6, <1>8 DEF vars, backend, map, replies, AuthInv, TypeOK
  <1> QED
    BY <1>1, <1>2, <1>3, <1>4, <1>5, <1>7, <1>8 DEF Next

-----------------------------------------------------------------------------
\* The cache and the loads under way agree with the backend's recent past,
\* under every interleaving, outage and restart.
THEOREM AuthInvariant == Spec => []AuthInv
  BY InitEstablishes, StepKeeps, PTL DEF Spec

\* A revoked or expired key is let in for less than TTL + LoadTimeout after
\* it ended.
THEOREM RevocationBound == Spec => []EndsInTime
  <1>1. AuthInv => EndsInTime
    BY DEF AuthInv
  <1> QED
    BY <1>1, AuthInvariant, PTL

\* An active key is never answered "invalid".
THEOREM GoodKeysAreNotRefused == Spec => []NoFalseReject
  <1>1. AuthInv => NoFalseReject
    BY DEF AuthInv
  <1> QED
    BY <1>1, AuthInvariant, PTL

\* The map never outgrows its capacity.
THEOREM CacheIsBounded == Spec => []Bounded
  <1>1. AuthInv => Bounded
    BY DEF AuthInv
  <1> QED
    BY <1>1, AuthInvariant, PTL
=============================================================================
