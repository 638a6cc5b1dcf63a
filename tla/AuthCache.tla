------------------------------- MODULE AuthCache -------------------------------
(***************************************************************************)
(* The gateway's API-key cache: auth.Cache of every pod, in front of Redis *)
(* and of the backend's ValidateKey.                                       *)
(*                                                                         *)
(* Nothing in the program writes the auth:{hash} entries of Redis, so an   *)
(* up Redis always misses; nothing publishes revocations and nothing calls *)
(* Cache.Invalidate.  An entry leaves the map by its age, by eviction or   *)
(* with its pod.  Time is discrete; keys stand for their hashes.           *)
(***************************************************************************)
EXTENDS Integers, FiniteSets

CONSTANTS
    Pods,          \* gateway processes
    Keys,          \* keys that are asked for
    UnknownKeys,   \* those of them the backend never issued
    Requests,      \* requests in the gateway; a slot is reused
    Cap,           \* cfg.Auth.CacheSize
    TTL,           \* cfg.Auth.CacheTTL
    LoadTimeout,   \* the longest time from a miss to the put (2s at the backend)
    MaxTime        \* bound: the clock stops here

ASSUME AuthAssumption ==
    /\ Pods # {} /\ Keys # {}
    /\ UnknownKeys \subseteq Keys
    /\ IsFiniteSet(Keys)
    /\ Cap \in Nat \ {0}
    /\ TTL \in Nat \ {0}
    /\ LoadTimeout \in Nat
    /\ MaxTime \in Nat

VARIABLES
    now,         \* the clock
    state,       \* the api_keys row of each key
    endedAt,     \* when the key was revoked or expired
    up,          \* which of the services behind the cache answer
    cached,      \* the keys in the map of each pod
    entry,       \* what the map holds for them
    pc,          \* where Cache.Get of each request is
    req,         \* its pod and key, when it missed, what it loaded
    answer,      \* what the latest request of each slot was answered
    answeredAt   \* and when

backend == <<state, endedAt>>
map     == <<cached, entry>>
replies == <<answer, answeredAt>>
vars == <<now, state, endedAt, up, cached, entry, pc, req, answer, answeredAt>>

Services == {"redis", "backend"}
Time == 0..MaxTime

TypeOK ==
    /\ now \in Time
    /\ state \in [Keys -> {"active", "ended", "unknown"}]
    /\ endedAt \in [Keys -> Time]
    /\ up \subseteq Services
    /\ cached \in [Pods -> SUBSET Keys]
    /\ entry \in [Pods -> [Keys -> [valid: BOOLEAN, cachedAt: Time]]]
    /\ pc \in [Requests -> {"idle", "redis", "backend", "put"}]
    /\ req \in [Requests -> [pod: Pods, key: Keys, startedAt: Time, valid: BOOLEAN]]
    /\ answer \in [Requests -> {"none", "accepted", "rejected", "unavailable"}]
    /\ answeredAt \in [Requests -> Time]

NoRequest == [pod |-> CHOOSE p \in Pods : TRUE, key |-> CHOOSE k \in Keys : TRUE,
              startedAt |-> 0, valid |-> FALSE]

Init ==
    /\ now = 0
    /\ state = [k \in Keys |-> IF k \in UnknownKeys THEN "unknown" ELSE "active"]
    /\ endedAt = [k \in Keys |-> 0]
    /\ up = Services
    /\ cached = [p \in Pods |-> {}]
    /\ entry = [p \in Pods |-> [k \in Keys |-> [valid |-> FALSE, cachedAt |-> 0]]]
    /\ pc = [r \in Requests |-> "idle"]
    /\ req = [r \in Requests |-> NoRequest]
    /\ answer = [r \in Requests |-> "none"]
    /\ answeredAt = [r \in Requests |-> 0]

-----------------------------------------------------------------------------
Goto(r, from, to) ==
    /\ pc[r] = from
    /\ pc' = [pc EXCEPT ![r] = to]

\* The Auth middleware lets the request on, or answers 401.
Reply(r, a) ==
    /\ answer' = [answer EXCEPT ![r] = a]
    /\ answeredAt' = [answeredAt EXCEPT ![r] = now]

Verdict(valid) == IF valid THEN "accepted" ELSE "rejected"

Fresh(p, k) == k \in cached[p] /\ now - entry[p][k].cachedAt < TTL

Asks(r, p, k) ==
    req' = [req EXCEPT ![r] = [pod |-> p, key |-> k, startedAt |-> now, valid |-> FALSE]]

\* Slip: a hit renews the entry.
HitRenews(r, p, k) ==
    /\ pc[r] = "idle"
    /\ Fresh(p, k)
    /\ Asks(r, p, k)
    /\ Reply(r, Verdict(entry[p][k].valid))
    /\ entry' = [entry EXCEPT ![p][k].cachedAt = now]
    /\ UNCHANGED <<now, backend, up, cached, pc>>

\* Cache.Get finds an entry that is young enough.
Hit(r, p, k) ==
    /\ pc[r] = "idle"
    /\ Fresh(p, k)
    /\ Asks(r, p, k)
    /\ Reply(r, Verdict(entry[p][k].valid))
    /\ UNCHANGED <<now, backend, up, map, pc>>

\* The lock is released before the loaders are asked.
Miss(r, p, k) ==
    /\ Goto(r, "idle", "redis")
    /\ ~Fresh(p, k)
    /\ Asks(r, p, k)
    /\ Reply(r, "none")
    /\ UNCHANGED <<now, backend, up, map>>

\* Slip: the first loader's miss is taken for the answer.
RedisMissIsFinal(r) ==
    /\ Goto(r, "redis", "put")
    /\ "redis" \in up
    /\ req' = [req EXCEPT ![r].valid = FALSE]
    /\ UNCHANGED <<now, backend, up, map, replies>>

\* redis.Nil is ErrCacheMiss: the next loader is asked.
RedisMiss(r) ==
    /\ Goto(r, "redis", "backend")
    /\ "redis" \in up
    /\ UNCHANGED <<now, backend, up, map, req, replies>>

\* Any other error ends the loop.
RedisFails(r) ==
    /\ Goto(r, "redis", "idle")
    /\ "redis" \notin up
    /\ Reply(r, "unavailable")
    /\ UNCHANGED <<now, backend, up, map, req>>

\* Slip: only an ended key is refused.
BackendReadsEnded(r) ==
    /\ Goto(r, "backend", "put")
    /\ "backend" \in up
    /\ req' = [req EXCEPT ![r].valid = (state[req[r].key] # "ended")]
    /\ UNCHANGED <<now, backend, up, map, replies>>

\* ValidateKey reads the row.  An unknown key is a miss of the last loader
\* and becomes a negative entry; so does, by its Valid flag, an ended one.
BackendReads(r) ==
    /\ Goto(r, "backend", "put")
    /\ "backend" \in up
    /\ req' = [req EXCEPT ![r].valid = (state[req[r].key] = "active")]
    /\ UNCHANGED <<now, backend, up, map, replies>>

\* The call fails or its context times out.
BackendFails(r) ==
    /\ Goto(r, "backend", "idle")
    /\ "backend" \notin up \/ now = req[r].startedAt + LoadTimeout
    /\ Reply(r, "unavailable")
    /\ UNCHANGED <<now, backend, up, map, req>>

Store(r) ==
    entry' = [entry EXCEPT ![req[r].pod][req[r].key] =
                 [valid |-> req[r].valid, cachedAt |-> now]]

\* Slip: the map is one entry too full before an entry is evicted.
PutOffByOne(r) ==
    LET p == req[r].pod IN
    /\ Goto(r, "put", "idle")
    /\ IF Cardinality(cached[p]) > Cap
       THEN \E e \in cached[p] :
               cached' = [cached EXCEPT ![p] = (@ \ {e}) \cup {req[r].key}]
       ELSE cached' = [cached EXCEPT ![p] = @ \cup {req[r].key}]
    /\ Store(r)
    /\ Reply(r, Verdict(req[r].valid))
    /\ UNCHANGED <<now, backend, up, req>>

\* c.put under the lock; a full map first loses an arbitrary entry, also
\* when the key is in the map already.
Put(r) ==
    LET p == req[r].pod IN
    /\ Goto(r, "put", "idle")
    /\ IF Cardinality(cached[p]) >= Cap
       THEN \E e \in cached[p] :
               cached' = [cached EXCEPT ![p] = (@ \ {e}) \cup {req[r].key}]
       ELSE cached' = [cached EXCEPT ![p] = @ \cup {req[r].key}]
    /\ Store(r)
    /\ Reply(r, Verdict(req[r].valid))
    /\ UNCHANGED <<now, backend, up, req>>

-----------------------------------------------------------------------------
\* AuthService.revoke_key, AuthServicer.RevokeKey and suspend_user commit
\* revoked_at, or expires_at passes (assert_usable).  No gateway is told.
End(k) ==
    /\ state[k] = "active"
    /\ state' = [state EXCEPT ![k] = "ended"]
    /\ endedAt' = [endedAt EXCEPT ![k] = now]
    /\ UNCHANGED <<now, up, map, pc, req, replies>>

\* Redis or the backend becomes unreachable, or comes back.
Outage(s) ==
    /\ up' = IF s \in up THEN up \ {s} ELSE up \cup {s}
    /\ UNCHANGED <<now, backend, map, pc, req, replies>>

\* The pod is replaced: its map is empty, its requests are gone.
Restart(p) ==
    /\ cached' = [cached EXCEPT ![p] = {}]
    /\ pc' = [r \in Requests |-> IF req[r].pod = p THEN "idle" ELSE pc[r]]
    /\ UNCHANGED <<now, backend, up, entry, req, replies>>

\* Time passes, but a load does not outlive its timeout.
Tick ==
    /\ now < MaxTime
    /\ \A r \in Requests : pc[r] # "idle" => now < req[r].startedAt + LoadTimeout
    /\ now' = now + 1
    /\ UNCHANGED <<backend, up, map, pc, req, replies>>

Next ==
    \/ \E r \in Requests :
          \/ \E p \in Pods, k \in Keys : Hit(r, p, k) \/ Miss(r, p, k)
          \/ RedisMiss(r) \/ RedisFails(r)
          \/ BackendReads(r) \/ BackendFails(r)
          \/ Put(r)
    \/ \E k \in Keys : End(k)
    \/ \E s \in Services : Outage(s)
    \/ \E p \in Pods : Restart(p)
    \/ Tick

Spec == Init /\ [][Next]_vars

\* The goroutine of a request runs on; a loader answers, fails or times out.
FairSpec ==
    /\ Spec
    /\ \A r \in Requests :
          WF_vars(\/ RedisMiss(r) \/ RedisFails(r)
                  \/ BackendReads(r) \/ BackendFails(r) \/ Put(r))

-----------------------------------------------------------------------------
\* A key that was revoked or has expired is let in for less than the TTL of
\* an entry and the duration of a load: the load may have read the row just
\* before, and the entry counts its age from the put.
EndsInTime ==
    \A r \in Requests :
        (answer[r] = "accepted" /\ state[req[r].key] = "ended" /\ pc[r] = "idle") =>
            answeredAt[r] < endedAt[req[r].key] + TTL + LoadTimeout

\* A good key is never called invalid, whatever was evicted, restarted or
\* unreachable: an error of a loader is not a verdict.
NoFalseReject ==
    \A r \in Requests :
        (answer[r] = "rejected" /\ pc[r] = "idle") => state[req[r].key] # "active"

\* And a key nobody issued is never let in.
NoFalseAccept ==
    \A r \in Requests :
        (answer[r] = "accepted" /\ pc[r] = "idle") => state[req[r].key] # "unknown"

\* The map keeps to its size however requests for different keys race.
Bounded == \A p \in Pods : Cardinality(cached[p]) <= Cap

\* What was true of key k at time t or later.
StillActiveAt(k, t) ==
    \/ state[k] = "active"
    \/ state[k] = "ended" /\ t <= endedAt[k]

EntriesRecent ==
    \A p \in Pods : \A k \in cached[p] :
        /\ entry[p][k].cachedAt <= now
        /\ IF entry[p][k].valid
           THEN StillActiveAt(k, entry[p][k].cachedAt - LoadTimeout)
           ELSE state[k] # "active"

LoadsRecent ==
    \A r \in Requests :
        pc[r] # "idle" =>
            /\ req[r].startedAt <= now
            /\ now <= req[r].startedAt + LoadTimeout
            /\ answer[r] = "none"
            /\ pc[r] = "put" =>
                  IF req[r].valid THEN StillActiveAt(req[r].key, req[r].startedAt)
                  ELSE state[req[r].key] # "active"

PastIsPast ==
    /\ \A k \in Keys : endedAt[k] <= now
    /\ \A r \in Requests : answeredAt[r] <= now

AuthInv ==
    /\ TypeOK
    /\ PastIsPast
    /\ EntriesRecent
    /\ LoadsRecent
    /\ EndsInTime
    /\ NoFalseReject
    /\ NoFalseAccept
    /\ Bounded
=============================================================================
