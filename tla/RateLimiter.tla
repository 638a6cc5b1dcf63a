------------------------------ MODULE RateLimiter ------------------------------
(***************************************************************************)
(* The gateway's rate limiter: the RateLimit middleware of every pod,      *)
(* redisLimiter.Check and the Lua script that Redis runs on the sorted set *)
(* of an API key.                                                          *)
(*                                                                         *)
(* A pod reads its own clock and sends the reading to Redis, which uses it *)
(* whenever it arrives: readings of different pods differ, and arrive late *)
(* and out of order.  go-redis sends a script again when the reply is      *)
(* lost.  Redis keeps the sets over an outage (appendonly).                *)
(***************************************************************************)
EXTENDS Integers, FiniteSets

CONSTANTS
    Keys,       \* API keys
    LimitOf,    \* RequestsPerMinute of each key; 0 is no policy
    Requests,   \* requests in the gateway, of any pod; a slot is reused
    Window,     \* the sliding window: 60_000 ms
    Skew,       \* the most a pod's clock is ahead of Redis's
    Delay,      \* the longest time from reading the clock to the last try
    Subs,       \* instants within a millisecond: UnixNano is finer than the score
    MaxTime     \* bound: the clock stops here

ASSUME RateAssumption ==
    /\ LimitOf \in [Keys -> Nat]
    /\ Keys # {}
    /\ Subs # {}
    /\ Window \in Nat \ {0}
    /\ Skew \in Nat
    /\ Delay \in Nat
    /\ MaxTime \in Nat

VARIABLES
    now,         \* the clock of Redis
    bucket,      \* the sorted set rl:{KeyID}: its members
    expiresAt,   \* when PEXPIRE makes it vanish
    pc,          \* where the request of each slot is
    call,        \* its key, its reading of the clock, when that was taken
    answer,      \* whether it was let on
    admitted     \* history: what the script let in, and when

redis == <<bucket, expiresAt, admitted>>
vars == <<now, bucket, expiresAt, pc, call, answer, admitted>>

Time == 0..MaxTime

\* A member is the reading in nanoseconds, its score the same in milliseconds.
Instants == [ms: 0..(MaxTime + Skew), sub: Subs]

TypeOK ==
    /\ now \in Time
    /\ bucket \in [Keys -> SUBSET Instants]
    /\ expiresAt \in [Keys -> 0..(MaxTime + Window)]
    /\ pc \in [Requests -> {"idle", "eval"}]
    /\ call \in [Requests -> [key: Keys, stamp: Instants, at: Time]]
    /\ answer \in [Requests -> {"none", "on", "limited"}]
    /\ admitted \in [Keys -> SUBSET [stamp: Instants, at: Time]]

NoCall == [key |-> CHOOSE k \in Keys : TRUE, at |-> 0,
           stamp |-> [ms |-> 0, sub |-> CHOOSE s \in Subs : TRUE]]

Init ==
    /\ now = 0
    /\ bucket = [k \in Keys |-> {}]
    /\ expiresAt = [k \in Keys |-> 0]
    /\ pc = [r \in Requests |-> "idle"]
    /\ call = [r \in Requests |-> NoCall]
    /\ answer = [r \in Requests |-> "none"]
    /\ admitted = [k \in Keys |-> {}]

-----------------------------------------------------------------------------
Answer(r, a) ==
    /\ pc' = [pc EXCEPT ![r] = "idle"]
    /\ call' = [call EXCEPT ![r] = NoCall]
    /\ answer' = [answer EXCEPT ![r] = a]

\* A key without a policy is not checked.
Unlimited(r, k) ==
    /\ pc[r] = "idle"
    /\ LimitOf[k] = 0
    /\ Answer(r, "on")
    /\ UNCHANGED <<now, redis>>

\* Check reads the clock of its pod.
Check(r, k) ==
    /\ pc[r] = "idle"
    /\ LimitOf[k] # 0
    /\ pc' = [pc EXCEPT ![r] = "eval"]
    /\ \E ms \in now..(now + Skew), s \in Subs :
          call' = [call EXCEPT ![r] = [key |-> k, stamp |-> [ms |-> ms, sub |-> s],
                                       at |-> now]]
    /\ answer' = [answer EXCEPT ![r] = "none"]
    /\ UNCHANGED <<now, redis>>

\* The set as Redis has it now; a set whose time is over is gone.
Live(k) == IF now < expiresAt[k] THEN bucket[k] ELSE {}

\* Slip: the whole set is dropped when its oldest member is out of the window.
PrunedToNothing(r) ==
    IF \E i \in Live(call[r].key) : i.ms <= call[r].stamp.ms - Window
    THEN {} ELSE Live(call[r].key)

\* Slip: members are left to the expiry of the whole set.
NeverPruned(r) == Live(call[r].key)

\* ZREMRANGEBYSCORE, by the reading of the pod that asks.
Pruned(r) == {i \in Live(call[r].key) : i.ms > call[r].stamp.ms - Window}

HasRoom(r) == Cardinality(Pruned(r)) < LimitOf[call[r].key]

\* Slip: the expiry of the set is not renewed by later requests.
AddExpiresOnce(r) ==
    LET k == call[r].key IN
    /\ bucket' = [bucket EXCEPT ![k] = Pruned(r) \cup {call[r].stamp}]
    /\ expiresAt' = [expiresAt EXCEPT ![k] = IF now < @ THEN @ ELSE now + Window]
    /\ admitted' = [admitted EXCEPT ![k] = @ \cup {[stamp |-> call[r].stamp, at |-> now]}]

\* ZADD and PEXPIRE; a member that is in the set already is not added twice.
Add(r) ==
    LET k == call[r].key IN
    /\ bucket' = [bucket EXCEPT ![k] = Pruned(r) \cup {call[r].stamp}]
    /\ expiresAt' = [expiresAt EXCEPT ![k] = now + Window]
    /\ admitted' = [admitted EXCEPT ![k] = @ \cup {[stamp |-> call[r].stamp, at |-> now]}]

\* The set is stored without what was out of the window.
Refuse(r) ==
    /\ bucket' = [bucket EXCEPT ![call[r].key] = Pruned(r)]
    /\ UNCHANGED <<expiresAt, admitted>>

Script(r) ==
    /\ pc[r] = "eval"
    /\ IF HasRoom(r) THEN Add(r) ELSE Refuse(r)

\* The script runs and its reply arrives.
Eval(r) ==
    /\ Script(r)
    /\ Answer(r, IF HasRoom(r) THEN "on" ELSE "limited")
    /\ UNCHANGED now

\* The script runs, its reply is lost, the same call is sent again.
LostReply(r) ==
    /\ Script(r)
    /\ UNCHANGED <<now, pc, call, answer>>

\* Redis is unreachable or late: any error lets the request on.
FailOpen(r) ==
    /\ pc[r] = "eval"
    /\ Answer(r, "on")
    /\ UNCHANGED <<now, redis>>

-----------------------------------------------------------------------------
\* Time passes, but a call does not outlive its timeouts.
Tick ==
    /\ now < MaxTime
    /\ \A r \in Requests : pc[r] = "eval" => now < call[r].at + Delay
    /\ now' = now + 1
    /\ UNCHANGED <<redis, pc, call, answer>>

Next ==
    \/ \E r \in Requests :
          \/ \E k \in Keys : Unlimited(r, k) \/ Check(r, k)
          \/ Eval(r) \/ LostReply(r) \/ FailOpen(r)
    \/ Tick

Spec == Init /\ [][Next]_vars

-----------------------------------------------------------------------------
Drift == Skew + Delay

\* The readings under which requests were let in from time t to time u.
AdmittedIn(k, t, u) ==
    {a.stamp : a \in {b \in admitted[k] : t <= b.at /\ b.at <= u}}

\* No key gets more than its limit through in any period shorter than the
\* window less the drift, whichever pods it talks to and in whatever order
\* their scripts arrive.  Two readings of the same nanosecond count once: the
\* script takes them for one member.
WindowBound ==
    \A k \in Keys : \A t, u \in Time :
        u - t < Window - Drift =>
            Cardinality(AdmittedIn(k, t, u)) <= LimitOf[k]

\* And a key is refused only if it did use up its limit in the last window
\* and drift: no member outlives its time, refusals do not count.
RefusedForCause ==
    [][\A r \in Requests :
          (pc[r] = "eval" /\ answer'[r] = "limited") =>
              Cardinality(AdmittedIn(call[r].key, now - Window - Drift, now))
                  >= LimitOf[call[r].key]]_vars

\* A reading is as old or as far ahead as the clocks and calls allow.
CallsAreRecent ==
    \A r \in Requests :
        pc[r] = "eval" =>
            /\ LimitOf[call[r].key] # 0 /\ answer[r] = "none"
            /\ call[r].at <= now /\ now <= call[r].at + Delay
            /\ call[r].at <= call[r].stamp.ms /\ call[r].stamp.ms <= call[r].at + Skew

\* What the script let in is in the set until its time is over, and nothing
\* else is.
BucketsAgree ==
    \A k \in Keys :
        /\ IsFiniteSet(admitted[k])
        /\ \A a \in admitted[k] :
              /\ a.at <= now
              /\ a.at - Delay <= a.stamp.ms /\ a.stamp.ms <= a.at + Skew
              /\ a.at + Window <= expiresAt[k]
              /\ now - a.at < Window - Drift => a.stamp \in bucket[k]
        /\ \A i \in bucket[k] : \E a \in admitted[k] : a.stamp = i

WithinLimit ==
    \A k \in Keys : IsFiniteSet(bucket[k]) /\ Cardinality(bucket[k]) <= LimitOf[k]

\* The inductive invariant.
RateInv ==
    /\ TypeOK
    /\ CallsAreRecent
    /\ BucketsAgree
    /\ WithinLimit
    /\ WindowBound
=============================================================================
