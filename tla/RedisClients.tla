---------------------------- MODULE RedisClients ----------------------------
(***************************************************************************)
(* The policy cache and the rate limiter on their common Redis.            *)
(*                                                                         *)
(* Redis has one clock for all keys, and writes snapshots to its volume    *)
(* (docker-compose.yml:37-49: the image's default persistence): a restart  *)
(* takes every key back to the last snapshot.  Expiries are absolute, so   *)
(* the keys of the snapshot age with the others.                           *)
(***************************************************************************)
EXTENDS PolicyCache, RateLimiter

CONSTANTS
    MaxRestarts     \* bound: restarts of Redis

ASSUME RestartAssumption == MaxRestarts \in Nat

VARIABLES
    snapshot,       \* the keys as last written: [cache, counter]
    restarts        \* ghost: restarts of Redis

vars == <<cacheVars, limiterVars, snapshot, restarts>>

TypeOK ==
    /\ CacheTypeOK
    /\ LimiterTypeOK
    /\ snapshot \in [cache : CacheKey, counter : Counter]
    /\ restarts \in 0..MaxRestarts

Init ==
    /\ CacheInit
    /\ LimiterInit
    /\ snapshot = [cache |-> NoKey, counter |-> NoCounter]
    /\ restarts = 0

Tick ==
    /\ cache' = Aged(cache)
    /\ LimiterTick
    /\ snapshot' = [cache |-> Aged(snapshot.cache), counter |-> Elapsed(snapshot.counter)]
    /\ UNCHANGED <<policy, reader, saver, restarts>>

Save ==
    /\ snapshot' = [cache |-> Excuse(cache), counter |-> counter]
    /\ UNCHANGED <<cacheVars, limiterVars, restarts>>

Restart ==
    /\ restarts < MaxRestarts
    /\ cache' = snapshot.cache
    /\ counter' = snapshot.counter
    /\ orphaned' = (snapshot.counter.ttl = NoExpiry)
    /\ restarts' = restarts + 1
    /\ UNCHANGED <<policy, reader, saver, request, wait, admitted, snapshot>>

Next ==
    \/ CacheStep /\ UNCHANGED <<limiterVars, snapshot, restarts>>
    \/ LimiterStep /\ UNCHANGED <<cacheVars, snapshot, restarts>>
    \/ Tick
    \/ Save
    \/ Restart

Spec == Init /\ [][Next]_vars

\* Time passes, and a request whose process lives goes on to its next command.
FairSpec ==
    /\ Spec
    /\ WF_vars(Tick)
    /\ \A q \in Requests : WF_vars(/\ Expire(q) \/ Ttl(q)
                                   /\ UNCHANGED <<cacheVars, snapshot, restarts>>)

-----------------------------------------------------------------------------
(* Properties.                                                             *)

\* Within any Window an address is admitted at most twice its limit, at the end of
\* one fixed window and the start of the next; a restart that takes the counter back
\* may cost another Limit (rate_limiter.py:9-12, 68-79).
AtMostTwiceLimit == Admitted <= (2 + restarts) * Limit

\* Who was told to wait and waited is limited by the window that rejected it for less
\* than half a second more, which Redis may have rounded away (rate_limiter.py:73-77),
\* unless it was restarted.
RetryAfterRounded == wait = 0 => restarts > 0 \/ 2 * counter.ttl < Second
=============================================================================
