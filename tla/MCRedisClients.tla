--------------------------- MODULE MCRedisClients ---------------------------
(* Small instances of RedisClients for TLC.                                *)
EXTENDS RedisClients

CONSTANTS r1, r2, s1, s2, q1, q2

TwoReaders == {r1, r2}
TwoSavers == {s1, s2}
TwoRequests == {q1, q2}

\* Bound: no policy is saved in a behaviour in which requests are limited.  Cache and
\* limiter share the clock, the snapshots and the restarts alone, which wait for
\* neither, and each property is about one of the two.
OneAtATime == policy = 0 \/ LimiterInit
=============================================================================
