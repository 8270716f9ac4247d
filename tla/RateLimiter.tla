---------------------------- MODULE RateLimiter -----------------------------
(***************************************************************************)
(* The requests of one address to the admin API, and the Redis counter     *)
(* that limits them (infra/rate_limiter.py, admin_rate_limit of            *)
(* api/admin.py).                                                          *)
(*                                                                         *)
(* A request is a sequence of Redis commands: INCR; EXPIRE if it was the   *)
(* first; TTL if it is beyond the limit, to say when to come back.  Other  *)
(* requests run in between, and a process can die between any two.  A      *)
(* count beyond Limit + 1 makes no difference and is not kept.             *)
(*                                                                         *)
(* Redis keeps time in a finer unit than the second in which it answers    *)
(* TTL and the application passes the answer on.  A tick is the finer one. *)
(***************************************************************************)
EXTENDS Integers, FiniteSets

CONSTANTS
    Requests,       \* requests in progress at the same time
    Limit,          \* limit
    Second,         \* ticks of the clock in a second
    Window          \* window_seconds, in ticks

ASSUME LimiterAssumption ==
    /\ IsFiniteSet(Requests)
    /\ Limit \in Nat \ {0}
    /\ Second \in Nat \ {0}
    /\ Window \in Nat \ {0}
    /\ Window % Second = 0

VARIABLES
    counter,        \* the key ratelimit:...: [count, ttl]
    request,        \* request[q]: the command it is about to issue, or "idle"
    orphaned,       \* ghost: no one is left to set the expiry of the counter
    wait,           \* ghost: what is left of the Retry-After answered last
    admitted        \* ghost, admitted[a]: requests admitted a ticks ago

limiterVars == <<counter, request, orphaned, wait, admitted>>

-----------------------------------------------------------------------------
NoExpiry == -1
NoCounter == [count |-> 0, ttl |-> 0]
Counter == [count : 0..(Limit + 1), ttl : {NoExpiry} \cup 0..Window]

NoWait == -1

\* Ages that fall into one window.
Ages == 0..(Window - 1)

LimiterTypeOK ==
    /\ counter \in Counter
    /\ request \in [Requests -> {"idle", "expire", "ttl"}]
    /\ orphaned \in BOOLEAN
    /\ wait \in NoWait..Window
    /\ admitted \in [Ages -> Nat]

LimiterInit ==
    /\ counter = NoCounter
    /\ request = [q \in Requests |-> "idle"]
    /\ orphaned = FALSE
    /\ wait = NoWait
    /\ admitted = [a \in Ages |-> 0]

-----------------------------------------------------------------------------
(* check_rate_limit.                                                       *)

Admit == admitted' = [admitted EXCEPT ![0] = @ + 1]

Incremented ==
    [count |-> IF counter.count > Limit THEN counter.count ELSE counter.count + 1,
     ttl |-> IF counter.count = 0 THEN NoExpiry ELSE counter.ttl]

\* Mutant of Incr: the count is not compared with the limit.
IncrUnlimited(q) ==
    /\ request[q] = "idle"
    /\ counter' = Incremented
    /\ \/ counter.count = 0 /\ request' = [request EXCEPT ![q] = "expire"] /\ UNCHANGED admitted
       \/ counter.count > 0 /\ UNCHANGED request /\ Admit
    /\ UNCHANGED <<orphaned, wait>>

\* Mutant of Incr: every request sets the expiry again, a sliding window.
IncrSliding(q) ==
    /\ request[q] = "idle"
    /\ counter' = [Incremented EXCEPT !.ttl = Window]
    /\ IF counter'.count > Limit
       THEN request' = [request EXCEPT ![q] = "ttl"] /\ UNCHANGED admitted
       ELSE UNCHANGED request /\ Admit
    /\ UNCHANGED <<orphaned, wait>>

\* INCR, which creates the key without expiry.
Incr(q) ==
    /\ request[q] = "idle"
    /\ counter' = Incremented
    /\ \/ /\ counter'.count = 1
          /\ request' = [request EXCEPT ![q] = "expire"]
          /\ UNCHANGED admitted
       \/ /\ counter'.count \in 2..Limit
          /\ UNCHANGED request
          /\ Admit
       \/ /\ counter'.count > Limit
          /\ request' = [request EXCEPT ![q] = "ttl"]
          /\ UNCHANGED admitted
    /\ UNCHANGED <<orphaned, wait>>

\* Mutant of Expire: the window is rounded up.
ExpireRounded(q) ==
    /\ request[q] = "expire"
    /\ counter' = IF counter = NoCounter THEN NoCounter
                  ELSE [count |-> counter.count, ttl |-> Window + 1]
    /\ orphaned' = FALSE
    /\ request' = [request EXCEPT ![q] = "idle"]
    /\ Admit
    /\ UNCHANGED wait

\* EXPIRE does nothing to a key that is gone.
Expire(q) ==
    /\ request[q] = "expire"
    /\ counter' = IF counter = NoCounter THEN NoCounter
                  ELSE [count |-> counter.count, ttl |-> Window]
    /\ orphaned' = FALSE
    /\ request' = [request EXCEPT ![q] = "idle"]
    /\ Admit
    /\ UNCHANGED wait

\* TTL as Redis answers it: the seconds left, rounded to the nearest one.
Seconds(ticks) == (ticks + Second \div 2) \div Second

\* Mutant of RetryAfter: the seconds left are cut off.
RetryAfterCut ==
    LET ttl == counter.ttl \div Second
    IN  IF ttl > 0 THEN ttl * Second ELSE Window

\* retry_after, in ticks: the whole window if TTL answers none, or less than half
\* a second.
RetryAfter ==
    LET ttl == Seconds(counter.ttl)
    IN  IF ttl > 0 THEN ttl * Second ELSE Window

\* 429 with Retry-After.  For a key that has no expiry, or is gone, the answer is a
\* guess that is not counted as a promise.
Ttl(q) ==
    /\ request[q] = "ttl"
    /\ wait' = IF counter.ttl > 0 THEN RetryAfter ELSE NoWait
    /\ request' = [request EXCEPT ![q] = "idle"]
    /\ UNCHANGED <<counter, orphaned, admitted>>

\* A command raises or the process dies: the request is answered with an error.
Die(q) ==
    /\ request[q] # "idle"
    /\ request' = [request EXCEPT ![q] = "idle"]
    /\ orphaned' = (orphaned \/ (request[q] = "expire" /\ counter.ttl = NoExpiry))
    /\ UNCHANGED <<counter, wait, admitted>>

-----------------------------------------------------------------------------
LimiterStep == \E q \in Requests : Incr(q) \/ Expire(q) \/ Ttl(q) \/ Die(q)

\* One tick of the clock, as Redis counts it.
Elapsed(key) ==
    IF key.ttl = NoExpiry THEN key
    ELSE IF key.ttl <= 1 THEN NoCounter
    ELSE [count |-> key.count, ttl |-> key.ttl - 1]

\* A promise is kept when the window that rejected the request is over.
LimiterTick ==
    /\ counter' = Elapsed(counter)
    /\ wait' = IF wait = NoWait \/ counter' = NoCounter THEN NoWait
               ELSE IF wait = 0 THEN 0 ELSE wait - 1
    /\ admitted' = [a \in Ages |-> IF a = 0 THEN 0 ELSE admitted[a - 1]]
    /\ UNCHANGED <<request, orphaned>>

\* Totals(counts)[k]: the sum of the counts of the last k ticks.
Totals(counts) ==
    LET total[k \in 0..Window] == IF k = 0 THEN 0 ELSE total[k - 1] + counts[k - 1]
    IN  total

Admitted == Totals(admitted)[Window]

-----------------------------------------------------------------------------
(* Properties.                                                             *)

\* A counter without expiry limits its address for good.  It has one until the
\* request that created it sets it, or that request has died (rate_limiter.py:68-71).
NoExpiryExcused ==
    counter.ttl = NoExpiry => orphaned \/ \E q \in Requests : request[q] = "expire"

\* An address beyond its limit is let through again, however much it goes on asking
\* (rate_limiter.py:10-12: the window is fixed from the first request), unless its
\* counter lost the request that was to set the expiry.
LimitEnds == counter.count > Limit /\ ~orphaned ~> counter.count <= Limit \/ orphaned
=============================================================================
