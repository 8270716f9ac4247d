-------------------------- MODULE RedisClientsProofs -------------------------
(***************************************************************************)
(* The safety of the policy cache and of the rate limiter, for any number  *)
(* of loads, saves, requests and restarts, any limit and any times: what   *)
(* the keys say, and what passes the limit.                                *)
(***************************************************************************)
EXTENDS RedisClients, FiniteSetTheorems, TLAPS

\* What a load holds is the policy, unless a save overtook it.
ReadsAreCurrent ==
    \A r \in Readers :
        reader[r].step = "fill" => reader[r].version = policy \/ reader[r].overtaken

\* A key that a restart would bring back has its excuse.
SnapshotExcused == snapshot.cache.ttl > 0 => snapshot.cache.excused

\* Until the first restart, the counter exists exactly while it has a count, and the
\* one request that is to set its expiry is the one that created it.
OneCreator ==
    restarts = 0 =>
        /\ counter.count = 0 <=> counter.ttl = 0
        /\ \A q \in Requests : request[q] = "expire" => counter.ttl = NoExpiry
        /\ \A p, q \in Requests :
              request[p] = "expire" /\ request[q] = "expire" => p = q

\* Until the first restart, what is left of a Retry-After covers what is left of the
\* window, but for less than half a second.
WaitCovers ==
    restarts = 0 =>
        wait = NoWait \/ (counter.ttl > 0 /\ 2 * (counter.ttl - wait) < Second)

CacheInv == ReadsAreCurrent /\ SnapshotExcused /\ StaleIsExcused
LimiterInv == NoExpiryExcused /\ OneCreator /\ WaitCovers
IInv == TypeOK /\ CacheInv /\ LimiterInv

\* What the steps need of the limiter's parameters.
LEMMA LimiterParameters ==
    /\ IsFiniteSet(Requests)
    /\ Limit \in Nat \ {0}
    /\ Second \in Nat \ {0}
    /\ Window \in Nat \ {0}
BY LimiterAssumption

USE CacheAssumption, LimiterParameters, RestartAssumption

-----------------------------------------------------------------------------
(* Types.                                                                  *)

LEMMA InitIInv == Init => IInv
<1> SUFFICES ASSUME Init
             PROVE  IInv
  OBVIOUS
<1>1. TypeOK
  <2>1. NoKey \in CacheKey /\ NoCounter \in Counter
    BY DEF NoKey, CacheKey, NoCounter, Counter
  <2>2. CacheTypeOK
    BY <2>1 DEF Init, CacheInit, CacheTypeOK, NoLoad
  <2>3. LimiterTypeOK
    <3>1. NoWait \in NoWait..Window
      BY DEF NoWait
    <3>2. [q \in Requests |-> "idle"] \in [Requests -> {"idle", "expire", "ttl"}]
      OBVIOUS
    <3>3. [a \in Ages |-> 0] \in [Ages -> Nat]
      OBVIOUS
    <3> QED
      BY <2>1, <3>1, <3>2, <3>3, Zenon DEF Init, LimiterInit, LimiterTypeOK
  <2> QED
    BY <2>1, <2>2, <2>3 DEF Init, TypeOK
<1>2. CacheInv
  BY DEF Init, CacheInit, CacheInv, ReadsAreCurrent, SnapshotExcused, StaleIsExcused, Stale,
         NoKey, NoLoad
<1>3. LimiterInv
  BY DEF Init, LimiterInit, LimiterInv, NoExpiryExcused, OneCreator, WaitCovers,
         NoCounter, NoWait, NoExpiry
<1> QED
  BY <1>1, <1>2, <1>3 DEF IInv

\* The clock and the snapshots keep keys and counters in their types.
LEMMA AgedType ==
    ASSUME NEW key \in CacheKey
    PROVE  Aged(key) \in CacheKey /\ Excuse(key) \in CacheKey
BY DEF Aged, Excuse, CacheKey, NoKey

LEMMA ElapsedType ==
    ASSUME NEW key \in Counter
    PROVE  Elapsed(key) \in Counter
BY DEF Elapsed, Counter, NoCounter, NoExpiry

LEMMA CacheStepType ==
    ASSUME TypeOK, CacheStep
    PROVE  CacheTypeOK'
<1> USE DEF TypeOK, CacheTypeOK
<1>1. ASSUME NEW r \in Readers, LoadHit(r) \/ LoadSelect(r) \/ LoadFill(r) \/ LoadNoFill(r)
      PROVE  CacheTypeOK'
  <2>1. UNCHANGED <<policy, saver>>
    BY <1>1 DEF LoadHit, LoadSelect, LoadFill, LoadNoFill, cacheVars
  <2>2. cache' \in CacheKey
    <3>1. CASE UNCHANGED cache
      BY <3>1
    <3>2. CASE LoadFill(r)
      BY <3>2 DEF LoadFill, CacheKey
    <3> QED
      BY <1>1, <3>1, <3>2 DEF LoadHit, LoadSelect, LoadNoFill, cacheVars
  <2>3. reader' \in [Readers -> [step : {"idle", "fill"}, version : 0..MaxSaves,
                                 overtaken : BOOLEAN]]
    <3>1. CASE UNCHANGED reader
      BY <3>1
    <3>2. CASE LoadSelect(r)
      BY <3>2 DEF LoadSelect
    <3>3. CASE reader' = [reader EXCEPT ![r] = NoLoad]
      BY <3>3 DEF NoLoad
    <3> QED
      BY <1>1, <3>1, <3>2, <3>3 DEF LoadHit, LoadFill, LoadNoFill, cacheVars
  <2> QED
    BY <2>1, <2>2, <2>3
<1>2. ASSUME NEW s \in Savers, SaveCommit(s)
      PROVE  CacheTypeOK'
  BY <1>2 DEF SaveCommit, Overtaken
<1>3. ASSUME NEW s \in Savers, SaveDelete(s) \/ SaveNoDelete(s)
      PROVE  CacheTypeOK'
  <2>1. NoKey \in CacheKey
    BY DEF NoKey, CacheKey
  <2>2. cache' \in CacheKey
    BY <1>3, <2>1, AgedType DEF SaveDelete, SaveNoDelete
  <2> QED
    BY <1>3, <2>2 DEF SaveDelete, SaveNoDelete
<1> QED
  BY <1>1, <1>2, <1>3 DEF CacheStep

\* Redis rounds to the nearest second: less than half a second is lost, and no window
\* gets longer than it was.
LEMMA Rounding ==
    ASSUME NEW t \in 0..Window
    PROVE  /\ Seconds(t) \in Nat
           /\ Seconds(t) * Second \in 0..Window
           /\ 2 * (t - Seconds(t) * Second) < Second
<1> DEFINE h == Second \div 2
           k == (t + h) \div Second
           w == Window \div Second
<1>1. h \in Nat /\ 2 * h <= Second /\ Second <= 2 * h + 1
  OBVIOUS
<1>2. k \in Nat /\ k * Second <= t + h /\ t + h < k * Second + Second
  BY <1>1, SMTT(30)
<1>3. w \in Nat /\ w * Second = Window
  BY LimiterAssumption, SMTT(30)
<1>4. k * Second \in Nat
  BY <1>2
<1> HIDE DEF h, k, w
<1>5. 2 * (t - k * Second) < Second
  BY <1>1, <1>2, <1>4
<1>6. k <= w
  <2> SUFFICES ASSUME w + 1 <= k
               PROVE  FALSE
    BY <1>2, <1>3
  <2>1. (w + 1) * Second <= k * Second
    BY <1>2, <1>3, SMTT(30)
  <2>2. (w + 1) * Second = w * Second + Second
    BY <1>3
  <2> QED
    BY <1>1, <1>2, <1>3, <1>4, <2>1, <2>2
<1>7. k * Second <= w * Second
  BY <1>2, <1>3, <1>6, SMTT(30)
<1> QED
  BY <1>2, <1>3, <1>4, <1>5, <1>7 DEF Seconds, h, k

LEMMA RetryAfterType ==
    ASSUME TypeOK, counter.ttl > 0
    PROVE  /\ RetryAfter \in 0..Window
           /\ 2 * (counter.ttl - RetryAfter) < Second
<1>1. counter.ttl \in 0..Window
  BY DEF TypeOK, LimiterTypeOK, Counter, NoExpiry
<1> DEFINE ttl == Seconds(counter.ttl)
<1>2. /\ ttl \in Nat /\ ttl * Second \in 0..Window
      /\ 2 * (counter.ttl - ttl * Second) < Second
  BY <1>1, Rounding
<1>3. RetryAfter = IF ttl > 0 THEN ttl * Second ELSE Window
  BY DEF RetryAfter
<1> HIDE DEF ttl
<1> QED
  BY <1>1, <1>2, <1>3

LEMMA IncrementedType ==
    ASSUME TypeOK
    PROVE  Incremented \in Counter
BY DEF TypeOK, LimiterTypeOK, Incremented, Counter, NoExpiry

LEMMA LimiterStepType ==
    ASSUME TypeOK, LimiterStep
    PROVE  LimiterTypeOK'
<1> USE DEF TypeOK, LimiterTypeOK
<1>1. ASSUME NEW q \in Requests, Incr(q)
      PROVE  LimiterTypeOK'
  BY <1>1, IncrementedType DEF Incr, Admit, Ages
<1>2. ASSUME NEW q \in Requests, Expire(q)
      PROVE  LimiterTypeOK'
  <2>1. counter' \in Counter
    BY <1>2 DEF Expire, Counter, NoCounter
  <2>2. admitted' \in [Ages -> Nat]
    BY <1>2 DEF Expire, Admit, Ages
  <2> QED
    BY <1>2, <2>1, <2>2 DEF Expire
<1>3. ASSUME NEW q \in Requests, Ttl(q)
      PROVE  LimiterTypeOK'
  BY <1>3, RetryAfterType DEF Ttl, NoWait
<1>4. ASSUME NEW q \in Requests, Die(q)
      PROVE  LimiterTypeOK'
  BY <1>4 DEF Die
<1> QED
  BY <1>1, <1>2, <1>3, <1>4 DEF LimiterStep

LEMMA TypeStep ==
    ASSUME TypeOK, [Next]_vars
    PROVE  TypeOK'
<1> USE DEF TypeOK
<1>1. CASE CacheStep /\ UNCHANGED <<limiterVars, snapshot, restarts>>
  BY <1>1, CacheStepType DEF LimiterTypeOK, limiterVars
<1>2. CASE LimiterStep /\ UNCHANGED <<cacheVars, snapshot, restarts>>
  BY <1>2, LimiterStepType DEF CacheTypeOK, cacheVars
<1>3. CASE Tick
  <2>1. CacheTypeOK'
    BY <1>3, AgedType DEF Tick, CacheTypeOK
  <2>2. counter' \in Counter
    BY <1>3, ElapsedType DEF Tick, LimiterTick, LimiterTypeOK
  <2>3. wait' \in NoWait..Window
    BY <1>3 DEF Tick, LimiterTick, LimiterTypeOK, NoWait
  <2>4. admitted' \in [Ages -> Nat]
    BY <1>3 DEF Tick, LimiterTick, LimiterTypeOK, Ages
  <2>5. LimiterTypeOK'
    BY <1>3, <2>2, <2>3, <2>4 DEF Tick, LimiterTick, LimiterTypeOK
  <2>6. snapshot' \in [cache : CacheKey, counter : Counter] /\ restarts' = restarts
    BY <1>3, AgedType, ElapsedType DEF Tick
  <2> QED
    BY <2>1, <2>5, <2>6
<1>4. CASE Save
  BY <1>4, AgedType DEF Save, CacheTypeOK, LimiterTypeOK, cacheVars, limiterVars
<1>5. CASE Restart
  BY <1>5 DEF Restart, CacheTypeOK, LimiterTypeOK
<1>6. CASE UNCHANGED vars
  BY <1>6 DEF vars, cacheVars, limiterVars, CacheTypeOK, LimiterTypeOK
<1> QED
  BY <1>1, <1>2, <1>3, <1>4, <1>5, <1>6 DEF Next

-----------------------------------------------------------------------------
(* The cache.                                                              *)

LEMMA CacheStepInv ==
    ASSUME TypeOK, CacheInv, CacheStep, UNCHANGED snapshot
    PROVE  CacheInv'
<1> USE DEF CacheInv, ReadsAreCurrent, SnapshotExcused, StaleIsExcused, Stale
<1>1. ASSUME NEW r \in Readers, LoadHit(r) \/ LoadSelect(r) \/ LoadNoFill(r)
      PROVE  CacheInv'
  BY <1>1 DEF LoadHit, LoadSelect, LoadNoFill, cacheVars, NoLoad, TypeOK, CacheTypeOK
<1>2. ASSUME NEW r \in Readers, LoadFill(r)
      PROVE  CacheInv'
  BY <1>2 DEF LoadFill, NoLoad, TypeOK, CacheTypeOK
<1>3. ASSUME NEW s \in Savers, SaveCommit(s)
      PROVE  CacheInv'
  <2>1. saver'[s] = "committed"
    BY <1>3 DEF SaveCommit, TypeOK, CacheTypeOK
  <2>2. \A r \in Readers : reader'[r].step = "fill" => reader'[r].overtaken
    BY <1>3 DEF SaveCommit, Overtaken, TypeOK, CacheTypeOK
  <2> QED
    BY <2>1, <2>2
<1>4. ASSUME NEW s \in Savers, SaveDelete(s)
      PROVE  CacheInv'
  BY <1>4 DEF SaveDelete, NoKey, TypeOK, CacheTypeOK
<1>5. ASSUME NEW s \in Savers, SaveNoDelete(s)
      PROVE  CacheInv'
  BY <1>5 DEF SaveNoDelete, Excuse, TypeOK, CacheTypeOK
<1> QED
  BY <1>1, <1>2, <1>3, <1>4, <1>5 DEF CacheStep

LEMMA CacheInvStep ==
    ASSUME TypeOK, CacheInv, [Next]_vars
    PROVE  CacheInv'
<1> USE DEF CacheInv, ReadsAreCurrent, SnapshotExcused, StaleIsExcused, Stale
<1>1. CASE CacheStep /\ UNCHANGED <<limiterVars, snapshot, restarts>>
  BY <1>1, CacheStepInv
<1>2. CASE (LimiterStep /\ UNCHANGED <<cacheVars, snapshot, restarts>>) \/ UNCHANGED vars
  BY <1>2 DEF vars, cacheVars
<1>3. CASE Tick
  BY <1>3 DEF Tick, Aged, NoKey, TypeOK, CacheTypeOK, CacheKey
<1>4. CASE Save
  BY <1>4 DEF Save, Excuse, cacheVars
<1>5. CASE Restart
  BY <1>5 DEF Restart
<1> QED
  BY <1>1, <1>2, <1>3, <1>4, <1>5 DEF Next

-----------------------------------------------------------------------------
(* The limiter.                                                            *)

LEMMA LimiterStepInv ==
    ASSUME TypeOK, LimiterInv, LimiterStep, UNCHANGED restarts
    PROVE  LimiterInv'
<1> USE DEF LimiterInv, NoExpiryExcused, OneCreator, WaitCovers, NoExpiry, NoWait
<1>t. /\ counter \in Counter
      /\ request \in [Requests -> {"idle", "expire", "ttl"}]
      /\ wait \in NoWait..Window
  BY DEF TypeOK, LimiterTypeOK
<1>1. ASSUME NEW q \in Requests, Incr(q), counter.count = 0
      PROVE  LimiterInv'
  <2>1. counter'.count = 1 /\ counter'.ttl = NoExpiry
    BY <1>1, <1>t DEF Incr, Incremented
  <2>2. request' = [request EXCEPT ![q] = "expire"] /\ UNCHANGED <<orphaned, wait>>
    BY <1>1, <2>1 DEF Incr
  <2> QED
    BY <1>1, <1>t, <2>1, <2>2 DEF Counter
<1>2. ASSUME NEW q \in Requests, Incr(q), counter.count # 0
      PROVE  LimiterInv'
  <2>1. counter'.count > 1 /\ counter'.ttl = counter.ttl
    BY <1>2, <1>t DEF Incr, Incremented, Counter
  <2>2. /\ \A p \in Requests : request'[p] = "expire" <=> request[p] = "expire"
        /\ UNCHANGED <<orphaned, wait>>
    BY <1>2, <1>t, <2>1 DEF Incr, Counter
  <2> QED
    BY <1>2, <1>t, <2>1, <2>2 DEF Counter
<1>3. ASSUME NEW q \in Requests, Expire(q)
      PROVE  LimiterInv'
  <2>1. \A p \in Requests : request'[p] = "expire" => p # q /\ request[p] = "expire"
    BY <1>3, <1>t DEF Expire
  <2>2. counter'.ttl # NoExpiry
    BY <1>3, <1>t DEF Expire, NoCounter, Counter
  <2>3. restarts = 0 => /\ counter'.count = counter.count
                        /\ counter'.count # 0 /\ counter'.ttl = Window
                        /\ wait = NoWait
    BY <1>3, <1>t DEF Expire, NoCounter, Counter
  <2> QED
    BY <1>3, <1>t, <2>1, <2>2, <2>3 DEF Expire
<1>4. ASSUME NEW q \in Requests, Ttl(q)
      PROVE  LimiterInv'
  <2>1. counter.ttl > 0 => /\ RetryAfter \in Nat
                           /\ 2 * (counter.ttl - RetryAfter) < Second
    BY RetryAfterType
  <2> QED
    BY <1>4, <1>t, <2>1 DEF Ttl, Counter
<1>5. ASSUME NEW q \in Requests, Die(q)
      PROVE  LimiterInv'
  BY <1>5, <1>t DEF Die
<1> QED
  BY <1>1, <1>2, <1>3, <1>4, <1>5 DEF LimiterStep

LEMMA LimiterInvStep ==
    ASSUME TypeOK, LimiterInv, [Next]_vars
    PROVE  LimiterInv'
<1> USE DEF LimiterInv, NoExpiryExcused, OneCreator, WaitCovers, NoExpiry, NoWait
<1>1. CASE LimiterStep /\ UNCHANGED <<cacheVars, snapshot, restarts>>
  BY <1>1, LimiterStepInv
<1>2. CASE \/ CacheStep /\ UNCHANGED <<limiterVars, snapshot, restarts>>
           \/ Save
           \/ UNCHANGED vars
  BY <1>2 DEF Save, vars, limiterVars
<1>3. CASE Tick
  <2>1. counter \in Counter /\ wait \in NoWait..Window
    BY DEF TypeOK, LimiterTypeOK
  <2>2. UNCHANGED <<request, orphaned, restarts>> /\ counter' = Elapsed(counter)
    BY <1>3 DEF Tick, LimiterTick
  <2>3. NoExpiryExcused'
    BY <2>1, <2>2 DEF Elapsed, NoCounter
  <2>4. OneCreator'
    BY <2>1, <2>2 DEF Elapsed, NoCounter, Counter
  <2>5. WaitCovers'
    BY <1>3, <2>1, <2>2 DEF Tick, LimiterTick, Elapsed, NoCounter, Counter
  <2> QED
    BY <2>3, <2>4, <2>5
<1>4. CASE Restart
  <2>1. restarts' # 0
    BY <1>4 DEF Restart, TypeOK
  <2>2. NoExpiryExcused'
    BY <1>4 DEF Restart
  <2> QED
    BY <2>1, <2>2
<1> QED
  BY <1>1, <1>2, <1>3, <1>4 DEF Next

-----------------------------------------------------------------------------
LEMMA InvariantStep == IInv /\ [Next]_vars => IInv'
BY TypeStep, CacheInvStep, LimiterInvStep DEF IInv

\* The variables keep their types, for any numbers of clients and any bounds.
THEOREM RedisTypeCorrect == Spec => []TypeOK
<1>1. IInv => TypeOK
  BY DEF IInv
<1> QED
  BY <1>1, InitIInv, InvariantStep, PTL DEF Spec

\* No interleaving of loads and saves leaves an outdated policy in the cache without
\* a lost DELETE, an overtaken load or a restart (policy_service.py:86-143).
THEOREM StaleKeysAreExcused == Spec => []StaleIsExcused
<1>1. IInv => StaleIsExcused
  BY DEF IInv, CacheInv
<1> QED
  BY <1>1, InitIInv, InvariantStep, PTL DEF Spec

\* A counter without expiry has its creator still at work, unless that request died
\* or a restart brought the counter back (rate_limiter.py:68-71).
THEOREM NoExpiryIsExcused == Spec => []NoExpiryExcused
<1>1. IInv => NoExpiryExcused
  BY DEF IInv, LimiterInv
<1> QED
  BY <1>1, InitIInv, InvariantStep, PTL DEF Spec

\* Waiting as long as Retry-After says outlasts the window that rejected the request
\* but for less than half a second (rate_limiter.py:73-77).
THEOREM RetryAfterIsNearlyHonest == Spec => []RetryAfterRounded
<1>1. IInv => RetryAfterRounded
  BY DEF IInv, TypeOK, LimiterTypeOK, Counter, LimiterInv, WaitCovers, RetryAfterRounded, NoWait,
         NoExpiry
<1> QED
  BY <1>1, InitIInv, InvariantStep, PTL DEF Spec

-----------------------------------------------------------------------------
(* Induction.  A set of finite sets has a minimal element, since inclusion  *)
(* is well founded on them; hence a set of numbers has a least one, and a   *)
(* set of numbers with 0 and all successors has them all.                   *)

LEMMA LeastNumber ==
    ASSUME NEW T \in SUBSET Nat, T # {}
    PROVE  \E n \in T : \A m \in T : n <= m
<1> DEFINE I == {1..n : n \in T}
<1>1. I \subseteq FiniteSubsetsOf(Nat) /\ I \subseteq SUBSET Nat /\ I # {}
  <2>1. \A n \in T : 1..n \subseteq Nat /\ IsFiniteSet(1..n)
    BY FS_Interval
  <2> QED
    BY <2>1 DEF FiniteSubsetsOf
<1> HIDE DEF I
<1>2. PICK U \in I : \A V \in I : ~ (<<V, U>> \in StrictSubsetOrdering(Nat))
  BY <1>1, FS_StrictSubsetOrderingWellFounded, WFMin
<1>3. ASSUME NEW V \in I, V \subseteq U
      PROVE  V = U
  <2>1. V # U => <<V, U>> \in StrictSubsetOrdering(Nat)
    BY <1>1, <1>3, Zenon DEF StrictSubsetOrdering
  <2> QED
    BY <1>2, <2>1
<1>4. PICK n \in T : U = 1..n
  BY DEF I
<1>5. ASSUME NEW m \in T, m < n
      PROVE  FALSE
  <2>1. 1..m \in I /\ 1..m \subseteq 1..n
    BY <1>5 DEF I
  <2>2. 1..m = 1..n
    BY <1>3, <1>4, <2>1
  <2> QED
    BY <1>5, <2>2
<1> QED
  BY <1>5

LEMMA Induction ==
    ASSUME NEW T, 0 \in T, \A n \in Nat : n \in T => n + 1 \in T
    PROVE  Nat \subseteq T
<1> SUFFICES ASSUME Nat \ T # {}
             PROVE  FALSE
  OBVIOUS
<1>1. PICK n \in Nat \ T : \A m \in Nat \ T : n <= m
  BY LeastNumber
<1>2. n - 1 \in Nat /\ n - 1 \in T
  BY <1>1
<1> QED
  BY <1>1, <1>2

-----------------------------------------------------------------------------
(* Sums of counts.                                                         *)

LEMMA TotalsExist ==
    ASSUME NEW counts \in [Ages -> Nat]
    PROVE  /\ Totals(counts) \in [0..Window -> Nat]
           /\ Totals(counts)[0] = 0
           /\ \A k \in 1..Window : Totals(counts)[k] = Totals(counts)[k - 1] + counts[k - 1]
<1> DEFINE Sums(total, n) == /\ total \in [0..n -> Nat]
                             /\ total[0] = 0
                             /\ \A k \in 1..n : total[k] = total[k - 1] + counts[k - 1]
           T == {n \in Nat : n <= Window => \E total : Sums(total, n)}
<1>1. 0 \in T
  <2>1. Sums([k \in 0..0 |-> 0], 0)
    OBVIOUS
  <2> QED
    BY <2>1
<1>2. ASSUME NEW n \in Nat, n \in T
      PROVE  n + 1 \in T
  <2> SUFFICES ASSUME n + 1 <= Window
               PROVE  \E total : Sums(total, n + 1)
    OBVIOUS
  <2>1. PICK total : Sums(total, n)
    BY <1>2
  <2> DEFINE longer == [k \in 0..(n + 1) |-> IF k = n + 1 THEN total[n] + counts[n]
                                              ELSE total[k]]
  <2>2. counts[n] \in Nat
    BY DEF Ages
  <2>3. longer \in [0..(n + 1) -> Nat] /\ longer[0] = 0
    BY <2>1, <2>2
  <2>4. ASSUME NEW k \in 1..(n + 1)
        PROVE  longer[k] = longer[k - 1] + counts[k - 1]
    <3>1. CASE k = n + 1
      BY <3>1
    <3>2. CASE k # n + 1
      BY <3>2, <2>1
    <3> QED
      BY <3>1, <3>2
  <2> QED
    BY <2>3, <2>4
<1>3. Window \in T
  <2> HIDE DEF T
  <2> QED
    BY <1>1, <1>2, Induction
<1>4. PICK total : Sums(total, Window)
  BY <1>3
<1> DEFINE Recursive(f) ==
        f = [k \in 0..Window |-> IF k = 0 THEN 0 ELSE f[k - 1] + counts[k - 1]]
<1>5. Recursive(total)
  <2>1. \A k \in 0..Window : total[k] = IF k = 0 THEN 0 ELSE total[k - 1] + counts[k - 1]
    BY <1>4
  <2> QED
    BY <1>4, <2>1
<1>6. Totals(counts) = CHOOSE f : Recursive(f)
  BY DEF Totals
<1>7. Recursive(Totals(counts))
  <2> HIDE DEF Recursive
  <2> QED
    BY <1>5, <1>6
<1> HIDE DEF Recursive
<1> DEFINE f == Totals(counts)
<1>8. f = [k \in 0..Window |-> IF k = 0 THEN 0 ELSE f[k - 1] + counts[k - 1]]
  BY <1>7 DEF Recursive
<1> HIDE DEF f
<1>9. f[0] = 0 /\ \A k \in 1..Window : f[k] = f[k - 1] + counts[k - 1]
  BY <1>8
<1>10. f \in [0..Window -> Nat]
  <2> DEFINE N == {n \in Nat : n <= Window => f[n] \in Nat}
  <2>1. 0 \in N
    BY <1>9
  <2>2. \A n \in Nat : n \in N => n + 1 \in N
    <3> SUFFICES ASSUME NEW n \in Nat, n \in N, n + 1 <= Window
                 PROVE  f[n + 1] \in Nat
      OBVIOUS
    <3>1. f[n] \in Nat /\ counts[n] \in Nat
      BY DEF Ages
    <3>2. f[n + 1] = f[n] + counts[n]
      BY <1>9, n + 1 \in 1..Window
    <3> QED
      BY <3>1, <3>2
  <2> HIDE DEF N
  <2>3. Nat \subseteq N
    BY <2>1, <2>2, Induction
  <2>4. \A k \in 0..Window : f[k] \in Nat
    BY <2>3 DEF N
  <2> QED
    BY <1>8, <2>4
<1> QED
  BY <1>9, <1>10 DEF f

\* One request more in the present tick, and a tick of the clock.
LEMMA TotalsAdmit ==
    ASSUME NEW counts \in [Ages -> Nat]
    PROVE  LET more == [counts EXCEPT ![0] = @ + 1]
           IN  \A k \in 1..Window : Totals(more)[k] = Totals(counts)[k] + 1
<1> DEFINE more == [counts EXCEPT ![0] = @ + 1]
           T == {n \in Nat : n + 1 <= Window => Totals(more)[n + 1] = Totals(counts)[n + 1] + 1}
<1>1. more \in [Ages -> Nat] /\ 0 \in Ages
  BY DEF Ages
<1>2. more[0] = counts[0] + 1 /\ \A a \in Ages : a # 0 => more[a] = counts[a]
  BY <1>1
<1> HIDE DEF more
<1>3. 0 \in T
  <2>1. Totals(more)[1] = Totals(more)[0] + more[0] /\ Totals(more)[0] = 0
    BY <1>1, TotalsExist
  <2>2. Totals(counts)[1] = Totals(counts)[0] + counts[0] /\ Totals(counts)[0] = 0
    BY TotalsExist
  <2>3. counts[0] \in Nat
    BY <1>1
  <2> QED
    BY <1>2, <2>1, <2>2, <2>3
<1>4. ASSUME NEW n \in Nat, n \in T
      PROVE  n + 1 \in T
  <2> SUFFICES ASSUME n + 2 <= Window
               PROVE  Totals(more)[n + 2] = Totals(counts)[n + 2] + 1
    OBVIOUS
  <2>1. n + 2 \in 1..Window /\ (n + 2) - 1 = n + 1 /\ n + 1 \in Ages /\ n + 1 # 0
    BY DEF Ages
  <2>2. Totals(more)[n + 2] = Totals(more)[n + 1] + more[n + 1]
    BY <1>1, <2>1, TotalsExist
  <2>3. Totals(counts)[n + 2] = Totals(counts)[n + 1] + counts[n + 1]
    BY <2>1, TotalsExist
  <2>4. Totals(counts)[n + 1] \in Nat /\ counts[n + 1] \in Nat
    BY <2>1, TotalsExist
  <2> QED
    BY <1>2, <1>4, <2>1, <2>2, <2>3, <2>4
<1> HIDE DEF T
<1>5. Nat \subseteq T
  BY <1>3, <1>4, Induction
<1>6. ASSUME NEW k \in 1..Window
      PROVE  Totals(more)[k] = Totals(counts)[k] + 1
  <2>1. k - 1 \in T
    BY <1>5
  <2> QED
    BY <2>1 DEF T
<1> QED
  BY <1>6 DEF more

LEMMA TotalsTick ==
    ASSUME NEW counts \in [Ages -> Nat]
    PROVE  LET later == [a \in Ages |-> IF a = 0 THEN 0 ELSE counts[a - 1]]
           IN  \A k \in 1..Window : Totals(later)[k] = Totals(counts)[k - 1]
<1> DEFINE later == [a \in Ages |-> IF a = 0 THEN 0 ELSE counts[a - 1]]
           T == {n \in Nat : n + 1 <= Window => Totals(later)[n + 1] = Totals(counts)[n]}
<1>1. later \in [Ages -> Nat] /\ 0 \in Ages
  BY DEF Ages
<1>2. later[0] = 0 /\ \A a \in Ages : a # 0 => later[a] = counts[a - 1]
  BY <1>1
<1> HIDE DEF later
<1>3. 0 \in T
  BY <1>1, <1>2, TotalsExist
<1>4. ASSUME NEW n \in Nat, n \in T
      PROVE  n + 1 \in T
  <2> SUFFICES ASSUME n + 2 <= Window
               PROVE  Totals(later)[n + 2] = Totals(counts)[n + 1]
    OBVIOUS
  <2>1. /\ n + 2 \in 1..Window /\ (n + 2) - 1 = n + 1 /\ n + 1 # 0
        /\ n + 1 \in 1..Window /\ (n + 1) - 1 = n /\ n + 1 \in Ages
    BY DEF Ages
  <2>2. Totals(later)[n + 2] = Totals(later)[n + 1] + later[n + 1]
    BY <1>1, <2>1, TotalsExist
  <2>3. Totals(counts)[n + 1] = Totals(counts)[n] + counts[n]
    BY <2>1, TotalsExist
  <2> QED
    BY <1>2, <1>4, <2>1, <2>2, <2>3
<1> HIDE DEF T
<1>5. Nat \subseteq T
  BY <1>3, <1>4, Induction
<1>6. ASSUME NEW k \in 1..Window
      PROVE  Totals(later)[k] = Totals(counts)[k - 1]
  <2>1. k - 1 \in T
    BY <1>5
  <2> QED
    BY <2>1 DEF T
<1> QED
  BY <1>6 DEF later

-----------------------------------------------------------------------------
(* What passes the limit.                                                  *)

\* Requests that were counted as the first and are not admitted yet.
Pending == {q \in Requests : request[q] = "expire"}

\* What the counter has let through, or will.
Counted == IF counter.count < Limit THEN counter.count ELSE Limit

\* What the restarts have cost.
Budget == restarts * Limit

\* The requests admitted in the last k ticks, and those that will be for certain.
Since(k) == Totals(admitted)[k] + Cardinality(Pending)

NoEmptyKey ==
    /\ counter.count = 0 \/ counter.ttl = 0 => counter = NoCounter
    /\ snapshot.counter.count = 0 \/ snapshot.counter.ttl = 0 => snapshot.counter = NoCounter

\* One request at a time is to set the expiry, and one more for each restart.
FewPending == Cardinality(Pending) <= Budget + (IF counter.ttl = NoExpiry THEN 1 ELSE 0)

\* A window that is over, and the present one.
TwoWindows == Since(Window) <= Budget + Limit + Counted

\* Since the expiry of a key was set, only the present window has let requests through.
OneWindow(key) ==
    key.ttl > 0 => Since(Window - key.ttl) <= Budget + Counted

\* The counter lives as long as the one a restart would bring back.
SnapshotExpiresFirst ==
    snapshot.counter.ttl > 0 =>
        counter.ttl = NoExpiry \/ counter.ttl >= snapshot.counter.ttl

AdmissionInv ==
    /\ NoEmptyKey
    /\ FewPending
    /\ TwoWindows
    /\ OneWindow(counter)
    /\ OneWindow(snapshot.counter)
    /\ SnapshotExpiresFirst

LEMMA PendingType ==
    /\ IsFiniteSet(Pending)
    /\ Cardinality(Pending) \in Nat
<1>1. IsFiniteSet(Pending)
  BY FS_Subset DEF Pending
<1> QED
  BY <1>1, FS_CardinalityType

\* The facts of a state that the steps below calculate with.
LEMMA AdmissionTypes ==
    ASSUME TypeOK
    PROVE  /\ counter \in Counter /\ snapshot.counter \in Counter
           /\ counter.count \in Nat /\ counter.ttl \in {NoExpiry} \cup 0..Window
           /\ snapshot.counter.ttl \in {NoExpiry} \cup 0..Window
           /\ request \in [Requests -> {"idle", "expire", "ttl"}]
           /\ admitted \in [Ages -> Nat]
           /\ Counted \in 0..Limit
           /\ Budget \in Nat
           /\ \A k \in 0..Window : Totals(admitted)[k] \in Nat
           /\ Totals(admitted)[0] = 0
           /\ Totals(admitted)[Window - 1] <= Totals(admitted)[Window]
           /\ Cardinality(Pending) \in Nat
           /\ IsFiniteSet(Pending)
<1>1. /\ counter \in Counter /\ snapshot.counter \in Counter
      /\ request \in [Requests -> {"idle", "expire", "ttl"}]
      /\ admitted \in [Ages -> Nat]
      /\ restarts \in Nat
  BY DEF TypeOK, LimiterTypeOK
<1>2. Budget \in Nat
  BY <1>1 DEF Budget
<1>3. /\ Totals(admitted) \in [0..Window -> Nat]
      /\ Totals(admitted)[0] = 0
      /\ Totals(admitted)[Window] = Totals(admitted)[Window - 1] + admitted[Window - 1]
  BY <1>1, TotalsExist
<1>4. Window - 1 \in 0..Window /\ admitted[Window - 1] \in Nat
  BY <1>1 DEF Ages
<1> QED
  BY <1>1, <1>2, <1>3, <1>4, PendingType DEF Counter, Counted

LEMMA InitAdmissionInv == Init => AdmissionInv
<1> SUFFICES ASSUME Init
             PROVE  AdmissionInv
  OBVIOUS
<1>1. Pending = {}
  BY DEF Init, LimiterInit, Pending
<1>2. Cardinality(Pending) = 0
  BY <1>1, FS_EmptySet
<1>3. /\ counter = NoCounter /\ snapshot.counter = NoCounter
      /\ restarts = 0
      /\ admitted = [a \in Ages |-> 0]
  BY DEF Init, LimiterInit
<1>4. Totals(admitted)[Window] = 0
  <2> DEFINE T == {n \in Nat : n <= Window => Totals(admitted)[n] = 0}
  <2>1. admitted \in [Ages -> Nat]
    BY <1>3
  <2>2. 0 \in T
    BY <2>1, TotalsExist
  <2>3. ASSUME NEW n \in Nat, n \in T
        PROVE  n + 1 \in T
    <3> SUFFICES ASSUME n + 1 <= Window
                 PROVE  Totals(admitted)[n + 1] = 0
      OBVIOUS
    <3>1. n + 1 \in 1..Window /\ (n + 1) - 1 = n /\ n \in Ages
      BY DEF Ages
    <3>2. Totals(admitted)[n + 1] = Totals(admitted)[n] + admitted[n]
      BY <2>1, <3>1, TotalsExist
    <3> QED
      BY <1>3, <2>3, <3>1, <3>2
  <2> HIDE DEF T
  <2>4. Window \in T
    BY <2>2, <2>3, Induction
  <2> QED
    BY <2>4 DEF T
<1>5. Budget = 0 /\ Counted = 0
  BY <1>3 DEF Budget, Counted, NoCounter
<1> QED
  BY <1>2, <1>3, <1>4, <1>5 DEF AdmissionInv, NoEmptyKey, FewPending, TwoWindows, OneWindow,
      SnapshotExpiresFirst, Since, NoCounter, NoExpiry

\* The requests.
LEMMA LimiterStepAdmission ==
    ASSUME TypeOK, AdmissionInv, LimiterStep, UNCHANGED <<snapshot, restarts>>
    PROVE  AdmissionInv'
<1> USE DEF NoExpiry
<1> DEFINE n == Cardinality(Pending)
           total == Totals(admitted)
<1>t. /\ counter \in Counter /\ snapshot.counter \in Counter
      /\ counter.count \in Nat /\ counter.ttl \in {NoExpiry} \cup 0..Window
      /\ snapshot.counter.ttl \in {NoExpiry} \cup 0..Window
      /\ request \in [Requests -> {"idle", "expire", "ttl"}]
      /\ admitted \in [Ages -> Nat]
      /\ Counted \in 0..Limit
      /\ Budget \in Nat
      /\ \A k \in 0..Window : total[k] \in Nat
      /\ total[0] = 0
      /\ n \in Nat
      /\ IsFiniteSet(Pending)
  BY AdmissionTypes
<1>i. /\ counter.count = 0 \/ counter.ttl = 0 => counter = NoCounter
      /\ snapshot.counter.count = 0 \/ snapshot.counter.ttl = 0 => snapshot.counter = NoCounter
      /\ n <= Budget + (IF counter.ttl = NoExpiry THEN 1 ELSE 0)
      /\ total[Window] + n <= Budget + Limit + Counted
      /\ counter.ttl > 0 => total[Window - counter.ttl] + n <= Budget + Counted
      /\ snapshot.counter.ttl > 0 =>
            total[Window - snapshot.counter.ttl] + n <= Budget + Counted
      /\ snapshot.counter.ttl > 0 =>
            counter.ttl = NoExpiry \/ counter.ttl >= snapshot.counter.ttl
  BY DEF AdmissionInv, NoEmptyKey, FewPending, TwoWindows, OneWindow, SnapshotExpiresFirst,
         Since
<1>b. UNCHANGED <<snapshot, Budget>>
  BY DEF Budget
<1>a. ASSUME Admit
      PROVE  \A k \in 0..Window : /\ Totals(admitted')[k] \in Nat
                                  /\ k # 0 => Totals(admitted')[k] = total[k] + 1
                                  /\ k = 0 => Totals(admitted')[k] = 0
  <2>1. admitted' = [admitted EXCEPT ![0] = @ + 1] /\ admitted' \in [Ages -> Nat]
    BY <1>a, <1>t DEF Admit, Ages
  <2>2. \A k \in 1..Window : Totals(admitted')[k] = total[k] + 1
    BY <2>1, <1>t, TotalsAdmit
  <2>3. Totals(admitted') \in [0..Window -> Nat] /\ Totals(admitted')[0] = 0
    BY <2>1, TotalsExist
  <2> QED
    BY <2>2, <2>3
<1> HIDE DEF n, total
<1>1. ASSUME NEW q \in Requests, Incr(q), counter.count = 0
      PROVE  AdmissionInv'
  <2>1. /\ counter'.count = 1 /\ counter'.ttl = NoExpiry
        /\ request' = [request EXCEPT ![q] = "expire"]
        /\ request[q] = "idle"
        /\ UNCHANGED admitted
    BY <1>1, <1>t DEF Incr, Incremented
  <2>2. Pending' = Pending \cup {q} /\ q \notin Pending
    BY <2>1, <1>t DEF Pending
  <2>3. Cardinality(Pending') = n + 1
    BY <2>2, <1>t, FS_AddElement DEF n
  <2>4. Counted = 0 /\ Counted' = 1
    BY <1>1, <2>1 DEF Counted
  <2>5. counter.ttl = 0
    BY <1>1, <1>i DEF NoCounter
  <2> QED
    BY <2>1, <2>3, <2>4, <2>5, <1>t, <1>i, <1>b
    DEF AdmissionInv, NoEmptyKey, FewPending, TwoWindows, OneWindow, SnapshotExpiresFirst,
        Since, total
<1>2. ASSUME NEW q \in Requests, Incr(q), counter.count # 0
      PROVE  AdmissionInv'
  <2>1. counter'.count # 0 /\ counter'.ttl = counter.ttl /\ counter.ttl # 0
    BY <1>2, <1>t, <1>i DEF Incr, Incremented, Counter, NoCounter
  <2>2. Pending' = Pending
    <3>1. counter'.count # 1
      BY <1>2, <1>t DEF Incr, Incremented, Counter
    <3>2. request[q] = "idle" /\ (UNCHANGED request \/ request' = [request EXCEPT ![q] = "ttl"])
      BY <1>2, <3>1 DEF Incr
    <3> QED
      BY <1>t, <3>2 DEF Pending
  <2>3. Cardinality(Pending') = n
    BY <2>2 DEF n
  <2>4. \/ Admit /\ Counted' = Counted + 1
        \/ UNCHANGED admitted /\ Counted' \in {Counted, Counted + 1}
    <3>1. counter' = Incremented /\ counter'.count # 1
      BY <1>2, <1>t DEF Incr, Incremented, Counter
    <3>2. CASE counter'.count \in 2..Limit
      BY <1>2, <1>t, <3>1, <3>2 DEF Incr, Incremented, Counter, Counted
    <3>3. CASE counter'.count > Limit
      BY <1>2, <1>t, <3>1, <3>3 DEF Incr, Incremented, Counter, Counted
    <3> QED
      BY <1>2, <3>1, <3>2, <3>3 DEF Incr
  <2>5. Counted' \in Int /\ \A k \in 0..Window :
          /\ Totals(admitted')[k] \in Nat
          /\ Totals(admitted')[k] - Counted' <= total[k] - Counted
    BY <2>4, <1>t, <1>a DEF total
  <2>6. NoEmptyKey' /\ FewPending' /\ SnapshotExpiresFirst'
    BY <2>1, <2>3, <1>t, <1>i, <1>b DEF NoEmptyKey, FewPending, SnapshotExpiresFirst
  <2>7. TwoWindows'
    BY <2>3, <2>5, <1>t, <1>i, <1>b DEF TwoWindows, Since
  <2>8. OneWindow(counter)'
    BY <2>1, <2>3, <2>5, <1>t, <1>i, <1>b DEF OneWindow, Since
  <2>9. OneWindow(snapshot.counter)'
    BY <2>3, <2>5, <1>t, <1>i, <1>b DEF OneWindow, Since
  <2> QED
    BY <2>6, <2>7, <2>8, <2>9 DEF AdmissionInv
<1>3. ASSUME NEW q \in Requests, Expire(q)
      PROVE  AdmissionInv'
  <2>1. /\ request[q] = "expire" /\ request' = [request EXCEPT ![q] = "idle"]
        /\ Admit
        /\ counter' = IF counter = NoCounter THEN NoCounter
                      ELSE [count |-> counter.count, ttl |-> Window]
    BY <1>3 DEF Expire
  <2>2. Pending' = Pending \ {q} /\ q \in Pending
    BY <2>1, <1>t DEF Pending
  <2>3. Cardinality(Pending') = n - 1
    BY <2>2, <1>t, FS_RemoveElement DEF n
  <2>4. Counted' = Counted
    BY <2>1 DEF Counted, NoCounter
  <2>5. n # 0
    BY <2>2, <1>t, FS_EmptySet DEF n
  <2>6. CASE counter = NoCounter
    BY <2>1, <2>3, <2>4, <2>5, <2>6, <1>t, <1>i, <1>b, <1>a
    DEF AdmissionInv, NoEmptyKey, FewPending, TwoWindows, OneWindow, SnapshotExpiresFirst,
        Since, NoCounter
  <2>7. CASE counter # NoCounter
    <3>1. counter'.ttl = Window /\ counter'.count = counter.count /\ counter.count # 0
      BY <2>1, <2>7, <1>i
    <3> QED
      BY <3>1, <2>1, <2>3, <2>4, <2>5, <1>t, <1>i, <1>b, <1>a
      DEF AdmissionInv, NoEmptyKey, FewPending, TwoWindows, OneWindow, SnapshotExpiresFirst,
          Since
  <2> QED
    BY <2>6, <2>7
<1>4. ASSUME NEW q \in Requests, Ttl(q) \/ Die(q)
      PROVE  AdmissionInv'
  <2>1. UNCHANGED <<counter, admitted>> /\ request' = [request EXCEPT ![q] = "idle"]
    BY <1>4 DEF Ttl, Die
  <2>2. Pending' \subseteq Pending
    BY <2>1, <1>t DEF Pending
  <2>3. Cardinality(Pending') <= n /\ Cardinality(Pending') \in Nat
    BY <2>2, <1>t, FS_Subset, FS_CardinalityType DEF n
  <2>4. Counted' = Counted
    BY <2>1 DEF Counted
  <2> QED
    BY <2>1, <2>3, <2>4, <1>t, <1>i, <1>b
    DEF AdmissionInv, NoEmptyKey, FewPending, TwoWindows, OneWindow, SnapshotExpiresFirst,
        Since, total
<1> QED
  BY <1>1, <1>2, <1>3, <1>4 DEF LimiterStep

\* The clock and the restarts.
LEMMA AdmissionStep ==
    ASSUME TypeOK, AdmissionInv, [Next]_vars
    PROVE  AdmissionInv'
<1> USE DEF NoExpiry
<1> DEFINE n == Cardinality(Pending)
           total == Totals(admitted)
<1>t. /\ counter \in Counter /\ snapshot.counter \in Counter
      /\ counter.count \in Nat /\ counter.ttl \in {NoExpiry} \cup 0..Window
      /\ snapshot.counter.ttl \in {NoExpiry} \cup 0..Window
      /\ admitted \in [Ages -> Nat]
      /\ Counted \in 0..Limit
      /\ Budget \in Nat
      /\ \A k \in 0..Window : total[k] \in Nat
      /\ total[Window - 1] <= total[Window]
      /\ n \in Nat
  BY AdmissionTypes
<1>i. /\ counter.count = 0 \/ counter.ttl = 0 => counter = NoCounter
      /\ snapshot.counter.count = 0 \/ snapshot.counter.ttl = 0 => snapshot.counter = NoCounter
      /\ n <= Budget + (IF counter.ttl = NoExpiry THEN 1 ELSE 0)
      /\ total[Window] + n <= Budget + Limit + Counted
      /\ counter.ttl > 0 => total[Window - counter.ttl] + n <= Budget + Counted
      /\ snapshot.counter.ttl > 0 =>
            total[Window - snapshot.counter.ttl] + n <= Budget + Counted
      /\ snapshot.counter.ttl > 0 =>
            counter.ttl = NoExpiry \/ counter.ttl >= snapshot.counter.ttl
  BY DEF AdmissionInv, NoEmptyKey, FewPending, TwoWindows, OneWindow, SnapshotExpiresFirst,
         Since
<1>1. CASE LimiterStep /\ UNCHANGED <<cacheVars, snapshot, restarts>>
  BY <1>1, LimiterStepAdmission
<1>2. CASE \/ CacheStep /\ UNCHANGED <<limiterVars, snapshot, restarts>>
           \/ Save
           \/ UNCHANGED vars
  <2>1. UNCHANGED <<counter, request, admitted, restarts>>
    BY <1>2 DEF Save, vars, limiterVars
  <2>2. snapshot'.counter \in {snapshot.counter, counter}
    BY <1>2 DEF Save, vars
  <2>3. UNCHANGED <<Pending, Counted, Budget>>
    BY <2>1 DEF Pending, Counted, Budget
  <2> QED
    BY <2>1, <2>2, <2>3, <1>t, <1>i
    DEF AdmissionInv, NoEmptyKey, FewPending, TwoWindows, OneWindow, SnapshotExpiresFirst,
        Since
<1>3. CASE Tick
  <2>1. /\ counter' = Elapsed(counter)
        /\ snapshot'.counter = Elapsed(snapshot.counter)
        /\ admitted' = [a \in Ages |-> IF a = 0 THEN 0 ELSE admitted[a - 1]]
        /\ UNCHANGED <<request, restarts>>
    BY <1>3 DEF Tick, LimiterTick
  <2>2. \A k \in 1..Window : Totals(admitted')[k] = total[k - 1]
    BY <1>t, <2>1, TotalsTick
  <2>3. /\ UNCHANGED <<Pending, Budget>>
        /\ Cardinality(Pending') = n
    BY <2>1 DEF Pending, Budget
  <2>4. Counted' = IF counter'.count = 0 THEN 0 ELSE Counted
    BY <1>t, <1>i, <2>1 DEF Counted, Elapsed, NoCounter
  <2>5. \A key \in Counter :
          /\ Elapsed(key).count = 0 => key.count = 0 \/ Elapsed(key) = NoCounter
          /\ key.ttl = NoExpiry => Elapsed(key) = key
          /\ key.ttl \in 0..1 => Elapsed(key) = NoCounter
          /\ key.ttl > 1 => Elapsed(key).ttl = key.ttl - 1 /\ Elapsed(key).count = key.count
    BY DEF Elapsed, NoCounter, Counter
  <2>6. NoEmptyKey'
    BY <2>1, <2>5, <1>t, <1>i DEF NoEmptyKey, Elapsed, NoCounter
  <2>7. SnapshotExpiresFirst'
    BY <2>1, <2>5, <1>t, <1>i DEF SnapshotExpiresFirst, NoCounter
  <2>8. Totals(admitted')[Window] = total[Window - 1]
    BY <2>2
  <2> HIDE DEF n, total
  <2>9. CASE counter.ttl \in 0..1
    <3>1. counter' = NoCounter /\ Counted' = 0
      BY <2>1, <2>4, <2>5, <2>9, <1>t DEF NoCounter
    <3>2. ~(snapshot'.counter.ttl > 0)
      BY <2>1, <2>5, <2>9, <1>t, <1>i DEF NoCounter
    <3>3. TwoWindows'
      <4>1. CASE counter.ttl = 1
        BY <4>1, <3>1, <2>3, <2>8, <1>t, <1>i DEF TwoWindows, Since
      <4>2. CASE counter.ttl = 0
        <5>1. Counted = 0
          BY <4>2, <1>i DEF Counted, NoCounter
        <5> QED
          BY <4>2, <5>1, <3>1, <2>3, <2>8, <1>t, <1>i DEF TwoWindows, Since
      <4> QED
        BY <2>9, <4>1, <4>2
    <3> QED
      BY <3>1, <3>2, <3>3, <2>3, <2>6, <2>7, <2>9, <1>t, <1>i
      DEF AdmissionInv, FewPending, OneWindow, NoCounter
  <2>10. CASE ~(counter.ttl \in 0..1)
    <3>1. /\ counter'.count = counter.count /\ Counted' = Counted
          /\ counter.ttl = NoExpiry => counter'.ttl = NoExpiry
          /\ counter.ttl # NoExpiry => counter'.ttl = counter.ttl - 1 /\ counter.ttl > 1
      BY <2>1, <2>4, <2>5, <2>10, <1>t, <1>i DEF NoCounter, Counted
    <3>2. FewPending' /\ TwoWindows'
      BY <3>1, <2>3, <2>8, <1>t, <1>i DEF FewPending, TwoWindows, Since
    <3>3. ASSUME NEW t \in 2..Window
          PROVE  Totals(admitted')[Window - (t - 1)] = total[Window - t]
      <4>1. Window - (t - 1) \in 1..Window /\ (Window - (t - 1)) - 1 = Window - t
        OBVIOUS
      <4> QED
        BY <4>1, <2>2
    <3>4. OneWindow(counter)'
      BY <3>1, <3>3, <2>3, <1>t, <1>i DEF OneWindow, Since
    <3>5. OneWindow(snapshot.counter)'
      <4>1. snapshot'.counter.ttl > 0 =>
              /\ snapshot.counter.ttl \in 2..Window
              /\ snapshot'.counter.ttl = snapshot.counter.ttl - 1
        BY <2>1, <2>5, <1>t DEF NoCounter
      <4> QED
        BY <4>1, <3>1, <3>3, <2>3, <1>t, <1>i DEF OneWindow, Since
    <3> QED
      BY <3>2, <3>4, <3>5, <2>6, <2>7 DEF AdmissionInv
  <2> QED
    BY <2>9, <2>10
<1>4. CASE Restart
  <2>1. /\ counter' = snapshot.counter /\ snapshot' = snapshot
        /\ restarts' = restarts + 1
        /\ UNCHANGED <<request, admitted>>
    BY <1>4 DEF Restart
  <2>2. Budget' = Budget + Limit
    <3>1. restarts \in Nat
      BY DEF TypeOK
    <3> QED
      BY <2>1, <3>1 DEF Budget
  <2>3. UNCHANGED Pending /\ Cardinality(Pending') = n
    BY <2>1 DEF Pending
  <2>4. Counted' \in 0..Limit
    <3>1. snapshot.counter.count \in Nat
      BY <1>t DEF Counter
    <3> QED
      BY <2>1, <3>1 DEF Counted
  <2> HIDE DEF n, total
  <2> QED
    BY <2>1, <2>2, <2>3, <2>4, <1>t, <1>i
    DEF AdmissionInv, NoEmptyKey, FewPending, TwoWindows, OneWindow, SnapshotExpiresFirst,
        Since, total
<1> QED
  BY <1>1, <1>2, <1>3, <1>4 DEF Next

\* However requests overlap, die and are redelivered, an address gets through at most
\* twice its limit in any window, and once more for each restart of Redis
\* (rate_limiter.py:9-12, 68-79).
THEOREM LimitHolds == Spec => []AtMostTwiceLimit
<1>1. TypeOK /\ AdmissionInv => AtMostTwiceLimit
  <2> SUFFICES ASSUME TypeOK, AdmissionInv
               PROVE  Totals(admitted)[Window] <= (2 + restarts) * Limit
    BY DEF AtMostTwiceLimit, Admitted
  <2>1. /\ Totals(admitted)[Window] \in Nat /\ Cardinality(Pending) \in Nat
        /\ Counted \in 0..Limit /\ Budget \in Nat
    BY AdmissionTypes
  <2>2. Totals(admitted)[Window] + Cardinality(Pending) <= Budget + Limit + Counted
    BY DEF AdmissionInv, TwoWindows, Since
  <2>3. (2 + restarts) * Limit = Budget + Limit + Limit
    <3>1. restarts \in Nat
      BY DEF TypeOK
    <3> QED
      BY <3>1 DEF Budget
  <2> QED
    BY <2>1, <2>2, <2>3
<1>2. TypeOK /\ AdmissionInv /\ [Next]_vars => AdmissionInv'
  BY AdmissionStep
<1> QED
  BY <1>1, <1>2, InitAdmissionInv, RedisTypeCorrect, PTL DEF Spec
=============================================================================
