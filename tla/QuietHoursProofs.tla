-------------------------- MODULE QuietHoursProofs --------------------------
(***************************************************************************)
(* Proofs about QuietHours for every policy, every instant and every zone, *)
(* the days on which the clocks change included.  A deferral is followed   *)
(* on the wall clock first, where the quiet hours are, and then in time,   *)
(* where the clock jumps ahead or goes through an hour twice.              *)
(***************************************************************************)
EXTENDS QuietHours, TLAPS

Policy == [start : 0..23, end : 0..23]

\* The start of the day a wall time is in, and where its hour lies in that day.
Midnight(wall) == wall - (wall % Day)

LEMMA DayArithmetic ==
    ASSUME NEW wall \in Int
    PROVE  /\ Midnight(wall) \in Int
           /\ Midnight(wall) <= wall
           /\ wall < Midnight(wall) + Day
           /\ Midnight(wall) % Day = 0
BY DEF Midnight, Day, Hour

LEMMA HourArithmetic ==
    ASSUME NEW wall \in Int
    PROVE  /\ wall - (wall % Hour) \in Int
           /\ (wall - (wall % Hour)) % Hour = 0
           /\ wall - (wall % Hour) <= wall
           /\ wall < wall - (wall % Hour) + Hour
           /\ \A t \in Int : t % Hour = 0 /\ t <= wall => t <= wall - (wall % Hour)
BY DEF Hour

\* The hour of a wall time given by its day and its minute of the day.
LEMMA HourOfMinute ==
    ASSUME NEW m \in Int, m % Day = 0, NEW q \in 0..(Day - 1)
    PROVE  /\ HourOf(m + q) = q \div Hour
           /\ HourOf(m + Day + q) = q \div Hour
BY DEF HourOf, Day, Hour

\* The hour is at least e from the e-th hour of a day on, and less before it.
LEMMA HourCompare ==
    ASSUME NEW q \in 0..(Day - 1), NEW e \in 0..23
    PROVE  /\ q \div Hour \in 0..23
           /\ (q \div Hour >= e) <=> (q >= e * Hour)
           /\ e * Hour \in 0..(Day - 1)
           /\ (e * Hour) \div Hour = e
BY DEF Day, Hour

-----------------------------------------------------------------------------
(* On the wall clock.                                                      *)

\* The window, of wall times and of minutes of the day.
QuietWall(p, wall) ==
    LET hour == HourOf(wall)
    IN  /\ p.start # p.end
        /\ IF p.start > p.end THEN hour >= p.start \/ hour < p.end
                              ELSE p.start <= hour /\ hour < p.end

QuietMinute(p, q) ==
    /\ p.start # p.end
    /\ IF p.start > p.end THEN q >= p.start * Hour \/ q < p.end * Hour
                          ELSE p.start * Hour <= q /\ q < p.end * Hour

LEMMA QuietByWall ==
    ASSUME NEW p, NEW z, NEW u
    PROVE  IsWithinQuietHours(p, z, u) <=> QuietWall(p, ToLocal(z, u))
BY DEF IsWithinQuietHours, QuietWall

LEMMA QuietByMinute ==
    ASSUME NEW p \in Policy, NEW m \in Int, m % Day = 0, NEW q \in 0..(Day - 1)
    PROVE  /\ QuietWall(p, m + q) <=> QuietMinute(p, q)
           /\ QuietWall(p, m + Day + q) <=> QuietMinute(p, q)
<1>1. HourOf(m + q) = q \div Hour /\ HourOf(m + Day + q) = q \div Hour
  BY HourOfMinute
<1>2. p.start \in 0..23 /\ p.end \in 0..23
  BY DEF Policy
<1>3. (q \div Hour >= p.start) <=> (q >= p.start * Hour)
  BY <1>2, HourCompare
<1>4. (q \div Hour >= p.end) <=> (q >= p.end * Hour)
  BY <1>2, HourCompare
<1>5. /\ q \div Hour \in 0..23
      /\ p.start * Hour \in 0..(Day - 1)
      /\ p.end * Hour \in 0..(Day - 1)
  BY <1>2, HourCompare
<1> QED
  BY <1>1, <1>2, <1>3, <1>4, <1>5 DEF QuietWall, QuietMinute, Day, Hour

\* The next end_hour on the wall clock.
NextEnd(p, wall) ==
    LET local_end == Midnight(wall) + p.end * Hour
    IN  IF local_end <= wall THEN local_end + Day ELSE local_end

\* From the hour of a quiet wall time to the next end_hour the clock shows quiet
\* hours only; then it shows an hour that is not quiet, or two if two are allowed.
LEMMA QuietUntilEnd ==
    ASSUME NEW p \in Policy, NEW wall \in Int, QuietWall(p, wall)
    PROVE  /\ NextEnd(p, wall) \in Int
           /\ NextEnd(p, wall) % Hour = 0
           /\ wall < NextEnd(p, wall)
           /\ \A w \in Int : wall - (wall % Hour) <= w /\ w < NextEnd(p, wall)
                               => QuietWall(p, w)
           /\ ~QuietWall(p, NextEnd(p, wall))
           /\ \A w \in Int :
                 AllowedHours(p) > 1 /\ NextEnd(p, wall) <= w /\ w <= NextEnd(p, wall) + Hour
                     => ~QuietWall(p, w)
<1> DEFINE m == Midnight(wall)
           q == wall - m
           e == p.end * Hour
           n == NextEnd(p, wall)
<1>1. m \in Int /\ m % Day = 0 /\ q \in 0..(Day - 1) /\ wall = m + q
  <2>1. m \in Int /\ m <= wall /\ wall < m + Day /\ m % Day = 0
    BY DayArithmetic
  <2> HIDE DEF m
  <2> QED
    BY <2>1 DEF Day, Hour
<1>2. /\ p.start \in 0..23 /\ p.end \in 0..23
      /\ e \in 0..(Day - 1) /\ e % Hour = 0
  BY DEF Policy, Day, Hour
<1>3. QuietMinute(p, q)
  BY <1>1, QuietByMinute
<1>4. n = IF m + e <= wall THEN m + Day + e ELSE m + e
  <2>1. n = IF m + e <= wall THEN m + e + Day ELSE m + e
    BY DEF NextEnd
  <2> HIDE DEF m, e, n
  <2> QED
    BY <1>1, <1>2, <2>1 DEF Day, Hour
<1>5. m % Hour = 0
  <2> HIDE DEF m
  <2> QED
    BY <1>1 DEF Day, Hour
<1>6. wall - (wall % Hour) = m + (q - (q % Hour))
  <2> HIDE DEF m, q
  <2> QED
    BY <1>1, <1>5 DEF Day, Hour
<1> HIDE DEF m, q, e, n
<1>7. n \in Int /\ n % Hour = 0 /\ wall < n
  BY <1>1, <1>2, <1>4, <1>5 DEF Day, Hour
<1>8. ASSUME NEW w \in Int, wall - (wall % Hour) <= w, w < n
      PROVE  QuietWall(p, w)
  <2> DEFINE r == w - m
  <2>1. r \in Int /\ q - (q % Hour) <= r /\ w = m + r
    BY <1>1, <1>6, <1>8 DEF Hour
  <2>2. 0 <= q - (q % Hour)
    BY <1>1 DEF Day, Hour
  <2> HIDE DEF r
  <2>3. CASE r < Day
    <3>1. r \in 0..(Day - 1)
      BY <2>1, <2>2, <2>3, <1>1 DEF Day, Hour
    <3>2. q < e => r < e
      BY <1>1, <1>2, <1>4, <1>8, <2>1 DEF Day, Hour
    <3>3. q >= p.start * Hour => r >= p.start * Hour
      <4>1. p.start * Hour \in Int /\ (p.start * Hour) % Hour = 0
        BY <1>2 DEF Hour
      <4>2. p.start * Hour <= q => p.start * Hour <= q - (q % Hour)
        BY <1>1, <4>1, HourArithmetic
      <4> QED
        BY <1>1, <2>1, <4>1, <4>2 DEF Hour
    <3>4. QuietMinute(p, r)
      BY <1>1, <1>2, <1>3, <3>1, <3>2, <3>3 DEF e, QuietMinute, Day, Hour
    <3> QED
      BY <3>1, <3>4, <2>1, <1>1, QuietByMinute
  <2>4. CASE r >= Day
    <3>1. e <= q /\ r - Day \in 0..(e - 1) /\ r - Day \in 0..(Day - 1)
      BY <1>1, <1>2, <1>4, <1>8, <2>1, <2>4 DEF Day, Hour
    <3>2. QuietMinute(p, r - Day)
      BY <1>1, <1>2, <1>3, <3>1 DEF e, QuietMinute, Day, Hour
    <3>3. w = m + Day + (r - Day)
      BY <2>1, <1>1 DEF Day, Hour
    <3> QED
      BY <3>1, <3>2, <3>3, <1>1, QuietByMinute
  <2> QED
    BY <2>1, <2>3, <2>4, <1>1 DEF Day, Hour
<1>9. ~QuietWall(p, n)
  <2>1. ~QuietMinute(p, e)
    BY <1>2 DEF e, QuietMinute, Hour
  <2> QED
    BY <2>1, <1>1, <1>2, <1>4, QuietByMinute
<1>10. ASSUME NEW w \in Int, AllowedHours(p) > 1, n <= w, w <= n + Hour
       PROVE  ~QuietWall(p, w)
  <2>1. PICK d \in Int : d % Day = 0 /\ n = d + e /\ (d = m \/ d = m + Day)
    BY <1>1, <1>2, <1>4 DEF Day, Hour
  <2> DEFINE r == w - d
  <2>2. r \in e..(e + Hour) /\ w = d + r
    BY <1>2, <1>10, <2>1 DEF Day, Hour
  <2> HIDE DEF r
  <2>3. p.start # p.end
    BY <1>3 DEF QuietMinute
  <2>4. IF p.end < p.start THEN p.end + 2 <= p.start ELSE p.end + 2 <= p.start + 24
    BY <1>2, <1>10, <2>3 DEF AllowedHours
  <2>5. CASE r < Day
    <3>1. r \in 0..(Day - 1)
      BY <1>2, <2>2, <2>5 DEF Day, Hour
    <3>2. ~QuietMinute(p, r)
      BY <1>2, <2>2, <2>4, <3>1 DEF e, QuietMinute, Day, Hour
    <3> QED
      BY <2>1, <2>2, <3>1, <3>2, QuietByMinute
  <2>6. CASE r >= Day
    <3>1. p.end = 23 /\ r = Day /\ p.start \in 1..22
      BY <1>2, <2>2, <2>3, <2>4, <2>6 DEF e, Day, Hour
    <3>2. ~QuietMinute(p, 0) /\ w = d + Day + 0
      BY <2>1, <2>2, <3>1 DEF QuietMinute, Day, Hour
    <3>3. 0 \in 0..(Day - 1)
      BY DEF Day, Hour
    <3> QED
      BY <2>1, <3>2, <3>3, QuietByMinute
  <2> QED
    BY <2>2, <2>5, <2>6, <1>2 DEF Day, Hour
<1> QED
  <2>1. \A w \in Int : wall - (wall % Hour) <= w /\ w < n => QuietWall(p, w)
    BY <1>8
  <2>2. \A w \in Int : AllowedHours(p) > 1 /\ n <= w /\ w <= n + Hour => ~QuietWall(p, w)
    BY <1>10
  <2> QED
    BY <1>7, <1>9, <2>1, <2>2 DEF n

-----------------------------------------------------------------------------
(* In time.                                                                *)

\* In quiet hours next_allowed_send_time returns a later instant, everything up to
\* it is quiet, and it is not, unless the clocks skip the only hour allowed.
THEOREM NextAllowedIsExact ==
    ASSUME NEW p \in Policy, NEW z \in Zone, ChangeInOneHour(z), NEW u \in Int,
           IsWithinQuietHours(p, z, u)
    PROVE  /\ NextAllowedSendTime(p, z, u) \in Int
           /\ u < NextAllowedSendTime(p, z, u)
           /\ Robust(p, z) => ~IsWithinQuietHours(p, z, NextAllowedSendTime(p, z, u))
           /\ \A v \in Int : u <= v /\ v < NextAllowedSendTime(p, z, u)
                               => IsWithinQuietHours(p, z, v)
<1> DEFINE b == z.before
           a == z.after
           c == z.change
           wall == ToLocal(z, u)
           t == NextEnd(p, wall)
           n == NextAllowedSendTime(p, z, u)
<1>1. /\ a \in Int /\ b \in Int /\ c \in Int
      /\ \A v \in Int : ToLocal(z, v) = IF v < c THEN v + b ELSE v + a
  BY DEF Zone, ToLocal, Offset
<1>2. \E fold \in BOOLEAN : /\ n = ToUtc(z, t, fold)
                            /\ fold => c <= u
  <2>1. /\ n = IF Midnight(wall) + p.end * Hour <= wall
               THEN ToUtc(z, Midnight(wall) + p.end * Hour + Day, FALSE)
               ELSE ToUtc(z, Midnight(wall) + p.end * Hour, Fold(z, u))
    BY DEF NextAllowedSendTime, Midnight
  <2>2. Fold(z, u) \in BOOLEAN /\ (Fold(z, u) => c <= u)
    BY <1>1 DEF Fold
  <2> QED
    BY <2>1, <2>2 DEF NextEnd
<1>w. wall \in Int /\ wall = IF u < c THEN u + b ELSE u + a
  BY <1>1
<1>3. QuietWall(p, wall)
  BY QuietByWall
<1> HIDE DEF wall
<1>4. /\ t \in Int /\ t % Hour = 0 /\ wall < t
      /\ \A w \in Int : wall - (wall % Hour) <= w /\ w < t => QuietWall(p, w)
      /\ ~QuietWall(p, t)
      /\ \A w \in Int : AllowedHours(p) > 1 /\ t <= w /\ w <= t + Hour => ~QuietWall(p, w)
  BY <1>w, <1>3, QuietUntilEnd
<1> DEFINE lo == ChangeFrom(z)
           h == lo - (lo % Hour)
<1>5. /\ h \in Int /\ h % Hour = 0
      /\ h <= c + a /\ c + a <= h + Hour
      /\ h <= c + b /\ c + b <= h + Hour
  <2>1. /\ lo \in Int /\ lo <= c + a /\ lo <= c + b
        /\ c + a <= lo - (lo % Hour) + Hour
        /\ c + b <= lo - (lo % Hour) + Hour
    BY <1>1 DEF ChangeInOneHour, ChangeFrom, ChangeTo, Hour
  <2> HIDE DEF lo
  <2>2. h \in Int /\ h % Hour = 0 /\ h <= lo
    BY <2>1, HourArithmetic
  <2> QED
    BY <1>1, <2>1, <2>2 DEF Hour
<1>6. t <= h \/ h + Hour <= t
  BY <1>4, <1>5 DEF Hour
<1>7. h <= wall /\ wall < h + Hour => wall - (wall % Hour) = h
  <2> HIDE DEF h
  <2>1. h <= wall => h <= wall - (wall % Hour)
    BY <1>w, <1>5, HourArithmetic
  <2>2. wall - (wall % Hour) \in Int /\ (wall - (wall % Hour)) % Hour = 0
    BY <1>w, HourArithmetic
  <2> QED
    BY <1>w, <1>5, <2>1, <2>2, HourArithmetic DEF Hour
<1>8. wall - (wall % Hour) \in Int /\ wall - (wall % Hour) <= wall
  BY <1>w, HourArithmetic
<1>9. n = IF (u < c /\ t < c + b) \/ t < c + a THEN t - b ELSE t - a
  <2>1. PICK fold \in BOOLEAN : n = ToUtc(z, t, fold) /\ (fold => c <= u)
    BY <1>2
  <2>2. n = IF (t - b < c /\ ~(fold /\ t - a >= c)) \/ t - a < c THEN t - b ELSE t - a
    BY <2>1 DEF ToUtc
  <2> HIDE DEF a, b, c, t, h, n
  <2>3. c <= u => c + a < t /\ c + b <= t
    BY <1>1, <1>4, <1>5, <1>6, <1>w DEF Hour
  <2> QED
    BY <1>1, <1>4, <2>1, <2>2, <2>3
<1>n. n = NextAllowedSendTime(p, z, u)
  OBVIOUS
<1> HIDE DEF a, b, c, t, h, n
<1>10. CASE c <= u
  <2>1. n = t - a /\ n \in Int /\ u < n /\ ToLocal(z, n) = t
    BY <1>1, <1>4, <1>9, <1>10, <1>w
  <2>2. \A v \in Int : u <= v /\ v < n =>
           ToLocal(z, v) \in Int /\ wall <= ToLocal(z, v) /\ ToLocal(z, v) < t
    BY <1>1, <1>4, <1>10, <1>w, <2>1
  <2> QED
    BY <1>4, <1>8, <1>w, <2>1, <2>2, QuietByWall DEF n
<1>11. CASE u < c /\ t < c + b
  <2>1. n = t - b /\ n \in Int /\ u < n /\ ToLocal(z, n) = t
    BY <1>1, <1>4, <1>9, <1>11, <1>w
  <2>2. \A v \in Int : u <= v /\ v < n =>
           ToLocal(z, v) \in Int /\ wall <= ToLocal(z, v) /\ ToLocal(z, v) < t
    BY <1>1, <1>4, <1>11, <1>w, <2>1
  <2> QED
    BY <1>4, <1>8, <1>w, <2>1, <2>2, QuietByWall DEF n
<1>12. CASE u < c /\ c + b <= t /\ t < c + a
  <2>1. t = c + b /\ n = c /\ u < n /\ ToLocal(z, n) = c + a
    BY <1>1, <1>4, <1>5, <1>6, <1>9, <1>12 DEF Hour
  <2>2. Robust(p, z) => ~IsWithinQuietHours(p, z, n)
    <3>1. Robust(p, z) => AllowedHours(p) > 1
      <4>1. a # b
        BY <1>1, <1>4, <1>12
      <4> QED
        BY <4>1 DEF Robust, a, b
    <3>2. t <= c + a /\ c + a <= t + Hour /\ c + a \in Int
      BY <1>1, <1>5, <1>12, <2>1 DEF Hour
    <3> QED
      BY <1>4, <2>1, <3>1, <3>2, QuietByWall
  <2>3. \A v \in Int : u <= v /\ v < n =>
           ToLocal(z, v) \in Int /\ wall <= ToLocal(z, v) /\ ToLocal(z, v) < t
    BY <1>1, <1>4, <1>12, <1>w, <2>1
  <2> QED
    BY <1>1, <1>4, <1>8, <1>w, <2>1, <2>2, <2>3, QuietByWall DEF n
<1>13. CASE u < c /\ c + b <= t /\ c + a <= t
  <2>1. n = t - a /\ n \in Int /\ u < n /\ ToLocal(z, n) = t
    BY <1>1, <1>4, <1>9, <1>13, <1>w
  <2>2. ASSUME NEW v \in Int, u <= v, v < n
        PROVE  IsWithinQuietHours(p, z, v)
    <3>1. CASE v < c \/ wall <= c + a
      <4>1. ToLocal(z, v) \in Int /\ wall <= ToLocal(z, v) /\ ToLocal(z, v) < t
        BY <1>1, <1>4, <1>13, <1>w, <2>1, <2>2, <3>1
      <4> QED
        BY <1>4, <1>8, <1>w, <4>1, QuietByWall
    <3>2. CASE c <= v /\ c + a < wall
      <4>1. wall - (wall % Hour) = h
        BY <1>1, <1>5, <1>7, <1>13, <1>w, <3>2 DEF Hour
      <4>2. ToLocal(z, v) \in Int /\ h <= ToLocal(z, v) /\ ToLocal(z, v) < t
        BY <1>1, <1>4, <1>5, <2>1, <2>2, <3>2
      <4> QED
        BY <1>4, <4>1, <4>2, QuietByWall
    <3> QED
      BY <3>1, <3>2, <1>1, <1>w
  <2> QED
    BY <1>4, <2>1, <2>2, QuietByWall DEF n
<1> QED
  BY <1>10, <1>11, <1>12, <1>13, <1>1, <1>4

-----------------------------------------------------------------------------
(* The send worker's deferrals.                                            *)

IInv ==
    /\ TypeOK
    /\ LandsOutsideQuietHours
    /\ NothingAllowedSooner

LEMMA TypeFacts ==
    ASSUME TypeOK
    PROVE  zone \in Zone /\ ChangeInOneHour(zone) /\ policy \in Policy /\ now \in Int
BY QuietHoursAssumption DEF TypeOK, Policy

LEMMA DeferStep ==
    ASSUME TypeOK, Defer
    PROVE  /\ scheduled' \in Int
           /\ now < scheduled'
           /\ Robust(policy, zone) => ~IsWithinQuietHours(policy, zone, scheduled')
           /\ \A v \in Int : now <= v /\ v < scheduled'
                               => IsWithinQuietHours(policy, zone, v)
<1>1. /\ zone \in Zone /\ ChangeInOneHour(zone) /\ policy \in Policy /\ now \in Int
      /\ IsWithinQuietHours(policy, zone, now)
      /\ scheduled' = NextAllowedSendTime(policy, zone, now)
  BY TypeFacts DEF Defer
<1> QED
  BY <1>1, NextAllowedIsExact

LEMMA InvariantStep ==
    ASSUME IInv, [Next]_vars
    PROVE  IInv'
<1>1. CASE Defer
  <2>1. UNCHANGED <<zone, policy, now, status>> /\ deferred' = now
    BY <1>1 DEF Defer
  <2>2. /\ scheduled' \in Int
        /\ Robust(policy, zone) => ~IsWithinQuietHours(policy, zone, scheduled')
        /\ \A v \in Int : now <= v /\ v < scheduled'
                            => IsWithinQuietHours(policy, zone, v)
    BY <1>1, DeferStep DEF IInv
  <2>3. TypeOK'
    BY <2>1, <2>2 DEF IInv, TypeOK
  <2>4. LandsOutsideQuietHours'
    BY <2>1, <2>2 DEF LandsOutsideQuietHours, Robust, IsWithinQuietHours, ToLocal, Offset, HourOf
  <2>5. NothingAllowedSooner'
    <3> SUFFICES ASSUME NEW u \in Instants, deferred' <= u, u < scheduled'
                 PROVE  IsWithinQuietHours(policy, zone, u)'
      BY DEF NothingAllowedSooner
    <3>1. IsWithinQuietHours(policy, zone, u)
      BY <2>1, <2>2, QuietHoursAssumption
    <3> QED
      BY <3>1, <2>1 DEF IsWithinQuietHours, ToLocal, Offset, HourOf
  <2> QED
    BY <2>3, <2>4, <2>5 DEF IInv
<1>2. CASE Sleep
  BY <1>2, QuietHoursAssumption
     DEF IInv, TypeOK, LandsOutsideQuietHours, Robust, NothingAllowedSooner, Sleep,
         IsWithinQuietHours, ToLocal, Offset, HourOf
<1>3. CASE Pass
  BY <1>3
     DEF IInv, TypeOK, LandsOutsideQuietHours, Robust, NothingAllowedSooner, Pass,
         IsWithinQuietHours, ToLocal, Offset, HourOf
<1>4. CASE UNCHANGED vars
  BY <1>4
     DEF IInv, TypeOK, LandsOutsideQuietHours, Robust, NothingAllowedSooner, vars,
         IsWithinQuietHours, ToLocal, Offset, HourOf
<1> QED
  BY <1>1, <1>2, <1>3, <1>4 DEF Next

LEMMA InvariantInit == Init => IInv
BY QuietHoursAssumption DEF Init, IInv, TypeOK, LandsOutsideQuietHours, NothingAllowedSooner

\* Every variable keeps its type: what a deferral computes is an instant also on
\* the days the clocks change (quiet_hours.py:94-138).
THEOREM QuietHoursTypeCorrect == Spec => []TypeOK
<1>1. IInv => TypeOK
  BY DEF IInv
<1> QED
  BY <1>1, InvariantInit, InvariantStep, PTL DEF Spec

\* Whatever the policy, the poll times and the change of the clocks, a deferred
\* message is scheduled for an instant that is not quiet (quiet_hours.py:94-138
\* called from sends.py:87-91).
THEOREM DeferralLandsOutside == Spec => []LandsOutsideQuietHours
<1>1. IInv => LandsOutsideQuietHours
  BY DEF IInv
<1> QED
  BY <1>1, InvariantInit, InvariantStep, PTL DEF Spec

\* ... and for the first such instant: until then it would have been deferred.
THEOREM DeferralIsShortest == Spec => []NothingAllowedSooner
<1>1. IInv => NothingAllowedSooner
  BY DEF IInv
<1> QED
  BY <1>1, InvariantInit, InvariantStep, PTL DEF Spec

\* A deferral always moves scheduled_at into the future.
THEOREM DeferralsMoveForward == Spec => DeferralMovesForward
<1>1. IInv /\ [Next]_vars => [scheduled' # scheduled => scheduled' > now]_vars
  <2> SUFFICES ASSUME IInv, [Next]_vars, scheduled' # scheduled
               PROVE  scheduled' > now
    OBVIOUS
  <2>1. Defer
    BY DEF Next, Sleep, Pass, vars
  <2>2. TypeOK /\ now \in Int
    BY DEF IInv, TypeOK
  <2> QED
    BY <2>1, <2>2, DeferStep
<1> QED
  BY <1>1, InvariantInit, InvariantStep, PTL DEF Spec, DeferralMovesForward
=============================================================================
