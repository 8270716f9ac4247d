----------------------------- MODULE QuietHours -----------------------------
(***************************************************************************)
(* Quiet hours of the send worker: domain/quiet_hours.py and the deferral  *)
(* in workers/sends.py.  Instants are UTC minutes; a zone is a UTC offset  *)
(* that changes at most once, which is what a day around a daylight-saving *)
(* change looks like to datetime and zoneinfo.  Wall-clock values are      *)
(* minutes too; arithmetic on them ignores the offset, as Python's does.   *)
(***************************************************************************)
EXTENDS Integers

CONSTANTS
    Instants,       \* the UTC minutes at which the worker may poll
    Hours,          \* start_hour and end_hour of the policies considered
    Zones           \* [before, after: offsets in minutes, change: an instant]

Hour == 60
Day == 24 * Hour

Zone == [before : Int, after : Int, change : Int]

\* The wall times at which the clocks of a zone change, the lesser first: between
\* them lie the minutes that are skipped or that come twice.
ChangeFrom(z) == z.change + (IF z.before < z.after THEN z.before ELSE z.after)
ChangeTo(z) == z.change + (IF z.before < z.after THEN z.after ELSE z.before)

\* They lie in one hour of the clock, as by today's rules in every zone but
\* Pacific/Chatham and Antarctica/Troll.
ChangeInOneHour(z) == ChangeTo(z) <= ChangeFrom(z) - (ChangeFrom(z) % Hour) + Hour

ASSUME QuietHoursAssumption ==
    /\ Instants \subseteq Int
    /\ Hours \subseteq 0..23
    /\ Zones \subseteq Zone
    /\ \A z \in Zones : ChangeInOneHour(z)

VARIABLES
    zone,           \* the school's timezone
    policy,         \* quiet_hours of the school's policy
    now,            \* the time
    scheduled,      \* scheduled_at of one message
    deferred,       \* ghost: when it was last deferred, or its first schedule
    status          \* "pending" or "sending": deferred or past the check

vars == <<zone, policy, now, scheduled, deferred, status>>

-----------------------------------------------------------------------------
(* datetime and zoneinfo.                                                  *)

Offset(z, u) == IF u < z.change THEN z.before ELSE z.after

\* Wall time of instant u, and whether it is the second of two equal ones.
ToLocal(z, u) == u + Offset(z, u)
Fold(z, u) == u >= z.change /\ ToLocal(z, u) < z.change + z.before

HourOf(wall) == (wall % Day) \div Hour

\* The instant of a wall time (PEP 495): a wall time of the gap is read with the
\* offset before the change, a repeated one is the first unless fold is set.
ToUtc(z, wall, fold) ==
    IF \/ wall - z.before < z.change /\ ~(fold /\ wall - z.after >= z.change)
       \/ wall - z.after < z.change
    THEN wall - z.before
    ELSE wall - z.after

-----------------------------------------------------------------------------
(* QuietHoursService.                                                      *)

IsWithinQuietHours(p, z, u) ==
    LET hour == HourOf(ToLocal(z, u))
    IN  /\ p.start # p.end
        /\ IF p.start > p.end THEN hour >= p.start \/ hour < p.end
                              ELSE p.start <= hour /\ hour < p.end

\* Mutant of NextAllowedSendTime: end_hour of the UTC clock.
NextAllowedUtc(p, z, u) ==
    LET utc_end == u - (u % Day) + p.end * Hour
    IN  IF ~IsWithinQuietHours(p, z, u) THEN u
        ELSE IF utc_end <= u THEN utc_end + Day ELSE utc_end

\* Mutant of NextAllowedSendTime: always tomorrow's end_hour.
NextAllowedTomorrow(p, z, u) ==
    LET local_now == ToLocal(z, u)
        local_end == local_now - (local_now % Day) + p.end * Hour
    IN  IF ~IsWithinQuietHours(p, z, u) THEN u
        ELSE ToUtc(z, local_end + Day, FALSE)

\* Mutant of NextAllowedSendTime: always today's end_hour.
NextAllowedToday(p, z, u) ==
    LET local_now == ToLocal(z, u)
        local_end == local_now - (local_now % Day) + p.end * Hour
    IN  IF ~IsWithinQuietHours(p, z, u) THEN u
        ELSE ToUtc(z, local_end, Fold(z, u))

\* replace() keeps the fold of now, adding a day clears it.
NextAllowedSendTime(p, z, u) ==
    LET local_now == ToLocal(z, u)
        local_end == local_now - (local_now % Day) + p.end * Hour
    IN  IF ~IsWithinQuietHours(p, z, u) THEN u
        ELSE IF local_end <= local_now
        THEN ToUtc(z, local_end + Day, FALSE)
        ELSE ToUtc(z, local_end, Fold(z, u))

-----------------------------------------------------------------------------
TypeOK ==
    /\ zone \in Zones
    /\ policy \in [start : Hours, end : Hours]
    /\ now \in Int
    /\ scheduled \in Int
    /\ deferred \in Int
    /\ status \in {"pending", "sending"}

Init ==
    /\ zone \in Zones
    /\ policy \in [start : Hours, end : Hours]
    /\ now \in Instants
    /\ scheduled = now
    /\ deferred = now
    /\ status = "pending"

Sleep ==
    /\ \E u \in Instants : u > now /\ now' = u
    /\ UNCHANGED <<zone, policy, scheduled, deferred, status>>

\* The message is due and it is quiet at the school.
Defer ==
    /\ status = "pending"
    /\ scheduled <= now
    /\ IsWithinQuietHours(policy, zone, now)
    /\ scheduled' = NextAllowedSendTime(policy, zone, now)
    /\ deferred' = now
    /\ UNCHANGED <<zone, policy, now, status>>

\* Mutant of Pass: the status the worker writes is not one of the enum's.
PassUnlisted ==
    /\ status = "pending"
    /\ scheduled <= now
    /\ ~IsWithinQuietHours(policy, zone, now)
    /\ status' = "processing"
    /\ UNCHANGED <<zone, policy, now, scheduled, deferred>>

\* The message is due and passes the check.
Pass ==
    /\ status = "pending"
    /\ scheduled <= now
    /\ ~IsWithinQuietHours(policy, zone, now)
    /\ status' = "sending"
    /\ UNCHANGED <<zone, policy, now, scheduled, deferred>>

Next == Sleep \/ Defer \/ Pass

Spec == Init /\ [][Next]_vars

-----------------------------------------------------------------------------
(* Properties.                                                             *)

\* The hours that are not quiet, on the clock.
AllowedHours(p) == ((p.start - p.end + 23) % 24) + 1

\* A window that a change of the clocks cannot skip: with an hour's change, a
\* policy that allows a single hour may find no such hour on that day.
Robust(p, z) == z.before = z.after \/ AllowedHours(p) > 1

\* The instant a message is deferred to is outside the quiet hours of the policy
\* that deferred it, also on the day the clocks change (quiet_hours.py:94-138).
LandsOutsideQuietHours ==
    deferred < scheduled /\ Robust(policy, zone)
        => ~IsWithinQuietHours(policy, zone, scheduled)

\* No message waits longer than it has to: every instant from the deferral to the
\* new scheduled_at is quiet (quiet_hours.py:101-105, "the next end_hour").
NothingAllowedSooner ==
    \A u \in Instants :
        deferred <= u /\ u < scheduled => IsWithinQuietHours(policy, zone, u)

\* A deferral moves scheduled_at forward, so the next poll does not take the
\* message straight away again and again.
DeferralMovesForward == [][scheduled' # scheduled => scheduled' > now]_vars
=============================================================================
