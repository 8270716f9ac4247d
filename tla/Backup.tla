------------------------------- MODULE Backup --------------------------------
(***************************************************************************)
(* The nightly backups on disk (infra/backup.py, run_backup of             *)
(* workers/maintenance.py).                                                *)
(*                                                                         *)
(* Beat queues one task per day.  A task dumps the database, writes one    *)
(* file and prunes the directory: the newest KeepDaily files stay, and of  *)
(* the older ones the newest KeepWeekly that were written on a Sunday.     *)
(*                                                                         *)
(*   - a task whose worker is lost runs again (task_acks_late), one that   *)
(*     raises does not;                                                    *)
(*   - the file is written in place: a task that dies while writing leaves *)
(*     a truncated file, which counts like any other;                      *)
(*   - pruning follows the write without an await or a call that waits; it *)
(*     is one step with the end of the write.  A file that cannot be       *)
(*     unlinked is skipped;                                                *)
(*   - no task lives on to the next day (task_time_limit is 5 minutes),    *)
(*     but tasks pile up while no worker runs.                             *)
(*                                                                         *)
(* The age of a file is its mtime: the day, and its order within the day.  *)
(***************************************************************************)
EXTENDS Integers, FiniteSetsExt

CONSTANTS
    Jobs,           \* tasks running at the same time
    KeepDaily,      \* keep_daily
    KeepWeekly,     \* keep_weekly
    WeekLength,     \* days of a week, the last one is Sunday
    LastDay,        \* bound: the calendar
    MaxLost         \* bound: lost workers

ASSUME BackupAssumption ==
    /\ "none" \notin Jobs
    /\ KeepDaily \in Nat \ {0}
    /\ KeepWeekly \in Nat
    /\ WeekLength \in Nat \ {0}
    /\ LastDay \in Nat
    /\ MaxLost \in Nat

VARIABLES
    day,
    queue,          \* backup tasks waiting
    job,            \* job[j]: "idle", "dump" or "write"
    files,          \* the directory: [day, nth, complete, by]
    lost,           \* ghost: lost workers
    latest,         \* ghost: [day, nth] of the last completed backup, nth = 0 before it
    written,        \* ghost: the days on which a file was written
    irregular       \* ghost: some day got more than one file

vars == <<day, queue, job, files, lost, latest, written, irregular>>

-----------------------------------------------------------------------------
\* by: the job that is writing the file.
File == [day : 0..LastDay, nth : Nat, complete : BOOLEAN, by : Jobs \cup {"none"}]

TypeOK ==
    /\ day \in 0..LastDay
    /\ queue \in Nat
    /\ job \in [Jobs -> {"idle", "dump", "write"}]
    /\ files \subseteq File
    /\ lost \in 0..MaxLost
    /\ latest \in [day : 0..LastDay, nth : Nat]
    /\ written \subseteq 0..LastDay
    /\ irregular \in BOOLEAN

Init ==
    /\ day = 0
    /\ queue = 1
    /\ job = [j \in Jobs |-> "idle"]
    /\ files = {}
    /\ lost = 0
    /\ latest = [day |-> 0, nth |-> 0]
    /\ written = {}
    /\ irregular = FALSE

Sunday(d) == d % WeekLength = WeekLength - 1

Newer(f, g) == f.day > g.day \/ (f.day = g.day /\ f.nth > g.nth)

\* A file written now, newer than all others.
Now(fs, complete, by) ==
    [day |-> day, complete |-> complete, by |-> by,
     nth |-> Max({f.nth : f \in {g \in fs : g.day = day}} \cup {0}) + 1]

-----------------------------------------------------------------------------
(* cleanup_old_backups.                                                    *)

Rank(f, fs) == Cardinality({g \in fs : Newer(g, f)})

\* Mutant of Retained: sorted oldest first.
RetainedOldestFirst(fs) ==
    LET older(f, gs) == Cardinality({g \in gs : Newer(f, g)})
        daily == {f \in fs : older(f, fs) < KeepDaily}
        sundays == {f \in fs \ daily : Sunday(f.day)}
    IN  daily \cup {f \in sundays : older(f, sundays) < KeepWeekly}

\* Mutant of Retained: the Sundays of the daily files use up weekly places.
RetainedOverlapping(fs) ==
    LET daily == {f \in fs : Rank(f, fs) < KeepDaily}
        sundays == {f \in fs : Sunday(f.day)}
    IN  daily \cup {f \in sundays : Rank(f, sundays) < KeepWeekly}

Retained(fs) ==
    LET daily == {f \in fs : Rank(f, fs) < KeepDaily}
        sundays == {f \in fs \ daily : Sunday(f.day)}
    IN  daily \cup {f \in sundays : Rank(f, sundays) < KeepWeekly}

-----------------------------------------------------------------------------
(* Actions.                                                                *)

\* Beat queues the task of the day.
NextDay ==
    /\ day < LastDay
    /\ \A j \in Jobs : job[j] = "idle"
    /\ day' = day + 1
    /\ queue' = queue + 1
    /\ UNCHANGED <<job, files, lost, latest, written, irregular>>

\* Mutant of Start: a task runs that is not queued.
StartUnqueued(j) ==
    /\ job[j] = "idle"
    /\ queue' = queue - 1
    /\ job' = [job EXCEPT ![j] = "dump"]
    /\ UNCHANGED <<day, files, lost, latest, written, irregular>>

Start(j) ==
    /\ job[j] = "idle"
    /\ queue > 0
    /\ queue' = queue - 1
    /\ job' = [job EXCEPT ![j] = "dump"]
    /\ UNCHANGED <<day, files, lost, latest, written, irregular>>

\* pg_dump ended well; the file is opened.
Write(j) ==
    /\ job[j] = "dump"
    /\ job' = [job EXCEPT ![j] = "write"]
    /\ files' = files \cup {Now(files, FALSE, j)}
    /\ written' = written \cup {day}
    /\ irregular' = (irregular \/ day \in written)
    /\ UNCHANGED <<day, queue, lost, latest>>

Own(j) == {f \in files : f.by = j}

\* The directory once j has written its file, unless another job unlinked it meanwhile.
Complete(j) ==
    (files \ Own(j)) \cup {Now(files \ Own(j), TRUE, "none") : f \in Own(j)}

\* The file is complete, and the directory is pruned: some of what is not retained
\* cannot be unlinked, or all of it if the worker is lost in between.
Finish(j) ==
    LET fs == Complete(j)
    IN  /\ job[j] = "write"
        /\ job' = [job EXCEPT ![j] = "idle"]
        /\ \E gone \in SUBSET (fs \ Retained(fs)) : files' = fs \ gone
        /\ IF Own(j) = {} THEN UNCHANGED latest
           ELSE latest' = LET f == Now(files \ Own(j), TRUE, "none")
                          IN  [day |-> f.day, nth |-> f.nth]
        /\ UNCHANGED <<day, queue, lost, written, irregular>>

\* The files as the end of job j leaves them: its own, if any, stays truncated.
Abandoned(j) ==
    {[day |-> f.day, nth |-> f.nth, complete |-> f.complete,
      by |-> IF f.by = j THEN "none" ELSE f.by] : f \in files}

\* pg_dump, the encryption or the write raises; the task is not run again.
Raise(j) ==
    /\ job[j] # "idle"
    /\ job' = [job EXCEPT ![j] = "idle"]
    /\ files' = Abandoned(j)
    /\ UNCHANGED <<day, queue, lost, latest, written, irregular>>

\* The worker is lost; the task is delivered again.
Lose(j) ==
    /\ job[j] # "idle"
    /\ lost < MaxLost
    /\ lost' = lost + 1
    /\ queue' = queue + 1
    /\ job' = [job EXCEPT ![j] = "idle"]
    /\ files' = Abandoned(j)
    /\ UNCHANGED <<day, latest, written, irregular>>

Next ==
    \/ NextDay
    \/ \E j \in Jobs : Start(j) \/ Write(j) \/ Finish(j) \/ Raise(j) \/ Lose(j)

Spec == Init /\ [][Next]_vars

-----------------------------------------------------------------------------
(* Properties.                                                             *)

\* The last backup that was completed is there to restore from, whatever is pruned
\* at the same time, unless KeepDaily newer files, truncated ones, took its place
\* (backup.py:107-178).
LatestKept ==
    latest.nth > 0 =>
        \/ \E f \in files : f.complete /\ f.day = latest.day /\ f.nth = latest.nth
        \/ Cardinality({f \in files : Newer(f, latest)}) >= KeepDaily

\* "Retain 7 daily + 4 weekly backups" (docs/30-improvements.md:107): of the newest
\* KeepDaily days a file is there, and of the Sundays before them, the newest KeepWeekly.
DaysRetained ==
    LET newer(d, ds) == Cardinality({e \in ds : e > d})
        daily == {d \in written : newer(d, written) < KeepDaily}
        sundays == {d \in written \ daily : Sunday(d)}
        weekly == {d \in sundays : newer(d, sundays) < KeepWeekly}
    IN  \A d \in daily \cup weekly : \E f \in files : f.day = d

\* The schedule is kept as long as no day gets a second file (backup.py:155-178).
ScheduleKept == ~irregular => DaysRetained
=============================================================================
