\* Six days in weeks of two, two jobs that may overlap, one lost worker.
SPECIFICATION Spec
CONSTANTS
    j1 = j1
    j2 = j2
    Jobs <- TwoJobs
    KeepDaily = 2
    KeepWeekly = 1
    WeekLength = 2
    LastDay = 5
    MaxLost = 1
SYMMETRY JobSymmetry
INVARIANTS
    TypeOK
    LatestKept
    ScheduleKept
CHECK_DEADLOCK FALSE
