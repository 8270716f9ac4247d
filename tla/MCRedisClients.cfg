\* Two loads and two saves, or two requests at a limit of 2 and in a window of two
\* seconds of three ticks; a restart.
SPECIFICATION FairSpec
CONSTANTS
    r1 = r1
    r2 = r2
    s1 = s1
    s2 = s2
    q1 = q1
    q2 = q2
    Readers <- TwoReaders
    Savers <- TwoSavers
    CacheTtl = 2
    MaxSaves = 3
    Requests <- TwoRequests
    Limit = 2
    Second = 3
    Window = 6
    MaxRestarts = 1
INVARIANTS
    TypeOK
    StaleIsExcused
    AtMostTwiceLimit
    RetryAfterRounded
PROPERTIES
    StaleExpires
    LimitEnds
CONSTRAINT
    OneAtATime
