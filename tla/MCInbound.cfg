\* Four texts, two workers, two losses; a name that just leaves room for the
\* acknowledgement of an extension.
SPECIFICATION FairSpec
CONSTANTS
    stop = stop
    start = start
    extension = extension
    rant = rant
    w1 = w1
    w2 = w2
    Texts <- FourTexts
    Body <- FourBodies
    NameLength = 15
    Owes = TRUE
    Workers <- TwoWorkers
    MaxLosses = 2
INVARIANTS
    TypeOK
    StopStands
    AuditsMatchEffects
    AllOrNothing
PROPERTIES
    ExtensionDecided
CHECK_DEADLOCK FALSE
