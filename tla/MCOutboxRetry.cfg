\* Everything repaired and failed messages retried, under the fairness of beat: one
\* message, two workers.
SPECIFICATION FairSpec
CONSTANTS
    m1 = m1
    m2 = m2
    w1 = w1
    w2 = w2
    Msgs <- OneMsg
    Reminders <- OneMsg
    Workers <- TwoWorkers
    BatchSize = 1
    MaxRetries = 2
    MaxAcc = 3
    RetryCap = 3
    Repaired <- AllRepaired
    OperatorRetry = TRUE
INVARIANTS
    StatusMatchesProvider
PROPERTIES
    UnknownResolves
    NoSendBeyondBudget
    PromiseKept
CHECK_DEADLOCK FALSE
