\* Every wiring defect repaired, no operator retries: all safety properties.
SPECIFICATION Spec
CONSTANTS
    m1 = m1
    m2 = m2
    w1 = w1
    w2 = w2
    Msgs <- TwoMsgs
    Reminders <- TwoMsgs
    Workers <- TwoWorkers
    BatchSize = 2
    MaxRetries = 1
    MaxAcc = 2
    RetryCap = 1
    Repaired <- AllRepaired
    OperatorRetry = FALSE
SYMMETRY MessageSymmetry
INVARIANTS
    TypeOK
    DuplicatesAccounted
    UnknownHasNoSid
PROPERTIES
    SentNeverRequeued
    PromiseKept
CHECK_DEADLOCK FALSE
