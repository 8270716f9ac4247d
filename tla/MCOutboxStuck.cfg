\* As written: a claim whose handling raised is committed as sending for good.
SPECIFICATION FairSpec
CONSTANTS
    m1 = m1
    m2 = m2
    w1 = w1
    w2 = w2
    Msgs <- OneMsg
    Reminders <- NoMsgs
    Workers <- TwoWorkers
    BatchSize = 1
    MaxRetries = 1
    MaxAcc = 2
    RetryCap = 1
    Repaired <- AsWritten
    OperatorRetry = FALSE
PROPERTIES
    SendingResolves
CHECK_DEADLOCK FALSE
