\* One instalment in the export, recorded by every poll.
SPECIFICATION Spec
CONSTANTS
    i1 = i1
    p1 = p1
    r1 = r1
    r2 = r2
    Invoices <- OneInvoice
    AmountDue = 2
    Payments <- OnePayment
    InvoiceOf <- OneOnOne
    AmountOf <- OneInstalment
    DueDay = 0
    Schedule <- OnTheDay
    Runs <- OneRun
    StaffStatuses = {}
    SentDays = 1
    FailedDays = 0
    LastDay = 2
    MaxTexts = 2
INVARIANTS
    NoDoubleCount
CHECK_DEADLOCK FALSE
