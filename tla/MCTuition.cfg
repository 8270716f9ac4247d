\* One invoice of 2, an instalment of 1 that every poll records, a staff that may cancel,
\* two overlapping scheduler runs; sent rows are purged after two days, failed ones
\* after one.
SPECIFICATION FairSpec
CONSTANTS
    i1 = i1
    p1 = p1
    r1 = r1
    r2 = r2
    Invoices <- OneInvoice
    AmountDue = 2
    Payments <- OnePayment
    InvoiceOf <- OneOnOne
    AmountOf <- OneInstalment
    DueDay = 0
    Schedule <- OnTheDay
    Runs <- TwoRuns
    StaffStatuses = {"cancelled"}
    SentDays = 1
    FailedDays = 0
    LastDay = 2
    MaxTexts = 2
INVARIANTS
    TypeOK
    OneTextPerReminder
    OptOutStopsNewReminders
PROPERTIES
    PaidStopsReminders
    LateNoticeComes
CHECK_DEADLOCK FALSE
