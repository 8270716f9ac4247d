------------------------------ MODULE Tuition -------------------------------
(***************************************************************************)
(* Invoices, payments and reminders.                                       *)
(*                                                                         *)
(*   - the daily scheduler reads the open invoices, builds the candidates  *)
(*     of the day, drops those of guardians who opted out and inserts the  *)
(*     rest in one statement that skips known keys     (Sched...)          *)
(*   - the payment poll records every payment of the SIS export, marks     *)
(*     invoices paid and suppresses their pending reminders (Payment...)   *)
(*   - staff change the status of an invoice           (UpdateStatus)      *)
(*   - parents text STOP and START                     (Stop, Start)       *)
(*   - reminders are sent or fail (Outbox has the details), and the daily  *)
(*     retention purge deletes old rows                (Attempt .. Purge)  *)
(*                                                                         *)
(* A scheduler run and a payment poll are transactions: what they read is  *)
(* kept in `runs' and `poll', what they write shows when they commit.  A   *)
(* run that rolls back is one that never commits.  Each invoice has its    *)
(* own guardian.  The INSERT of dispatch_service.py is taken to work: see  *)
(* "dispatch_insert" in Outbox.                                            *)
(***************************************************************************)
EXTENDS Integers, FiniteSetsExt

CONSTANTS
    Invoices,
    AmountDue,      \* amount_due of every invoice
    Payments,       \* sis_payment_id values
    InvoiceOf,      \* [Payments -> Invoices]
    AmountOf,       \* [Payments -> positive amounts]
    DueDay,         \* due_date of every invoice
    Schedule,       \* [due reminders -> days before the due date]
    Runs,           \* scheduler runs that may overlap
    StaffStatuses,  \* statuses staff give an invoice by update_status
    SentDays,       \* days a sent message is kept
    FailedDays,     \* days a failed message is kept
    LastDay,        \* bound: the calendar
    MaxTexts        \* bound: the ghost counters

DueTypes == DOMAIN Schedule
Types == DueTypes \cup {"late_notice"}
Keys == Invoices \X Types

ASSUME TuitionAssumption ==
    /\ IsFiniteSet(Invoices)
    /\ AmountDue \in Nat \ {0}
    /\ InvoiceOf \in [Payments -> Invoices]
    /\ AmountOf \in [Payments -> Nat \ {0}]
    /\ DueDay \in Nat
    /\ Schedule \in [DueTypes -> Nat]
    /\ "late_notice" \notin DueTypes
    /\ StaffStatuses \subseteq {"pending", "partial", "paid", "overdue", "cancelled"}
    /\ SentDays \in Nat
    /\ FailedDays \in Nat
    /\ LastDay \in Nat
    /\ MaxTexts \in Nat

VARIABLES
    today,
    invoice,        \* invoice[i]: [status, paid], the committed row
    exported,       \* the payments in the SIS export
    optIn,          \* optIn[i]: sms_opt_in of the guardian of i
    msg,            \* msg[k]: status of the outbox row with key k
    updatedOn,      \* updatedOn[k]: the day k became sent or failed, 0 before
    runs,           \* runs[r]: [step, open, keys], a scheduler transaction
    poll,           \* [step, recorded, seen, supp], the payment poll's transaction
    texts,          \* ghost, texts[k]: SMS the parent may have got for k
    purged,         \* ghost, purged[k]: times the row of k was purged
    leftover        \* ghost: reminders on their way when their parent texted STOP

vars == <<today, invoice, exported, optIn, msg, updatedOn, runs, poll, texts, purged,
          leftover>>
parentVars == <<optIn, leftover>>
outboxVars == <<msg, updatedOn, texts, purged>>

-----------------------------------------------------------------------------
InvoiceStatus == {"pending", "partial", "paid", "overdue", "cancelled"}

Invoice == [status : InvoiceStatus, paid : 0..AmountDue]

\* "unknown": unknown_delivery, or claimed for good.
MsgStatus == {"absent", "pending", "sent", "failed", "unknown", "suppressed"}

IdleRun == [step |-> "idle", open |-> {}, keys |-> {}]

\* recorded: the payments the poll records; seen: the invoices as it loaded them;
\* supp: the pending rows it suppresses.
IdlePoll == [step |-> "idle", recorded |-> {}, seen |-> <<>>, supp |-> {}]

TypeOK ==
    /\ today \in 0..LastDay
    /\ invoice \in [Invoices -> Invoice]
    /\ exported \subseteq Payments
    /\ optIn \in [Invoices -> BOOLEAN]
    /\ msg \in [Keys -> MsgStatus]
    /\ updatedOn \in [Keys -> 0..LastDay]
    /\ runs \in [Runs -> [step : {"idle", "loaded", "built"},
                          open : SUBSET Invoices, keys : SUBSET Keys]]
    /\ \/ poll = IdlePoll
       \/ poll \in [step : {"open"}, recorded : SUBSET Payments,
                    seen : [Invoices -> Invoice], supp : SUBSET Keys]
    /\ texts \in [Keys -> 0..MaxTexts]
    /\ purged \in [Keys -> 0..MaxTexts]
    /\ leftover \subseteq Keys

Init ==
    /\ today = 0
    /\ invoice = [i \in Invoices |-> [status |-> "pending", paid |-> 0]]
    /\ exported = {}
    /\ optIn = [i \in Invoices |-> TRUE]
    /\ msg = [k \in Keys |-> "absent"]
    /\ updatedOn = [k \in Keys |-> 0]
    /\ runs = [r \in Runs |-> IdleRun]
    /\ poll = IdlePoll
    /\ texts = [k \in Keys |-> 0]
    /\ purged = [k \in Keys |-> 0]
    /\ leftover = {}

-----------------------------------------------------------------------------
(* The world.                                                              *)

NextDay ==
    /\ today < LastDay
    /\ today' = today + 1
    /\ UNCHANGED <<invoice, exported, parentVars, outboxVars, runs, poll>>

\* The school books a payment; the next export of the SIS has it.
Export(p) ==
    /\ exported' = exported \cup {p}
    /\ exported' # exported
    /\ UNCHANGED <<today, invoice, parentVars, outboxVars, runs, poll>>

\* A scheduler run has seen that the parent of k is opted in, and will insert k.
Read(k) == \E r \in Runs : k \in runs[r].keys

Stop(i) ==
    /\ optIn[i]
    /\ optIn' = [optIn EXCEPT ![i] = FALSE]
    /\ leftover' = leftover \cup {k \in Keys : k[1] = i /\ (msg[k] = "pending" \/ Read(k))}
    /\ UNCHANGED <<today, invoice, exported, outboxVars, runs, poll>>

Start(i) ==
    /\ ~optIn[i]
    /\ optIn' = [optIn EXCEPT ![i] = TRUE]
    /\ leftover' = {k \in leftover : k[1] # i}
    /\ UNCHANGED <<today, invoice, exported, outboxVars, runs, poll>>

-----------------------------------------------------------------------------
(* The scheduler.                                                          *)

ReminderDueToday(t) == t \in DueTypes /\ DueDay - Schedule[t] = today

\* Mutant of LateNoticeEligible: only on the day after the due date.
LateNoticeEligibleOnce == DueDay + 1 = today

LateNoticeEligible == DueDay < today

\* The reminders of the day for the invoices a run loaded (all of them open).
BuildCandidates(open) ==
    {k \in Keys : /\ k[1] \in open
                  /\ \/ ReminderDueToday(k[2])
                     \/ k[2] = "late_notice" /\ LateNoticeEligible}

SchedLoad(r) ==
    LET open == {i \in Invoices : invoice[i].status \in {"pending", "partial"}}
    IN  /\ runs[r].step = "idle"
        /\ open # {}
        /\ runs' = [runs EXCEPT ![r] = [step |-> "loaded", open |-> open, keys |-> {}]]
        /\ UNCHANGED <<today, invoice, exported, parentVars, outboxVars, poll>>

\* Mutant of SchedBuild: should_suppress is not asked.
SchedBuildUnasked(r) ==
    /\ runs[r].step = "loaded"
    /\ runs' = [runs EXCEPT ![r] =
          [step |-> "built", open |-> runs[r].open,
           keys |-> BuildCandidates(runs[r].open)]]
    /\ UNCHANGED <<today, invoice, exported, parentVars, outboxVars, poll>>

\* Guardians are read now; of should_suppress only the opt-out can still hold.
SchedBuild(r) ==
    /\ runs[r].step = "loaded"
    /\ runs' = [runs EXCEPT ![r] =
          [step |-> "built", open |-> runs[r].open,
           keys |-> {k \in BuildCandidates(runs[r].open) : optIn[k[1]]}]]
    /\ UNCHANGED <<today, invoice, exported, parentVars, outboxVars, poll>>

\* Mutant of SchedInsert: ON CONFLICT DO UPDATE SET status = 'pending'.
SchedInsertUpsert(r) ==
    /\ runs[r].step = "built"
    /\ msg' = [k \in Keys |-> IF k \in runs[r].keys THEN "pending" ELSE msg[k]]
    /\ runs' = [runs EXCEPT ![r] = IdleRun]
    /\ UNCHANGED <<today, invoice, exported, parentVars, updatedOn, poll, texts, purged>>

\* INSERT ... ON CONFLICT (message_key) DO NOTHING, and COMMIT.
SchedInsert(r) ==
    /\ runs[r].step = "built"
    /\ msg' = [k \in Keys |-> IF k \in runs[r].keys /\ msg[k] = "absent"
                              THEN "pending" ELSE msg[k]]
    /\ runs' = [runs EXCEPT ![r] = IdleRun]
    /\ UNCHANGED <<today, invoice, exported, parentVars, updatedOn, poll, texts, purged>>

-----------------------------------------------------------------------------
(* The life of a reminder, as far as the scheduler and the poll see it.    *)

\* What is recorded as failed, for a network error, may have arrived all the same.
Attempt(k, outcome) ==
    /\ msg[k] = "pending"
    /\ texts[k] < MaxTexts
    /\ msg' = [msg EXCEPT ![k] = outcome]
    /\ updatedOn' = [updatedOn EXCEPT ![k] = IF outcome = "unknown" THEN 0 ELSE today]
    /\ texts' = [texts EXCEPT ![k] = @ + 1]
    /\ UNCHANGED <<today, invoice, exported, parentVars, runs, poll, purged>>

\* The reconciliation pass gives up on a message.
Expire(k) ==
    /\ msg[k] = "unknown"
    /\ msg' = [msg EXCEPT ![k] = "failed"]
    /\ updatedOn' = [updatedOn EXCEPT ![k] = today]
    /\ UNCHANGED <<today, invoice, exported, parentVars, runs, poll, texts, purged>>

\* Rows the retention purge deletes; pending, suppressed and unknown ones stay.
Purgeable(k) ==
    \/ msg[k] = "sent" /\ today - updatedOn[k] > SentDays
    \/ msg[k] = "failed" /\ today - updatedOn[k] > FailedDays

\* The purge is one transaction; a deleted row takes its key with it.
Purge ==
    LET gone == {k \in Keys : Purgeable(k)}
    IN  /\ gone # {}
        /\ \A k \in gone : purged[k] < MaxTexts
        /\ msg' = [k \in Keys |-> IF k \in gone THEN "absent" ELSE msg[k]]
        /\ updatedOn' = [k \in Keys |-> IF k \in gone THEN 0 ELSE updatedOn[k]]
        /\ purged' = [k \in Keys |-> purged[k] + (IF k \in gone THEN 1 ELSE 0)]
        /\ UNCHANGED <<today, invoice, exported, parentVars, runs, poll, texts>>

-----------------------------------------------------------------------------
(* Payments.                                                               *)

Booked(i, ps) == {p \in ps : InvoiceOf[p] = i}

\* Mutant of Record: overpayments are not cut at amount_due.
RecordUncapped(inv, i, ps) ==
    LET sum == inv.paid + MapThenSumSet(LAMBDA p : AmountOf[p], Booked(i, ps))
    IN  IF Booked(i, ps) = {} THEN inv
        ELSE [status |-> IF sum >= AmountDue THEN "paid" ELSE "partial", paid |-> sum]

\* record_payment for each of the payments ps of i, on the invoice as loaded.
Record(inv, i, ps) ==
    LET sum == inv.paid + MapThenSumSet(LAMBDA p : AmountOf[p], Booked(i, ps))
    IN  IF Booked(i, ps) = {} THEN inv
        ELSE IF sum >= AmountDue THEN [status |-> "paid", paid |-> AmountDue]
        ELSE [status |-> "partial", paid |-> sum]

\* Mutant of PaymentPoll: payments that were recorded before are passed over.
PaymentPollOnce ==
    LET new == {p \in exported : invoice[InvoiceOf[p]].paid < AmountDue}
    IN  /\ poll = IdlePoll
        /\ new # {}
        /\ poll' = [step |-> "open", recorded |-> new, seen |-> invoice,
                    supp |-> {k \in Keys :
                                /\ msg[k] = "pending"
                                /\ Booked(k[1], new) # {}
                                /\ Record(invoice[k[1]], k[1], new).status = "paid"}]
        /\ UNCHANGED <<today, invoice, exported, parentVars, outboxVars, runs>>

\* Nothing remembers which payments of the export were recorded before.
PaymentPoll ==
    /\ poll = IdlePoll
    /\ exported # {}
    /\ poll' = [step |-> "open", recorded |-> exported, seen |-> invoice,
                supp |-> {k \in Keys :
                            /\ msg[k] = "pending"
                            /\ Booked(k[1], exported) # {}
                            /\ Record(invoice[k[1]], k[1], exported).status = "paid"}]
    /\ UNCHANGED <<today, invoice, exported, parentVars, outboxVars, runs>>

\* An UPDATE writes the columns that differ from what was loaded.
Written(old, new, current) == IF new = old THEN current ELSE new

PaymentCommit ==
    /\ poll.step = "open"
    /\ invoice' = [i \in Invoices |->
          LET old == poll.seen[i]
              new == Record(old, i, poll.recorded)
          IN  [status |-> Written(old.status, new.status, invoice[i].status),
               paid |-> Written(old.paid, new.paid, invoice[i].paid)]]
    /\ msg' = [k \in Keys |-> IF k \in poll.supp /\ msg[k] # "absent"
                              THEN "suppressed" ELSE msg[k]]
    /\ updatedOn' = [k \in Keys |-> IF msg'[k] = "suppressed" THEN 0 ELSE updatedOn[k]]
    /\ poll' = IdlePoll
    /\ UNCHANGED <<today, exported, parentVars, runs, texts, purged>>

-----------------------------------------------------------------------------
(* InvoiceService.update_status.                                           *)

ValidTransitions ==
    [pending   |-> {"partial", "paid", "overdue", "cancelled"},
     partial   |-> {"paid", "overdue", "cancelled"},
     paid      |-> {},
     overdue   |-> {"partial", "paid", "cancelled"},
     cancelled |-> {}]

UpdateStatus(i, s) ==
    /\ s \in StaffStatuses
    /\ s \in ValidTransitions[invoice[i].status]
    /\ invoice' = [invoice EXCEPT ![i] =
          [status |-> s, paid |-> IF s = "paid" THEN AmountDue ELSE @.paid]]
    /\ UNCHANGED <<today, exported, parentVars, outboxVars, runs, poll>>

-----------------------------------------------------------------------------
Next ==
    \/ NextDay
    \/ \E p \in Payments : Export(p)
    \/ \E i \in Invoices : Stop(i) \/ Start(i)
    \/ \E r \in Runs : SchedLoad(r) \/ SchedBuild(r) \/ SchedInsert(r)
    \/ \E k \in Keys, outcome \in {"sent", "failed", "unknown"} : Attempt(k, outcome)
    \/ \E k \in Keys : Expire(k)
    \/ Purge
    \/ PaymentPoll
    \/ PaymentCommit
    \/ \E i \in Invoices, s \in InvoiceStatus : UpdateStatus(i, s)

Spec == Init /\ [][Next]_vars

\* Beat starts a payment poll every 300 s and a scheduler run every day; what is
\* started ends.  Nothing is assumed of the senders.
FairSpec ==
    /\ Spec
    /\ WF_vars(PaymentPoll)
    /\ WF_vars(PaymentCommit)
    /\ \A r \in Runs : WF_vars(SchedLoad(r) \/ SchedBuild(r) \/ SchedInsert(r))

-----------------------------------------------------------------------------
(* Properties.                                                             *)

\* However often and however concurrently the scheduler runs, a reminder is sent
\* once per life of its row: a second text takes a purge in between
\* (prd/01-product-requirements.md:162, dispatch_service.py:77-82).
OneTextPerReminder ==
    \A k \in Keys : texts[k] + (IF msg[k] = "pending" THEN 1 ELSE 0) <= 1 + purged[k]

\* A reminder that was queued while its invoice was being paid does not stay
\* pending: the next poll of the export suppresses it, because it records the same
\* payments again (reconciliation.py:136-159).
PaidStopsReminders ==
    \A k \in Keys :
        /\ msg[k] = "pending"
        /\ invoice[k[1]].status = "paid"
        /\ Booked(k[1], exported) # {}
        ~> msg[k] # "pending"

\* "Texting STOP ... suppresses all future sends" (prd/01-product-requirements.md:170)
\* reaches the scheduler, not the queue: what may still be texted to a parent who
\* opted out was pending, or about to be inserted by a run that had read the
\* guardian, at the time of the STOP (reminders.py:96-134, sends.py:54-147).
OptOutStopsNewReminders ==
    \A k \in Keys : msg[k] = "pending" /\ ~optIn[k[1]] => k \in leftover

\* An invoice that stays open past its due date gets its late notice, also when
\* the run of the first day after it failed (reminder_service.py:124-134).
LateNoticeComes ==
    \A i \in Invoices :
        /\ today > DueDay
        /\ invoice[i].status \in {"pending", "partial"}
        /\ optIn[i]
        ~> \/ msg[<<i, "late_notice">>] # "absent"
           \/ invoice[i].status \notin {"pending", "partial"}
           \/ ~optIn[i]

\* reconciliation_service.py:12: "All reconciliation operations are idempotent":
\* an invoice is never credited with more than the payments booked for it.
NoDoubleCount ==
    \A i \in Invoices :
        invoice[i].paid <= MapThenSumSet(LAMBDA p : AmountOf[p], Booked(i, exported))
=============================================================================
