------------------------------- MODULE Outbox -------------------------------
(***************************************************************************)
(* The transactional outbox: table outbound_messages and every component   *)
(* that writes its status column.                                          *)
(*                                                                         *)
(*   - the scheduler and the inbound task insert rows    (Enqueue)         *)
(*   - send workers poll, lock, claim, send and commit   (Poll .. Abort)   *)
(*   - the Twilio status webhook applies receipts        (Callback)        *)
(*   - the payment poll suppresses reminders             (Suppress...)     *)
(*   - the reconciliation pass resolves unknown rows     (Recon...)        *)
(*   - a failed message may be put back by hand          (RetryFailed)     *)
(*                                                                         *)
(* Abstractions.  One send batch is one database transaction: its writes   *)
(* live in `draft' until Commit, and the rows stay locked.  Every other    *)
(* writer is a single atomic step that waits for the row lock, which is    *)
(* what READ COMMITTED makes of an UPDATE by primary key; a row read well  *)
(* before it is written (the payment poll, the reconciliation pass) is     *)
(* kept as a snapshot, because those SELECTs take no lock.  Wall-clock     *)
(* time only shows as `age' of an unknown row and in which of the eligible *)
(* rows a poll returns (scheduled_at <= now, ORDER BY, LIMIT).             *)
(*                                                                         *)
(* Repaired names the wiring defects of the source that an instance        *)
(* assumes fixed; {} is the program exactly as written.                    *)
(*   "dispatch_insert"  dispatch_service.py builds its INSERT with the     *)
(*                      generic insert(), which has no ON CONFLICT         *)
(*   "render"           sends.py:98 passes four arguments to the three-    *)
(*                      parameter _render_body                             *)
(*   "get_db"           the webhook enters an async generator with         *)
(*                      `async with'                                       *)
(*   "client_id"        the webhook reads client_id from the form, the     *)
(*                      adapter puts it in the query string                *)
(*   "aware_datetime"   reconciliation.py:58 compares an aware updated_at  *)
(*                      with a naive cutoff                                *)
(***************************************************************************)
EXTENDS Integers, FiniteSets

CONSTANTS
    Msgs,            \* message keys
    Reminders,       \* those of the scheduler: invoice reminders, empty body
    Workers,         \* concurrent poll_and_send_messages tasks
    BatchSize,       \* batch_size of a poll
    MaxRetries,      \* max_retries of a row
    Repaired,        \* wiring defects assumed fixed
    OperatorRetry,   \* whether transition_status(FAILED -> PENDING) is used
    MaxAcc,          \* bound: acceptances by the provider per message
    RetryCap         \* bound: retry_count a retry may reach

Defects == {"dispatch_insert", "render", "get_db", "client_id", "aware_datetime"}

ASSUME OutboxAssumption ==
    /\ Reminders \subseteq Msgs
    /\ BatchSize \in Nat
    /\ MaxRetries \in Nat
    /\ Repaired \subseteq Defects
    /\ OperatorRetry \in BOOLEAN
    /\ MaxAcc \in Nat
    /\ RetryCap \in Nat

VARIABLES
    row,        \* row[m]: the committed row of message m
    batch,      \* batch[w]: rows worker w holds FOR UPDATE
    todo,       \* todo[w]: rows of the batch its loop has not reached
    draft,      \* draft[m]: the uncommitted version of a held row
    supp,       \* rows the payment poll read as pending and will suppress
    seen,       \* seen[m]: m as the running reconciliation pass loaded it
    events,     \* delivery_callbacks: the provider_event_id values stored
    acc,        \* acc[m]: SMS the provider accepted for m (SIDs 1..acc[m])
    open,       \* ghost, open[m]: of those, in the transaction still open
    lost        \* ghost, lost[m]: of those, in transactions that rolled back

vars == <<row, batch, todo, draft, supp, seen, events, acc, open, lost>>

workerVars == <<batch, todo, draft, open, lost>>
passVars == <<supp, seen>>

-----------------------------------------------------------------------------
(* Rows.                                                                   *)

MessageStatus == {"pending", "sending", "sent", "delivered", "failed",
                  "unknown_delivery", "suppressed"}

\* age: 0 updated less than 10 minutes ago, 1 less than 72 hours ago, 2 older.
\* sid: the number of the acceptance provider_message_id names, 0 for NULL.
Row == [status : MessageStatus \cup {"absent"}, retries : Nat, sid : Nat, age : 0..2]

NoRow == [status |-> "absent", retries |-> 0, sid |-> 0, age |-> 0]

Event == Msgs \X Nat \X {"sent", "delivered", "failed"}

Locked(m) == \E w \in Workers : m \in batch[w]

\* What an UPDATE leaves: updated_at is now.
Version(status, retries, sid) ==
    [status |-> status, retries |-> retries, sid |-> sid, age |-> 0]

\* An UPDATE of the row by someone else than a send worker.
Write(m, status, retries) ==
    row' = [row EXCEPT ![m] = Version(status, retries, row[m].sid)]

-----------------------------------------------------------------------------
TypeOK ==
    /\ row \in [Msgs -> Row]
    /\ batch \in [Workers -> SUBSET Msgs]
    /\ todo \in [Workers -> SUBSET Msgs]
    /\ draft \in [Msgs -> Row]
    /\ supp \subseteq Msgs
    /\ seen \in [Msgs -> Row]
    /\ events \subseteq Event
    /\ acc \in [Msgs -> Nat]
    /\ open \in [Msgs -> Nat]
    /\ lost \in [Msgs -> Nat]

Init ==
    /\ row = [m \in Msgs |-> NoRow]
    /\ batch = [w \in Workers |-> {}]
    /\ todo = [w \in Workers |-> {}]
    /\ draft = [m \in Msgs |-> NoRow]
    /\ supp = {}
    /\ seen = [m \in Msgs |-> NoRow]
    /\ events = {}
    /\ acc = [m \in Msgs |-> 0]
    /\ open = [m \in Msgs |-> 0]
    /\ lost = [m \in Msgs |-> 0]

-----------------------------------------------------------------------------
(* Producers.  A key that is already in the table is left alone.           *)

Enqueue(m) ==
    /\ m \in Reminders => "dispatch_insert" \in Repaired
    /\ row[m].status = "absent"
    /\ Write(m, "pending", row[m].retries)
    /\ UNCHANGED <<workerVars, passVars, events, acc>>

-----------------------------------------------------------------------------
(* The send worker.                                                        *)

\* Mutant of Eligible: the SELECT without FOR UPDATE SKIP LOCKED.
EligibleUnlocked == {m \in Msgs : row[m].status = "pending" /\ row[m].retries < MaxRetries}

\* Mutant of Eligible: retry_count <= max_retries.
EligibleOneMore ==
    {m \in Msgs : row[m].status = "pending" /\ row[m].retries <= MaxRetries /\ ~Locked(m)}

Eligible ==
    {m \in Msgs : /\ row[m].status = "pending"
                  /\ row[m].retries < MaxRetries
                  /\ ~Locked(m)}

\* With the circuit breaker open every row of the batch is skipped.
Poll(w) ==
    /\ batch[w] = {}
    /\ \E rows \in SUBSET Eligible :
          /\ rows # {}
          /\ Cardinality(rows) <= BatchSize
          /\ batch' = [batch EXCEPT ![w] = rows]
          /\ draft' = [m \in Msgs |-> IF m \in rows THEN row[m] ELSE draft[m]]
          /\ \E can_send \in BOOLEAN :
                todo' = [todo EXCEPT ![w] = IF can_send THEN rows ELSE {}]
    /\ UNCHANGED <<row, passVars, events, acc, open, lost>>

\* One round of the loop takes m off the batch and leaves it in `status'.
Handle(w, m, status, sid) ==
    /\ m \in todo[w]
    /\ todo' = [todo EXCEPT ![w] = @ \ {m}]
    /\ draft' = [draft EXCEPT ![m] = Version(status, draft[m].retries, sid)]
    /\ UNCHANGED <<row, batch, passVars, events, lost>>

\* Claimed, then put back because it is quiet hours at the school.
Defer(w, m) ==
    /\ Handle(w, m, "pending", draft[m].sid)
    /\ UNCHANGED <<acc, open>>

\* Claimed, then an exception before the provider is called: the handler of
\* the loop counts a failure and goes on, the claim stays in the transaction.
Raise(w, m) ==
    /\ Handle(w, m, "sending", draft[m].sid)
    /\ UNCHANGED <<acc, open>>

HasBody(m) == m \in Reminders => "render" \in Repaired

\* Whether the provider took the SMS is independent of what the caller hears.
Transmit(m, received) ==
    /\ HasBody(m)
    /\ IF received
       THEN /\ acc[m] < MaxAcc
            /\ acc' = [acc EXCEPT ![m] = @ + 1]
            /\ open' = [open EXCEPT ![m] = @ + 1]
       ELSE UNCHANGED <<acc, open>>

SendAccepted(w, m) ==
    /\ Transmit(m, TRUE)
    /\ Handle(w, m, "sent", acc[m] + 1)

\* Mutant of SendAmbiguous: the SID is stored with the unknown status.
SendAmbiguousKeepsSid(w, m) ==
    /\ Transmit(m, TRUE)
    /\ Handle(w, m, "unknown_delivery", acc[m] + 1)

SendAmbiguous(w, m) ==
    /\ \E received \in BOOLEAN : Transmit(m, received)
    /\ Handle(w, m, "unknown_delivery", draft[m].sid)

\* Mutant of SendError: the category of the error is written as the status.
SendErrorCategory(w, m) ==
    /\ \E received \in BOOLEAN : Transmit(m, received)
    /\ Handle(w, m, "retryable", draft[m].sid)

\* Mutant of SendError: a retryable error counts as sent.
SendErrorAsSent(w, m) ==
    /\ \E received \in BOOLEAN : Transmit(m, received)
    /\ Handle(w, m, "sent", draft[m].sid)

\* Rejections, and also network errors and timeouts: RETRYABLE is not AMBIGUOUS.
SendError(w, m) ==
    /\ \E received \in BOOLEAN : Transmit(m, received)
    /\ Handle(w, m, "failed", draft[m].sid)

\* The transaction of w ends and its row locks go.
Release(w) ==
    /\ batch[w] # {}
    /\ batch' = [batch EXCEPT ![w] = {}]
    /\ todo' = [todo EXCEPT ![w] = {}]
    /\ draft' = [m \in Msgs |-> IF m \in batch[w] THEN NoRow ELSE draft[m]]
    /\ open' = [m \in Msgs |-> IF m \in batch[w] THEN 0 ELSE open[m]]
    /\ UNCHANGED <<passVars, events, acc>>

Commit(w) ==
    /\ todo[w] = {}
    /\ Release(w)
    /\ row' = [m \in Msgs |-> IF m \in batch[w] THEN draft[m] ELSE row[m]]
    /\ UNCHANGED lost

\* The outer handler's rollback, a time limit, a crash, a failed COMMIT.
Abort(w) ==
    /\ Release(w)
    /\ lost' = [m \in Msgs |-> lost[m] + (IF m \in batch[w] THEN open[m] ELSE 0)]
    /\ UNCHANGED row

WorkerRound(w, m) ==
    \/ Defer(w, m)
    \/ Raise(w, m)
    \/ SendAccepted(w, m)
    \/ SendAmbiguous(w, m)
    \/ SendError(w, m)

-----------------------------------------------------------------------------
(* The status webhook.  Receipts arrive late, in any order, repeatedly.    *)

\* Where the handler finds the row of a receipt for acceptance n of m.
Finds(m, n) == "client_id" \in Repaired \/ row[m].sid = n

\* One acceptance does not end both delivered and failed.
Contradicts(m, n, s) ==
    \/ s = "delivered" /\ <<m, n, "failed">> \in events
    \/ s = "failed" /\ <<m, n, "delivered">> \in events

\* The receipt is stored, once per provider_event_id, and its status is written
\* over the row's.  "sent" stands for queued and accepted too, "failed" for
\* undelivered and rejected; other statuses leave the row alone.
ProcessDeliveryCallback(m, n, s) ==
    /\ <<m, n, s>> \notin events
    /\ events' = events \cup {<<m, n, s>>}
    /\ Write(m, s, row[m].retries)

Callback(m, n, s) ==
    /\ "get_db" \in Repaired
    /\ n \in 1..acc[m]
    /\ ~Contradicts(m, n, s)
    /\ Finds(m, n)
    /\ ~Locked(m)
    /\ ProcessDeliveryCallback(m, n, s)
    /\ UNCHANGED <<workerVars, passVars, acc>>

-----------------------------------------------------------------------------
(* The payment poll: the invoice is paid, suppress what is still pending.  *)

SuppressRead ==
    /\ supp = {}
    /\ \E paid \in SUBSET {m \in Reminders : row[m].status = "pending"} :
          /\ paid # {}
          /\ supp' = paid
    /\ UNCHANGED <<row, workerVars, seen, events, acc>>

SuppressWrite(m) ==
    /\ m \in supp
    /\ ~Locked(m)
    /\ supp' = supp \ {m}
    /\ Write(m, "suppressed", row[m].retries)
    /\ UNCHANGED <<workerVars, seen, events, acc>>

-----------------------------------------------------------------------------
(* The reconciliation pass, every ten minutes, one at a time.              *)

Tick(m) ==
    /\ row[m].status = "unknown_delivery"
    /\ row[m].age < 2
    /\ row' = [row EXCEPT ![m].age = @ + 1]
    /\ UNCHANGED <<workerVars, passVars, events, acc>>

Unknown == {m \in Msgs : row[m].status = "unknown_delivery" /\ row[m].age >= 1}

ReconLoad ==
    /\ \A m \in Msgs : seen[m] = NoRow
    /\ Unknown # {}
    /\ seen' = [m \in Msgs |-> IF m \in Unknown THEN row[m] ELSE NoRow]
    /\ UNCHANGED <<row, workerVars, supp, events, acc>>

ReconTakes(m) ==
    /\ seen[m] # NoRow
    /\ seen' = [seen EXCEPT ![m] = NoRow]
    /\ UNCHANGED <<workerVars, supp, events, acc>>

\* The loop counts an error and goes on: as written the comparison of naive and aware
\* datetimes raises, for every row; repaired, the database may for one it would query.
\* (A query that fails raises nothing: the adapter answers "unknown".)
ReconError(m) ==
    /\ "aware_datetime" \in Repaired => seen[m].age < 2 /\ seen[m].sid # 0
    /\ ReconTakes(m)
    /\ UNCHANGED row

ReconExpire(m) ==
    /\ "aware_datetime" \in Repaired
    /\ ReconTakes(m)
    /\ seen[m].age = 2
    /\ ~Locked(m)
    /\ Write(m, "failed", row[m].retries)

\* Mutant of ReconSkip: a skipped row is marked as looked at.
ReconSkipTouch(m) ==
    /\ "aware_datetime" \in Repaired
    /\ ReconTakes(m)
    /\ seen[m].age < 2
    /\ seen[m].sid = 0
    /\ ~Locked(m)
    /\ Write(m, row[m].status, row[m].retries)

ReconSkip(m) ==
    /\ "aware_datetime" \in Repaired
    /\ ReconTakes(m)
    /\ seen[m].age < 2
    /\ seen[m].sid = 0
    /\ UNCHANGED row

\* Mutant of ReconQuery: rows without a SID are queried too; the adapter answers
\* not_found for an empty SID, a mock may answer anything.
ReconQueryAlways(m) ==
    /\ "aware_datetime" \in Repaired
    /\ ReconTakes(m)
    /\ seen[m].age < 2
    /\ ~Locked(m)
    /\ \/ \E s \in {"sent", "delivered", "failed"} : Write(m, s, row[m].retries)
       \/ /\ seen[m].retries < RetryCap
          /\ Write(m, "pending", seen[m].retries + 1)

\* The answer is written over whatever the row has become meanwhile, and
\* retry_count is computed from the value the pass loaded.
ReconQuery(m) ==
    /\ "aware_datetime" \in Repaired
    /\ ReconTakes(m)
    /\ seen[m].age < 2
    /\ seen[m].sid # 0
    /\ ~Locked(m)
    /\ \/ \E s \in {"sent", "delivered", "failed"} : Write(m, s, row[m].retries)
       \/ Write(m, row[m].status, row[m].retries)    \* "unknown": only updated_at
       \/ /\ seen[m].retries < RetryCap                 \* "not_found"
          /\ Write(m, "pending", seen[m].retries + 1)

ReconHandle(m) == ReconError(m) \/ ReconExpire(m) \/ ReconSkip(m) \/ ReconQuery(m)

-----------------------------------------------------------------------------
(* OutboxService.transition_status(FAILED -> PENDING): no budget check.    *)

RetryFailed(m) ==
    /\ OperatorRetry
    /\ row[m].status = "failed"
    /\ row[m].retries < RetryCap
    /\ ~Locked(m)
    /\ Write(m, "pending", row[m].retries + 1)
    /\ UNCHANGED <<workerVars, passVars, events, acc>>

-----------------------------------------------------------------------------
Next ==
    \/ \E m \in Msgs : \/ Enqueue(m)
                       \/ SuppressWrite(m)
                       \/ Tick(m)
                       \/ ReconHandle(m)
                       \/ RetryFailed(m)
    \/ \E w \in Workers : Poll(w) \/ Commit(w) \/ Abort(w)
    \/ \E w \in Workers, m \in Msgs : WorkerRound(w, m)
    \/ \E m \in Msgs, n \in 1..MaxAcc, s \in {"sent", "delivered", "failed"} :
          Callback(m, n, s)
    \/ SuppressRead
    \/ ReconLoad

Spec == Init /\ [][Next]_vars

\* A worker that took a batch finishes it or is killed (task_time_limit); time
\* passes; beat starts a reconciliation pass every 600 s; passes and payment polls
\* that started come to their end.
\* Nothing is assumed of Poll: beat has no entry for poll_and_send_messages.
Fairness ==
    /\ \A w \in Workers :
          WF_vars((\E m \in Msgs : WorkerRound(w, m)) \/ Commit(w) \/ Abort(w))
    /\ \A m \in Msgs : /\ WF_vars(Tick(m))
                       /\ WF_vars(ReconHandle(m))
                       /\ WF_vars(SuppressWrite(m))
    /\ WF_vars(ReconLoad)

FairSpec == Spec /\ Fairness

-----------------------------------------------------------------------------
(* Properties.                                                             *)

\* However workers, receipts, suppression and reconciliation interleave, a
\* parent gets a second copy of a message only when the transaction that
\* recorded an earlier copy was rolled back (sends.py:32-155; nothing else
\* puts a message the provider may have back to pending).
DuplicatesAccounted ==
    ~OperatorRetry => \A m \in Msgs : acc[m] <= 1 + lost[m]

\* An unknown row never knows its SID: reconciliation.py:66 skips every one of
\* them, so "not_found, safe to retry" (reconciliation_service.py:152) cannot
\* requeue a message whose fate is only unknown.
UnknownHasNoSid ==
    ~OperatorRetry =>
        \A m \in Msgs : row[m].status = "unknown_delivery" => row[m].sid = 0

\* A row says sent or delivered only if the provider accepted the message in a
\* transaction that has ended, and a stored SID is one the provider gave.
StatusMatchesProvider ==
    \A m \in Msgs :
        /\ row[m].status \in {"sent", "delivered"} => acc[m] - open[m] >= 1
        /\ row[m].sid <= acc[m] - open[m]

\* duplicate-prevention.md:103: "A message in `sent` or `delivered` can NEVER
\* transition back to `pending`", whatever a stale snapshot writes over it.
SentNeverRequeued ==
    [][\A m \in Msgs : row[m].status \in {"sent", "delivered"}
                            => row'[m].status # "pending"]_row

\* The provider is called for a message only within its retry budget, although
\* neither transition_status nor the reconciliation pass looks at the budget.
NoSendBeyondBudget ==
    [][\A m \in Msgs : acc'[m] # acc[m] => row[m].retries < MaxRetries]_acc

\* The outbox as DeliveryPromise sees it: a message is queued while its committed
\* row is pending, and a transmission counts when its transaction has ended.
queuePhase ==
    [m \in Msgs |-> IF row[m].status = "absent" THEN "none"
                    ELSE IF row[m].status = "pending" THEN "queued"
                    ELSE "settled"]

transmissions == [m \in Msgs |-> acc[m] - open[m]]

Promise == INSTANCE DeliveryPromise WITH
    AllowRequeue <- OperatorRetry,
    phase <- queuePhase,
    sms <- transmissions,
    excused <- lost

\* The outbox keeps the promise of DeliveryPromise: from the commit that takes a
\* message out of pending it is never transmitted again (outbox.py:52-68).
PromiseKept == Promise!Spec

\* A message of unknown fate that no query can find is decided in the end: the
\* reconciliation pass expires it after 72 hours if nothing else does
\* (reconciliation.py:54-69).  With a SID it need not be: each query that brings no
\* answer sets updated_at (reconciliation_service.py:166), which the 72 hours
\* are counted from.
UnknownResolves ==
    \A m \in Msgs : row[m].status = "unknown_delivery" /\ row[m].sid = 0
                        ~> row[m].status # "unknown_delivery"

\* pilot-runbook.md:130-132 on messages stuck in sending: "Reconciliation will
\* resolve within 10 minutes".
SendingResolves ==
    \A m \in Msgs : row[m].status = "sending" ~> row[m].status # "sending"

\* prd/01-product-requirements.md:163: "Restarting a Celery worker mid-send does
\* not produce duplicates."
NoDuplicateSms == \A m \in Msgs : acc[m] <= 1
=============================================================================
