# Verification of the SMS tuition agent

TLA+ models of the agent that reminds parents of tuition by SMS: what must hold of
the outbox, the reminders, the payments, the opt-outs and the infrastructure around
them; TLC configurations that check it on small instances, and TLAPS proofs for
every instance.  All paths are relative to `src/`.

## 1. The system

Celery workers share one PostgreSQL database and one Redis; Twilio and the school's
SIS are outside.  Every Celery task is one asynchronous session, so in the main one
transaction; the hard behaviour comes from transactions that overlap, from values
read in one place and written back in another, from workers that die
(`task_acks_late`, `task_time_limit`), and from clocks.

| Component | State | Operations | Talks to | What is hard | What makes it correct |
|---|---|---|---|---|---|
| Outbox and send worker (`domain/outbox.py`, `workers/sends.py`, `adapters/twilio_adapter.py`) | `outbound_messages`: status, retry_count, provider_message_id | poll (`FOR UPDATE SKIP LOCKED`), claim, defer, send, transition, commit of the whole batch | breaker, quiet hours, Twilio | a batch is one transaction around many network calls; a crash undoes the records, not the SMS; an exception leaves a claim | no second SMS without a lost transaction; statuses backed by acceptances; sent is never requeued; retry budget |
| Delivery receipts (`api/webhooks/twilio.py`, `domain/reconciliation_service.py`) | `delivery_callbacks`, statuses | look up, deduplicate, apply | outbox | late, repeated, reordered receipts | what a receipt overwrites was not better |
| Unknown deliveries (`workers/reconciliation.py`) | snapshot of unknown rows | load, expire after 72 h, query Twilio | outbox, Twilio | a snapshot written back after network calls | every unknown fate is decided, nothing is resent on a guess |
| Circuit breaker (`infra/circuit_breaker.py`) | three Redis keys | can_execute, record_success, record_failure | send worker | each Redis command interleaves with others | keys consistent; threshold acted on; open circuits end |
| Quiet hours (`domain/quiet_hours.py`) | none; policy and zone | is_within_quiet_hours, next_allowed_send_time | send worker | windows over midnight, changes of the clocks | a deferral lands on the first moment allowed |
| Reminder scheduler (`workers/reminders.py`, `domain/reminder_service.py`, `domain/dispatch_service.py`) | a transaction: invoices, candidates | load, build, suppress, insert | outbox, invoices | overlapping and missed runs, stale invoices | one text per reminder; late notices come |
| Invoices and payments (`domain/invoice_service.py`, `workers/reconciliation.py`) | status, amount_paid | record_payment, update_status, payment poll | SIS export, outbox | an export that is recorded again by every poll; staff at the same time | paid invoices stop reminders |
| Inbound SMS (`workers/inbound.py`, webhook, `domain/hardship_service.py`) | `inbound_messages`, `hardship_requests`, sms_opt_in, audit rows | store, parse, act, answer | outbox, audit log | redelivery, an audit entry in another transaction, concurrent STOP and START, answers that do not fit | opt-outs stand; effects audited; answered exactly when acted on |
| Retention (`domain/retention.py`) | | four purges in a transaction | outbox, inbound | deleting a row forgets its key | one text per life of a row |
| Policy (`domain/policy_service.py`) | `schools.reminder_policy`, a Redis key with a time to live | load_policy, save_policy | send worker, Redis | the fill of a load races with the delete of a save; either may be lost | an outdated policy has a cause, and does not last |
| Rate limiter (`infra/rate_limiter.py`, `api/admin.py`) | a Redis counter per address | INCR, EXPIRE, TTL | Redis | commands interleave; a client dies in between; the window ends in between | at most two limits per window; Retry-After is honest to half a second; limits end |
| Dead letters (`domain/dead_letter.py`) | `dead_letter_messages` | move, replay | outbox, purge | two replays of one letter; copies of copies; the purge of the original | no letter lost; copies accounted for; keys distinct |
| Backup (`infra/backup.py`, `workers/maintenance.py`) | files | dump, write, prune | PostgreSQL, disk | redelivery, overlap, a truncated file | the last backup and the schedule are kept |
| Alerting, SIS connectors, templates, masking, logging, admin API, configuration | none of their own | | | | not modelled, section 7 |

### Links that are broken as written

Several links between components fail whenever they are used.  A model in which
they fail says little about the rest, so they are switches.  `Repaired` in `Outbox`
names those it assumes repaired; `{}` is the program exactly as written.

| Switch | In the source |
|---|---|
| `dispatch_insert` | `dispatch_service.py` calls `on_conflict_do_nothing` on the generic `insert()`, which lacks it |
| `render` | `sends.py:98` passes four arguments to the three-parameter `_render_body` |
| `get_db` | the webhook uses the async generator `get_db()` as a context manager |
| `client_id` | the webhook takes `client_id` from the form, the adapter puts it in the query string |
| `aware_datetime` | `reconciliation.py:58` compares an aware `updated_at` with a naive cutoff |

`Tuition` assumes `dispatch_insert` repaired, `Inbound` assumes `get_db` repaired and
that the stored text is enqueued for `workers/inbound.py`: as written the webhook
enqueues a second task of the same name that only stores it.  Others are not
modelled: the module-level engine used from one `asyncio.run` after another, the
enum labels (SQLAlchemy writes member names where the migration declares values),
`scripts/backup.py` and `scripts/sync_sis.py` calling functions with other
signatures, `domain/dead_letter.py` declaring a table that `domain/models.py:650` has
declared already (`DeadLetter` takes it to be importable), the send task that no beat entry starts, and
the maintenance tasks (purge, alerts, backup), which have no route in
`workers/celery_app.py:35-40` and so go to Celery's own default queue, while the worker of
`docker-compose.yml:90` listens to five others.  `Tuition` and `Backup` take them to be
consumed.

## 2. Modules

| Module | Models | Checked by | Proofs |
|---|---|---|---|
| `Outbox` | the table and everything that writes its status | `MCOutbox` | `OutboxProofs` |
| `DeliveryPromise` | abstract: what the outbox promises | refinement, `PromiseKept` | `OutboxProofs` |
| `CircuitBreaker` | the breaker's Redis commands, driven by send workers | `MCCircuitBreaker` | `CircuitBreakerProofs` |
| `QuietHours` | the deferral of a message | `MCQuietHours` | `QuietHoursProofs` |
| `Tuition` | scheduler, invoices, payments, purge, opt-outs | `MCTuition` | `TuitionProofs` |
| `Inbound` | the texts of one parent and the task that acts on them | `MCInbound` | `InboundProofs` |
| `PolicyCache` | load_policy and save_policy around the cached policy | through `RedisClients` | `RedisClientsProofs` |
| `RateLimiter` | the Redis commands of requests of one address | through `RedisClients` | `RedisClientsProofs` |
| `RedisClients` | both on one Redis: its clock, its snapshots, its restarts | `MCRedisClients` | `RedisClientsProofs` |
| `DeadLetter` | the dead letters of one reminder | `MCDeadLetter` | `DeadLetterProofs` |
| `Backup` | the backup directory and the tasks that write and prune it | `MCBackup` | `BackupProofs` |

A definition named `Mutant of X` in its comment is a plausible bug of X.  It is
part of no behaviour; it records what the property beside it would notice.

**Outbox.** `row[m]` is the committed row.  A worker's batch is an open transaction:
`batch[w]` the rows it locked, `todo[w]` those to be handled, `draft` what it wrote.
`Poll` takes eligible unlocked rows; `Defer`, `Raise`, `SendAccepted`,
`SendAmbiguous` and `SendError` are the ways through the loop body; `Commit`
publishes the drafts, `Abort` is a rollback or the death of the worker.  `acc`,
`open` and `lost` are ghosts: acceptances by Twilio, those of the open transaction,
those whose transaction was rolled back.  `Callback`, `SuppressRead`/`SuppressWrite`
and `ReconLoad`/`ReconHandle` are the other writers; they wait for row locks but
work on what they read earlier (`seen`).  `ReconError` is the `except` of the pass: as
written the comparison that raises, and once that is repaired a database error (a query
that does not reach Twilio is no error, the adapter answers "unknown").  `RetryFailed` is
`transition_status(FAILED -> PENDING)`, which only an operator can call.  A
reconciliation pass or payment poll that is killed before its first write is one
that never started.

**CircuitBreaker.** `pc[w]` names the Redis command a worker is about to issue.
`opened` says whether `opened_at` exists and the cooldown has passed since.
`records[w]` holds what a message still has to record: handling may record two
outcomes, because the `except` of the loop records a failure after a recorded one.

**QuietHours.** Instants are UTC minutes; a zone is an offset that changes at most
once, and within one hour of the clock (`ChangeInOneHour`), which by today's rules leaves
out Pacific/Chatham (02:45) and Antarctica/Troll (two hours).  `ToUtc` is PEP 495.  `ToUtc` and `NextAllowedSendTime` were compared with
Python's `zoneinfo` around changes in New York, Havana, Berlin and Lord Howe.

**Tuition.** A scheduler run is a transaction in three steps, because other
transactions commit in between; `poll` is the payment poll, which keeps the invoices
as it loaded them and writes only changed columns (`Written`).  One payment poll runs
at a time.  `Attempt` and `Expire` are Outbox seen from here; `Purge` is
`run_retention_purge`, one transaction.  The late-notice cadence, `enabled`, the
schedule and `max_reminder_attempts` of a policy are not in the model: the scheduler
never reads them.  Of `should_suppress` only the opt-out rule can hold, since the run
loads open invoices only.  `UpdateStatus` is `update_status`, which has no caller in the
repository and is taken as a step of staff.  `SchedBuild` reads the guardians, after the invoices and in
a statement of its own; `leftover` is a ghost, the reminders pending or read by then when
their parent texted STOP.

**Inbound.** A task runs in `Begin` (load), `Audit` (the standalone commit of
`log_audit_event`) and `Finish` (answer and commit), or ends in `Raise`.  `Body[t]` is
what `parse_intent` sees of a text: its exact match, and the keywords it contains.
The first intent of `KEYWORD_PATTERNS` wins, so "STOP CALLING ME" is CALL.
`Answerable` is `render()`: more than two segments raise, and as the GSM-7 table ends
at its own quotation mark, every template counts 67 characters per segment.  HELP
never fits; EXTENSION fits for school names of up to 15 characters; STATUS raises
with an open invoice, on the lazy load of its student.  Texts of unknown numbers end
in an early return that rolls back, and are left out.  `crossed` and `stopped`
are ghosts: the workers that loaded FALSE before a START set TRUE, and whether a STOP that was not
crossed is the last word.

**PolicyCache, RateLimiter, RedisClients.** A policy is its version; 0 is "not set".
`LoadSelect` is the SELECT of a load that missed, `LoadFill` its SETEX; `SaveCommit` and
`SaveDelete` are the two ends of a save, and each has a variant in which Redis fails or
the process dies.  A request is its next Redis command: `Incr`, `Expire`, `Ttl`.
`Tick` lets all keys age at once, in ticks finer than a second if `Second` says so: Redis
keeps an expiry in milliseconds and answers TTL rounded to the nearest second (`Seconds`), which
`RetryAfter` passes on, with the whole window for an answer of 0. `Save` is Redis's own snapshot to its volume, `Restart`
goes back to it (`docker-compose.yml:37-49` leaves the image's default persistence on).
Ghosts: `excused` and `overtaken` (why a cached version may be old), `orphaned` (no one
is left to set the expiry), `wait` (what is left of a promised wait), `admitted`.

**DeadLetter.** `outbox` and `letters` are the two tables by id, `tx[o]` the replay
transaction of an operator, who stands for the caller the service lacks.  A key is the
sequence of seconds in which the reminder was replayed.  `ReplayInsert` waits for an
uncommitted row with the same key, as the unique index does; a committed one makes the
replay abort.  `Purge` is the retention purge with `ON DELETE SET NULL`.  `extra` is a
ghost that names every copy beyond the first and its cause.

**Backup.** A file is the day and the place in that day of its mtime.  `Write` opens the
file after the dump, `Finish` is the end of the write together with the pruning that
follows it without a wait; `Raise` and `Lose` are the two ways a task ends early, and leave the file
they had opened.  The week and both retention counts are parameters.

## 3. Runs

| Run | Question | Instance | Distinct states |
|---|---|---|---|
| `outbox` | do workers, receipts, suppression and reconciliation together keep the promise? | 2 reminders, 2 workers, batch 2, everything repaired | 1,178,248 |
| `outbox_retry` | the same when failed messages are put back by hand; is every unknown fate decided? | 1 message, budget 2, 3 acceptances | 131,482 |
| `outbox_duplicates` | expected violation | 1 message, 2 workers | |
| `outbox_stuck` | expected violation | 1 message, 2 workers | |
| `breaker` | do the keys stay consistent? does an open circuit end? | 3 workers, batch 2, threshold 2, 1 killed | 450,128 |
| `quiet_hours` | where does a deferral land? | 84 half-hours, 36 windows, 5 zones | 1,633,056 |
| `tuition` | one text per reminder; do payment and STOP stop it; do late notices come? | 1 invoice, 2 reminders, 2 runs, 3 days | 480,796 |
| `payments_double` | expected violation | 1 invoice, 1 instalment | |
| `inbound` | do opt-outs stand? are texts answered exactly when acted on? | STOP, START, EXTENSION and a text for CALL, 2 workers, 2 losses | 243,356 |
| `redis` | can an old policy stay cached? what passes the rate limit, and when? | 2 loads and 2 savers, 3 saves; or 2 requests, limit 2, window of 2 seconds of 3 ticks; 1 restart | 189,670 |
| `dead_letters` | can a letter get lost, or a message be copied without a cause? | 2 operators, 2 seconds, 4 messages, 3 letters | 1,237,491 |
| `backup` | is the last backup kept? is the schedule? | 2 jobs, 6 days in weeks of 2, keep 2 and 1, 1 lost worker | 3,129,938 |

### What the passing runs show

* `DuplicatesAccounted`, `PromiseKept`: a parent gets a second copy only when the
  transaction that recorded an earlier one was rolled back.  The row locks are what
  this rests on: without them two workers send the same row.
* `UnknownHasNoSid`: the branch of the reconciliation pass that asks Twilio, and
  could requeue a message, is unreachable unless failed messages are retried by
  hand.  An ambiguous send stores no SID.  `SentNeverRequeued` depends on it: under
  operator retries a stale snapshot can take a message back, which is why that run
  does not claim it.
* `StatusMatchesProvider`, `NoSendBeyondBudget`: kept even under operator retries.
* `UnknownResolves`: by the 72-hour expiry alone, and only for rows without a SID.  A
  row with one, which takes a retry by hand, is queried by every pass; an answer that
  tells nothing still sets `updated_at`, and the 72 hours start over for ever.
* `OpenHasTimestamp`, `ThresholdOpens`, `OpenEnds`: a failure recorded by a batch
  still running restarts the cooldown, yet an open circuit ends.  A worker killed
  between INCR and the opening leaves a closed circuit at its threshold:
  `ThresholdOpens` is stated for runs without one.
* `LandsOutsideQuietHours`, `NothingAllowedSooner`, `DeferralMovesForward`: a deferral
  lands on the first allowed moment.  On a day the clocks change the first needs a
  policy that allows more than one hour (`Robust`): a single allowed hour may be the
  one that is skipped in spring.
* `OneTextPerReminder`: a second text takes a purge in between.  A late notice is
  eligible on every later day, so after the purge it does come again.
* `OptOutStopsNewReminders`: STOP stops the scheduler, not the queue: what was pending,
  or read by a scheduler run, is still sent; nothing else is.
* `PaidStopsReminders`: also for a reminder queued during the payment, because the
  next poll records the same payments again and suppresses what is pending.
* `LateNoticeComes`: missed days are caught up for late notices.
* `StopStands`: once a STOP is confirmed the parent is opted out until a START that found
  them so is confirmed, whatever overlaps or is redelivered.  One STOP is lost: it loaded
  FALSE, for an earlier STOP, before a START committed TRUE, and then writes nothing.
  `AllOrNothing` and `AuditsMatchEffects` connect the effect of a text with its answer and its
  audit entry; an entry without an effect is of a task that raised.  `ExtensionDecided`: an
  EXTENSION ends in a ticket unless its task raised, and a task that raised is not tried again.
* `StaleIsExcused`, `StaleExpires`: an outdated policy is in the cache because a save has
  yet to delete it, its delete was lost, a load overtaken by the save wrote it back, or
  Redis went back to a snapshot; never longer than the time to live, however often used.
* `AtMostTwiceLimit`: a fixed window lets through its limit at its end and that of the
  next at its start, and never more; a restart may add one limit.  `RetryAfterRounded`:
  who waited as told and is still limited by the same window has to wait less than half
  a second more.  `LimitEnds` holds unless the
  request that was to set the expiry died: then the limit never ends.
* `NothingLost`: whatever is purged, rolled back or replayed twice, a letter is there or
  a replay took its place.  `CopiesAccounted`: the copies beyond the first are letters of
  a message copied twice, copied messages put back by hand, and second replays of a
  letter.  `ReplaysDistinct`: no two of them share a key, since two in one second do not both
  commit.
* `LatestKept`: the last completed backup stays until `keep_daily` newer files exist,
  truncated ones included.  `ScheduleKept`: with at most one file a day, the files of the
  last days and of the Sundays before them are there, also after deletions that failed.

### Where the code and its documents disagree

* `NoDuplicateSms`: "Restarting a Celery worker mid-send does not produce
  duplicates" (`prd/01-product-requirements.md:163`).  It does if the worker dies
  between Twilio's answer and the commit.
* `SendingResolves`: "Reconciliation will resolve within 10 minutes"
  (`docs/pilot-runbook.md:130`).  Nothing reads rows in `sending`.
* `NoDoubleCount`: "running them twice produces the same final state"
  (`domain/reconciliation_service.py:12`).  Each poll credits the same payment again.

Others, read in the code, without a run of their own; the properties that border on them say
what holds nevertheless:

* "MessageStatus.SENT: set(),  # terminal - no retry" (`domain/outbox.py:59`): the payment poll
  suppresses by primary key what it has read as pending, although it was sent in between.
  It is not sent again (`PromiseKept`).
* "Retryable -> mark UNKNOWN_DELIVERY; Non-retryable -> mark FAILED"
  (`adapters/sms_adapter.py:18`): `sends.py:122` records a timeout, which is RETRYABLE, as
  failed, also when Twilio has taken the message.  Put back by hand, it is sent twice.
* "OPEN - All requests are rejected immediately" (`infra/circuit_breaker.py:11`): a batch that was
  admitted goes on calling Twilio after its failures opened the circuit.
* "InvoiceStatus.CANCELLED: set(),  # terminal state" (`domain/invoice_service.py:63`): a payment in
  the export takes a cancelled invoice to partial or paid, as `record_payment` looks at the
  amounts alone.
* "Texting STOP updates the guardian's preference and suppresses all future sends"
  (`prd/01-product-requirements.md:170`): not what is queued (`OptOutStopsNewReminders`), and not
  if a START crosses it (`StopStands`).
* "If the operation fails and rolls back, the audit event rolls back too"
  (`infra/audit_logger.py:11-13`): `inbound.py` does not pass its session
  (`AuditsMatchEffects`).
* "Texting EXTENSION creates a staff-facing ticket with a 24-hour SLA"
  (`prd/01-product-requirements.md:169`): not if the acknowledgement does not fit two
  segments; `render` raises and the ticket is rolled back.
* "how long the client should wait before retrying" (`infra/rate_limiter.py:63-64`): TTL is rounded;
  with 1.4 s left the answer is 1, and the same window still limits who waited
  (`RetryAfterRounded`).
* "Size of the fixed window in seconds" (`infra/rate_limiter.py:59`): if the first request dies before
  its EXPIRE, the window has no end.
* "Retain 7 daily + 4 weekly backups" (`docs/30-improvements.md:107`): files are counted, not days,
  so a day with two files takes two places; and a truncated file counts as a backup
  (`infra/backup.py:123`).
* A payment that commits between the scheduler's read and its insert does not stop the
  reminder from being queued (`design/duplicate-prevention.md:136`).
* "Messages older than 72 hours are marked FAILED" (`workers/reconciliation.py:52`): see
  `UnknownResolves` above; and as written the comparison raises before it decides anything.
* A "sliding-window counter" (`infra/rate_limiter.py:6`) is a fixed one, as line 11 says.
* "Protects admin endpoints from brute-force token attacks" (`infra/rate_limiter.py:5`): a
  request with a wrong token is rejected by `verify_admin_token`, which comes first
  (`api/admin.py:81`), and is never counted.  The model's requests have the right one.
* "STOP/START update guardian preferences and are logged for compliance"
  (`workers/inbound.py:17`): START writes no audit entry.  `AuditsMatchEffects` is
  about opt-outs and tickets.

## 4. Bounds

`MaxAcc`, `RetryCap`, `MaxFailures`, `MaxKills`, `MaxTexts`, `LastDay`, `MaxLosses`, `MaxSaves`, `MaxRestarts`, `LastSecond`,
`MaxMessages`, `MaxLetters` and `MaxLost` are bounds; every other constant is a parameter of the program.  Two workers are the
least that race for a row, and since a row is locked by one of them at a time, all
others look alike to it; the breaker has three so that one can be killed while two
still interleave.  Two messages let a batch be
partly done; two acceptances show a duplicate.  Three days have a due day, the first
late day and one after a purge.  Two losses let one text be redelivered twice or two
texts once.  Two loads and two savers let
either be overtaken by its like; three saves make a cached version older by two.  A limit of 2 is the least with a
request that is neither the first nor over the limit.  A second of three ticks is
the least of which some fraction is rounded down, and a window of two of them the least in which
what is left after that is not 0.  `redis` bounds its behaviours by `OneAtATime`: policies are
saved or requests are limited.  Cache and limiter share the clock, the snapshots and the
restarts alone, which wait for neither, and each property is about one of the two, so nothing
is lost; the proofs do without.  Four messages are a reminder, two replays of its letter
and one of a replay's.  The backup schedule of 7 days, 7 and 4 files is scaled to 2, 2 and 1:
six days have Sundays among the daily files, kept as weekly ones, and dropped.  Symmetry is used only in runs without liveness properties.
`CHECK_DEADLOCK FALSE` is there where the system may come to rest: all messages
settled, all texts processed, the bounded calendar at its end.

## 5. Fairness

* A worker that took a batch ends it: `task_time_limit` kills it otherwise.  Nothing
  is assumed of `Poll`, since no beat entry starts send batches.
* Reconciliation passes, payment polls and scheduler runs start on the beat schedule
  (`workers/celery_app.py:55-76`) and what started ends.
* `CircuitBreaker` assumes that batches keep being started, without which no one asks
  an open breaker.
* A worker with tasks in its queue takes them and ends them, by commit or exception.
* The clock of Redis advances, and a rate-limited request whose process lives issues its
  next command.  Nothing is assumed of loads and saves.
* No fairness for parents, staff, payments, crashes, receipts or the calendar.

## 6. Proofs

Proofs are for every value of the constants within the named assumptions
(`OutboxAssumption`, `BreakerAssumption`, `QuietHoursAssumption`,
`TuitionAssumption`, `InboundAssumption`, `CacheAssumption`, `LimiterAssumption`,
`RestartAssumption`, `DeadLetterAssumption`, `BackupAssumption`), which TLC evaluates in
every run.  They say of what kind a parameter is, and little more: requests are finitely
many, no job is called "none", clocks change within an hour.  Every invariant and action
property of the passing runs is a theorem.

* `OutboxProofs`.  `IInv` is `TypeOK` with four parts.  `LockOK`: a locked row is
  pending, within budget and held by one worker.  `DraftOK`: what a transaction says
  of a row fits what it has sent.  `Provenance`: statuses and SIDs, also those of
  stale snapshots, come from acceptances of ended transactions.  `Accounting`: a row
  that may still be sent has only lost or open acceptances.  None is inductive alone.
  They give `DuplicatesAccounted`, `UnknownHasNoSid`, `StatusMatchesProvider`,
  `SentNeverRequeued`, `NoSendBeyondBudget` and, with every step mapped to one of
  `DeliveryPromise` or a stutter, `PromiseKept`.  What the promise is worth follows from
  the abstract module alone (`PromiseInv`), and so holds of the outbox: it transmits at most
  once unless excused (`OutboxTransmitsAtMostOnce`).
* `CircuitBreakerProofs`.  `TypeOK`, `OpenHasTimestamp` and `ThresholdOpens`, with `Recording`:
  who is about to write to Redis has something to record.
* `QuietHoursProofs`.  `TypeOK` and the three properties, for all integers as instants, all
  windows and all zones of the assumption.  `QuietUntilEnd` is about the wall clock: from the
  hour of a quiet time to the next end_hour there are quiet hours only.
  `NextAllowedIsExact` brings it back to time in four cases: the end_hour on the side of
  the change the message is on, or beyond it, or in the gap (then the change is the
  result); and going through an hour again shows only the hour that was quiet already.
* `TuitionProofs`.  `TypeOK`, where the amounts are sums: `SumType` says that the sum over
  a finite set is a natural number, `RecordType` that a poll which records payments
  keeps the types, and what has been exported and recorded stays finite.
  `OneTextPerReminder` from `TextsBelongToRows`: every text of a key
  belongs to a row that was purged or to the present one.  `OptOutStopsNewReminders` from
  `OnTheWayIsLeftover`, which also speaks of the keys a run has read.
* `InboundProofs`.  `TypeOK`, `AuditsMatchEffects`, `AllOrNothing` and `StopStands`,
  which is not inductive: a task may hold a value of
  sms_opt_in from long ago, and a STOP that loaded FALSE writes nothing.
  `ReadsAgree` says that whoever loaded FALSE is right, unless a START crossed it.
* `RedisClientsProofs`.  `TypeOK`, `StaleIsExcused`, `NoExpiryExcused` (a counter without
  expiry has someone to set it, or lost that one) and `RetryAfterRounded`, with what rounding to the
nearest second leaves (`Rounding`).  Each needs its
  fact for what is on the way as well: the version a load will write (`ReadsAreCurrent`),
  the snapshot a restart will bring back (`SnapshotExcused`), and the window a promised wait
  belongs to (`WaitCovers`: but for less than half a second, with `OneCreator`: one request at a time is to set the expiry).
  `AtMostTwiceLimit` is about any stretch of time as long as a window, and follows from
  `AdmissionInv`: since the expiry of a key was set, only its window has let requests
  through (`OneWindow`, of the counter and of the one in the snapshot); before that
  there was one more window (`TwoWindows`); few requests are still to set an expiry
  (`FewPending`); and no restart brings back a counter that outlives the present one
  (`SnapshotExpiresFirst`).
* `DeadLetterProofs`.  `TypeOK`, `NothingLost` and `ReplaysDistinct`, with the letters
  (`TxHasLetter`) and keys (`PendingKeysDistinct`) that open replays hold.
  `CopiesAccounted` follows from `CopyInv`, which splits the excuses by kind: an excuse names a
  row that exists, so a new row has none (`ExcusesHaveRows`); a copied message is in the
  queue again with an excuse only (`MovedIsRetried`); and then messages and letters
  can be counted against the other two kinds (`CopyCount`).
* `BackupProofs`.  `TypeOK`, `LatestKept` and `ScheduleKept`.  The newest n files of a
  directory are those with fewer than n newer ones (`NewestAreFew`), so pruning keeps whatever
  has few enough newer files (`PruneKeepsEnough`), and `LatestKept` follows from what a file
  name is (`Directory`: no two files of one time, none in the future).  For `ScheduleKept`,
  `ScheduleInv` adds that a day has one file, which only a job of that day still writes:
  a day that is not due is not due later (`DueNoLater`), and the file of a due day has no
  more newer files than there are later days (`RankOfDay`), so pruning keeps it.

Counting and summing take inductions.  The library's induction theorems are beyond the
provers here, but that inclusion is well-founded on finite sets can be cited, so a set of
finite sets has a least member (`MinimalSet`), finite sets of numbers have a largest or
least one (`LargestNumber`, `LeastNumber`), and a property stated as a set of numbers
holds of all of them (`Induction`).  With these the recursive sums of `Tuition` and
`RateLimiter` are shown to exist and to change as their steps say.

Only model-checked: what needs fairness (`UnknownResolves`, `OpenEnds`,
`PaidStopsReminders`, `LateNoticeComes`, `ExtensionDecided`, `StaleExpires`, `LimitEnds`),
which is beyond the prover.

## 7. Not modelled

* Code without a caller: `is_duplicate_key`, `reconcile_payment`, `find_overdue_*`,
  `defer_if_quiet_hours`, `list_dead_letters`, `PolicyService.is_quiet_hours` (which differs from
  `quiet_hours.py` for an empty window), `HardshipService.update_status`;
  and `InvoiceService.update_status`, which is modelled as a step of staff.
* Alerting, health checks, the admin API but for its rate limit, masking, log filters, settings: they
  read, format, or run other programs.
* CSV and SIS parsing: only the payments they yield.
* Purges of receipts and inbound texts: no modelled step reads those rows after
  30 days.
* Concurrency of transactions below READ COMMITTED's row locks.

## 8. Plan

1. A composition of `Inbound`, `Tuition` and `DeadLetter`: what STOP and a payment mean for
   reminders that were replayed, which have no invoice.
2. Receipts after the purge of `delivery_callbacks`; SIS synchronisation as an upsert.
3. An abstract specification of payments (a ledger) that the payment poll would have to
   implement; zones whose clocks change by more than an hour or between hours.
