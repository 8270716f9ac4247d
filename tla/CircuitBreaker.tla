--------------------------- MODULE CircuitBreaker ---------------------------
(***************************************************************************)
(* The Redis-backed circuit breaker (infra/circuit_breaker.py) as the send *)
(* workers use it (workers/sends.py): asked once per batch, told of every  *)
(* outcome.  Each Redis command or MULTI/EXEC pipeline is one step; the    *)
(* steps of different workers interleave.                                  *)
(*                                                                         *)
(* A missing state key reads as closed and a missing counter as 0.  The    *)
(* timestamp is abstracted to whether the cooldown has passed since.       *)
(***************************************************************************)
EXTENDS Integers, Sequences

CONSTANTS
    Workers,
    Threshold,      \* failure_threshold
    BatchSize,      \* messages of a batch
    MaxFailures,    \* bound: the counter
    MaxKills        \* bound: workers killed

ASSUME BreakerAssumption ==
    /\ Threshold \in Nat \ {0}
    /\ BatchSize \in Nat
    /\ MaxFailures \in Nat /\ MaxFailures >= Threshold
    /\ MaxKills \in Nat

VARIABLES
    state,          \* circuit:twilio_send:state
    failures,       \* circuit:twilio_send:failures
    opened,         \* circuit:twilio_send:opened_at
    pc,             \* pc[w]: the Redis command w is about to issue
    left,           \* left[w]: messages of the batch not handled yet
    records,        \* records[w]: outcomes of the current message to record
    kills           \* workers killed so far

vars == <<state, failures, opened, pc, left, records, kills>>
redis == <<state, failures, opened>>

CircuitState == {"closed", "open", "half_open"}

Step == {"idle", "get_opened", "set_half_open", "batch", "get_state", "incr",
         "open_circuit"}

\* What one message makes the worker record: nothing (deferred or ambiguous), its
\* outcome, and a failure more when the audit entry after it raises.
Outcomes == { <<>>, <<"success">>, <<"failure">>,
              <<"success", "failure">>, <<"failure", "failure">> }

TypeOK ==
    /\ state \in CircuitState
    /\ failures \in Nat
    /\ opened \in {"none", "recent", "elapsed"}
    /\ pc \in [Workers -> Step]
    /\ left \in [Workers -> Nat]
    /\ records \in [Workers -> Outcomes]
    /\ kills \in Nat

Init ==
    /\ state = "closed"
    /\ failures = 0
    /\ opened = "none"
    /\ pc = [w \in Workers |-> "idle"]
    /\ left = [w \in Workers |-> 0]
    /\ records = [w \in Workers |-> <<>>]
    /\ kills = 0

Goto(w, from, to) ==
    /\ pc[w] = from
    /\ pc' = [pc EXCEPT ![w] = to]

-----------------------------------------------------------------------------
(* can_execute: GET state, GET opened_at, SET state half_open.             *)

Admit(w, from) ==
    /\ Goto(w, from, "batch")
    /\ left' = [left EXCEPT ![w] = BatchSize]
    /\ UNCHANGED <<records, kills>>

CanExecute(w) ==
    /\ state # "open"
    /\ Admit(w, "idle")
    /\ UNCHANGED redis

FindOpen(w) ==
    /\ state = "open"
    /\ Goto(w, "idle", "get_opened")
    /\ UNCHANGED <<redis, left, records, kills>>

\* A state without a timestamp counts as expired.
CheckCooldown(w) ==
    /\ Goto(w, "get_opened", IF opened = "recent" THEN "idle" ELSE "set_half_open")
    /\ UNCHANGED <<redis, left, records, kills>>

\* Mutant of SetHalfOpen: the request is let through, the state stays open.
SetHalfOpenForgotten(w) ==
    /\ Admit(w, "set_half_open")
    /\ UNCHANGED redis

SetHalfOpen(w) ==
    /\ state' = "half_open"
    /\ Admit(w, "set_half_open")
    /\ UNCHANGED <<failures, opened>>

-----------------------------------------------------------------------------
(* The batch.                                                              *)

Call(w) ==
    /\ pc[w] = "batch"
    /\ records[w] = <<>>
    /\ left[w] > 0
    /\ left' = [left EXCEPT ![w] = @ - 1]
    /\ \E outcome \in Outcomes : records' = [records EXCEPT ![w] = outcome]
    /\ UNCHANGED <<redis, pc, kills>>

EndBatch(w) ==
    /\ Goto(w, "batch", "idle")
    /\ records[w] = <<>>
    /\ left[w] = 0
    /\ UNCHANGED <<redis, left, records, kills>>

\* The outcome at the head of records[w] is recorded and w goes on.
Recorded(w, from) ==
    /\ Goto(w, from, "batch")
    /\ records' = [records EXCEPT ![w] = Tail(@)]
    /\ UNCHANGED <<left, kills>>

-----------------------------------------------------------------------------
(* record_success is one pipeline.                                         *)

\* Mutant of RecordSuccess: the counter is decremented instead of deleted.
RecordSuccessDecrement(w) ==
    /\ records[w] # <<>> /\ Head(records[w]) = "success"
    /\ Recorded(w, "batch")
    /\ state' = "closed"
    /\ failures' = failures - 1
    /\ opened' = "none"

RecordSuccess(w) ==
    /\ records[w] # <<>> /\ Head(records[w]) = "success"
    /\ Recorded(w, "batch")
    /\ state' = "closed"
    /\ failures' = 0
    /\ opened' = "none"

-----------------------------------------------------------------------------
(* record_failure: GET state, INCR failures, the pipeline of _open_circuit.*)

RecordFailure(w) ==
    /\ records[w] # <<>> /\ Head(records[w]) = "failure"
    /\ Goto(w, "batch", IF state = "half_open" THEN "open_circuit" ELSE "incr")
    /\ UNCHANGED <<redis, left, records, kills>>

\* Mutant of CountFailure: more than failure_threshold failures.
CountFailureLate(w) ==
    /\ failures < MaxFailures
    /\ failures' = failures + 1
    /\ IF failures' > Threshold
       THEN /\ Goto(w, "incr", "open_circuit")
            /\ UNCHANGED <<left, records, kills>>
       ELSE Recorded(w, "incr")
    /\ UNCHANGED <<state, opened>>

CountFailure(w) ==
    /\ failures' = IF failures < MaxFailures THEN failures + 1 ELSE failures
    /\ IF failures' >= Threshold
       THEN /\ Goto(w, "incr", "open_circuit")
            /\ UNCHANGED <<left, records, kills>>
       ELSE Recorded(w, "incr")
    /\ UNCHANGED <<state, opened>>

\* Mutant of OpenCircuit: opened_at is not part of the pipeline.
OpenCircuitUnstamped(w) ==
    /\ Recorded(w, "open_circuit")
    /\ state' = "open"
    /\ UNCHANGED <<failures, opened>>

OpenCircuit(w) ==
    /\ Recorded(w, "open_circuit")
    /\ state' = "open"
    /\ opened' = "recent"
    /\ UNCHANGED failures

-----------------------------------------------------------------------------
(* Time, and workers that are killed or lose Redis in the middle.          *)

CooldownElapses ==
    /\ opened = "recent"
    /\ opened' = "elapsed"
    /\ UNCHANGED <<state, failures, pc, left, records, kills>>

Kill(w) ==
    /\ kills < MaxKills
    /\ pc[w] # "idle"
    /\ kills' = kills + 1
    /\ pc' = [pc EXCEPT ![w] = "idle"]
    /\ left' = [left EXCEPT ![w] = 0]
    /\ records' = [records EXCEPT ![w] = <<>>]
    /\ UNCHANGED redis

Progress(w) ==
    \/ CanExecute(w)
    \/ FindOpen(w)
    \/ CheckCooldown(w)
    \/ SetHalfOpen(w)
    \/ Call(w)
    \/ EndBatch(w)
    \/ RecordSuccess(w)
    \/ RecordFailure(w)
    \/ CountFailure(w)
    \/ OpenCircuit(w)

Next == CooldownElapses \/ \E w \in Workers : Progress(w) \/ Kill(w)

Spec == Init /\ [][Next]_vars

\* Batches keep being started, and a worker that started goes on unless killed.
FairSpec == Spec /\ WF_vars(CooldownElapses) /\ \A w \in Workers : WF_vars(Progress(w))

-----------------------------------------------------------------------------
(* Properties.                                                             *)

\* An open circuit has its timestamp, however the commands of the workers
\* interleave: "stale state with no timestamp" (circuit_breaker.py:111) is only
\* ever seen by a worker between its two reads.
OpenHasTimestamp == state = "open" => opened # "none"

\* A circuit that is closed at its threshold is about to be opened, by a worker
\* that has counted and not been killed (circuit_breaker.py:158-161).
ThresholdOpens ==
    state = "closed" /\ failures >= Threshold /\ kills = 0
        => \E w \in Workers : pc[w] = "open_circuit"

\* An open circuit does not stay open, although each failure recorded by the
\* batches still running starts the cooldown anew (circuit_breaker.py:148-161).
OpenEnds == state = "open" ~> state # "open"
=============================================================================
