------------------------ MODULE CircuitBreakerProofs ------------------------
(***************************************************************************)
(* The safety properties of CircuitBreaker, for any number of workers and  *)
(* any threshold, batch size and bounds.                                   *)
(***************************************************************************)
EXTENDS CircuitBreaker, TLAPS

\* What is left to record after the head of an outcome is an outcome again.
LEMMA TailOfOutcome ==
    ASSUME NEW o \in Outcomes, o # <<>>
    PROVE  Tail(o) \in Outcomes /\ Head(o) \in {"success", "failure"}
<1>1. CASE o = <<"success">>
  BY <1>1 DEF Outcomes
<1>2. CASE o = <<"failure">>
  BY <1>2 DEF Outcomes
<1>3. CASE o = <<"success", "failure">>
  BY <1>3 DEF Outcomes
<1>4. CASE o = <<"failure", "failure">>
  BY <1>4 DEF Outcomes
<1> QED
  BY <1>1, <1>2, <1>3, <1>4 DEF Outcomes

\* The steps that take the head off records[w].
LEMMA RecordedType ==
    ASSUME TypeOK, NEW w \in Workers, NEW from, Recorded(w, from), records[w] # <<>>
    PROVE  /\ pc' \in [Workers -> Step]
           /\ left' \in [Workers -> Nat]
           /\ records' \in [Workers -> Outcomes]
           /\ kills' \in Nat
<1>1. Tail(records[w]) \in Outcomes
  BY TailOfOutcome DEF TypeOK
<1> QED
  BY <1>1 DEF TypeOK, Recorded, Goto, Step

\* A worker at incr or open_circuit has an outcome to record.
Recording ==
    \A w \in Workers : pc[w] \in {"incr", "open_circuit"} => records[w] # <<>>

IInv == TypeOK /\ Recording /\ OpenHasTimestamp /\ ThresholdOpens

LEMMA InitIInv == Init => IInv
BY BreakerAssumption
   DEF Init, IInv, TypeOK, Recording, OpenHasTimestamp, ThresholdOpens, Step,
       CircuitState, Outcomes

LEMMA TypeStep ==
    ASSUME TypeOK, Recording, [Next]_vars
    PROVE  TypeOK'
<1>1. ASSUME NEW w \in Workers, Progress(w)
      PROVE  TypeOK'
  <2>1. CASE CanExecute(w)
    BY <2>1, BreakerAssumption DEF TypeOK, CanExecute, Admit, Goto, redis, Step
  <2>2. CASE FindOpen(w)
    BY <2>2 DEF TypeOK, FindOpen, Goto, redis, Step
  <2>3. CASE CheckCooldown(w)
    BY <2>3 DEF TypeOK, CheckCooldown, Goto, redis, Step
  <2>4. CASE SetHalfOpen(w)
    BY <2>4, BreakerAssumption DEF TypeOK, SetHalfOpen, Admit, Goto, Step, CircuitState
  <2>5. CASE Call(w)
    BY <2>5 DEF TypeOK, Call, redis
  <2>6. CASE EndBatch(w)
    BY <2>6 DEF TypeOK, EndBatch, Goto, redis, Step
  <2>7. CASE RecordSuccess(w)
    BY <2>7, RecordedType DEF TypeOK, RecordSuccess, CircuitState
  <2>8. CASE RecordFailure(w)
    BY <2>8 DEF TypeOK, RecordFailure, Goto, redis, Step
  <2>9. CASE CountFailure(w)
    <3>1. failures' \in Nat /\ UNCHANGED <<state, opened>>
      BY <2>9 DEF TypeOK, CountFailure
    <3>2. CASE failures' >= Threshold
      BY <2>9, <3>1, <3>2 DEF TypeOK, CountFailure, Goto, Step
    <3>3. CASE ~(failures' >= Threshold)
      <4>1. Recorded(w, "incr") /\ records[w] # <<>>
        BY <2>9, <3>3 DEF CountFailure, Recorded, Goto, Recording
      <4> QED
        BY <3>1, <4>1, RecordedType DEF TypeOK
    <3> QED
      BY <3>2, <3>3
  <2>10. CASE OpenCircuit(w)
    <3>1. Recorded(w, "open_circuit") /\ records[w] # <<>>
      BY <2>10 DEF OpenCircuit, Recorded, Goto, Recording
    <3> QED
      BY <2>10, <3>1, RecordedType DEF TypeOK, OpenCircuit, CircuitState
  <2> QED
    BY <1>1, <2>1, <2>2, <2>3, <2>4, <2>5, <2>6, <2>7, <2>8, <2>9, <2>10 DEF Progress
<1>2. ASSUME NEW w \in Workers, Kill(w)
      PROVE  TypeOK'
  BY <1>2 DEF TypeOK, Kill, redis, Step, Outcomes
<1>3. CASE CooldownElapses
  BY <1>3 DEF TypeOK, CooldownElapses
<1>4. CASE UNCHANGED vars
  BY <1>4 DEF TypeOK, vars
<1> QED
  BY <1>1, <1>2, <1>3, <1>4 DEF Next

\* Where a step leaves the workers, for those that were or end at a command of
\* record_failure: only w moves.
LEMMA RecordingStep ==
    ASSUME TypeOK, Recording, [Next]_vars
    PROVE  Recording'
<1>1. ASSUME NEW w \in Workers, Progress(w)
      PROVE  Recording'
  <2>1. CASE CanExecute(w) \/ SetHalfOpen(w)
    BY <2>1 DEF TypeOK, Recording, CanExecute, SetHalfOpen, Admit, Goto
  <2>2. CASE FindOpen(w) \/ CheckCooldown(w) \/ EndBatch(w)
    BY <2>2 DEF TypeOK, Recording, FindOpen, CheckCooldown, EndBatch, Goto
  <2>3. CASE Call(w)
    BY <2>3 DEF TypeOK, Recording, Call
  <2>4. CASE RecordFailure(w)
    BY <2>4 DEF TypeOK, Recording, RecordFailure, Goto
  <2>5. CASE RecordSuccess(w) \/ OpenCircuit(w)
    BY <2>5 DEF TypeOK, Recording, RecordSuccess, OpenCircuit, Recorded, Goto
  <2>6. CASE CountFailure(w)
    BY <2>6 DEF TypeOK, Recording, CountFailure, Recorded, Goto
  <2> QED
    BY <1>1, <2>1, <2>2, <2>3, <2>4, <2>5, <2>6 DEF Progress
<1>2. ASSUME NEW w \in Workers, Kill(w)
      PROVE  Recording'
  BY <1>2 DEF TypeOK, Recording, Kill
<1>3. CASE CooldownElapses \/ UNCHANGED vars
  BY <1>3 DEF Recording, CooldownElapses, vars
<1> QED
  BY <1>1, <1>2, <1>3 DEF Next

LEMMA TimestampStep ==
    ASSUME OpenHasTimestamp, [Next]_vars
    PROVE  OpenHasTimestamp'
<1>1. ASSUME NEW w \in Workers, Progress(w)
      PROVE  OpenHasTimestamp'
  BY <1>1 DEF OpenHasTimestamp, Progress, CanExecute, FindOpen, CheckCooldown, SetHalfOpen,
              Call, EndBatch, RecordSuccess, RecordFailure, CountFailure, OpenCircuit, redis
<1>2. CASE \E w \in Workers : Kill(w)
  BY <1>2 DEF OpenHasTimestamp, Kill, redis
<1>3. CASE CooldownElapses \/ UNCHANGED vars
  BY <1>3 DEF OpenHasTimestamp, CooldownElapses, vars
<1> QED
  BY <1>1, <1>2, <1>3 DEF Next

LEMMA ThresholdStep ==
    ASSUME TypeOK, ThresholdOpens, [Next]_vars
    PROVE  ThresholdOpens'
<1>1. ASSUME NEW w \in Workers, Progress(w)
      PROVE  ThresholdOpens'
  <2>1. CASE \/ CanExecute(w) \/ FindOpen(w) \/ CheckCooldown(w)
             \/ Call(w) \/ EndBatch(w) \/ RecordFailure(w)
    <3>1. UNCHANGED <<state, failures, kills>>
      BY <2>1 DEF CanExecute, FindOpen, CheckCooldown, Call, EndBatch, RecordFailure,
                  Admit, redis
    <3>2. \A v \in Workers : pc[v] = "open_circuit" => pc'[v] = "open_circuit"
      BY <2>1 DEF TypeOK, CanExecute, FindOpen, CheckCooldown, Call, EndBatch,
                  RecordFailure, Admit, Goto
    <3> QED
      BY <3>1, <3>2 DEF ThresholdOpens
  <2>2. CASE SetHalfOpen(w) \/ OpenCircuit(w)
    BY <2>2 DEF ThresholdOpens, SetHalfOpen, OpenCircuit
  <2>3. CASE RecordSuccess(w)
    BY <2>3, BreakerAssumption DEF ThresholdOpens, RecordSuccess
  <2>4. CASE CountFailure(w)
    <3>1. CASE failures' >= Threshold
      BY <2>4, <3>1 DEF TypeOK, ThresholdOpens, CountFailure, Goto
    <3>2. CASE ~(failures' >= Threshold)
      BY <3>2 DEF ThresholdOpens
    <3> QED
      BY <3>1, <3>2
  <2> QED
    BY <1>1, <2>1, <2>2, <2>3, <2>4 DEF Progress
<1>2. ASSUME NEW w \in Workers, Kill(w)
      PROVE  ThresholdOpens'
  BY <1>2 DEF TypeOK, ThresholdOpens, Kill
<1>3. CASE CooldownElapses \/ UNCHANGED vars
  BY <1>3 DEF ThresholdOpens, CooldownElapses, vars
<1> QED
  BY <1>1, <1>2, <1>3 DEF Next

THEOREM BreakerInvariant == Spec => []IInv
<1>1. IInv /\ [Next]_vars => IInv'
  BY TypeStep, RecordingStep, TimestampStep, ThresholdStep DEF IInv
<1> QED
  BY <1>1, InitIInv, PTL DEF Spec

\* Keys and workers keep their types: the counter stays a number, what is left to
\* record stays an outcome of the send loop.
THEOREM BreakerTypeCorrect == Spec => []TypeOK
<1>1. IInv => TypeOK
  BY DEF IInv
<1> QED
  BY <1>1, BreakerInvariant, PTL

\* An open circuit has its timestamp (circuit_breaker.py:165-173 writes both in
\* one pipeline, record_success deletes both in one).
THEOREM OpenCircuitHasTimestamp == Spec => []OpenHasTimestamp
<1>1. IInv => OpenHasTimestamp
  BY DEF IInv
<1> QED
  BY <1>1, BreakerInvariant, PTL

\* No failure that reaches the threshold is forgotten by the worker that counted
\* it (circuit_breaker.py:158-161).
THEOREM ThresholdIsActedOn == Spec => []ThresholdOpens
<1>1. IInv => ThresholdOpens
  BY DEF IInv
<1> QED
  BY <1>1, BreakerInvariant, PTL
=============================================================================
