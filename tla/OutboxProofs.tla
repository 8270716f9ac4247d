---------------------------- MODULE OutboxProofs ----------------------------
(***************************************************************************)
(* Proofs about Outbox, for any messages, workers, batch size, budgets and *)
(* any set of repaired defects.                                            *)
(*                                                                         *)
(* The inductive invariant IInv has four parts.  LockOK says what a held   *)
(* row looks like to everybody else, DraftOK what the worker's transaction *)
(* says of it, Provenance ties rows to acceptances, and Accounting is the  *)
(* heart: a message that may still be sent has no acceptance that is not   *)
(* either lost or in the open transaction.  At the end the outbox is shown *)
(* to implement DeliveryPromise, and what that promise is worth.           *)
(***************************************************************************)
EXTENDS Outbox, TLAPS

LockOK ==
    /\ \A w \in Workers : todo[w] \subseteq batch[w]
    /\ \A v, w \in Workers, m \in Msgs :
          m \in batch[v] /\ m \in batch[w] => v = w
    /\ \A w \in Workers : \A m \in batch[w] :
          row[m].status = "pending" /\ row[m].retries < MaxRetries

DraftOK ==
    /\ \A m \in Msgs : ~Locked(m) => open[m] = 0
    /\ \A w \in Workers : \A m \in todo[w] : draft[m].status = "pending"
    /\ \A w \in Workers : \A m \in batch[w] :
          /\ draft[m].status \in {"pending", "sending", "sent", "unknown_delivery", "failed"}
          /\ draft[m].status \in {"pending", "sending"} => open[m] = 0
          /\ draft[m].status = "sent" => open[m] = 1
          /\ open[m] <= 1
          /\ draft[m].sid <= acc[m]

Provenance ==
    \A m \in Msgs :
        /\ lost[m] + open[m] <= acc[m]
        /\ row[m].status \in {"sent", "delivered"} => acc[m] - open[m] >= 1
        /\ row[m].sid <= acc[m] - open[m]
        /\ seen[m].sid <= acc[m] - open[m]

Accounting ==
    ~OperatorRetry =>
        /\ \A m \in Msgs :
              /\ acc[m] <= 1 + lost[m]
              /\ row[m].status \in {"absent", "pending"} => acc[m] = lost[m] + open[m]
              /\ row[m].status \in {"absent", "pending", "unknown_delivery"} => row[m].sid = 0
              /\ seen[m].sid = 0
        /\ \A w \in Workers : \A m \in batch[w] :
              draft[m].status # "sent" => draft[m].sid = 0

IInv == TypeOK /\ LockOK /\ DraftOK /\ Provenance /\ Accounting

-----------------------------------------------------------------------------
\* Every variable keeps its type: what the handlers write to a row, including a
\* value computed from a stale snapshot, is a well-formed row.
LEMMA TypeStep == TypeOK /\ [Next]_vars => TypeOK'
<1> SUFFICES ASSUME TypeOK, [Next]_vars PROVE TypeOK'
  OBVIOUS
<1> USE OutboxAssumption DEF TypeOK
<1>a. ASSUME NEW m \in Msgs, NEW s \in MessageStatus, NEW k \in Nat, Write(m, s, k)
        PROVE  row' \in [Msgs -> Row]
  BY <1>a DEF Write, Version, Row
<1>b. ASSUME NEW w \in Workers, NEW m \in Msgs, NEW s \in MessageStatus,
                  NEW sid \in Nat, Handle(w, m, s, sid)
           PROVE  /\ todo' \in [Workers -> SUBSET Msgs]
                  /\ draft' \in [Msgs -> Row]
  BY <1>b DEF Handle, Version, Row
<1>1. CASE \E m \in Msgs : Enqueue(m)
  <2> PICK m \in Msgs : Enqueue(m)
    BY <1>1
  <2> QED
    BY <1>a DEF Row, Enqueue, workerVars, passVars, MessageStatus
<1>2. CASE \E m \in Msgs : SuppressWrite(m)
  <2> PICK m \in Msgs : SuppressWrite(m)
    BY <1>2
  <2> QED
    BY <1>a DEF Row, SuppressWrite, workerVars, MessageStatus
<1>3. CASE \E m \in Msgs : Tick(m)
  <2> PICK m \in Msgs : Tick(m)
    BY <1>3
  <2>1. row[m].age + 1 \in 0..2
    BY DEF Tick, Row
  <2> QED
    BY <2>1 DEF Tick, workerVars, passVars, Row
<1>4. CASE \E m \in Msgs : ReconHandle(m)
  <2> PICK m \in Msgs : ReconHandle(m)
    BY <1>4
  <2>0. row[m].retries \in Nat /\ seen[m].retries + 1 \in Nat
    BY DEF Row
  <2>1. ReconTakes(m)
    BY DEF ReconHandle, ReconError, ReconExpire, ReconSkip, ReconQuery
  <2>2. seen' \in [Msgs -> Row]
    BY <2>1 DEF ReconTakes, NoRow, Row, MessageStatus
  <2>3. row' \in [Msgs -> Row]
    <3>1. CASE ReconError(m) \/ ReconSkip(m)
      BY <3>1 DEF ReconError, ReconSkip
    <3>2. CASE ReconExpire(m)
      BY <3>2, <2>0, <1>a DEF ReconExpire, MessageStatus
    <3>3. CASE ReconQuery(m)
      <4>1. CASE \E s \in {"sent", "delivered", "failed"} : Write(m, s, row[m].retries)
        BY <4>1, <2>0, <1>a DEF MessageStatus
      <4>2. CASE Write(m, row[m].status, row[m].retries)
        BY <4>2 DEF Write, Version, Row
      <4>3. CASE Write(m, "pending", seen[m].retries + 1)
        BY <4>3, <2>0, <1>a DEF MessageStatus
      <4> QED
        BY <3>3, <4>1, <4>2, <4>3 DEF ReconQuery
    <3> QED
      BY <3>1, <3>2, <3>3 DEF ReconHandle
  <2> QED
    BY <2>1, <2>2, <2>3 DEF ReconTakes, workerVars
<1>5. CASE \E m \in Msgs : RetryFailed(m)
  BY <1>5 DEF RetryFailed, Write, Version, workerVars, passVars, Row, MessageStatus
<1>6. CASE \E w \in Workers : Poll(w)
  <2> PICK w \in Workers : Poll(w)
    BY <1>6
  <2> PICK rows \in SUBSET Eligible :
          /\ batch' = [batch EXCEPT ![w] = rows]
          /\ draft' = [m \in Msgs |-> IF m \in rows THEN row[m] ELSE draft[m]]
          /\ \E can_send \in BOOLEAN :
                todo' = [todo EXCEPT ![w] = IF can_send THEN rows ELSE {}]
    BY DEF Poll
  <2>1. rows \in SUBSET Msgs
    BY DEF Eligible
  <2>2. todo' \in [Workers -> SUBSET Msgs]
    BY <2>1
  <2> QED
    BY <2>1, <2>2 DEF Poll, passVars
<1>7. CASE \E w \in Workers : Commit(w) \/ Abort(w)
  <2> PICK w \in Workers : Commit(w) \/ Abort(w)
    BY <1>7
  <2>1. Release(w)
    BY DEF Commit, Abort
  <2>2. /\ batch' \in [Workers -> SUBSET Msgs]
        /\ todo' \in [Workers -> SUBSET Msgs]
        /\ draft' \in [Msgs -> Row]
        /\ open' \in [Msgs -> Nat]
    BY <2>1 DEF Release, NoRow, Row, MessageStatus
  <2>3. row' \in [Msgs -> Row] /\ lost' \in [Msgs -> Nat]
    BY DEF Commit, Abort
  <2> QED
    BY <2>1, <2>2, <2>3 DEF Release, passVars
<1>8. CASE \E w \in Workers, m \in Msgs : WorkerRound(w, m)
  <2> PICK w \in Workers, m \in Msgs : WorkerRound(w, m)
    BY <1>8
  <2>1. /\ todo' \in [Workers -> SUBSET Msgs]
        /\ draft' \in [Msgs -> Row]
    <3>1. draft[m].sid \in Nat /\ acc[m] + 1 \in Nat
      BY DEF Row
    <3> QED
      BY <3>1, <1>b DEF WorkerRound, Defer, Raise, SendAccepted, SendAmbiguous,
                             SendError, MessageStatus
  <2>2. acc' \in [Msgs -> Nat] /\ open' \in [Msgs -> Nat]
    BY DEF WorkerRound, Defer, Raise, SendAccepted, SendAmbiguous, SendError, Transmit
  <2>3. UNCHANGED <<row, batch, passVars, events, lost>>
    BY DEF WorkerRound, Defer, Raise, SendAccepted, SendAmbiguous, SendError, Handle
  <2> QED
    BY <2>1, <2>2, <2>3 DEF passVars
<1>9. CASE \E m \in Msgs, n \in 1..MaxAcc, s \in {"sent", "delivered", "failed"} :
              Callback(m, n, s)
  <2> PICK m \in Msgs, n \in 1..MaxAcc, s \in {"sent", "delivered", "failed"} :
         Callback(m, n, s)
    BY <1>9
  <2>1. row' \in [Msgs -> Row]
    BY <1>a DEF Row, Callback, ProcessDeliveryCallback, MessageStatus
  <2>2. events' \subseteq Event
    BY DEF Callback, ProcessDeliveryCallback, Event
  <2> QED
    BY <2>1, <2>2 DEF Callback, ProcessDeliveryCallback, workerVars, passVars
<1>10. CASE SuppressRead
  BY <1>10 DEF SuppressRead, workerVars
<1>11. CASE ReconLoad
  BY <1>11 DEF ReconLoad, workerVars, NoRow, Row, MessageStatus
<1>12. CASE UNCHANGED vars
  BY <1>12 DEF vars
<1> QED
  BY <1>1, <1>2, <1>3, <1>4, <1>5, <1>6, <1>7, <1>8, <1>9, <1>10, <1>11, <1>12
     DEF Next

\* The tables keep their shape in every behaviour of the outbox.
THEOREM TypeCorrect == Spec => []TypeOK
<1>1. Init => TypeOK
  BY DEF Init, TypeOK, NoRow, Row, MessageStatus, Event
<1> QED
  BY <1>1, TypeStep, PTL DEF Spec

-----------------------------------------------------------------------------
(* The steps, grouped by what they do to the invariant.                    *)

\* Everything but the send worker.
Outside ==
    \/ \E m \in Msgs : \/ Enqueue(m)
                       \/ SuppressWrite(m)
                       \/ Tick(m)
                       \/ ReconHandle(m)
                       \/ RetryFailed(m)
    \/ \E m \in Msgs, n \in 1..MaxAcc, s \in {"sent", "delivered", "failed"} :
          Callback(m, n, s)
    \/ SuppressRead
    \/ ReconLoad

\* What an outside step may do to message m.
OutsideEffect(m) ==
    /\ row'[m].sid = row[m].sid
    /\ Locked(m) => row'[m] = row[m]
    /\ row'[m].status \in {"sent", "delivered"} => acc[m] - open[m] >= 1
    /\ ~OperatorRetry =>
          /\ row'[m].status \in {"absent", "pending"} =>
                row[m].status \in {"absent", "pending"}
          /\ row'[m].status = "unknown_delivery" => row[m].status = "unknown_delivery"
    /\ \/ seen'[m] = seen[m]
       \/ seen'[m] = NoRow
       \/ seen'[m] = row[m] /\ row[m].status = "unknown_delivery"

\* An unlocked row gets a new status and keeps its SID.
Changes(m, status) ==
    /\ ~Locked(m)
    /\ row'[m].status = status
    /\ row'[m].sid = row[m].sid
    /\ \A x \in Msgs : x # m => row'[x] = row[x]

\* The reconciliation pass only holds copies of unknown rows.
SeenKept ==
    \A x \in Msgs : \/ seen'[x] = seen[x]
                    \/ seen'[x] = NoRow
                    \/ seen'[x] = row[x] /\ row[x].status = "unknown_delivery"

\* No other writer touches a held row or a SID, none invents a delivery, and
\* without operator retries none puts a row back to pending.
LEMMA OutsideStep ==
    ASSUME IInv, Outside
    PROVE  UNCHANGED <<workerVars, acc>> /\ \A m \in Msgs : OutsideEffect(m)
<1> USE OutboxAssumption
<1>0. /\ TypeOK
      /\ \A m \in Msgs : Locked(m) => row[m].status = "pending"
      /\ \A m \in Msgs : ~Locked(m) => open[m] = 0
      /\ \A m \in Msgs : row[m] \in Row /\ seen[m] \in Row
      /\ \A m \in Msgs : acc[m] \in Nat /\ open[m] \in Nat /\ lost[m] \in Nat
      /\ \A m \in Msgs : row[m].status \in {"sent", "delivered"} => acc[m] - open[m] >= 1
      /\ \A m \in Msgs : seen[m].sid <= acc[m] - open[m]
      /\ ~OperatorRetry => \A m \in Msgs : seen[m].sid = 0
  BY DEF IInv, TypeOK, LockOK, DraftOK, Provenance, Accounting, Locked
<1>1. ASSUME NEW m \in Msgs, Enqueue(m)
      PROVE  Changes(m, "pending") /\ SeenKept
  BY <1>1, <1>0 DEF Enqueue, Changes, SeenKept, Write, Version, TypeOK, passVars
<1>2. ASSUME NEW m \in Msgs, SuppressWrite(m)
      PROVE  Changes(m, "suppressed") /\ SeenKept
  BY <1>2, <1>0 DEF SuppressWrite, Changes, SeenKept, Write, Version, TypeOK
<1>3. ASSUME NEW m \in Msgs, Tick(m)
      PROVE  Changes(m, "unknown_delivery") /\ SeenKept
  BY <1>3, <1>0 DEF Tick, Changes, SeenKept, TypeOK, Row, passVars
<1>4. ASSUME NEW m \in Msgs, ReconHandle(m)
      PROVE  /\ SeenKept
             /\ \/ UNCHANGED row
                \/ Changes(m, "failed")
                \/ /\ seen[m].sid # 0
                   /\ \/ \E s \in {"sent", "delivered", "failed", "pending"} : Changes(m, s)
                      \/ Changes(m, row[m].status)
  <2>1. ReconTakes(m)
    BY <1>4 DEF ReconHandle, ReconError, ReconExpire, ReconSkip, ReconQuery
  <2>2. SeenKept
    BY <2>1 DEF SeenKept, ReconTakes, TypeOK
  <2>3. ASSUME ~Locked(m), NEW s, NEW k, Write(m, s, k)
        PROVE  Changes(m, s)
    BY <2>3, <1>0 DEF Write, Version, Changes, TypeOK
  <2>4. CASE ReconError(m) \/ ReconSkip(m)
    BY <2>2, <2>4 DEF ReconError, ReconSkip
  <2>5. CASE ReconExpire(m)
    BY <2>2, <2>3, <2>5 DEF ReconExpire
  <2>6. CASE ReconQuery(m)
    BY <2>2, <2>3, <2>6 DEF ReconQuery
  <2> QED
    BY <1>4, <2>4, <2>5, <2>6 DEF ReconHandle
<1>5. ASSUME NEW m \in Msgs, RetryFailed(m)
      PROVE  OperatorRetry /\ Changes(m, "pending") /\ SeenKept
  BY <1>5, <1>0 DEF RetryFailed, Changes, SeenKept, Write, Version, TypeOK, passVars
<1>6. ASSUME NEW m \in Msgs, NEW n \in 1..MaxAcc,
             NEW s \in {"sent", "delivered", "failed"}, Callback(m, n, s)
      PROVE  acc[m] >= 1 /\ Changes(m, s) /\ SeenKept
  <2>1. Changes(m, s) /\ SeenKept
    BY <1>6, <1>0 DEF Callback, ProcessDeliveryCallback, Changes, SeenKept, Write, Version, TypeOK, passVars
  <2>2. n \in 1..acc[m]
    BY <1>6 DEF Callback, ProcessDeliveryCallback
  <2> QED
    BY <2>1, <2>2, <1>0
<1>7. ASSUME SuppressRead
      PROVE  UNCHANGED row /\ SeenKept
  BY <1>7 DEF SuppressRead, SeenKept
<1>8. ASSUME ReconLoad
      PROVE  UNCHANGED row /\ SeenKept
  BY <1>8 DEF ReconLoad, SeenKept, Unknown
<1>9. ASSUME NEW x \in Msgs PROVE OutsideEffect(x)
  <2>1. CASE \E m \in Msgs : Enqueue(m)
    BY <2>1, <1>1, <1>0 DEF Enqueue, Changes, SeenKept, OutsideEffect
  <2>2. CASE \E m \in Msgs : SuppressWrite(m)
    BY <2>2, <1>2, <1>0 DEF Changes, SeenKept, OutsideEffect
  <2>3. CASE \E m \in Msgs : Tick(m)
    BY <2>3, <1>3, <1>0 DEF Tick, Changes, SeenKept, OutsideEffect
  <2>4. CASE \E m \in Msgs : ReconHandle(m)
    <3> PICK m \in Msgs : ReconHandle(m)
      BY <2>4
    <3>1. CASE UNCHANGED row
      BY <3>1, <1>4, <1>0 DEF SeenKept, OutsideEffect
    <3>2. CASE Changes(m, "failed")
      BY <3>2, <1>4, <1>0 DEF Changes, SeenKept, OutsideEffect
    <3>3. CASE /\ seen[m].sid # 0
               /\ \/ \E s \in {"sent", "delivered", "failed", "pending"} : Changes(m, s)
                  \/ Changes(m, row[m].status)
      <4>1. OperatorRetry /\ acc[m] - open[m] >= 1
        BY <3>3, <1>0 DEF Row
      <4> QED
        BY <3>3, <4>1, <1>4, <1>0 DEF Changes, SeenKept, OutsideEffect
    <3> QED
      BY <3>1, <3>2, <3>3, <1>4
  <2>5. CASE \E m \in Msgs : RetryFailed(m)
    BY <2>5, <1>5, <1>0 DEF Changes, SeenKept, OutsideEffect
  <2>6. CASE \E m \in Msgs, n \in 1..MaxAcc, s \in {"sent", "delivered", "failed"} :
                Callback(m, n, s)
    <3> PICK m \in Msgs, n \in 1..MaxAcc, s \in {"sent", "delivered", "failed"} :
           Callback(m, n, s)
      BY <2>6
    <3>1. acc[m] >= 1 /\ Changes(m, s) /\ SeenKept
      BY <1>6
    <3>2. open[m] = 0
      BY <3>1, <1>0 DEF Changes
    <3> QED
      BY <3>1, <3>2, <1>0 DEF Changes, SeenKept, OutsideEffect
  <2>7. CASE SuppressRead \/ ReconLoad
    BY <2>7, <1>7, <1>8, <1>0 DEF SeenKept, OutsideEffect
  <2> QED
    BY <2>1, <2>2, <2>3, <2>4, <2>5, <2>6, <2>7 DEF Outside
<1>10. UNCHANGED <<workerVars, acc>>
  BY DEF Outside, Enqueue, SuppressWrite, Tick, ReconHandle, ReconError, ReconExpire,
         ReconSkip, ReconQuery, ReconTakes, RetryFailed, Callback, ProcessDeliveryCallback, SuppressRead, ReconLoad
<1> QED
  BY <1>9, <1>10

\* What a round does to the draft of m; got counts the acceptance.
Moves(m, s, got) ==
    /\ draft' = [draft EXCEPT ![m] =
                    Version(s, draft[m].retries,
                            IF s = "sent" THEN acc[m] + 1 ELSE draft[m].sid)]
    /\ acc' = [acc EXCEPT ![m] = @ + got]
    /\ open' = [open EXCEPT ![m] = @ + got]
    /\ s \in {"pending", "sending"} => got = 0
    /\ s = "sent" => got = 1

\* One round of a worker's loop moves one row of its batch, and counts an
\* acceptance only together with the draft that records or denies it.
LEMMA RoundStep ==
    ASSUME TypeOK, NEW w \in Workers, NEW m \in Msgs, WorkerRound(w, m)
    PROVE  /\ m \in todo[w]
           /\ todo' = [todo EXCEPT ![w] = @ \ {m}]
           /\ UNCHANGED <<row, batch, seen, lost>>
           /\ \E s \in {"pending", "sending", "sent", "unknown_delivery", "failed"},
                 got \in 0..1 : Moves(m, s, got)
<1>0. /\ draft[m].sid \in Nat /\ acc[m] + 1 \in Nat
      /\ acc = [acc EXCEPT ![m] = @ + 0]
      /\ open = [open EXCEPT ![m] = @ + 0]
  BY DEF TypeOK, Row
<1>1. m \in todo[w] /\ todo' = [todo EXCEPT ![w] = @ \ {m}]
  BY DEF WorkerRound, Defer, Raise, SendAccepted, SendAmbiguous, SendError, Handle
<1>2. UNCHANGED <<row, batch, seen, lost>>
  BY DEF WorkerRound, Defer, Raise, SendAccepted, SendAmbiguous, SendError, Handle, passVars
<1>3. CASE Defer(w, m)
  <2>1. Moves(m, "pending", 0)
    BY <1>0, <1>3 DEF Defer, Handle, Moves
  <2> QED
    BY <1>1, <1>2, <2>1
<1>4. CASE Raise(w, m)
  <2>1. Moves(m, "sending", 0)
    BY <1>0, <1>4 DEF Raise, Handle, Moves
  <2> QED
    BY <1>1, <1>2, <2>1
<1>5. CASE SendAccepted(w, m)
  <2>1. Moves(m, "sent", 1)
    BY <1>0, <1>5 DEF SendAccepted, Transmit, Handle, Moves
  <2> QED
    BY <1>1, <1>2, <2>1
<1>6. CASE SendAmbiguous(w, m)
  <2>1. Moves(m, "unknown_delivery", 0) \/ Moves(m, "unknown_delivery", 1)
    BY <1>0, <1>6 DEF SendAmbiguous, Transmit, Handle, Moves
  <2> QED
    BY <1>1, <1>2, <2>1
<1>7. CASE SendError(w, m)
  <2>1. Moves(m, "failed", 0) \/ Moves(m, "failed", 1)
    BY <1>0, <1>7 DEF SendError, Transmit, Handle, Moves
  <2> QED
    BY <1>1, <1>2, <2>1
<1> QED
  BY <1>3, <1>4, <1>5, <1>6, <1>7 DEF WorkerRound

\* A step is a step of one of these six kinds.
LEMMA StepKinds ==
    [Next]_vars <=> \/ Outside
                    \/ \E w \in Workers : Poll(w) \/ Commit(w) \/ Abort(w)
                    \/ \E w \in Workers, m \in Msgs : WorkerRound(w, m)
                    \/ UNCHANGED vars
  BY DEF Next, Outside

-----------------------------------------------------------------------------
(* The four parts of the invariant.                                        *)

\* FOR UPDATE SKIP LOCKED: no two workers ever hold the same row, and a held
\* row stays pending for everybody else.
LEMMA LockStep == IInv /\ [Next]_vars => LockOK'
<1> SUFFICES ASSUME IInv, [Next]_vars PROVE LockOK'
  OBVIOUS
<1>0. TypeOK /\ LockOK
  BY DEF IInv
<1>1. CASE Outside
  <2>1. UNCHANGED <<batch, todo>> /\ \A m \in Msgs : Locked(m) => row'[m] = row[m]
    BY <1>1, OutsideStep DEF workerVars, OutsideEffect
  <2> QED
    BY <2>1, <1>0 DEF LockOK, Locked, TypeOK
<1>2. ASSUME NEW w \in Workers, Poll(w) PROVE LockOK'
  <2> PICK rows \in SUBSET Eligible :
          /\ batch' = [batch EXCEPT ![w] = rows]
          /\ \E can_send \in BOOLEAN :
                todo' = [todo EXCEPT ![w] = IF can_send THEN rows ELSE {}]
    BY <1>2 DEF Poll
  <2>1. /\ \A v \in Workers : batch'[v] = IF v = w THEN rows ELSE batch[v]
        /\ \A v \in Workers : v # w => todo'[v] = todo[v]
        /\ todo'[w] \subseteq rows
        /\ UNCHANGED row
    BY <1>2, <1>0 DEF Poll, TypeOK
  <2>2. \A m \in rows : /\ row[m].status = "pending"
                        /\ row[m].retries < MaxRetries
                        /\ \A v \in Workers : m \notin batch[v]
    BY DEF Eligible, Locked
  <2> QED
    BY <2>1, <2>2, <1>0 DEF LockOK
<1>3. ASSUME NEW w \in Workers, Commit(w) \/ Abort(w) PROVE LockOK'
  <2>1. /\ \A v \in Workers : batch'[v] = IF v = w THEN {} ELSE batch[v]
        /\ \A v \in Workers : todo'[v] = IF v = w THEN {} ELSE todo[v]
    BY <1>3, <1>0 DEF Commit, Abort, Release, TypeOK
  <2>2. \A m \in Msgs : m \notin batch[w] => row'[m] = row[m]
    BY <1>3 DEF Commit, Abort
  <2> QED
    BY <2>1, <2>2, <1>0 DEF LockOK, TypeOK
<1>4. ASSUME NEW w \in Workers, NEW m \in Msgs, WorkerRound(w, m) PROVE LockOK'
  BY <1>4, <1>0, RoundStep DEF LockOK, TypeOK
<1>5. CASE UNCHANGED vars
  BY <1>5, <1>0 DEF vars, LockOK
<1> QED
  BY <1>1, <1>2, <1>3, <1>4, <1>5, StepKinds

\* Inside a transaction a draft that still says pending or sending has not
\* reached the provider, and one that says sent has reached it once.
LEMMA DraftStep == IInv /\ [Next]_vars => DraftOK'
<1> SUFFICES ASSUME IInv, [Next]_vars PROVE DraftOK'
  OBVIOUS
<1>0. TypeOK /\ LockOK /\ DraftOK
  BY DEF IInv
<1>1. CASE Outside
  <2>1. UNCHANGED <<batch, todo, draft, open, acc>>
    BY <1>1, OutsideStep DEF workerVars
  <2> QED
    BY <2>1, <1>0 DEF DraftOK, Locked
<1>2. ASSUME NEW w \in Workers, Poll(w) PROVE DraftOK'
  <2> PICK rows \in SUBSET Eligible :
          /\ batch' = [batch EXCEPT ![w] = rows]
          /\ draft' = [m \in Msgs |-> IF m \in rows THEN row[m] ELSE draft[m]]
          /\ \E can_send \in BOOLEAN :
                todo' = [todo EXCEPT ![w] = IF can_send THEN rows ELSE {}]
    BY <1>2 DEF Poll
  <2>1. /\ \A v \in Workers : batch'[v] = IF v = w THEN rows ELSE batch[v]
        /\ \A v \in Workers : v # w => todo'[v] = todo[v]
        /\ todo'[w] \subseteq rows
        /\ \A m \in Msgs : draft'[m] = IF m \in rows THEN row[m] ELSE draft[m]
        /\ UNCHANGED <<open, acc>>
        /\ batch[w] = {}
    BY <1>2, <1>0 DEF Poll, TypeOK
  <2>2. \A m \in rows : /\ m \in Msgs
                        /\ row[m].status = "pending"
                        /\ open[m] = 0
                        /\ row[m].sid <= acc[m]
                        /\ \A v \in Workers : m \notin batch[v]
    BY <1>0 DEF Eligible, Locked, DraftOK, IInv, Provenance, TypeOK, Row
  <2>3. \A m \in Msgs : ~Locked(m)' => open'[m] = 0
    BY <2>1, <1>0 DEF Locked, DraftOK
  <2>4. \A v \in Workers : \A m \in todo'[v] : draft'[m].status = "pending"
    BY <2>1, <2>2, <1>0 DEF DraftOK, LockOK, TypeOK
  <2>5. \A v \in Workers : \A m \in batch'[v] :
          /\ draft'[m].status \in {"pending", "sending", "sent", "unknown_delivery", "failed"}
          /\ draft'[m].status \in {"pending", "sending"} => open'[m] = 0
          /\ draft'[m].status = "sent" => open'[m] = 1
          /\ open'[m] <= 1
          /\ draft'[m].sid <= acc'[m]
    BY <2>1, <2>2, <1>0 DEF DraftOK, TypeOK
  <2> QED
    BY <2>3, <2>4, <2>5 DEF DraftOK
<1>3. ASSUME NEW w \in Workers, Commit(w) \/ Abort(w) PROVE DraftOK'
  <2>1. /\ \A v \in Workers : batch'[v] = IF v = w THEN {} ELSE batch[v]
        /\ \A v \in Workers : todo'[v] = IF v = w THEN {} ELSE todo[v]
        /\ \A m \in Msgs : m \notin batch[w] => draft'[m] = draft[m] /\ open'[m] = open[m]
        /\ \A m \in batch[w] : open'[m] = 0
        /\ UNCHANGED acc
    BY <1>3, <1>0 DEF Commit, Abort, Release, TypeOK
  <2>2. \A v \in Workers : \A m \in batch'[v] : m \notin batch[w] /\ m \in batch[v]
    BY <2>1, <1>0 DEF LockOK, TypeOK
  <2>3. \A v \in Workers : todo'[v] \subseteq batch'[v]
    BY <2>1, <1>0 DEF LockOK
  <2> QED
    BY <2>1, <2>2, <2>3, <1>0 DEF DraftOK, Locked, TypeOK
<1>4. ASSUME NEW w \in Workers, NEW m \in Msgs, WorkerRound(w, m) PROVE DraftOK'
  <2> PICK s \in {"pending", "sending", "sent", "unknown_delivery", "failed"},
           got \in 0..1 : Moves(m, s, got)
    BY <1>4, <1>0, RoundStep
  <2>1. /\ m \in todo[w] /\ m \in batch[w]
        /\ todo' = [todo EXCEPT ![w] = @ \ {m}]
        /\ UNCHANGED batch
        /\ open[m] = 0
        /\ draft[m].sid <= acc[m]
    BY <1>4, <1>0, RoundStep DEF LockOK, DraftOK
  <2>2. \A x \in Msgs : x # m => /\ draft'[x] = draft[x]
                                 /\ acc'[x] = acc[x]
                                 /\ open'[x] = open[x]
    BY <1>0 DEF TypeOK, Moves
  <2>3. /\ draft'[m].status = s
        /\ draft'[m].sid = IF s = "sent" THEN acc[m] + 1 ELSE draft[m].sid
        /\ acc'[m] = acc[m] + got
        /\ open'[m] = got
        /\ s \in {"pending", "sending"} => got = 0
        /\ s = "sent" => got = 1
    BY <2>1, <1>0 DEF TypeOK, Version, Moves
  <2>4. \A v \in Workers : \A x \in todo'[v] : x # m /\ x \in todo[v]
    BY <2>1, <1>0 DEF LockOK, TypeOK
  <2>5. \A x \in Msgs : ~Locked(x)' => open'[x] = 0
    BY <2>1, <2>2, <1>0 DEF Locked, DraftOK
  <2>6. \A v \in Workers : \A x \in todo'[v] : draft'[x].status = "pending"
    BY <2>2, <2>4, <1>0 DEF DraftOK, TypeOK
  <2>7. \A v \in Workers : \A x \in batch'[v] :
          /\ draft'[x].status \in {"pending", "sending", "sent", "unknown_delivery", "failed"}
          /\ draft'[x].status \in {"pending", "sending"} => open'[x] = 0
          /\ draft'[x].status = "sent" => open'[x] = 1
          /\ open'[x] <= 1
          /\ draft'[x].sid <= acc'[x]
    <3> SUFFICES ASSUME NEW v \in Workers, NEW x \in batch[v]
                 PROVE  /\ draft'[x].status \in {"pending", "sending", "sent", "unknown_delivery", "failed"}
                        /\ draft'[x].status \in {"pending", "sending"} => open'[x] = 0
                        /\ draft'[x].status = "sent" => open'[x] = 1
                        /\ open'[x] <= 1
                        /\ draft'[x].sid <= acc'[x]
      BY <2>1
    <3>1. CASE x = m
      BY <3>1, <2>1, <2>3, <1>0 DEF TypeOK, Row
    <3>2. CASE x # m
      BY <3>2, <2>2, <1>0 DEF DraftOK, TypeOK
    <3> QED
      BY <3>1, <3>2
  <2> QED
    BY <2>5, <2>6, <2>7 DEF DraftOK
<1>5. CASE UNCHANGED vars
  BY <1>5, <1>0 DEF vars, DraftOK, Locked
<1> QED
  BY <1>1, <1>2, <1>3, <1>4, <1>5, StepKinds

\* What the end of w's transaction does: the held rows take their drafts or
\* lose them, and the ghosts of the open transaction are settled.
LEMMA EndStep ==
    ASSUME IInv, NEW w \in Workers, Commit(w) \/ Abort(w), NEW m \in Msgs
    PROVE  /\ UNCHANGED <<seen, acc>>
           /\ open'[m] = IF m \in batch[w] THEN 0 ELSE open[m]
           /\ \/ row'[m] = row[m] /\ lost'[m] = lost[m] /\ m \notin batch[w]
              \/ row'[m] = draft[m] /\ lost'[m] = lost[m] /\ m \in batch[w]
              \/ row'[m] = row[m] /\ lost'[m] = lost[m] + open[m] /\ m \in batch[w]
  BY DEF IInv, TypeOK, Commit, Abort, Release, passVars

\* A row never claims more than the provider gave.
LEMMA ProvenanceStep == IInv /\ [Next]_vars => Provenance'
<1> SUFFICES ASSUME IInv, [Next]_vars, NEW x \in Msgs
             PROVE  /\ lost'[x] + open'[x] <= acc'[x]
                    /\ row'[x].status \in {"sent", "delivered"} => acc'[x] - open'[x] >= 1
                    /\ row'[x].sid <= acc'[x] - open'[x]
                    /\ seen'[x].sid <= acc'[x] - open'[x]
  BY DEF Provenance
<1>0. /\ lost[x] + open[x] <= acc[x]
      /\ row[x].status \in {"sent", "delivered"} => acc[x] - open[x] >= 1
      /\ row[x].sid <= acc[x] - open[x]
      /\ seen[x].sid <= acc[x] - open[x]
      /\ acc[x] \in Nat /\ open[x] \in Nat /\ lost[x] \in Nat
      /\ row[x].sid \in Nat /\ seen[x].sid \in Nat /\ draft[x].sid \in Nat
  BY DEF IInv, Provenance, TypeOK, Row
<1>1. CASE Outside
  BY <1>1, <1>0, OutsideStep DEF OutsideEffect, NoRow, workerVars
<1>2. ASSUME NEW w \in Workers, Poll(w)
      PROVE  UNCHANGED <<row, seen, acc, open, lost>>
  BY <1>2 DEF Poll, passVars
<1>3. ASSUME NEW w \in Workers, Commit(w) \/ Abort(w)
      PROVE  /\ lost'[x] + open'[x] <= acc'[x]
             /\ row'[x].status \in {"sent", "delivered"} => acc'[x] - open'[x] >= 1
             /\ row'[x].sid <= acc'[x] - open'[x]
             /\ seen'[x].sid <= acc'[x] - open'[x]
  <2>1. x \in batch[w] =>
          /\ draft[x].status \in {"pending", "sending", "sent", "unknown_delivery", "failed"}
          /\ draft[x].status = "sent" => open[x] = 1
          /\ draft[x].sid <= acc[x]
    BY DEF IInv, DraftOK
  <2>2. /\ seen'[x] = seen[x] /\ acc'[x] = acc[x]
        /\ open'[x] = IF x \in batch[w] THEN 0 ELSE open[x]
        /\ \/ row'[x] = row[x] /\ lost'[x] = lost[x] /\ x \notin batch[w]
           \/ row'[x] = draft[x] /\ lost'[x] = lost[x] /\ x \in batch[w]
           \/ row'[x] = row[x] /\ lost'[x] = lost[x] + open[x] /\ x \in batch[w]
    BY <1>3, EndStep
  <2>3. CASE x \notin batch[w]
    BY <2>2, <2>3, <1>0
  <2>4. CASE x \in batch[w] /\ row'[x] = draft[x] /\ lost'[x] = lost[x]
    BY <2>1, <2>2, <2>4, <1>0
  <2>5. CASE x \in batch[w] /\ row'[x] = row[x] /\ lost'[x] = lost[x] + open[x]
    BY <2>2, <2>5, <1>0
  <2> QED
    BY <2>2, <2>3, <2>4, <2>5
<1>4. ASSUME NEW w \in Workers, NEW m \in Msgs, WorkerRound(w, m)
      PROVE  /\ UNCHANGED <<row, seen, lost>>
             /\ \E got \in 0..1 : acc'[x] = acc[x] + got /\ open'[x] = open[x] + got
  <2> PICK s \in {"pending", "sending", "sent", "unknown_delivery", "failed"},
           got \in 0..1 : Moves(m, s, got)
    BY <1>4, RoundStep DEF IInv
  <2>1. UNCHANGED <<row, seen, lost>>
    BY <1>4, RoundStep DEF IInv
  <2>2. CASE x = m
    <3>1. acc'[x] = acc[x] + got /\ open'[x] = open[x] + got
      BY <2>2 DEF Moves, IInv, TypeOK
    <3> QED
      BY <2>1, <3>1
  <2>3. CASE x # m
    <3>1. acc'[x] = acc[x] + 0 /\ open'[x] = open[x] + 0
      BY <2>3, <1>0 DEF Moves, IInv, TypeOK
    <3> QED
      BY <2>1, <3>1
  <2> QED
    BY <2>2, <2>3
<1>5. CASE UNCHANGED vars
  BY <1>5, <1>0 DEF vars
<1>6. CASE \E w \in Workers : Poll(w)
  BY <1>6, <1>2, <1>0
<1>7. CASE \E w \in Workers, m \in Msgs : WorkerRound(w, m)
  BY <1>7, <1>4, <1>0
<1> QED
  BY <1>1, <1>3, <1>5, <1>6, <1>7, StepKinds

\* Without operator retries a row that can still be polled has no acceptance
\* but the excused ones: unknown rows carry no SID, so the branch that would put
\* them back to pending is never reached.
LEMMA AccountingStep == IInv /\ [Next]_vars => Accounting'
<1> SUFFICES ASSUME IInv, [Next]_vars, ~OperatorRetry
             PROVE  /\ \A x \in Msgs :
                          /\ acc'[x] <= 1 + lost'[x]
                          /\ row'[x].status \in {"absent", "pending"} =>
                                acc'[x] = lost'[x] + open'[x]
                          /\ row'[x].status \in {"absent", "pending", "unknown_delivery"} =>
                                row'[x].sid = 0
                          /\ seen'[x].sid = 0
                    /\ \A v \in Workers : \A x \in batch'[v] :
                          draft'[x].status # "sent" => draft'[x].sid = 0
  BY DEF Accounting
<1>0. ASSUME NEW x \in Msgs
      PROVE  /\ acc[x] <= 1 + lost[x]
             /\ row[x].status \in {"absent", "pending"} => acc[x] = lost[x] + open[x]
             /\ row[x].status \in {"absent", "pending", "unknown_delivery"} => row[x].sid = 0
             /\ seen[x].sid = 0
             /\ acc[x] \in Nat /\ open[x] \in Nat /\ lost[x] \in Nat
  BY DEF IInv, Accounting, TypeOK
<1>d. \A v \in Workers : \A x \in batch[v] :
         /\ x \in Msgs
         /\ row[x].status = "pending"
         /\ draft[x].status # "sent" => draft[x].sid = 0
         /\ draft[x].status \in {"pending", "sending", "sent", "unknown_delivery", "failed"}
         /\ draft[x].status \in {"pending", "sending"} => open[x] = 0
         /\ open[x] <= 1
  BY DEF IInv, Accounting, DraftOK, LockOK, TypeOK
<1>1. CASE Outside
  <2>1. UNCHANGED <<batch, draft, acc, open, lost>> /\ \A x \in Msgs : OutsideEffect(x)
    BY <1>1, OutsideStep DEF workerVars
  <2> QED
    BY <2>1, <1>0, <1>d DEF OutsideEffect, NoRow
<1>2. ASSUME NEW w \in Workers, Poll(w)
      PROVE  /\ UNCHANGED <<row, seen, acc, open, lost>>
             /\ \A v \in Workers : \A x \in batch'[v] :
                   draft'[x].status # "sent" => draft'[x].sid = 0
  <2> PICK rows \in SUBSET Eligible :
          /\ batch' = [batch EXCEPT ![w] = rows]
          /\ draft' = [m \in Msgs |-> IF m \in rows THEN row[m] ELSE draft[m]]
    BY <1>2 DEF Poll
  <2>1. UNCHANGED <<row, seen, acc, open, lost>>
    BY <1>2 DEF Poll, passVars
  <2>2. \A x \in rows : x \in Msgs /\ draft'[x].sid = 0
    BY <1>0 DEF Eligible
  <2>3. \A v \in Workers : \A x \in batch'[v] : x \in rows \/ x \in batch[v]
    BY DEF IInv, TypeOK
  <2>4. \A x \in Msgs : x \notin rows => draft'[x] = draft[x]
    OBVIOUS
  <2> QED
    BY <2>1, <2>2, <2>3, <2>4, <1>d
<1>3. ASSUME NEW w \in Workers, Commit(w) \/ Abort(w)
      PROVE  /\ \A x \in Msgs :
                   /\ acc'[x] <= 1 + lost'[x]
                   /\ row'[x].status \in {"absent", "pending"} =>
                         acc'[x] = lost'[x] + open'[x]
                   /\ row'[x].status \in {"absent", "pending", "unknown_delivery"} =>
                         row'[x].sid = 0
                   /\ seen'[x].sid = 0
             /\ \A v \in Workers : \A x \in batch'[v] :
                   draft'[x].status # "sent" => draft'[x].sid = 0
  <2>1. \A v \in Workers : \A x \in batch'[v] : x \in batch[v] /\ draft'[x] = draft[x]
    <3>1. \A v \in Workers : batch'[v] = IF v = w THEN {} ELSE batch[v]
      BY <1>3 DEF Commit, Abort, Release, IInv, TypeOK
    <3>2. \A x \in Msgs : x \notin batch[w] => draft'[x] = draft[x]
      BY <1>3 DEF Commit, Abort, Release
    <3> QED
      BY <3>1, <3>2, <1>d DEF IInv, LockOK
  <2>2. ASSUME NEW x \in Msgs
        PROVE  /\ acc'[x] <= 1 + lost'[x]
               /\ row'[x].status \in {"absent", "pending"} =>
                     acc'[x] = lost'[x] + open'[x]
               /\ row'[x].status \in {"absent", "pending", "unknown_delivery"} =>
                     row'[x].sid = 0
               /\ seen'[x].sid = 0
    BY <1>3, <1>0, <1>d, EndStep
  <2> QED
    BY <2>1, <2>2, <1>d
<1>4. ASSUME NEW w \in Workers, NEW m \in Msgs, WorkerRound(w, m)
      PROVE  /\ \A x \in Msgs :
                   /\ acc'[x] <= 1 + lost'[x]
                   /\ row'[x].status \in {"absent", "pending"} =>
                         acc'[x] = lost'[x] + open'[x]
                   /\ row'[x].status \in {"absent", "pending", "unknown_delivery"} =>
                         row'[x].sid = 0
                   /\ seen'[x].sid = 0
             /\ \A v \in Workers : \A x \in batch'[v] :
                   draft'[x].status # "sent" => draft'[x].sid = 0
  <2> PICK s \in {"pending", "sending", "sent", "unknown_delivery", "failed"},
           got \in 0..1 : Moves(m, s, got)
    BY <1>4, RoundStep DEF IInv
  <2>1. /\ m \in batch[w] /\ open[m] = 0
        /\ draft[m].sid = 0
        /\ UNCHANGED <<row, batch, seen, lost>>
    BY <1>4, <1>d, RoundStep DEF IInv, LockOK, DraftOK
  <2>2. \A x \in Msgs : x # m => /\ draft'[x] = draft[x]
                                 /\ acc'[x] = acc[x]
                                 /\ open'[x] = open[x]
    BY DEF IInv, TypeOK, Moves
  <2>3. /\ draft'[m].status = s
        /\ s # "sent" => draft'[m].sid = 0
        /\ acc'[m] = acc[m] + got
        /\ open'[m] = got
    BY <2>1 DEF IInv, TypeOK, Version, Moves
  <2>4. acc[m] = lost[m] /\ row[m].status = "pending"
    BY <2>1, <1>0, <1>d
  <2>5. \A x \in Msgs :
          /\ acc'[x] <= 1 + lost'[x]
          /\ row'[x].status \in {"absent", "pending"} => acc'[x] = lost'[x] + open'[x]
    BY <2>1, <2>2, <2>3, <2>4, <1>0
  <2> QED
    BY <2>1, <2>2, <2>3, <2>5, <1>0, <1>d
<1>5. CASE UNCHANGED vars
  BY <1>5, <1>0, <1>d DEF vars
<1>6. CASE \E w \in Workers : Poll(w)
  BY <1>6, <1>2, <1>0
<1> QED
  BY <1>1, <1>3, <1>4, <1>5, <1>6, StepKinds

-----------------------------------------------------------------------------
(* The theorems.                                                           *)

LEMMA InitIInv == Init => IInv
<1> SUFFICES ASSUME Init PROVE IInv
  OBVIOUS
<1>1. TypeOK
  BY DEF Init, TypeOK, NoRow, Row, MessageStatus, Event
<1>2. LockOK /\ DraftOK
  BY DEF Init, LockOK, DraftOK
<1>3. Provenance /\ Accounting
  BY DEF Init, Provenance, Accounting, NoRow
<1> QED
  BY <1>1, <1>2, <1>3 DEF IInv

\* The inductive invariant holds in every state of the outbox.
THEOREM InvariantHolds == Spec => []IInv
<1>1. IInv /\ [Next]_vars => IInv'
  BY TypeStep, LockStep, DraftStep, ProvenanceStep, AccountingStep DEF IInv
<1> QED
  BY InitIInv, <1>1, PTL DEF Spec

\* Every duplicate SMS is paid for by a rolled-back transaction, for any number
\* of workers, batches, receipts and reconciliation passes.
THEOREM DuplicatesAreAccounted == Spec => []DuplicatesAccounted
<1>1. IInv => DuplicatesAccounted
  BY DEF IInv, Accounting, DuplicatesAccounted
<1> QED
  BY InvariantHolds, <1>1, PTL

\* Reconciliation can never query a message of unknown fate.
THEOREM UnknownNeverHasSid == Spec => []UnknownHasNoSid
<1>1. IInv => UnknownHasNoSid
  BY DEF IInv, Accounting, UnknownHasNoSid
<1> QED
  BY InvariantHolds, <1>1, PTL

\* A row that says sent or delivered is backed by an acceptance, also when a
\* stale reconciliation pass or a late receipt wrote it.
THEOREM StatusIsBacked == Spec => []StatusMatchesProvider
<1>1. IInv => StatusMatchesProvider
  BY DEF IInv, Provenance, StatusMatchesProvider
<1> QED
  BY InvariantHolds, <1>1, PTL

\* A sent or delivered row is never pending again unless failed messages are
\* retried by hand: the guarantee of duplicate-prevention.md:103.
THEOREM SentIsNeverRequeued ==
    ASSUME ~OperatorRetry
    PROVE  Spec => SentNeverRequeued
<1>1. IInv /\ [Next]_vars =>
        [\A m \in Msgs : row[m].status \in {"sent", "delivered"}
                            => row'[m].status # "pending"]_row
  <2> SUFFICES ASSUME IInv, [Next]_vars, NEW m \in Msgs,
                      row[m].status \in {"sent", "delivered"},
                      row'[m].status = "pending"
               PROVE  FALSE
    OBVIOUS
  <2>0. \A w \in Workers : m \notin batch[w]
    BY DEF IInv, LockOK
  <2>1. CASE Outside
    BY <2>1, OutsideStep DEF OutsideEffect
  <2>2. CASE \E w \in Workers : Commit(w) \/ Abort(w)
    BY <2>0, <2>2, EndStep
  <2>3. CASE UNCHANGED row
    BY <2>3
  <2>4. CASE \E w \in Workers, x \in Msgs : WorkerRound(w, x)
    BY <2>3, <2>4, RoundStep DEF IInv
  <2> QED
    BY <2>1, <2>2, <2>3, <2>4, StepKinds DEF Poll, vars
<1> QED
  BY InvariantHolds, <1>1, PTL DEF Spec, SentNeverRequeued

\* No call of the provider for a message whose retry budget is used up.
THEOREM BudgetRespected == Spec => NoSendBeyondBudget
<1>1. IInv /\ [Next]_vars =>
        [\A m \in Msgs : acc'[m] # acc[m] => row[m].retries < MaxRetries]_acc
  <2> SUFFICES ASSUME IInv, [Next]_vars, NEW m \in Msgs, acc'[m] # acc[m]
               PROVE  row[m].retries < MaxRetries
    OBVIOUS
  <2>1. PICK w \in Workers, x \in Msgs : WorkerRound(w, x)
    <3>1. CASE Outside
      BY <3>1, OutsideStep
    <3>2. CASE \E w \in Workers : Commit(w) \/ Abort(w)
      BY <3>2, EndStep
    <3> QED
      BY <3>1, <3>2, StepKinds DEF Poll, vars
  <2>2. x \in batch[w]
    BY <2>1, RoundStep DEF IInv, LockOK
  <2>3. x = m
    BY <2>1, RoundStep DEF IInv, TypeOK, Moves
  <2> QED
    BY <2>2, <2>3 DEF IInv, LockOK
<1> QED
  BY InvariantHolds, <1>1, PTL DEF Spec, NoSendBeyondBudget

-----------------------------------------------------------------------------
(* The outbox implements DeliveryPromise.                                  *)

\* A key that is not in the table has left no trace anywhere else.
Presence ==
    \A m \in Msgs : row[m].status = "absent" =>
        acc[m] = 0 /\ m \notin supp /\ seen[m] = NoRow

\* An outside step changes one row at most, creates it only as pending and
\* never removes it.
OneRow ==
    \/ UNCHANGED row
    \/ \E m \in Msgs :
          /\ \A x \in Msgs : x # m => row'[x] = row[x]
          /\ row[m].status = "absent" => row'[m].status = "pending"
          /\ row[m].status # "absent" => row'[m].status # "absent"

LEMMA OutsideOneRow ==
    ASSUME TypeOK, Presence, Outside
    PROVE  OneRow
<1>1. ASSUME NEW m \in Msgs, NEW s, NEW k, Write(m, s, k)
      PROVE  /\ \A x \in Msgs : x # m => row'[x] = row[x]
             /\ row'[m].status = s
  BY <1>1 DEF Write, Version, TypeOK
<1>2. CASE \E m \in Msgs : Enqueue(m)
  BY <1>2, <1>1 DEF Enqueue, OneRow
<1>3. CASE \E m \in Msgs : SuppressWrite(m)
  BY <1>3, <1>1 DEF SuppressWrite, Presence, OneRow
<1>4. CASE \E m \in Msgs : Tick(m)
  BY <1>4 DEF Tick, OneRow, TypeOK, Row
<1>5. CASE \E m \in Msgs : ReconHandle(m)
  <2> PICK m \in Msgs : ReconHandle(m)
    BY <1>5
  <2>1. seen[m] # NoRow
    BY DEF ReconHandle, ReconError, ReconExpire, ReconSkip, ReconQuery, ReconTakes
  <2>2. row[m].status # "absent"
    BY <2>1 DEF Presence
  <2>3. \/ UNCHANGED row
        \/ \E s \in {"sent", "delivered", "failed", "pending", row[m].status}, k \in Nat :
              Write(m, s, k)
    BY DEF ReconHandle, ReconError, ReconExpire, ReconSkip, ReconQuery, TypeOK, Row
  <2> QED
    BY <2>2, <2>3, <1>1 DEF OneRow
<1>6. CASE \E m \in Msgs : RetryFailed(m)
  BY <1>6, <1>1 DEF RetryFailed, OneRow
<1>7. CASE \E m \in Msgs, n \in 1..MaxAcc, s \in {"sent", "delivered", "failed"} :
              Callback(m, n, s)
  <2> PICK m \in Msgs, n \in 1..MaxAcc, s \in {"sent", "delivered", "failed"} :
         Callback(m, n, s)
    BY <1>7
  <2>1. n \in 1..acc[m] /\ Write(m, s, row[m].retries)
    BY DEF Callback, ProcessDeliveryCallback
  <2>2. acc[m] # 0
    BY <2>1 DEF TypeOK
  <2> QED
    BY <2>1, <2>2, <1>1 DEF OneRow, Presence
<1>8. CASE SuppressRead \/ ReconLoad
  BY <1>8 DEF SuppressRead, ReconLoad, OneRow
<1> QED
  BY <1>2, <1>3, <1>4, <1>5, <1>6, <1>7, <1>8 DEF Outside

LEMMA PresenceStep == IInv /\ Presence /\ [Next]_vars => Presence'
<1> SUFFICES ASSUME IInv, Presence, [Next]_vars,
                    NEW x \in Msgs, row'[x].status = "absent"
             PROVE  acc'[x] = 0 /\ x \notin supp' /\ seen'[x] = NoRow
  BY DEF Presence
<1>0. TypeOK /\ LockOK /\ DraftOK
  BY DEF IInv
<1>1. CASE Outside
  <2>1. row[x].status = "absent"
    BY <1>0, <1>1, OutsideOneRow DEF OneRow
  <2>2. acc'[x] = 0
    BY <2>1, <1>1, OutsideStep DEF Presence
  <2>3. seen'[x] = NoRow
    BY <2>1, <1>1, OutsideStep DEF OutsideEffect, Presence
  <2>4. supp' \subseteq supp \/ supp' \subseteq {m \in Msgs : row[m].status = "pending"}
    <3>1. CASE SuppressRead
      BY <3>1, OutboxAssumption DEF SuppressRead
    <3>2. CASE ~SuppressRead
      BY <1>1, <3>2 DEF Outside, Enqueue, SuppressWrite, Tick, ReconHandle, ReconError,
         ReconExpire, ReconSkip, ReconQuery, ReconTakes, RetryFailed, Callback, ProcessDeliveryCallback, ReconLoad,
         passVars
    <3> QED
      BY <3>1, <3>2
  <2> QED
    BY <2>1, <2>2, <2>3, <2>4 DEF Presence
<1>2. CASE \E w \in Workers : Commit(w) \/ Abort(w)
  <2> PICK w \in Workers : Commit(w) \/ Abort(w)
    BY <1>2
  <2>1. UNCHANGED <<seen, acc, supp>>
    BY DEF Commit, Abort, Release, passVars
  <2>2. row[x].status = "absent"
    BY <1>0, EndStep DEF DraftOK
  <2> QED
    BY <2>1, <2>2 DEF Presence
<1>3. CASE \E w \in Workers, m \in Msgs : WorkerRound(w, m)
  <2> PICK w \in Workers, m \in Msgs : WorkerRound(w, m)
    BY <1>3
  <2>1. UNCHANGED <<row, seen, supp>> /\ m \in batch[w]
    BY <1>0, RoundStep DEF LockOK, WorkerRound, Defer, Raise, SendAccepted, SendAmbiguous,
                           SendError, Handle, passVars
  <2>2. x # m
    BY <2>1, <1>0 DEF LockOK
  <2>3. acc'[x] = acc[x]
    BY <2>2, <1>0, RoundStep DEF Moves, TypeOK
  <2> QED
    BY <2>1, <2>3 DEF Presence
<1>4. CASE \E w \in Workers : Poll(w)
  BY <1>4 DEF Poll, passVars, Presence
<1>5. CASE UNCHANGED vars
  BY <1>5 DEF vars, Presence
<1> QED
  BY <1>1, <1>2, <1>3, <1>4, <1>5, StepKinds

\* Every step of the outbox is a step of the promise or invisible to it.
LEMMA PromiseStep ==
    IInv /\ Presence /\ [Next]_vars => [Promise!Next]_(Promise!vars)
<1> SUFFICES ASSUME IInv, Presence, [Next]_vars
             PROVE  Promise!Next \/ UNCHANGED Promise!vars
  OBVIOUS
<1>0. TypeOK /\ LockOK /\ DraftOK
  BY DEF IInv
<1>1. CASE Outside
  <2>1. UNCHANGED <<transmissions, lost>>
    BY <1>1, OutsideStep DEF transmissions, workerVars
  <2>2. CASE UNCHANGED row
    BY <2>1, <2>2 DEF Promise!vars, queuePhase
  <2>3. ASSUME NEW m \in Msgs,
               \A x \in Msgs : x # m => row'[x] = row[x],
               row[m].status = "absent" => row'[m].status = "pending",
               row[m].status # "absent" => row'[m].status # "absent"
        PROVE  Promise!Next \/ UNCHANGED Promise!vars
    <3>1. queuePhase' = [queuePhase EXCEPT ![m] = queuePhase'[m]]
      BY <2>3 DEF queuePhase
    <3>2. CASE queuePhase'[m] = queuePhase[m]
      <4>1. queuePhase' = queuePhase
        BY <3>1, <3>2 DEF queuePhase
      <4> QED
        BY <4>1, <2>1 DEF Promise!vars
    <3>3. CASE queuePhase[m] = "none" /\ queuePhase'[m] = "queued"
      <4>1. Promise!Queue(m)
        BY <3>1, <3>3, <2>1 DEF Promise!Queue
      <4> QED
        BY <4>1 DEF Promise!Next
    <3>4. CASE queuePhase[m] = "queued" /\ queuePhase'[m] = "settled"
      <4>1. \A x \in {m} : queuePhase[x] = "queued"
        BY <3>4
      <4>2. queuePhase' = [x \in Msgs |-> IF x \in {m} THEN "settled" ELSE queuePhase[x]]
        <5>1. queuePhase' = [x \in Msgs |-> queuePhase'[x]]
          BY DEF queuePhase
        <5>2. \A x \in Msgs : x # m => queuePhase'[x] = queuePhase[x]
          BY <2>3 DEF queuePhase
        <5> QED
          BY <5>1, <5>2, <3>4
      <4>3. transmissions' = [x \in Msgs |-> IF x \in {} THEN transmissions[x] + 1
                                                         ELSE transmissions[x]]
        BY <2>1 DEF transmissions
      <4>4. \E sent \in SUBSET {m} :
               transmissions' = [x \in Msgs |-> IF x \in sent THEN transmissions[x] + 1
                                                             ELSE transmissions[x]]
        BY <4>3, {} \in SUBSET {m}
      <4>5. Promise!Settle({m})
        BY <4>1, <4>2, <4>4, <2>1, Zenon DEF Promise!Settle
      <4> QED
        BY <4>5 DEF Promise!Next
    <3>5. CASE queuePhase[m] = "settled" /\ queuePhase'[m] = "queued"
      <4>1. OperatorRetry
        BY <3>5, <1>1, OutsideStep DEF OutsideEffect, queuePhase
      <4>2. Promise!Requeue(m)
        BY <3>1, <3>5, <4>1, <2>1 DEF Promise!Requeue
      <4> QED
        BY <4>2 DEF Promise!Next
    <3> QED
      BY <2>3, <3>2, <3>3, <3>4, <3>5 DEF queuePhase
  <2> QED
    BY <1>0, <1>1, <2>2, <2>3, OutsideOneRow DEF OneRow
<1>2. ASSUME NEW w \in Workers, Commit(w)
      PROVE  Promise!Next
  <2> DEFINE Settled == {m \in batch[w] : draft[m].status # "pending"}
  <2> DEFINE Sent == {m \in batch[w] : open[m] = 1}
  <2>0. \A m \in batch[w] : /\ m \in Msgs
                            /\ row[m].status = "pending"
                            /\ draft[m].status \in {"pending", "sending", "sent",
                                                    "unknown_delivery", "failed"}
                            /\ draft[m].status = "pending" => open[m] = 0
                            /\ open[m] \in {0, 1}
    BY <1>0 DEF LockOK, DraftOK, TypeOK
  <2>1. \A m \in Settled : queuePhase[m] = "queued"
    BY <2>0 DEF queuePhase
  <2>2. queuePhase' = [m \in Msgs |-> IF m \in Settled THEN "settled" ELSE queuePhase[m]]
    BY <1>2, <2>0 DEF Commit, queuePhase
  <2>3. Sent \in SUBSET Settled
    BY <2>0
  <2>4. transmissions' = [m \in Msgs |-> IF m \in Sent THEN transmissions[m] + 1
                                                      ELSE transmissions[m]]
    <3>1. \A m \in Msgs : transmissions'[m] = IF m \in Sent THEN transmissions[m] + 1
                                                          ELSE transmissions[m]
      BY <1>2, <2>0, <1>0 DEF Commit, Release, transmissions, TypeOK
    <3> QED
      BY <3>1 DEF transmissions
  <2>5. UNCHANGED lost
    BY <1>2 DEF Commit
  <2>6. Promise!Settle(Settled)
    BY <2>1, <2>2, <2>3, <2>4, <2>5 DEF Promise!Settle
  <2>7. Settled \in SUBSET Msgs
    BY <2>0
  <2> QED
    BY <2>6, <2>7 DEF Promise!Next
<1>3. ASSUME NEW w \in Workers, Abort(w)
      PROVE  Promise!Next
  <2> DEFINE Gone == {m \in batch[w] : open[m] = 1}
  <2>0. \A m \in batch[w] : m \in Msgs /\ row[m].status = "pending" /\ open[m] \in {0, 1}
    BY <1>0 DEF LockOK, DraftOK, TypeOK
  <2>1. \A m \in Gone : queuePhase[m] = "queued"
    BY <2>0 DEF queuePhase
  <2>2. UNCHANGED queuePhase
    BY <1>3 DEF Abort, queuePhase
  <2>3. \A m \in Msgs : /\ transmissions'[m] = IF m \in Gone THEN transmissions[m] + 1
                                                          ELSE transmissions[m]
                        /\ lost'[m] = IF m \in Gone THEN lost[m] + 1 ELSE lost[m]
    BY <1>3, <2>0, <1>0 DEF Abort, Release, transmissions, TypeOK
  <2>4. transmissions' = [m \in Msgs |-> IF m \in Gone THEN transmissions[m] + 1
                                                      ELSE transmissions[m]]
    BY <2>3 DEF transmissions
  <2>5. lost' = [m \in Msgs |-> IF m \in Gone THEN lost[m] + 1 ELSE lost[m]]
    BY <1>3, <2>3 DEF Abort
  <2>6. Promise!Forget(Gone)
    BY <2>1, <2>2, <2>4, <2>5 DEF Promise!Forget
  <2>7. Gone \in SUBSET Msgs
    BY <2>0
  <2> QED
    BY <2>6, <2>7 DEF Promise!Next
<1>4. ASSUME NEW w \in Workers, NEW m \in Msgs, WorkerRound(w, m)
      PROVE  UNCHANGED Promise!vars
  <2> PICK s \in {"pending", "sending", "sent", "unknown_delivery", "failed"},
           got \in 0..1 : Moves(m, s, got)
    BY <1>4, <1>0, RoundStep
  <2>1. UNCHANGED <<row, lost>>
    BY <1>4, <1>0, RoundStep
  <2>2. \A x \in Msgs : acc'[x] - open'[x] = acc[x] - open[x]
    BY <1>0 DEF Moves, TypeOK
  <2> QED
    BY <2>1, <2>2 DEF Promise!vars, queuePhase, transmissions
<1>5. CASE \E w \in Workers : Poll(w)
  BY <1>5 DEF Poll, Promise!vars, queuePhase, transmissions
<1>6. CASE UNCHANGED vars
  BY <1>6 DEF vars, Promise!vars, queuePhase, transmissions
<1> QED
  BY <1>1, <1>2, <1>3, <1>4, <1>5, <1>6, StepKinds

\* The outbox, with every writer of the table and every crash of a worker,
\* implements the promise of at most one unexcused transmission per message.
THEOREM OutboxKeepsPromise == Spec => PromiseKept
<1>1. Init => Presence
  BY DEF Init, Presence
<1>2. Init => Promise!Init
  BY DEF Init, NoRow, Promise!Init, queuePhase, transmissions
<1> QED
  BY <1>1, <1>2, InvariantHolds, PresenceStep, PromiseStep, PTL
     DEF Spec, PromiseKept, Promise!Spec

-----------------------------------------------------------------------------
(* What the promise is worth.                                              *)

\* A message that was never queued was never transmitted; the rest is the promise.
PromiseInv ==
    /\ Promise!PromiseTypeOK
    /\ ~OperatorRetry => \A m \in Msgs :
          /\ transmissions[m] <= 1 + lost[m]
          /\ queuePhase[m] \in {"none", "queued"} => transmissions[m] = lost[m]

\* Each operation of the abstract outbox keeps the count.
LEMMA PromiseInvStep == PromiseInv /\ [Promise!Next]_(Promise!vars) => PromiseInv'
<1> SUFFICES ASSUME PromiseInv, Promise!Next \/ UNCHANGED Promise!vars
             PROVE  PromiseInv'
  OBVIOUS
<1> USE DEF PromiseInv, Promise!PromiseTypeOK
<1>1. ASSUME NEW m \in Msgs, Promise!Queue(m) PROVE PromiseInv'
  BY <1>1 DEF Promise!Queue
<1>2. ASSUME NEW m \in Msgs, Promise!Requeue(m) PROVE PromiseInv'
  BY <1>2 DEF Promise!Requeue
<1>3. ASSUME NEW ms \in SUBSET Msgs, Promise!Settle(ms) PROVE PromiseInv'
  <2> PICK sent \in SUBSET ms :
           transmissions' = [m \in Msgs |-> IF m \in sent THEN transmissions[m] + 1
                                            ELSE transmissions[m]]
    BY <1>3 DEF Promise!Settle
  <2>1. \A m \in Msgs :
          \/ /\ m \notin ms /\ queuePhase'[m] = queuePhase[m]
             /\ transmissions'[m] = transmissions[m]
          \/ /\ queuePhase[m] = "queued" /\ queuePhase'[m] = "settled"
             /\ transmissions'[m] \in {transmissions[m], transmissions[m] + 1}
    BY <1>3 DEF Promise!Settle
  <2>2. Promise!PromiseTypeOK'
    BY <1>3 DEF Promise!Settle
  <2> QED
    BY <1>3, <2>1, <2>2 DEF Promise!Settle
<1>4. ASSUME NEW ms \in SUBSET Msgs, Promise!Forget(ms) PROVE PromiseInv'
  BY <1>4 DEF Promise!Forget
<1>5. CASE UNCHANGED Promise!vars
  BY <1>5 DEF Promise!vars
<1> QED
  BY <1>1, <1>2, <1>3, <1>4, <1>5 DEF Promise!Next

\* The promise, kept by the outbox: a message is transmitted at most once but for the
\* transmissions whose record was lost, and one that is still queued has only those
\* (outbox.py:52-68, sends.py:149-153).
THEOREM OutboxTransmitsAtMostOnce == Spec => []Promise!AtMostOnceUnlessExcused
<1>1. Promise!Init => PromiseInv
  BY DEF Promise!Init, PromiseInv, Promise!PromiseTypeOK
<1>2. PromiseInv => Promise!AtMostOnceUnlessExcused
  BY DEF PromiseInv, Promise!AtMostOnceUnlessExcused
<1> QED
  BY <1>1, <1>2, PromiseInvStep, OutboxKeepsPromise, PTL DEF PromiseKept, Promise!Spec
=============================================================================
