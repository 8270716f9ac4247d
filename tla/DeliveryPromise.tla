--------------------------- MODULE DeliveryPromise ---------------------------
(***************************************************************************)
(* What the outbox promises, without rows, locks, transactions or statuses.*)
(* A message is queued once; from then on it is transmitted at most once,  *)
(* unless a transmission is excused: its record was lost with the          *)
(* transaction that made it.  A settled message is never transmitted again *)
(* unless the installation requeues messages.                              *)
(*                                                                         *)
(* Outbox implements this module: see Promise in Outbox.tla.               *)
(***************************************************************************)
EXTENDS Integers

CONSTANTS
    Msgs,
    AllowRequeue    \* settled messages may be put back into the queue

VARIABLES
    phase,          \* phase[m]: "none", "queued" or "settled"
    sms,            \* sms[m]: transmissions of m in transactions that ended
    excused         \* excused[m]: those whose record was lost

vars == <<phase, sms, excused>>

PromiseTypeOK ==
    /\ phase \in [Msgs -> {"none", "queued", "settled"}]
    /\ sms \in [Msgs -> Nat]
    /\ excused \in [Msgs -> Nat]

Init ==
    /\ phase = [m \in Msgs |-> "none"]
    /\ sms = [m \in Msgs |-> 0]
    /\ excused = [m \in Msgs |-> 0]

\* A producer queues a message whose key is new.
Queue(m) ==
    /\ phase[m] = "none"
    /\ phase' = [phase EXCEPT ![m] = "queued"]
    /\ UNCHANGED <<sms, excused>>

\* A batch of queued messages settles, each after at most one transmission.
Settle(batch) ==
    /\ \A m \in batch : phase[m] = "queued"
    /\ phase' = [m \in Msgs |-> IF m \in batch THEN "settled" ELSE phase[m]]
    /\ \E sent \in SUBSET batch :
          sms' = [m \in Msgs |-> IF m \in sent THEN sms[m] + 1 ELSE sms[m]]
    /\ UNCHANGED excused

\* A batch of queued messages was transmitted and the fact is forgotten.
Forget(batch) ==
    /\ \A m \in batch : phase[m] = "queued"
    /\ sms' = [m \in Msgs |-> IF m \in batch THEN sms[m] + 1 ELSE sms[m]]
    /\ excused' = [m \in Msgs |-> IF m \in batch THEN excused[m] + 1 ELSE excused[m]]
    /\ UNCHANGED phase

Requeue(m) ==
    /\ AllowRequeue
    /\ phase[m] = "settled"
    /\ phase' = [phase EXCEPT ![m] = "queued"]
    /\ UNCHANGED <<sms, excused>>

Next ==
    \/ \E m \in Msgs : Queue(m) \/ Requeue(m)
    \/ \E batch \in SUBSET Msgs : Settle(batch) \/ Forget(batch)

Spec == Init /\ [][Next]_vars

\* The promise itself.  A message still queued has only excused transmissions.
AtMostOnceUnlessExcused ==
    ~AllowRequeue => \A m \in Msgs :
        /\ sms[m] <= 1 + excused[m]
        /\ phase[m] = "queued" => sms[m] = excused[m]
=============================================================================
