---------------------------- MODULE InboundProofs ----------------------------
(***************************************************************************)
(* Proofs about Inbound, for any texts, bodies, workers and losses.        *)
(*                                                                         *)
(* StopStands is not inductive: a task may hold a sms_opt_in it loaded     *)
(* long ago, and a STOP that loaded FALSE writes nothing.  ReadsAgree is   *)
(* the missing part: who loaded FALSE is right, unless a START crossed it. *)
(***************************************************************************)
EXTENDS Inbound, TLAPS

\* Tasks, queued or running, and processed texts are of the inbox.
FromInbox ==
    /\ processed \subseteq inbox
    /\ \A t \in Texts : queue[t] > 0 => t \in inbox
    /\ \A w \in Workers : step[w] # "idle" => text[w] \in inbox

\* A running task that is past its audit entry has one.
AuditFirst ==
    /\ \A w \in Workers : step[w] = "audited" => text[w] \in audits
    /\ EffectsAreAudited

ReadsAgree ==
    \A w \in Workers : step[w] # "idle" /\ ~seen[w] /\ w \notin crossed => ~optIn

IInv ==
    /\ TypeOK
    /\ FromInbox
    /\ AuditFirst
    /\ EntriesAreExplained
    /\ ReadsAgree
    /\ StopStands
    /\ AllOrNothing

-----------------------------------------------------------------------------
\* Nothing has been stored yet.
LEMMA InitIInv == Init => IInv
<1> SUFFICES ASSUME Init PROVE IInv
  OBVIOUS
<1>1. (CHOOSE t \in Texts : TRUE) \in Texts
  BY InboundAssumption
<1>2. TypeOK
  BY <1>1 DEF Init, TypeOK
<1>3. FromInbox /\ AuditFirst /\ EntriesAreExplained /\ ReadsAgree /\ StopStands
  BY DEF Init, FromInbox, AuditFirst, EffectsAreAudited, EntriesAreExplained, ReadsAgree,
         StopStands
<1>4. AllOrNothing
  <2> SUFFICES ASSUME NEW t \in Texts
               PROVE  /\ responses[t] > 0 <=> t \in processed
                      /\ tickets[t] = IF Intent(t) = "extension" THEN responses[t] ELSE 0
    BY DEF AllOrNothing
  <2>1. responses[t] = 0 /\ tickets[t] = 0 /\ processed = {}
    BY DEF Init
  <2> QED
    BY <2>1
<1> QED
  BY <1>2, <1>3, <1>4 DEF IInv

\* What the commit of a task does to sms_opt_in.
LEMMA OptInCases ==
    ASSUME NEW w \in Workers
    PROVE  /\ Intent(text[w]) = "stop" /\ seen[w] => OptInWritten(w) = FALSE
           /\ OptInWritten(w) # optIn => Intent(text[w]) \in {"stop", "start"}
           /\ Intent(text[w]) = "stop" /\ ~seen[w] => OptInWritten(w) = optIn
           /\ Intent(text[w]) = "stop" => OptInWritten(w) \in {FALSE, optIn}
           /\ optIn \in BOOLEAN => OptInWritten(w) \in BOOLEAN
BY DEF OptInWritten

\* Every variable keeps its type.
LEMMA TypeStep == TypeOK /\ [Next]_vars => TypeOK'
<1> SUFFICES ASSUME TypeOK, [Next]_vars PROVE TypeOK'
  OBVIOUS
<1> USE DEF TypeOK, committed, consent
<1>1. ASSUME NEW t \in Texts, Store(t) PROVE TypeOK'
  BY <1>1 DEF Store
<1>2. ASSUME NEW t \in Texts, Redeliver(t) PROVE TypeOK'
  BY <1>2 DEF Redeliver
<1>3. ASSUME NEW w \in Workers, NEW t \in Texts, Begin(w, t) PROVE TypeOK'
  BY <1>3 DEF Begin
<1>4. ASSUME NEW w \in Workers, Audit(w) PROVE TypeOK'
  BY <1>4 DEF Audit
<1>5. ASSUME NEW w \in Workers, Finish(w) PROVE TypeOK'
  <2>1. optIn' \in BOOLEAN
    BY <1>5, OptInCases DEF Finish
  <2>2. responses' \in [Texts -> Nat] /\ tickets' \in [Texts -> Nat]
    BY <1>5 DEF Finish, CreateRequest
  <2>3. crossed' \subseteq Workers /\ stopped' \in BOOLEAN
    BY <1>5 DEF Finish, Consent
  <2> QED
    BY <1>5, <2>1, <2>2, <2>3 DEF Finish, CreateRequest
<1>6. ASSUME NEW w \in Workers, Raise(w) PROVE TypeOK'
  BY <1>6 DEF Raise
<1>7. ASSUME NEW w \in Workers, Lose(w) PROVE TypeOK'
  BY <1>7 DEF Lose
<1>8. CASE UNCHANGED vars
  BY <1>8 DEF vars
<1> QED
  BY <1>1, <1>2, <1>3, <1>4, <1>5, <1>6, <1>7, <1>8 DEF Next, Work

-----------------------------------------------------------------------------
\* The parts of the invariant, action by action.
LEMMA InvariantStep == IInv /\ [Next]_vars => IInv'
<1> SUFFICES ASSUME IInv, [Next]_vars PROVE IInv'
  OBVIOUS
<1>t. TypeOK /\ TypeOK'
  BY TypeStep DEF IInv
<1>0. FromInbox /\ AuditFirst /\ EntriesAreExplained /\ ReadsAgree /\ StopStands /\ AllOrNothing
  BY DEF IInv
<1> DEFINE Others == AuditFirst' /\ ReadsAgree' /\ StopStands' /\ AllOrNothing'
<1> USE <1>t, <1>0 DEF TypeOK, committed, consent, FromInbox
<1>1. ASSUME NEW t \in Texts, Store(t) PROVE IInv'
  <2>1. FromInbox'
    BY <1>1 DEF Store
  <2>2. Others
    BY <1>1 DEF Store, AuditFirst, EffectsAreAudited, ReadsAgree, StopStands, AllOrNothing
  <2>3. EntriesAreExplained'
    BY <1>1 DEF Store, EntriesAreExplained
  <2> QED
    BY <2>1, <2>2, <2>3 DEF IInv
<1>2. ASSUME NEW t \in Texts, Redeliver(t) PROVE IInv'
  <2>1. FromInbox'
    BY <1>2 DEF Redeliver
  <2>2. Others
    BY <1>2 DEF Redeliver, AuditFirst, EffectsAreAudited, ReadsAgree, StopStands,
                AllOrNothing
  <2>3. EntriesAreExplained'
    BY <1>2 DEF Redeliver, EntriesAreExplained
  <2> QED
    BY <2>1, <2>2, <2>3 DEF IInv
<1>3. ASSUME NEW w \in Workers, NEW t \in Texts, Begin(w, t) PROVE IInv'
  <2>1. FromInbox'
    BY <1>3 DEF Begin
  <2>2. Others
    BY <1>3 DEF Begin, AuditFirst, EffectsAreAudited, ReadsAgree, StopStands, AllOrNothing
  <2>3. EntriesAreExplained'
    BY <1>3 DEF Begin, EntriesAreExplained
  <2> QED
    BY <2>1, <2>2, <2>3 DEF IInv
<1>4. ASSUME NEW w \in Workers, Audit(w) PROVE IInv'
  <2>1. FromInbox'
    BY <1>4 DEF Audit
  <2>2. Others
    BY <1>4 DEF Audit, AuditFirst, EffectsAreAudited, ReadsAgree, StopStands, AllOrNothing
  <2>3. EntriesAreExplained'
    BY <1>4 DEF Audit, EntriesAreExplained
  <2> QED
    BY <2>1, <2>2, <2>3 DEF IInv
<1>5. ASSUME NEW w \in Workers, Finish(w) PROVE IInv'
  <2>0. /\ step[w] # "idle" /\ text[w] \in inbox /\ text[w] \in Texts
        /\ processed' = processed \cup {text[w]} /\ optIn' = OptInWritten(w)
        /\ step' = [step EXCEPT ![w] = "idle"]
        /\ UNCHANGED <<inbox, queue, audits, text, seen>>
    BY <1>5 DEF Finish, Audited
  <2>1. FromInbox'
    BY <2>0
  <2>2. AuditFirst'
    <3>1. Intent(text[w]) \in Audited => text[w] \in audits
      BY <1>5 DEF Finish, AuditFirst
    <3> QED
      BY <2>0, <3>1 DEF AuditFirst, EffectsAreAudited
  <2>3. EntriesAreExplained'
    <3> SUFFICES ASSUME NEW t \in audits
                 PROVE  \/ t \in processed' \cup raised'
                        \/ queue'[t] > 0
                        \/ \E v \in Workers : step'[v] # "idle" /\ text'[v] = t
      BY <2>0 DEF EntriesAreExplained
    <3>1. CASE t = text[w]
      BY <2>0, <3>1
    <3>2. CASE t # text[w]
      <4>1. raised' = raised
        BY <1>5 DEF Finish
      <4>2. \A v \in Workers : text[v] = t => step'[v] = step[v]
        BY <2>0, <3>2
      <4> QED
        BY <2>0, <4>1, <4>2 DEF EntriesAreExplained
    <3> QED
      BY <3>1, <3>2
  <2>4. /\ crossed' = IF Intent(text[w]) = "start" /\ ~seen[w]
                      THEN {v \in Workers : ~seen[v]} ELSE crossed
        /\ stopped' => \/ Intent(text[w]) = "stop" /\ w \notin crossed
                       \/ stopped
        /\ stopped' => ~(Intent(text[w]) = "start" /\ ~seen[w])
    BY <1>5 DEF Finish, Consent
  <2>5. ~(Intent(text[w]) = "start" /\ ~seen[w]) /\ ~optIn => ~optIn'
    BY <2>0 DEF OptInWritten
  <2>6. ReadsAgree'
    BY <2>0, <2>4, <2>5 DEF ReadsAgree
  <2>7. StopStands'
    <3>1. ~seen[w] /\ w \notin crossed => ~optIn
      BY <2>0 DEF ReadsAgree
    <3>2. Intent(text[w]) = "stop" /\ w \notin crossed => ~optIn'
      BY <2>0, <3>1, OptInCases
    <3> QED
      BY <2>4, <2>5, <3>2 DEF StopStands
  <2>8. AllOrNothing'
    BY <1>5 DEF Finish, CreateRequest, AllOrNothing
  <2> QED
    BY <2>1, <2>2, <2>3, <2>6, <2>7, <2>8 DEF IInv
<1>6. ASSUME NEW w \in Workers, Raise(w) PROVE IInv'
  <2>1. FromInbox'
    BY <1>6 DEF Raise
  <2>2. Others
    BY <1>6 DEF Raise, AuditFirst, EffectsAreAudited, ReadsAgree, StopStands, AllOrNothing
  <2>3. EntriesAreExplained'
    BY <1>6 DEF Raise, EntriesAreExplained
  <2> QED
    BY <2>1, <2>2, <2>3 DEF IInv
<1>7. ASSUME NEW w \in Workers, Lose(w) PROVE IInv'
  <2>1. FromInbox'
    BY <1>7 DEF Lose
  <2>2. Others
    BY <1>7 DEF Lose, AuditFirst, EffectsAreAudited, ReadsAgree, StopStands, AllOrNothing
  <2>3. EntriesAreExplained'
    BY <1>7 DEF Lose, EntriesAreExplained
  <2> QED
    BY <2>1, <2>2, <2>3 DEF IInv
<1>8. CASE UNCHANGED vars
  BY <1>8 DEF vars, IInv, AuditFirst, EffectsAreAudited, EntriesAreExplained, ReadsAgree,
              StopStands, AllOrNothing
<1> QED
  BY <1>1, <1>2, <1>3, <1>4, <1>5, <1>6, <1>7, <1>8 DEF Next, Work

\* The inductive invariant holds in every reachable state.
THEOREM InboundInvariant == Spec => []IInv
BY InitIInv, InvariantStep, PTL DEF Spec

\* Every variable of the inbound task keeps its type.
THEOREM InboundTypeCorrect == Spec => []TypeOK
<1>1. IInv => TypeOK
  BY DEF IInv
<1> QED
  BY <1>1, InboundInvariant, PTL

\* A confirmed STOP that no START crossed stands until a START is confirmed that found
\* the parent opted out, whatever overlaps or is redelivered.
THEOREM StopStandsHolds == Spec => []StopStands
<1>1. IInv => StopStands
  BY DEF IInv
<1> QED
  BY <1>1, InboundInvariant, PTL

\* What is in the database has its audit entry; an entry of nothing is still to be
\* tried, or of a task that raised.
THEOREM AuditsMatch == Spec => []AuditsMatchEffects
<1>1. IInv => AuditsMatchEffects
  BY DEF IInv, AuditFirst, AuditsMatchEffects
<1> QED
  BY <1>1, InboundInvariant, PTL

\* Answers and actions go together.
THEOREM AnswersMatchActions == Spec => []AllOrNothing
<1>1. IInv => AllOrNothing
  BY DEF IInv
<1> QED
  BY <1>1, InboundInvariant, PTL
=============================================================================
