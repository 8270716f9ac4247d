--------------------------- MODULE TuitionProofs ----------------------------
(***************************************************************************)
(* "The scheduler may run as often as it likes": OneTextPerReminder for    *)
(* any number of invoices, payments and overlapping scheduler runs; and    *)
(* what an opt-out reaches, OptOutStopsNewReminders.  Types, which rest on *)
(* the sum of any finite number of payments, come last.                    *)
(***************************************************************************)
EXTENDS Tuition, FiniteSetTheorems, TLAPS

\* The types the argument needs.
ReminderTypes ==
    /\ msg \in [Keys -> MsgStatus]
    /\ texts \in [Keys -> Nat]
    /\ purged \in [Keys -> Nat]

\* A row that may still be sent, or inserted, has no text of its own yet: each
\* text of that key belongs to a row that was purged.
TextsBelongToRows ==
    \A k \in Keys : texts[k] <= purged[k] + (IF msg[k] \in {"absent", "pending"} THEN 0 ELSE 1)

IInv == ReminderTypes /\ TextsBelongToRows


LEMMA InitIInv == Init => IInv
BY DEF Init, IInv, ReminderTypes, TextsBelongToRows, MsgStatus

LEMMA InvariantStep ==
    ASSUME IInv, [Next]_vars
    PROVE  IInv'
<1>0. ReminderTypes /\ TextsBelongToRows
  BY DEF IInv
<1>1. CASE UNCHANGED outboxVars
  BY <1>0, <1>1 DEF IInv, ReminderTypes, TextsBelongToRows, outboxVars
<1>2. ASSUME NEW r \in Runs, SchedInsert(r)
      PROVE  IInv'
  <2>1. ReminderTypes'
    BY <1>0, <1>2 DEF SchedInsert, ReminderTypes, MsgStatus
  <2>2. \A k \in Keys : msg'[k] = msg[k] \/ (msg[k] = "absent" /\ msg'[k] = "pending")
    BY <1>2 DEF SchedInsert
  <2>3. UNCHANGED <<texts, purged>>
    BY <1>2 DEF SchedInsert
  <2>4. TextsBelongToRows'
    BY <1>0, <2>2, <2>3 DEF TextsBelongToRows
  <2> QED
    BY <2>1, <2>4 DEF IInv
<1>3. ASSUME NEW k \in Keys, NEW outcome \in {"sent", "failed", "unknown"}, Attempt(k, outcome)
      PROVE  IInv'
  <2>1. ReminderTypes'
    BY <1>0, <1>3 DEF Attempt, ReminderTypes, MsgStatus
  <2>2. TextsBelongToRows'
    BY <1>0, <1>3 DEF Attempt, ReminderTypes, TextsBelongToRows
  <2> QED
    BY <2>1, <2>2 DEF IInv
<1>4. ASSUME NEW k \in Keys, Expire(k)
      PROVE  IInv'
  <2>1. ReminderTypes'
    BY <1>0, <1>4 DEF Expire, ReminderTypes, MsgStatus
  <2>2. TextsBelongToRows'
    BY <1>0, <1>4 DEF Expire, ReminderTypes, TextsBelongToRows
  <2> QED
    BY <2>1, <2>2 DEF IInv
<1>5. CASE Purge
  <2>1. ReminderTypes'
    BY <1>0, <1>5 DEF Purge, ReminderTypes, MsgStatus
  <2>2. \A k \in Keys : \/ msg'[k] = msg[k] /\ purged'[k] = purged[k]
                        \/ msg'[k] = "absent" /\ purged'[k] = purged[k] + 1
    BY <1>0, <1>5 DEF Purge, ReminderTypes
  <2>3. UNCHANGED texts
    BY <1>5 DEF Purge
  <2>4. TextsBelongToRows'
    BY <1>0, <2>2, <2>3 DEF ReminderTypes, TextsBelongToRows
  <2> QED
    BY <2>1, <2>4 DEF IInv
<1>6. CASE PaymentCommit
  <2>1. ReminderTypes'
    BY <1>0, <1>6 DEF PaymentCommit, ReminderTypes, MsgStatus
  <2>2. \A k \in Keys : msg'[k] = msg[k] \/ (msg[k] # "absent" /\ msg'[k] = "suppressed")
    BY <1>6 DEF PaymentCommit
  <2>3. UNCHANGED <<texts, purged>>
    BY <1>6 DEF PaymentCommit
  <2>4. TextsBelongToRows'
    BY <1>0, <2>2, <2>3 DEF ReminderTypes, TextsBelongToRows
  <2> QED
    BY <2>1, <2>4 DEF IInv
<1>7. CASE \/ NextDay
           \/ \E p \in Payments : Export(p)
           \/ \E i \in Invoices : Stop(i) \/ Start(i)
           \/ \E r \in Runs : SchedLoad(r) \/ SchedBuild(r)
           \/ PaymentPoll
           \/ \E i \in Invoices, s \in InvoiceStatus : UpdateStatus(i, s)
           \/ UNCHANGED vars
  <2>1. UNCHANGED outboxVars
    BY <1>7 DEF NextDay, Export, Stop, Start, SchedLoad, SchedBuild, PaymentPoll,
                UpdateStatus, vars, outboxVars
  <2> QED
    BY <1>1, <2>1
<1> QED
  BY <1>2, <1>3, <1>4, <1>5, <1>6, <1>7 DEF Next

\* A reminder is texted once per life of its row, whatever the number of scheduler
\* runs, their overlap and their days (dispatch_service.py:77-82).
THEOREM OneTextPerReminderHolds == Spec => []OneTextPerReminder
<1>1. IInv => OneTextPerReminder
  BY DEF IInv, ReminderTypes, TextsBelongToRows, OneTextPerReminder
<1> QED
  BY <1>1, InitIInv, InvariantStep, PTL DEF Spec

-----------------------------------------------------------------------------
(* Opt-outs.                                                               *)

ParentTypes ==
    /\ msg \in [Keys -> MsgStatus]
    /\ optIn \in [Invoices -> BOOLEAN]
    /\ runs \in [Runs -> [step : {"idle", "loaded", "built"},
                          open : SUBSET Invoices, keys : SUBSET Keys]]

\* The inductive form of OptOutStopsNewReminders: it covers the runs as well, which
\* turn what they read into pending rows.
OnTheWayIsLeftover ==
    \A k \in Keys : (msg[k] = "pending" \/ Read(k)) /\ ~optIn[k[1]] => k \in leftover

OInv == ParentTypes /\ OnTheWayIsLeftover

LEMMA InitOInv == Init => OInv
<1> SUFFICES ASSUME Init PROVE OInv
  OBVIOUS
<1>1. ParentTypes
  BY DEF Init, ParentTypes, MsgStatus, IdleRun
<1>2. OnTheWayIsLeftover
  BY DEF Init, OnTheWayIsLeftover, Read, IdleRun
<1> QED
  BY <1>1, <1>2 DEF OInv

\* Nothing but a scheduler run makes a row pending.
LEMMA FewerOnTheWay ==
    ASSUME OInv, UNCHANGED <<runs, optIn, leftover>>,
           msg' \in [Keys -> MsgStatus],
           \A k \in Keys : msg'[k] = "pending" => msg[k] = "pending"
    PROVE  OInv'
<1>1. ParentTypes'
  BY DEF OInv, ParentTypes
<1>2. OnTheWayIsLeftover'
  BY DEF OInv, OnTheWayIsLeftover, Read
<1> QED
  BY <1>1, <1>2 DEF OInv

LEMMA OptOutStep ==
    ASSUME OInv, [Next]_vars
    PROVE  OInv'
<1>0. ParentTypes /\ OnTheWayIsLeftover
  BY DEF OInv
<1>1. ASSUME NEW i \in Invoices, Stop(i)
      PROVE  OInv'
  <2>1. ParentTypes'
    BY <1>0, <1>1 DEF Stop, ParentTypes, outboxVars
  <2>2. OnTheWayIsLeftover'
    BY <1>0, <1>1 DEF Stop, ParentTypes, OnTheWayIsLeftover, Read, outboxVars, Keys
  <2> QED
    BY <2>1, <2>2 DEF OInv
<1>2. ASSUME NEW i \in Invoices, Start(i)
      PROVE  OInv'
  <2>1. ParentTypes'
    BY <1>0, <1>2 DEF Start, ParentTypes, outboxVars
  <2>2. OnTheWayIsLeftover'
    BY <1>0, <1>2 DEF Start, ParentTypes, OnTheWayIsLeftover, Read, outboxVars, Keys
  <2> QED
    BY <2>1, <2>2 DEF OInv
<1>3. ASSUME NEW r \in Runs, SchedLoad(r)
      PROVE  OInv'
  <2>1. ParentTypes'
    BY <1>0, <1>3 DEF SchedLoad, ParentTypes, outboxVars, parentVars
  <2>2. OnTheWayIsLeftover'
    BY <1>0, <1>3 DEF SchedLoad, ParentTypes, OnTheWayIsLeftover, Read, outboxVars, parentVars
  <2> QED
    BY <2>1, <2>2 DEF OInv
<1>4. ASSUME NEW r \in Runs, SchedBuild(r)
      PROVE  OInv'
  <2> DEFINE read == {k \in BuildCandidates(runs[r].open) : optIn[k[1]]}
  <2>1. read \subseteq Keys /\ \A k \in read : optIn[k[1]]
    BY DEF BuildCandidates
  <2>2. runs' = [runs EXCEPT ![r] = [step |-> "built", open |-> runs[r].open, keys |-> read]]
    BY <1>4 DEF SchedBuild
  <2>3. UNCHANGED <<msg, optIn, leftover>>
    BY <1>4 DEF SchedBuild, outboxVars, parentVars
  <2> HIDE DEF read
  <2>4. ParentTypes'
    BY <1>0, <2>1, <2>2, <2>3 DEF ParentTypes
  <2>5. OnTheWayIsLeftover'
    BY <1>0, <2>1, <2>2, <2>3 DEF ParentTypes, OnTheWayIsLeftover, Read
  <2> QED
    BY <2>4, <2>5 DEF OInv
<1>5. ASSUME NEW r \in Runs, SchedInsert(r)
      PROVE  OInv'
  <2>1. ParentTypes'
    BY <1>0, <1>5 DEF SchedInsert, ParentTypes, MsgStatus, IdleRun, parentVars
  <2>2. \A k \in Keys : msg'[k] = "pending" => msg[k] = "pending" \/ k \in runs[r].keys
    BY <1>5 DEF SchedInsert
  <2>3. \A k \in Keys : Read(k)' => Read(k)
    BY <1>0, <1>5 DEF SchedInsert, ParentTypes, Read, IdleRun
  <2>4. \A k \in Keys : k \in runs[r].keys => Read(k)
    BY DEF Read
  <2>5. UNCHANGED <<optIn, leftover>>
    BY <1>5 DEF SchedInsert, parentVars
  <2>6. OnTheWayIsLeftover'
    BY <1>0, <2>2, <2>3, <2>4, <2>5 DEF OnTheWayIsLeftover
  <2> QED
    BY <2>1, <2>6 DEF OInv
<1>6. ASSUME NEW k \in Keys, NEW outcome \in {"sent", "failed", "unknown"}, Attempt(k, outcome)
      PROVE  OInv'
  BY <1>0, <1>6, FewerOnTheWay DEF Attempt, ParentTypes, MsgStatus, parentVars
<1>7. ASSUME NEW k \in Keys, Expire(k)
      PROVE  OInv'
  BY <1>0, <1>7, FewerOnTheWay DEF Expire, ParentTypes, MsgStatus, parentVars
<1>8. CASE Purge
  BY <1>0, <1>8, FewerOnTheWay DEF Purge, ParentTypes, MsgStatus, parentVars
<1>9. CASE PaymentCommit
  BY <1>0, <1>9, FewerOnTheWay DEF PaymentCommit, ParentTypes, MsgStatus, parentVars
<1>10. CASE \/ NextDay
            \/ \E p \in Payments : Export(p)
            \/ PaymentPoll
            \/ \E i \in Invoices, s \in InvoiceStatus : UpdateStatus(i, s)
            \/ UNCHANGED vars
  <2>1. UNCHANGED <<msg, runs, optIn, leftover>>
    BY <1>10 DEF NextDay, Export, PaymentPoll, UpdateStatus, vars, outboxVars, parentVars
  <2> QED
    BY <1>0, <2>1, FewerOnTheWay DEF ParentTypes
<1> QED
  BY <1>1, <1>2, <1>3, <1>4, <1>5, <1>6, <1>7, <1>8, <1>9, <1>10 DEF Next

\* However the scheduler's runs, STOPs, STARTs, sends and purges interleave, what is
\* pending for a parent who opted out was on its way at the STOP
\* (reminders.py:96-134).
THEOREM OptOutReachesTheScheduler == Spec => []OptOutStopsNewReminders
<1>1. OInv => OptOutStopsNewReminders
  BY DEF OInv, OnTheWayIsLeftover, OptOutStopsNewReminders
<1> QED
  BY <1>1, InitOInv, OptOutStep, PTL DEF Spec

-----------------------------------------------------------------------------
(* Sums of payments.  MapThenSumSet chooses a function that adds the        *)
(* amounts up over the subsets of a set: there is one, and its values are   *)
(* numbers, because inclusion is well founded on finite sets.               *)

LEMMA MinimalSet ==
    ASSUME NEW S, IsFiniteSet(S), NEW I \in SUBSET (SUBSET S), I # {}
    PROVE  \E U \in I : \A V \in I : V \subseteq U => V = U
<1>1. I \subseteq FiniteSubsetsOf(S)
  BY FS_FiniteSubsetsOfFinite
<1>2. PICK U \in I : \A V \in I : ~ (<<V, U>> \in StrictSubsetOrdering(S))
  BY <1>1, FS_StrictSubsetOrderingWellFounded, WFMin
<1>3. ASSUME NEW V \in I, V \subseteq U
      PROVE  V = U
  <2>1. V # U => <<V, U>> \in StrictSubsetOrdering(S)
    BY <1>3, Zenon DEF StrictSubsetOrdering
  <2> QED
    BY <1>2, <2>1
<1> QED
  BY <1>3

Sum(ps) == MapThenSumSet(LAMBDA p : AmountOf[p], ps)

First(ps) == CHOOSE p \in ps : TRUE
Rest(ps) == ps \ {First(ps)}
SumOf(g, ps) == IF ps = {} THEN 0 ELSE AmountOf[First(ps)] + g[Rest(ps)]
SumsUp(g, S) == g = [ps \in SUBSET S |-> SumOf(g, ps)]

LEMMA SumIsChosen ==
    ASSUME NEW S
    PROVE  Sum(S) = (CHOOSE g : SumsUp(g, S))[S]
  BY DEF Sum, SumsUp, SumOf, First, Rest, MapThenSumSet, MapThenFoldSet

LEMMA RestIsLess ==
    ASSUME NEW ps, ps # {}
    PROVE  First(ps) \in ps /\ Rest(ps) \subseteq ps /\ Rest(ps) # ps
  BY DEF First, Rest

LEMMA SumsAgree ==
    ASSUME NEW S, IsFiniteSet(S), NEW T, IsFiniteSet(T),
           NEW g, SumsUp(g, S), NEW h, SumsUp(h, T),
           NEW ps, ps \subseteq S, ps \subseteq T
    PROVE  g[ps] = h[ps]
<1> DEFINE I == {qs \in SUBSET ps : g[qs] # h[qs]}
<1> SUFFICES ASSUME I # {}
             PROVE  FALSE
  OBVIOUS
<1>1. IsFiniteSet(ps) /\ I \in SUBSET (SUBSET ps)
  BY FS_Subset
<1>2. PICK U \in I : \A V \in I : V \subseteq U => V = U
  <2> HIDE DEF I
  <2> QED
    BY <1>1, MinimalSet
<1>3. /\ g[U] = SumOf(g, U) /\ h[U] = SumOf(h, U)
      /\ U \subseteq ps /\ g[U] # h[U]
  BY DEF SumsUp
<1>4. U # {}
  BY <1>3 DEF SumOf
<1>5. Rest(U) \subseteq U /\ Rest(U) # U
  BY <1>4, RestIsLess
<1>6. g[Rest(U)] = h[Rest(U)]
  BY <1>2, <1>3, <1>5
<1> QED
  BY <1>3, <1>4, <1>6 DEF SumOf

LEMMA SumsExist ==
    ASSUME NEW S, IsFiniteSet(S)
    PROVE  \E g : SumsUp(g, S)
<1> DEFINE I == {T \in SUBSET S : ~ \E g : SumsUp(g, T)}
<1> SUFFICES ASSUME I # {}
             PROVE  FALSE
  OBVIOUS
<1>1. I \in SUBSET (SUBSET S)
  OBVIOUS
<1>2. PICK T \in I : \A V \in I : V \subseteq T => V = T
  <2> HIDE DEF I
  <2> QED
    BY <1>1, MinimalSet
<1>3. T \subseteq S /\ ~ \E g : SumsUp(g, T)
  OBVIOUS
<1> DEFINE sums(V) == CHOOSE g : SumsUp(g, V)
           total == [ps \in SUBSET T |-> IF ps = {} THEN 0
                                         ELSE AmountOf[First(ps)] + sums(Rest(ps))[Rest(ps)]]
<1>4. ASSUME NEW V, V \subseteq T, V # T
      PROVE  SumsUp(sums(V), V) /\ IsFiniteSet(V)
  <2>1. V \in SUBSET S /\ V \notin I
    BY <1>2, <1>3, <1>4
  <2> QED
    BY <2>1, FS_Subset
<1> HIDE DEF sums, I
<1>5. ASSUME NEW ps, ps \subseteq T, ps # {}
      PROVE  sums(Rest(ps))[Rest(ps)] = total[Rest(ps)]
  <2> DEFINE V == Rest(ps)
  <2>1. V \subseteq T /\ V # T
    BY <1>5, RestIsLess
  <2> HIDE DEF V
  <2>2. SumsUp(sums(V), V) /\ IsFiniteSet(V)
    BY <1>4, <2>1
  <2>3. sums(V)[V] = SumOf(sums(V), V)
    BY <2>2 DEF SumsUp
  <2>4. CASE V = {}
    BY <2>1, <2>3, <2>4 DEF SumOf, V
  <2>5. CASE V # {}
    <3>1. Rest(V) \subseteq V /\ Rest(V) \subseteq T /\ Rest(V) # T
      BY <2>1, <2>5, RestIsLess
    <3>2. SumsUp(sums(Rest(V)), Rest(V)) /\ IsFiniteSet(Rest(V))
      BY <1>4, <3>1
    <3>3. sums(V)[Rest(V)] = sums(Rest(V))[Rest(V)]
      BY <2>2, <3>1, <3>2, SumsAgree
    <3>4. total[V] = AmountOf[First(V)] + sums(Rest(V))[Rest(V)]
      BY <2>1, <2>5
    <3>5. sums(V)[V] = AmountOf[First(V)] + sums(V)[Rest(V)]
      BY <2>3, <2>5 DEF SumOf
    <3> QED
      BY <3>3, <3>4, <3>5 DEF V
  <2> QED
    BY <2>4, <2>5
<1>6. SumsUp(total, T)
  <2>1. \A ps \in SUBSET T : total[ps] = SumOf(total, ps)
    BY <1>5 DEF SumOf
  <2> QED
    BY <2>1 DEF SumsUp
<1> QED
  BY <1>3, <1>6

\* A finite number of payments has a sum.
LEMMA SumType ==
    ASSUME NEW S, IsFiniteSet(S), S \subseteq Payments
    PROVE  Sum(S) \in Nat
<1> DEFINE g == CHOOSE h : SumsUp(h, S)
           I == {ps \in SUBSET S : g[ps] \notin Nat}
<1>1. SumsUp(g, S)
  BY SumsExist
<1>2. Sum(S) = g[S]
  BY SumIsChosen
<1> HIDE DEF g
<1> SUFFICES ASSUME I # {}
             PROVE  FALSE
  BY <1>2
<1>3. I \in SUBSET (SUBSET S)
  OBVIOUS
<1>4. PICK U \in I : \A V \in I : V \subseteq U => V = U
  <2> HIDE DEF I
  <2> QED
    BY <1>3, MinimalSet
<1>5. g[U] = SumOf(g, U) /\ U \subseteq S /\ g[U] \notin Nat
  BY <1>1 DEF SumsUp
<1>6. U # {}
  BY <1>5 DEF SumOf
<1>7. First(U) \in U /\ Rest(U) \subseteq U /\ Rest(U) # U
  BY <1>6, RestIsLess
<1>8. g[Rest(U)] \in Nat
  BY <1>4, <1>5, <1>7
<1>9. AmountOf[First(U)] \in Nat
  BY <1>5, <1>7, TuitionAssumption
<1> QED
  BY <1>5, <1>6, <1>8, <1>9 DEF SumOf

-----------------------------------------------------------------------------
(* Types.                                                                  *)

LEMMA RecordType ==
    ASSUME NEW inv \in Invoice, NEW i \in Invoices,
           NEW ps, IsFiniteSet(ps), ps \subseteq Payments
    PROVE  Record(inv, i, ps) \in Invoice
<1> DEFINE booked == Booked(i, ps)
           sum == inv.paid + Sum(booked)
<1>1. booked \subseteq Payments /\ IsFiniteSet(booked)
  BY FS_Subset DEF Booked
<1>2. Record(inv, i, ps) = IF booked = {} THEN inv
                           ELSE IF sum >= AmountDue THEN [status |-> "paid", paid |-> AmountDue]
                           ELSE [status |-> "partial", paid |-> sum]
  BY DEF Record, Sum
<1>3. sum \in Nat
  <2>1. inv.paid \in Nat
    BY TuitionAssumption DEF Invoice
  <2>2. Sum(booked) \in Nat
    BY <1>1, SumType
  <2> QED
    BY <2>1, <2>2
<1> HIDE DEF booked, sum
<1>4. AmountDue \in Nat
  BY TuitionAssumption
<1> QED
  BY <1>2, <1>3, <1>4 DEF Invoice, InvoiceStatus

\* The payments of an export, and those of a poll, are finitely many.
TypeInv ==
    /\ TypeOK
    /\ IsFiniteSet(exported)
    /\ IsFiniteSet(poll.recorded)

LEMMA InitTypeInv == Init => TypeInv
<1> SUFFICES ASSUME Init
             PROVE  TypeInv
  OBVIOUS
<1>1. IsFiniteSet(exported) /\ IsFiniteSet(poll.recorded)
  BY FS_EmptySet DEF Init, IdlePoll
<1>2. /\ today \in 0..LastDay /\ 0 \in 0..LastDay /\ 0 \in 0..MaxTexts /\ 0 \in 0..AmountDue
  BY TuitionAssumption DEF Init
<1>3. invoice \in [Invoices -> Invoice]
  BY <1>2 DEF Init, Invoice, InvoiceStatus
<1>4. runs \in [Runs -> [step : {"idle", "loaded", "built"},
                         open : SUBSET Invoices, keys : SUBSET Keys]]
  BY DEF Init, IdleRun
<1> QED
  BY <1>1, <1>2, <1>3, <1>4 DEF Init, TypeInv, TypeOK, MsgStatus

LEMMA TypeStep == TypeInv /\ [Next]_vars => TypeInv'
<1> SUFFICES ASSUME TypeInv, [Next]_vars
             PROVE  TypeInv'
  OBVIOUS
<1> USE TuitionAssumption DEF TypeInv
<1>t. TypeOK
  OBVIOUS
<1>1. CASE NextDay
  BY <1>1, <1>t DEF NextDay, TypeOK, parentVars, outboxVars
<1>2. ASSUME NEW p \in Payments, Export(p)
      PROVE  TypeInv'
  <2>1. exported' = exported \cup {p}
    BY <1>2 DEF Export
  <2>2. IsFiniteSet(exported')
    BY <2>1, FS_AddElement
  <2> QED
    BY <1>2, <1>t, <2>1, <2>2 DEF Export, TypeOK, parentVars, outboxVars
<1>3. ASSUME NEW i \in Invoices, Stop(i) \/ Start(i)
      PROVE  TypeInv'
  BY <1>3, <1>t DEF Stop, Start, TypeOK, outboxVars
<1>4. ASSUME NEW r \in Runs, SchedLoad(r)
      PROVE  TypeInv'
  BY <1>4, <1>t DEF SchedLoad, TypeOK, parentVars, outboxVars
<1>5. ASSUME NEW r \in Runs, SchedBuild(r)
      PROVE  TypeInv'
  BY <1>5, <1>t DEF SchedBuild, BuildCandidates, TypeOK, parentVars, outboxVars
<1>6. ASSUME NEW r \in Runs, SchedInsert(r)
      PROVE  TypeInv'
  BY <1>6, <1>t DEF SchedInsert, IdleRun, TypeOK, MsgStatus, parentVars
<1>7. ASSUME NEW k \in Keys, NEW outcome \in {"sent", "failed", "unknown"}, Attempt(k, outcome)
      PROVE  TypeInv'
  <2>1. texts' \in [Keys -> 0..MaxTexts]
    BY <1>7, <1>t DEF Attempt, TypeOK
  <2>2. updatedOn' \in [Keys -> 0..LastDay]
    BY <1>7, <1>t DEF Attempt, TypeOK
  <2>3. msg' \in [Keys -> MsgStatus]
    BY <1>7, <1>t DEF Attempt, TypeOK, MsgStatus
  <2> QED
    BY <1>7, <1>t, <2>1, <2>2, <2>3 DEF Attempt, TypeOK, parentVars
<1>8. ASSUME NEW k \in Keys, Expire(k)
      PROVE  TypeInv'
  BY <1>8, <1>t DEF Expire, TypeOK, MsgStatus, parentVars
<1>9. CASE Purge
  <2>1. purged' \in [Keys -> 0..MaxTexts]
    BY <1>9, <1>t DEF Purge, TypeOK
  <2>2. updatedOn' \in [Keys -> 0..LastDay] /\ msg' \in [Keys -> MsgStatus]
    BY <1>9, <1>t DEF Purge, TypeOK, MsgStatus
  <2> QED
    BY <1>9, <1>t, <2>1, <2>2 DEF Purge, TypeOK, parentVars
<1>10. CASE PaymentPoll
  <2>1. /\ poll'.step = "open" /\ poll'.recorded = exported /\ poll'.seen = invoice
        /\ poll' \in [step : {"open"}, recorded : SUBSET Payments,
                      seen : [Invoices -> Invoice], supp : SUBSET Keys]
    BY <1>10, <1>t DEF PaymentPoll, TypeOK
  <2> QED
    BY <1>10, <1>t, <2>1 DEF PaymentPoll, TypeOK, parentVars, outboxVars
<1>11. CASE PaymentCommit
  <2>1. poll.recorded \subseteq Payments /\ poll.seen \in [Invoices -> Invoice]
    BY <1>11, <1>t DEF PaymentCommit, TypeOK, IdlePoll
  <2>2. invoice' \in [Invoices -> Invoice]
    <3>1. ASSUME NEW i \in Invoices
          PROVE  invoice'[i] \in Invoice
      <4>1. /\ invoice[i] \in Invoice /\ poll.seen[i] \in Invoice
            /\ Record(poll.seen[i], i, poll.recorded) \in Invoice
        BY <1>t, <2>1, RecordType DEF TypeOK
      <4>2. invoice'[i] =
              [status |-> Written(poll.seen[i].status,
                                  Record(poll.seen[i], i, poll.recorded).status,
                                  invoice[i].status),
               paid |-> Written(poll.seen[i].paid,
                                Record(poll.seen[i], i, poll.recorded).paid,
                                invoice[i].paid)]
        BY <1>11 DEF PaymentCommit
      <4> QED
        BY <4>1, <4>2 DEF Written, Invoice
    <3>2. invoice' = [i \in Invoices |-> invoice'[i]]
      BY <1>11 DEF PaymentCommit
    <3> QED
      BY <3>1, <3>2
  <2>3. msg' \in [Keys -> MsgStatus]
    BY <1>11, <1>t DEF PaymentCommit, TypeOK, MsgStatus
  <2>4. updatedOn' \in [Keys -> 0..LastDay]
    BY <1>11, <1>t DEF PaymentCommit, TypeOK
  <2>5. poll' = IdlePoll /\ IsFiniteSet(poll'.recorded)
    BY <1>11, FS_EmptySet DEF PaymentCommit, IdlePoll
  <2> QED
    BY <1>11, <1>t, <2>2, <2>3, <2>4, <2>5 DEF PaymentCommit, TypeOK, parentVars
<1>12. ASSUME NEW i \in Invoices, NEW s \in InvoiceStatus, UpdateStatus(i, s)
       PROVE  TypeInv'
  <2>1. invoice' \in [Invoices -> Invoice]
    BY <1>12, <1>t DEF UpdateStatus, TypeOK, Invoice
  <2> QED
    BY <1>12, <1>t, <2>1 DEF UpdateStatus, TypeOK, parentVars, outboxVars
<1>13. CASE UNCHANGED vars
  BY <1>13, <1>t DEF vars, TypeOK, parentVars, outboxVars
<1> QED
  BY <1>1, <1>2, <1>3, <1>4, <1>5, <1>6, <1>7, <1>8, <1>9, <1>10, <1>11, <1>12, <1>13 DEF Next

\* Invoices, reminders and the transactions that write them keep their types, whatever
\* the number of payments: an invoice is never credited with more than it asks for
\* (invoice_service.py record_payment).
THEOREM TypeCorrect == Spec => []TypeOK
<1>1. TypeInv => TypeOK
  BY DEF TypeInv
<1> QED
  BY <1>1, InitTypeInv, TypeStep, PTL DEF Spec
=============================================================================
