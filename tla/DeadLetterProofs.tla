-------------------------- MODULE DeadLetterProofs --------------------------
(***************************************************************************)
(* Letters are not lost, replays have keys of their own, and every copy of *)
(* the reminder beyond the first has a cause, for any number of operators, *)
(* messages, letters and seconds.                                          *)
(***************************************************************************)
EXTENDS DeadLetter, FiniteSetTheorems, TLAPS

\* An open replay has a letter that exists, held or not.
TxHasLetter == \A o \in Operators : tx[o].step # "idle" => tx[o].letter \in Letters

\* Keys are distinct, also those of inserted rows that are not committed.
PendingKeysDistinct ==
    \A o \in Operators : tx[o].step = "inserted" =>
        /\ ~InUse(tx[o].key)
        /\ \A p \in Operators :
              tx[p].step = "inserted" /\ tx[p].key = tx[o].key => p = o

IInv == TypeOK /\ TxHasLetter /\ NothingLost /\ PendingKeysDistinct /\ ReplaysDistinct

USE DeadLetterAssumption

-----------------------------------------------------------------------------
(* Sequences.                                                              *)

LEMMA StatusType ==
    ASSUME outbox \in Seq(Message), NEW n \in Messages,
           NEW status \in {"pending", "sent", "failed", "suppressed", "purged"}
    PROVE  /\ SetStatus(n, status) \in Seq(Message)
           /\ DOMAIN SetStatus(n, status) = Messages
           /\ SetStatus(n, status)[n].status = status
           /\ \A m \in Messages : /\ SetStatus(n, status)[m].key = outbox[m].key
                                  /\ SetStatus(n, status)[m].from = outbox[m].from
                                  /\ m # n => SetStatus(n, status)[m] = outbox[m]
<1>1. \A m \in Messages : outbox[m] \in Message
  BY DEF Messages
<1>2. [outbox[n] EXCEPT !.status = status] \in Message
  BY <1>1 DEF Message
<1>3. SetStatus(n, status) = [outbox EXCEPT ![n] = [outbox[n] EXCEPT !.status = status]]
  BY DEF SetStatus
<1>4. SetStatus(n, status) \in Seq(Message) /\ DOMAIN SetStatus(n, status) = Messages
  BY <1>2, <1>3 DEF Messages
<1> QED
  BY <1>1, <1>3, <1>4 DEF Messages, Message

LEMMA AppendFacts ==
    ASSUME NEW S, NEW s \in Seq(S), NEW e \in S
    PROVE  /\ Append(s, e) \in Seq(S)
           /\ DOMAIN Append(s, e) = DOMAIN s \cup {Len(s) + 1}
           /\ \A i \in DOMAIN s : Append(s, e)[i] = s[i]
           /\ Append(s, e)[Len(s) + 1] = e
           /\ Len(s) + 1 \notin DOMAIN s
OBVIOUS

\* The rows have their types.
LEMMA RowTypes ==
    ASSUME TypeOK
    PROVE  /\ \A n \in Messages : n \in Nat /\ outbox[n] \in Message
           /\ \A l \in Letters : l \in Nat /\ letters[l] \in Letter
<1>1. outbox \in Seq(Message) /\ letters \in Seq(Letter)
  BY DEF TypeOK
<1> QED
  BY <1>1 DEF Messages, Letters

-----------------------------------------------------------------------------
LEMMA InitIInv == Init => IInv
<1> SUFFICES ASSUME Init
             PROVE  IInv
  OBVIOUS
<1>1. <<>> \in Key
  BY DEF Key
<1>2. TypeOK
  BY <1>1 DEF Init, TypeOK, Message, Letter, IdleTx
<1>3. TxHasLetter /\ PendingKeysDistinct
  BY DEF Init, TxHasLetter, PendingKeysDistinct, IdleTx
<1>4. NothingLost
  BY DEF Init, NothingLost, Letters
<1>5. ReplaysDistinct
  BY DEF Init, ReplaysDistinct, Messages
<1> QED
  BY <1>2, <1>3, <1>4, <1>5 DEF IInv

\* Steps that change the status of one message.
LEMMA StatusStep ==
    ASSUME IInv, NEW n \in Messages,
           NEW status \in {"pending", "sent", "failed", "suppressed", "purged"},
           outbox[n].status # "purged",
           outbox' = SetStatus(n, status),
           letters' \in Seq(Letter), Letters' = Letters,
           \A l \in Letters : letters'[l].held = letters[l].held,
           UNCHANGED <<second, tx, moved>>,
           extra' \subseteq {"letter", "retry", "replay"} \X Nat
    PROVE  IInv'
<1>1. /\ outbox' \in Seq(Message)
      /\ Messages' = Messages
      /\ \A m \in Messages : /\ outbox'[m].key = outbox[m].key
                             /\ outbox'[m].from = outbox[m].from
                             /\ outbox'[m].status # "purged" => outbox[m].status # "purged"
  BY StatusType DEF IInv, TypeOK, Messages
<1>2. TypeOK'
  BY <1>1 DEF IInv, TypeOK
<1>3. TxHasLetter'
  BY DEF IInv, TxHasLetter
<1>4. NothingLost'
  BY <1>1 DEF IInv, NothingLost
<1>5. PendingKeysDistinct' /\ ReplaysDistinct'
  BY <1>1 DEF IInv, PendingKeysDistinct, ReplaysDistinct, InUse
<1> QED
  BY <1>2, <1>3, <1>4, <1>5 DEF IInv

LEMMA InvariantStep == IInv /\ [Next]_vars => IInv'
<1> SUFFICES ASSUME IInv, [Next]_vars
             PROVE  IInv'
  OBVIOUS
<1> USE DEF IInv
<1>1. CASE NextSecond
  BY <1>1 DEF NextSecond, TypeOK, TxHasLetter, NothingLost, PendingKeysDistinct,
              ReplaysDistinct, InUse, Messages, Letters
<1>2. ASSUME NEW n \in Messages, NEW status \in {"sent", "failed", "suppressed"},
             Settle(n, status)
      PROVE  IInv'
  BY <1>2, StatusStep DEF Settle, TypeOK, Letters
<1>3. ASSUME NEW n \in Messages, RetryFailed(n)
      PROVE  IInv'
  <2>1. n \in Nat
    BY DEF TypeOK, Messages
  <2>2. extra' \subseteq {"letter", "retry", "replay"} \X Nat
    BY <1>3, <2>1 DEF RetryFailed, TypeOK
  <2> QED
    BY <1>3, <2>2, StatusStep DEF RetryFailed, TypeOK, Letters
<1>4. ASSUME NEW n \in Messages, Purge(n)
      PROVE  IInv'
  <2>1. \A l \in Letters : letters[l] \in Letter
    BY RowTypes
  <2>2. \A l \in Letters : [letters[l] EXCEPT !.of = 0] \in Letter
    BY <2>1 DEF Letter
  <2>3. letters' \in Seq(Letter) /\ Letters' = Letters
    BY <1>4, <2>1, <2>2 DEF Purge, TypeOK, Letters
  <2>4. \A l \in Letters : letters'[l].held = letters[l].held
    BY <1>4, <2>1 DEF Purge, Letter
  <2> QED
    BY <1>4, <2>3, <2>4, StatusStep DEF Purge, TypeOK
<1>5. ASSUME NEW n \in Messages, MoveToDeadLetter(n)
      PROVE  IInv'
  <2> DEFINE letter == [key |-> outbox[n].key, of |-> n, held |-> TRUE]
  <2>1. letter \in Letter /\ n \in Nat
    BY RowTypes DEF Message, Letter
  <2>2. letters' = Append(letters, letter)
    BY <1>5 DEF MoveToDeadLetter
  <2>3. letter.held
    OBVIOUS
  <2> HIDE DEF letter
  <2>4. /\ letters' \in Seq(Letter)
        /\ Letters' = Letters \cup {Len(letters) + 1}
        /\ \A l \in Letters : letters'[l] = letters[l]
        /\ letters'[Len(letters) + 1].held
    BY <2>1, <2>2, <2>3, AppendFacts DEF TypeOK, Letters
  <2>5. extra' \subseteq {"letter", "retry", "replay"} \X Nat
    BY <1>5 DEF MoveToDeadLetter, TypeOK
  <2>6. UNCHANGED <<second, outbox, tx>> /\ moved' = moved \cup {n}
    BY <1>5 DEF MoveToDeadLetter
  <2>7. TypeOK'
    BY <2>1, <2>4, <2>5, <2>6 DEF TypeOK
  <2>8. TxHasLetter' /\ NothingLost'
    BY <2>4, <2>6 DEF TxHasLetter, NothingLost, Messages
  <2>9. PendingKeysDistinct' /\ ReplaysDistinct'
    BY <2>6 DEF PendingKeysDistinct, ReplaysDistinct, InUse, Messages
  <2> QED
    BY <2>7, <2>8, <2>9
<1>6. ASSUME NEW o \in Operators, NEW l \in Letters, ReplayRead(o, l)
      PROVE  IInv'
  <2>1. l \in Nat /\ letters[l].key \in Key
    BY RowTypes DEF Letter
  <2>2. TypeOK'
    BY <1>6, <2>1 DEF ReplayRead, TypeOK
  <2>3. TxHasLetter' /\ NothingLost'
    BY <1>6 DEF ReplayRead, TypeOK, TxHasLetter, NothingLost, Messages, Letters
  <2>4. PendingKeysDistinct' /\ ReplaysDistinct'
    BY <1>6 DEF ReplayRead, TypeOK, PendingKeysDistinct, ReplaysDistinct, InUse, Messages
  <2> QED
    BY <2>2, <2>3, <2>4
<1>7. ASSUME NEW o \in Operators, ReplayInsert(o)
      PROVE  IInv'
  <2>1. ReplayKey(o) \in Key /\ tx[o].letter \in Nat
    BY DEF ReplayKey, Key, TypeOK
  <2>2. TypeOK'
    BY <1>7, <2>1 DEF ReplayInsert, TypeOK
  <2>3. TxHasLetter' /\ NothingLost'
    BY <1>7 DEF ReplayInsert, TypeOK, TxHasLetter, NothingLost, Messages, Letters
  <2>4. PendingKeysDistinct' /\ ReplaysDistinct'
    BY <1>7 DEF ReplayInsert, TypeOK, PendingKeysDistinct, ReplaysDistinct, InUse, Messages
  <2> QED
    BY <2>2, <2>3, <2>4
<1>8. ASSUME NEW o \in Operators, ReplayCommit(o)
      PROVE  IInv'
  <2> DEFINE message == [key |-> tx[o].key, status |-> "pending", from |-> tx[o].letter]
             gone == tx[o].letter
  <2>1. gone \in Letters /\ gone \in Nat
    BY <1>8 DEF ReplayCommit, TxHasLetter, TypeOK
  <2>2. message \in Message
    BY DEF TypeOK, Message
  <2>3. outbox' = Append(outbox, message)
    BY <1>8 DEF ReplayCommit, Replayed
  <2>4. message.from = gone /\ message.key = tx[o].key
    OBVIOUS
  <2> HIDE DEF message
  <2>5. /\ outbox' \in Seq(Message)
        /\ Messages' = Messages \cup {Len(outbox) + 1}
        /\ \A n \in Messages : outbox'[n] = outbox[n]
        /\ outbox'[Len(outbox) + 1] = message
        /\ Len(outbox) + 1 \in Nat
    BY <2>2, <2>3, AppendFacts DEF TypeOK, Messages
  <2>6. /\ letters' \in Seq(Letter)
        /\ Letters' = Letters
        /\ \A l \in Letters : l # gone => letters'[l] = letters[l]
    <3>1. [letters[gone] EXCEPT !.held = FALSE] \in Letter
      BY <2>1, RowTypes DEF Letter
    <3>2. letters' = [letters EXCEPT ![gone] = [letters[gone] EXCEPT !.held = FALSE]]
      BY <1>8 DEF ReplayCommit
    <3> QED
      BY <3>1, <3>2, <2>1 DEF TypeOK, Letters
  <2>7. /\ tx' = [tx EXCEPT ![o] = IdleTx]
        /\ UNCHANGED <<second, moved>>
    BY <1>8 DEF ReplayCommit
  <2>8. extra' \subseteq {"letter", "retry", "replay"} \X Nat
    BY <1>8, <2>5 DEF ReplayCommit, TypeOK
  <2>9. IdleTx \in [step : {"idle", "read", "inserted"}, letter : Nat, key : Key]
    BY DEF IdleTx, Key
  <2>10. TypeOK'
    BY <2>5, <2>6, <2>7, <2>8, <2>9 DEF TypeOK
  <2>11. TxHasLetter'
    BY <2>6, <2>7 DEF TxHasLetter, TypeOK, IdleTx
  <2>12. NothingLost'
    <3> SUFFICES ASSUME NEW l \in Letters
                 PROVE  letters'[l].held \/ \E n \in Messages' : outbox'[n].from = l
      BY <2>6 DEF NothingLost
    <3>1. CASE l = gone
      BY <3>1, <2>4, <2>5
    <3>2. CASE l # gone
      BY <3>2, <2>5, <2>6 DEF NothingLost
    <3> QED
      BY <3>1, <3>2
  <2>13. tx[o].step = "inserted" /\ ~InUse(tx[o].key)
    BY <1>8 DEF ReplayCommit, PendingKeysDistinct
  <2>14. ReplaysDistinct'
    BY <2>4, <2>5, <2>13 DEF ReplaysDistinct, InUse
  <2>15. PendingKeysDistinct'
    <3> SUFFICES ASSUME NEW p \in Operators, tx'[p].step = "inserted"
                 PROVE  /\ ~InUse(tx[p].key)'
                        /\ \A q \in Operators :
                              tx'[q].step = "inserted" /\ tx'[q].key = tx'[p].key => q = p
      BY DEF PendingKeysDistinct
    <3>1. p # o /\ tx'[p] = tx[p]
      BY <2>7 DEF TypeOK, IdleTx
    <3>2. ~InUse(tx[p].key) /\ tx[p].key # tx[o].key
      BY <3>1, <2>13 DEF PendingKeysDistinct
    <3>3. \A q \in Operators : tx'[q].step = "inserted" => tx'[q] = tx[q]
      BY <2>7 DEF TypeOK, IdleTx
    <3>4. ~InUse(tx[p].key)'
      BY <3>1, <3>2, <2>4, <2>5 DEF InUse
    <3> QED
      BY <3>1, <3>3, <3>4 DEF PendingKeysDistinct
  <2> QED
    BY <2>10, <2>11, <2>12, <2>14, <2>15
<1>9. ASSUME NEW o \in Operators, ReplayAbort(o)
      PROVE  IInv'
  <2>1. IdleTx \in [step : {"idle", "read", "inserted"}, letter : Nat, key : Key]
    BY DEF IdleTx, Key
  <2>2. TypeOK'
    BY <1>9, <2>1 DEF ReplayAbort, TypeOK
  <2>3. TxHasLetter' /\ NothingLost'
    BY <1>9 DEF ReplayAbort, TypeOK, TxHasLetter, NothingLost, Messages, Letters, IdleTx
  <2>4. PendingKeysDistinct' /\ ReplaysDistinct'
    BY <1>9 DEF ReplayAbort, TypeOK, PendingKeysDistinct, ReplaysDistinct, InUse, Messages,
                IdleTx
  <2> QED
    BY <2>2, <2>3, <2>4
<1>10. CASE UNCHANGED vars
  BY <1>10 DEF vars, TypeOK, TxHasLetter, NothingLost, PendingKeysDistinct, ReplaysDistinct,
               InUse, Messages, Letters
<1> QED
  BY <1>1, <1>2, <1>3, <1>4, <1>5, <1>6, <1>7, <1>8, <1>9, <1>10 DEF Next

\* Every variable of the dead-letter service keeps its type.
THEOREM DeadLetterTypeCorrect == Spec => []TypeOK
<1>1. IInv => TypeOK
  BY DEF IInv
<1> QED
  BY <1>1, InitIInv, InvariantStep, PTL DEF Spec

\* Purges, rollbacks and replays at the same time lose no dead letter
\* (dead_letter.py:60-63, 280-288).
THEOREM NoLetterIsLost == Spec => []NothingLost
<1>1. IInv => NothingLost
  BY DEF IInv
<1> QED
  BY <1>1, InitIInv, InvariantStep, PTL DEF Spec

\* No two messages in the outbox ever have one key, however replays overlap
\* (dead_letter.py:266-267).
THEOREM ReplayKeysAreDistinct == Spec => []ReplaysDistinct
<1>1. IInv => ReplaysDistinct
  BY DEF IInv
<1> QED
  BY <1>1, InitIInv, InvariantStep, PTL DEF Spec

-----------------------------------------------------------------------------
(* Copies.  CopiesAccounted is not inductive: a copied message that was put *)
(* back counts again, and may fail and be put back many times.  So the      *)
(* invariant leaves out such messages on one side and their excuse on the   *)
(* other.                                                                   *)

\* Copied messages that were put back.
Retried == {n \in Messages : <<"retry", n>> \in extra}

\* The messages that count as copies.
Waiting == {n \in Messages : outbox[n].status \in {"pending", "sent"}}
Neglected == {n \in Messages : outbox[n].status = "failed" /\ n \notin moved}
Live == Waiting \cup Neglected

Held == {l \in Letters : letters[l].held}

\* The excuses that are for letters and replays.
Others == {e \in extra : e[1] # "retry"}

\* Excuses name rows that exist, so that a new row has none yet.
ExcusesHaveRows ==
    /\ IsFiniteSet(extra)
    /\ moved \subseteq Messages
    /\ \A n \in Nat : <<"retry", n>> \in extra => n \in moved
    /\ \A l \in Nat : <<"letter", l>> \in extra => l \in Letters
    /\ \A n \in Nat : <<"replay", n>> \in extra => n \in Messages

\* A copied message is not in the queue again without an excuse.
MovedIsRetried ==
    \A n \in moved : outbox[n].status \in {"pending", "sent"} => n \in Retried

CopyCount == Cardinality(Live \ Retried) + Cardinality(Held) <= 1 + Cardinality(Others)

CopyInv == ExcusesHaveRows /\ MovedIsRetried /\ CopyCount

LEMMA FiniteRows ==
    ASSUME TypeOK
    PROVE  /\ IsFiniteSet(Messages) /\ IsFiniteSet(Letters)
           /\ Messages \subseteq Nat /\ Letters \subseteq Nat
<1>1. /\ Messages = 1..Len(outbox) /\ Len(outbox) \in Nat
      /\ Letters = 1..Len(letters) /\ Len(letters) \in Nat
  BY DEF TypeOK, Messages, Letters
<1>2. IsFiniteSet(1..Len(outbox)) /\ IsFiniteSet(1..Len(letters))
  BY <1>1, FS_Interval
<1> QED
  BY <1>1, <1>2

LEMMA FiniteCounts ==
    ASSUME TypeOK, ExcusesHaveRows
    PROVE  /\ IsFiniteSet(Live \ Retried) /\ Cardinality(Live \ Retried) \in Nat
           /\ IsFiniteSet(Held) /\ Cardinality(Held) \in Nat
           /\ IsFiniteSet(Others) /\ Cardinality(Others) \in Nat
<1>1. /\ Live \ Retried \subseteq Messages
      /\ Held \subseteq Letters
      /\ Others \subseteq extra
  BY DEF Live, Waiting, Neglected, Held, Others
<1>2. IsFiniteSet(Live \ Retried) /\ IsFiniteSet(Held) /\ IsFiniteSet(Others)
  BY <1>1, FiniteRows, FS_Subset DEF ExcusesHaveRows
<1> QED
  BY <1>2, FS_CardinalityType

\* Fewer messages and letters are no more copies.
LEMMA FewerCopies ==
    ASSUME TypeOK, TypeOK', CopyInv, ExcusesHaveRows', MovedIsRetried',
           (Live \ Retried)' \subseteq Live \ Retried,
           Held' \subseteq Held,
           Others' = Others
    PROVE  CopyInv'
<1>0. /\ IsFiniteSet(Live \ Retried) /\ Cardinality(Live \ Retried) \in Nat
      /\ IsFiniteSet(Held) /\ Cardinality(Held) \in Nat
      /\ Cardinality(Others) \in Nat
  BY FiniteCounts DEF CopyInv
<1>1. /\ IsFiniteSet((Live \ Retried)')
      /\ Cardinality((Live \ Retried)') <= Cardinality(Live \ Retried)
  BY <1>0, FS_Subset
<1>2. IsFiniteSet(Held') /\ Cardinality(Held') <= Cardinality(Held)
  BY <1>0, FS_Subset
<1>3. /\ Cardinality((Live \ Retried)') \in Nat /\ Cardinality(Held') \in Nat
      /\ Cardinality(Others') = Cardinality(Others)
  BY <1>1, <1>2, FS_CardinalityType
<1>4. CopyCount'
  BY <1>0, <1>1, <1>2, <1>3 DEF CopyInv, CopyCount
<1> QED
  BY <1>4 DEF CopyInv

LEMMA InitCopyInv == Init => CopyInv
<1> SUFFICES ASSUME Init
             PROVE  CopyInv
  OBVIOUS
<1>1. ExcusesHaveRows /\ MovedIsRetried
  BY FS_EmptySet DEF Init, ExcusesHaveRows, MovedIsRetried
<1>2. Live \ Retried = {1} /\ Held = {} /\ Others = {}
  BY DEF Init, Live, Waiting, Neglected, Retried, Messages, Held, Letters, Others
<1>3. /\ Cardinality(Live \ Retried) = 1
      /\ Cardinality(Held) = 0 /\ Cardinality(Others) = 0
  <2>1. Cardinality({1}) = 1 /\ Cardinality({}) = 0
    BY FS_EmptySet, FS_Singleton
  <2> QED
    BY <1>2, <2>1
<1>4. CopyCount
  BY <1>3 DEF CopyCount
<1> QED
  BY <1>1, <1>4 DEF CopyInv

LEMMA CopyStep == IInv /\ IInv' /\ CopyInv /\ [Next]_vars => CopyInv'
<1> SUFFICES ASSUME IInv, IInv', CopyInv, [Next]_vars
             PROVE  CopyInv'
  OBVIOUS
<1>t. TypeOK /\ TypeOK' /\ ExcusesHaveRows /\ MovedIsRetried /\ CopyCount
  BY DEF IInv, CopyInv
<1>f. /\ IsFiniteSet(Live \ Retried) /\ Cardinality(Live \ Retried) \in Nat
      /\ IsFiniteSet(Held) /\ Cardinality(Held) \in Nat
      /\ IsFiniteSet(Others) /\ Cardinality(Others) \in Nat
      /\ Messages \subseteq Nat /\ Letters \subseteq Nat
  BY <1>t, FiniteCounts, FiniteRows
<1>1. CASE NextSecond \/ (\E o \in Operators : \/ \E l \in Letters : ReplayRead(o, l)
                                               \/ ReplayInsert(o) \/ ReplayAbort(o))
           \/ UNCHANGED vars
  <2>1. UNCHANGED <<outbox, letters, moved, extra>>
    BY <1>1 DEF NextSecond, ReplayRead, ReplayInsert, ReplayAbort, vars
  <2> QED
    BY <2>1 DEF CopyInv, ExcusesHaveRows, MovedIsRetried, CopyCount, Live, Waiting, Neglected,
                Retried, Held, Others, Messages, Letters
<1>2. ASSUME NEW n \in Messages, NEW status \in {"sent", "failed", "suppressed"},
             Settle(n, status)
      PROVE  CopyInv'
  <2>1. UNCHANGED <<letters, moved, extra>> /\ outbox' = SetStatus(n, status)
    BY <1>2 DEF Settle
  <2>2. /\ Messages' = Messages
        /\ outbox'[n].status = status
        /\ outbox[n].status = "pending"
        /\ \A m \in Messages : m # n => outbox'[m] = outbox[m]
    BY <1>2, <1>t, <2>1, StatusType DEF TypeOK, Messages, Settle
  <2>3. ExcusesHaveRows'
    BY <1>t, <2>1, <2>2 DEF ExcusesHaveRows, Letters
  <2>4. Retried' = Retried /\ Held' = Held /\ Others' = Others
    BY <2>1, <2>2 DEF Retried, Held, Letters, Others
  <2>5. MovedIsRetried'
    BY <1>t, <2>1, <2>2, <2>4 DEF MovedIsRetried, ExcusesHaveRows
  <2>6. Live' \subseteq Live
    BY <2>1, <2>2 DEF Live, Waiting, Neglected
  <2> QED
    BY <1>t, <2>3, <2>4, <2>5, <2>6, FewerCopies
<1>3. ASSUME NEW n \in Messages, RetryFailed(n)
      PROVE  CopyInv'
  <2>1. /\ UNCHANGED <<letters, moved>>
        /\ outbox' = SetStatus(n, "pending")
        /\ extra' = extra \cup {k \in {<<"retry", n>>} : n \in moved}
    BY <1>3 DEF RetryFailed
  <2>2. /\ Messages' = Messages
        /\ outbox'[n].status = "pending"
        /\ outbox[n].status = "failed"
        /\ \A m \in Messages : m # n => outbox'[m] = outbox[m]
    BY <1>3, <1>t, <2>1, StatusType DEF TypeOK, Messages, RetryFailed
  <2>3. /\ extra \subseteq extra'
        /\ \A e \in extra' : e \in extra \/ (e = <<"retry", n>> /\ n \in moved)
        /\ n \in moved => <<"retry", n>> \in extra'
    BY <2>1
  <2>4. ExcusesHaveRows'
    <3>1. extra' = extra \/ extra' = extra \cup {<<"retry", n>>}
      BY <2>1
    <3>2. IsFiniteSet(extra')
      BY <1>t, <3>1, FS_AddElement DEF ExcusesHaveRows
    <3> QED
      BY <1>t, <2>1, <2>2, <2>3, <3>2 DEF ExcusesHaveRows, Letters
  <2>5. /\ Retried \subseteq Retried'
        /\ n \in moved => n \in Retried'
        /\ Held' = Held /\ Others' = Others
    BY <2>1, <2>2, <2>3 DEF Retried, Held, Letters, Others
  <2>6. MovedIsRetried'
    BY <1>t, <2>1, <2>2, <2>5 DEF MovedIsRetried, ExcusesHaveRows
  <2>7. (Live \ Retried)' \subseteq Live \ Retried
    BY <2>1, <2>2, <2>5 DEF Live, Waiting, Neglected
  <2> QED
    BY <1>t, <2>4, <2>5, <2>6, <2>7, FewerCopies
<1>4. ASSUME NEW n \in Messages, Purge(n)
      PROVE  CopyInv'
  <2>1. UNCHANGED <<moved, extra>> /\ outbox' = SetStatus(n, "purged")
    BY <1>4 DEF Purge
  <2>2. /\ Messages' = Messages
        /\ outbox'[n].status = "purged"
        /\ \A m \in Messages : m # n => outbox'[m] = outbox[m]
    BY <1>4, <1>t, <2>1, StatusType DEF TypeOK, Messages, Purge
  <2>3. Letters' = Letters /\ Held' = Held
    <3>1. \A l \in Letters : letters[l] \in Letter
      BY <1>t, RowTypes
    <3> QED
      BY <1>4, <3>1 DEF Purge, Letters, Held, Letter
  <2>4. ExcusesHaveRows'
    BY <1>t, <2>1, <2>2, <2>3 DEF ExcusesHaveRows
  <2>5. Retried' = Retried /\ Others' = Others
    BY <2>1, <2>2 DEF Retried, Others
  <2>6. MovedIsRetried'
    BY <1>t, <2>1, <2>2, <2>5 DEF MovedIsRetried, ExcusesHaveRows
  <2>7. Live' \subseteq Live
    BY <2>1, <2>2 DEF Live, Waiting, Neglected
  <2> QED
    BY <1>t, <2>3, <2>4, <2>5, <2>6, <2>7, FewerCopies
<1>5. ASSUME NEW n \in Messages, MoveToDeadLetter(n)
      PROVE  CopyInv'
  <2> DEFINE l == Len(letters) + 1
  <2>1. /\ UNCHANGED outbox
        /\ moved' = moved \cup {n}
        /\ extra' = extra \cup {k \in {<<"letter", l>>} : n \in moved}
        /\ outbox[n].status = "failed"
    BY <1>5 DEF MoveToDeadLetter
  <2>2. /\ Letters' = Letters \cup {l} /\ l \notin Letters /\ l \in Nat
        /\ \A k \in Letters : letters'[k] = letters[k]
        /\ letters'[l].held
    <3> DEFINE letter == [key |-> outbox[n].key, of |-> n, held |-> TRUE]
    <3>1. letter \in Letter /\ letter.held /\ letters \in Seq(Letter)
      BY <1>t, RowTypes DEF Message, Letter, TypeOK
    <3>2. letters' = Append(letters, letter)
      BY <1>5 DEF MoveToDeadLetter
    <3> HIDE DEF letter
    <3> QED
      BY <3>1, <3>2, AppendFacts DEF Letters
  <2> HIDE DEF l
  <2>3. Held' = Held \cup {l} /\ l \notin Held
    BY <2>2 DEF Held
  <2>4. Cardinality(Held') = Cardinality(Held) + 1
    BY <1>f, <2>3, FS_AddElement
  <2>5. /\ extra \subseteq extra'
        /\ \A e \in extra' : e \in extra \/ (e = <<"letter", l>> /\ n \in moved)
        /\ n \in moved => <<"letter", l>> \in extra'
    BY <2>1
  <2>6. ExcusesHaveRows'
    <3>1. extra' = extra \/ extra' = extra \cup {<<"letter", l>>}
      BY <2>1
    <3>2. IsFiniteSet(extra')
      BY <1>t, <3>1, FS_AddElement DEF ExcusesHaveRows
    <3> QED
      BY <1>t, <2>1, <2>2, <2>5, <3>2 DEF ExcusesHaveRows, Messages
  <2>7. Retried' = Retried
    BY <2>1, <2>5 DEF Retried, Messages
  <2>8. MovedIsRetried'
    BY <1>t, <2>1, <2>7 DEF MovedIsRetried
  <2>9. CopyCount'
    <3>1. CASE n \in moved
      <4>1. Live' \ Retried' = Live \ Retried
        BY <3>1, <2>1, <2>7 DEF Live, Waiting, Neglected, Messages
      <4>2. Others' = Others \cup {<<"letter", l>>} /\ <<"letter", l>> \notin Others
        BY <1>t, <3>1, <2>1, <2>2 DEF Others, ExcusesHaveRows
      <4>3. Cardinality(Others') = Cardinality(Others) + 1
        BY <1>f, <4>2, FS_AddElement
      <4> QED
        BY <1>t, <1>f, <2>4, <4>1, <4>3 DEF CopyCount
    <3>2. CASE n \notin moved
      <4>1. n \in Live \ Retried
        BY <1>t, <1>f, <3>2, <2>1 DEF Live, Neglected, Retried, ExcusesHaveRows
      <4>2. (Live \ Retried)' = (Live \ Retried) \ {n}
        BY <3>2, <2>1, <2>7 DEF Live, Waiting, Neglected, Messages
      <4>3. Cardinality((Live \ Retried)') = Cardinality(Live \ Retried) - 1
        BY <1>f, <4>1, <4>2, FS_RemoveElement
      <4>4. Others' = Others
        BY <3>2, <2>1 DEF Others
      <4> QED
        BY <1>t, <1>f, <2>4, <4>3, <4>4 DEF CopyCount
    <3> QED
      BY <3>1, <3>2
  <2> QED
    BY <2>6, <2>8, <2>9 DEF CopyInv
<1>6. ASSUME NEW o \in Operators, ReplayCommit(o)
      PROVE  CopyInv'
  <2> DEFINE n == Len(outbox) + 1
             gone == tx[o].letter
  <2>1. gone \in Letters
    BY <1>6 DEF ReplayCommit, IInv, TxHasLetter
  <2>2. /\ UNCHANGED moved
        /\ extra' = extra \cup {k \in {<<"replay", n>>} : ~letters[gone].held}
    BY <1>6 DEF ReplayCommit
  <2>3. /\ Messages' = Messages \cup {n} /\ n \notin Messages /\ n \in Nat
        /\ \A k \in Messages : outbox'[k] = outbox[k]
        /\ outbox'[n].status = "pending"
    <3> DEFINE message == [key |-> tx[o].key, status |-> "pending", from |-> tx[o].letter]
    <3>1. message \in Message /\ message.status = "pending" /\ outbox \in Seq(Message)
      BY <1>t DEF TypeOK, Message
    <3>2. outbox' = Append(outbox, message)
      BY <1>6 DEF ReplayCommit, Replayed
    <3> HIDE DEF message
    <3> QED
      BY <3>1, <3>2, AppendFacts DEF Messages
  <2>4. Letters' = Letters /\ Held' = Held \ {gone}
    <3>1. letters' = [letters EXCEPT ![gone] = [letters[gone] EXCEPT !.held = FALSE]]
      BY <1>6 DEF ReplayCommit
    <3>2. letters[gone] \in Letter /\ letters \in Seq(Letter)
      BY <1>t, <2>1, RowTypes DEF TypeOK
    <3>3. [letters[gone] EXCEPT !.held = FALSE].held = FALSE
      BY <3>2 DEF Letter
    <3> QED
      BY <2>1, <3>1, <3>2, <3>3 DEF Letters, Held
  <2> HIDE DEF n, gone
  <2>5. /\ extra \subseteq extra'
        /\ \A e \in extra' : e \in extra \/ e = <<"replay", n>>
    BY <2>2
  <2>6. ExcusesHaveRows'
    <3>1. extra' = extra \/ extra' = extra \cup {<<"replay", n>>}
      BY <2>2
    <3>2. IsFiniteSet(extra')
      BY <1>t, <3>1, FS_AddElement DEF ExcusesHaveRows
    <3> QED
      BY <1>t, <2>2, <2>3, <2>4, <2>5, <3>2 DEF ExcusesHaveRows
  <2>7. n \notin moved /\ Retried' = Retried
    BY <1>t, <2>3, <2>5 DEF Retried, ExcusesHaveRows
  <2>8. MovedIsRetried'
    BY <1>t, <2>2, <2>3, <2>7 DEF MovedIsRetried, ExcusesHaveRows
  <2>9. (Live \ Retried)' = (Live \ Retried) \cup {n} /\ n \notin Live \ Retried
    BY <2>2, <2>3, <2>7 DEF Live, Waiting, Neglected, Retried
  <2>10. Cardinality((Live \ Retried)') = Cardinality(Live \ Retried) + 1
    BY <1>f, <2>9, FS_AddElement
  <2>11. CopyCount'
    <3>1. CASE letters[gone].held
      <4>1. gone \in Held
        BY <2>1, <3>1 DEF Held
      <4>2. Cardinality(Held') = Cardinality(Held) - 1
        BY <1>f, <2>4, <4>1, FS_RemoveElement
      <4>3. Others' = Others
        BY <2>2, <3>1 DEF Others
      <4> QED
        BY <1>t, <1>f, <2>10, <4>2, <4>3 DEF CopyCount
    <3>2. CASE ~letters[gone].held
      <4>1. Held' = Held
        BY <2>4, <3>2 DEF Held
      <4>2. Others' = Others \cup {<<"replay", n>>} /\ <<"replay", n>> \notin Others
        BY <1>t, <3>2, <2>2, <2>3 DEF Others, ExcusesHaveRows
      <4>3. Cardinality(Others') = Cardinality(Others) + 1
        BY <1>f, <4>2, FS_AddElement
      <4> QED
        BY <1>t, <1>f, <2>10, <4>1, <4>3 DEF CopyCount
    <3> QED
      BY <3>1, <3>2
  <2> QED
    BY <2>6, <2>8, <2>11 DEF CopyInv
<1> QED
  BY <1>1, <1>2, <1>3, <1>4, <1>5, <1>6 DEF Next

\* What the invariant leaves out on both sides: a message that was put back has an
\* excuse of its own.
LEMMA CopyInvCounts == TypeOK /\ CopyInv => CopiesAccounted
<1> SUFFICES ASSUME TypeOK, CopyInv
             PROVE  CopiesAccounted
  OBVIOUS
<1> DEFINE Retries == {e \in extra : e[1] = "retry"}
<1>1. /\ IsFiniteSet(extra) /\ IsFiniteSet(Messages) /\ Messages \subseteq Nat
      /\ IsFiniteSet(Live \ Retried) /\ Cardinality(Live \ Retried) \in Nat
      /\ IsFiniteSet(Held) /\ Cardinality(Held) \in Nat
      /\ IsFiniteSet(Others) /\ Cardinality(Others) \in Nat
  BY FiniteCounts, FiniteRows DEF CopyInv, ExcusesHaveRows
<1>2. /\ IsFiniteSet(Waiting) /\ IsFiniteSet(Neglected) /\ IsFiniteSet(Live)
      /\ IsFiniteSet(Retries) /\ IsFiniteSet(Retried)
  <2>1. /\ Waiting \subseteq Messages /\ Neglected \subseteq Messages /\ Live \subseteq Messages
        /\ Retries \subseteq extra /\ Retried \subseteq Messages
    BY DEF Waiting, Neglected, Live, Retried
  <2> QED
    BY <1>1, <2>1, FS_Subset
<1>3. /\ Cardinality(Waiting) \in Nat /\ Cardinality(Neglected) \in Nat
      /\ Cardinality(Live) \in Nat /\ Cardinality(Retries) \in Nat
      /\ Cardinality(Retried) \in Nat /\ Cardinality(extra) \in Nat
      /\ Cardinality(Live \cap Retried) \in Nat
  <2>1. IsFiniteSet(Live \cap Retried)
    BY <1>2, FS_Intersection
  <2> QED
    BY <1>1, <1>2, <2>1, FS_CardinalityType
<1>4. Cardinality(Live) = Cardinality(Waiting) + Cardinality(Neglected)
  <2>1. Waiting \cap Neglected = {}
    BY DEF Waiting, Neglected
  <2>2. Cardinality(Waiting \cup Neglected)
          = Cardinality(Waiting) + Cardinality(Neglected) - Cardinality({})
    BY <1>2, <2>1, FS_Union
  <2> QED
    BY <1>3, <2>2, FS_EmptySet DEF Live
<1>5. Cardinality(Live \ Retried) = Cardinality(Live) - Cardinality(Live \cap Retried)
  BY <1>2, FS_Difference
<1>6. Cardinality(Live \cap Retried) <= Cardinality(Retried)
  BY <1>2, FS_Intersection
<1>7. Cardinality(Retried) <= Cardinality(Retries)
  <2> DEFINE f == [n \in Retried |-> <<"retry", n>>]
  <2>1. f \in Injection(Retried, Retries)
    BY DEF Injection, IsInjective, Retried
  <2> QED
    BY <1>2, <2>1, FS_Injection
<1>8. Cardinality(extra) = Cardinality(Retries) + Cardinality(Others)
  <2>1. Retries \cap Others = {} /\ Retries \cup Others = extra
    BY DEF Others
  <2>2. Cardinality(Retries \cup Others)
          = Cardinality(Retries) + Cardinality(Others) - Cardinality(Retries \cap Others)
    BY <1>1, <1>2, FS_Union
  <2>3. Cardinality(Retries \cap Others) = 0
    BY <2>1, FS_EmptySet
  <2>4. Cardinality(Retries \cup Others) = Cardinality(extra)
    BY <2>1
  <2> HIDE DEF Retries
  <2> QED
    BY <1>1, <1>3, <2>2, <2>3, <2>4
<1>9. Copies = Cardinality(Waiting) + Cardinality(Neglected) + Cardinality(Held)
  BY DEF Copies, Waiting, Neglected, Held
<1>10. Cardinality(Live \ Retried) + Cardinality(Held) <= 1 + Cardinality(Others)
  BY DEF CopyInv, CopyCount
<1> QED
  BY <1>1, <1>3, <1>4, <1>5, <1>6, <1>7, <1>8, <1>9, <1>10 DEF CopiesAccounted

\* The reminder exists once, but for copies that one of the three causes explains:
\* however letters, replays, retries by hand and purges interleave
\* (dead_letter.py:176-188, 255-288).
THEOREM CopiesAreAccounted == Spec => []CopiesAccounted
<1>1. IInv /\ CopyInv => CopiesAccounted
  BY CopyInvCounts DEF IInv
<1> QED
  BY <1>1, InitIInv, InvariantStep, InitCopyInv, CopyStep, PTL DEF Spec
=============================================================================
