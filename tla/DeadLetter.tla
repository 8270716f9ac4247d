----------------------------- MODULE DeadLetter -----------------------------
(***************************************************************************)
(* The dead letters of one reminder (domain/dead_letter.py).               *)
(*                                                                         *)
(* A message that failed for good is copied into a letter; an operator     *)
(* replays a letter as a new message with a fresh retry budget and a key   *)
(* of its own.  Letter and message live in two tables:                     *)
(*                                                                         *)
(*   - nothing stops a failed message from being copied twice, or from     *)
(*     being put back by hand although it was copied;                      *)
(*   - a replay is a transaction (read, insert, delete) of its caller;     *)
(*     two replays may read the same letter before either deletes it.      *)
(*     Their keys end in the second of the replay: in the same second the  *)
(*     unique key makes the later one fail;                                *)
(*   - the retention purge deletes failed messages, never letters.         *)
(*                                                                         *)
(* The service has no caller: Operators are the staff it is written for.   *)
(* It is taken to be importable: as written it declares the table a second *)
(* time (domain/models.py has it too).                                     *)
(***************************************************************************)
EXTENDS Integers, Sequences, FiniteSets

CONSTANTS
    Operators,      \* callers of replay_from_dead_letter
    LastSecond,     \* bound: the clock
    MaxMessages,    \* bound: rows of the outbox
    MaxLetters      \* bound: letters

ASSUME DeadLetterAssumption ==
    /\ LastSecond \in Nat
    /\ MaxMessages \in Nat
    /\ MaxLetters \in Nat

VARIABLES
    second,         \* datetime.utcnow(), in seconds
    outbox,         \* outbox[n]: [key, status, from], the row with id n
    letters,        \* letters[l]: [key, of, held], the letter with id l
    tx,             \* tx[o]: [step, letter, key], a replay transaction
    moved,          \* ghost: the messages that were copied into a letter
    extra           \* ghost: copies beyond the one reminder, by kind and id

vars == <<second, outbox, letters, tx, moved, extra>>

-----------------------------------------------------------------------------
\* A replay key is the key of the letter and the second of the replay.
Key == Seq(0..LastSecond)

\* from: the letter a message replays, 0 for the reminder itself.
Message == [key : Key, from : Nat,
            status : {"pending", "sent", "failed", "suppressed", "purged"}]

\* of: original_message_id, 0 once the message is gone (ON DELETE SET NULL).
Letter == [key : Key, of : Nat, held : BOOLEAN]

IdleTx == [step |-> "idle", letter |-> 0, key |-> <<>>]

TypeOK ==
    /\ second \in 0..LastSecond
    /\ outbox \in Seq(Message)
    /\ letters \in Seq(Letter)
    /\ tx \in [Operators -> [step : {"idle", "read", "inserted"}, letter : Nat, key : Key]]
    /\ moved \in SUBSET Nat
    /\ extra \subseteq {"letter", "retry", "replay"} \X Nat

Init ==
    /\ second = 0
    /\ outbox = <<[key |-> <<>>, status |-> "pending", from |-> 0]>>
    /\ letters = <<>>
    /\ tx = [o \in Operators |-> IdleTx]
    /\ moved = {}
    /\ extra = {}

Messages == DOMAIN outbox
Letters == DOMAIN letters

\* The unique key of the table, which deleted rows do not hold.
InUse(key) == \E n \in Messages : outbox[n].status # "purged" /\ outbox[n].key = key

SetStatus(n, status) == [outbox EXCEPT ![n].status = status]

-----------------------------------------------------------------------------
(* The life of a message, as far as letters see it.                        *)

NextSecond ==
    /\ second < LastSecond
    /\ second' = second + 1
    /\ UNCHANGED <<outbox, letters, tx, moved, extra>>

\* The send worker, or the payment poll, is done with a message.
Settle(n, status) ==
    /\ outbox[n].status = "pending"
    /\ outbox' = SetStatus(n, status)
    /\ UNCHANGED <<second, letters, tx, moved, extra>>

\* transition_status(FAILED -> PENDING), by hand.
RetryFailed(n) ==
    /\ outbox[n].status = "failed"
    /\ outbox' = SetStatus(n, "pending")
    /\ extra' = extra \cup {k \in {<<"retry", n>>} : n \in moved}
    /\ UNCHANGED <<second, letters, tx, moved>>

\* Mutant of Purge: the foreign key of the letters cascades.
PurgeCascading(n) ==
    /\ outbox[n].status \in {"sent", "failed"}
    /\ outbox' = SetStatus(n, "purged")
    /\ letters' = [l \in Letters |->
          IF letters[l].of = n THEN [letters[l] EXCEPT !.held = FALSE] ELSE letters[l]]
    /\ UNCHANGED <<second, tx, moved, extra>>

\* The retention purge; the letters of the message lose their reference to it.
Purge(n) ==
    /\ outbox[n].status \in {"sent", "failed"}
    /\ outbox' = SetStatus(n, "purged")
    /\ letters' = [l \in Letters |->
          IF letters[l].of = n THEN [letters[l] EXCEPT !.of = 0] ELSE letters[l]]
    /\ UNCHANGED <<second, tx, moved, extra>>

-----------------------------------------------------------------------------
(* DeadLetterService.                                                      *)

\* Mutant of MoveToDeadLetter: the message gets a status that is not a MessageStatus.
MoveToDeadLetterMarking(n) ==
    /\ outbox[n].status = "failed"
    /\ Len(letters) < MaxLetters
    /\ letters' = Append(letters, [key |-> outbox[n].key, of |-> n, held |-> TRUE])
    /\ outbox' = SetStatus(n, "dead_letter")
    /\ moved' = moved \cup {n}
    /\ UNCHANGED <<second, tx, extra>>

\* move_to_dead_letter and the commit of its caller.  The message stays failed.
MoveToDeadLetter(n) ==
    /\ outbox[n].status = "failed"
    /\ Len(letters) < MaxLetters
    /\ letters' = Append(letters, [key |-> outbox[n].key, of |-> n, held |-> TRUE])
    /\ moved' = moved \cup {n}
    /\ extra' = extra \cup {k \in {<<"letter", Len(letters) + 1>>} : n \in moved}
    /\ UNCHANGED <<second, outbox, tx>>

\* replay_from_dead_letter: SELECT.
ReplayRead(o, l) ==
    /\ tx[o].step = "idle"
    /\ letters[l].held
    /\ Len(outbox) < MaxMessages
    /\ tx' = [tx EXCEPT ![o] = [step |-> "read", letter |-> l, key |-> letters[l].key]]
    /\ UNCHANGED <<second, outbox, letters, moved, extra>>

ReplayKey(o) == Append(tx[o].key, second)

\* Mutant of ReplayInsert: the key is not unique.
ReplayInsertAnyKey(o) ==
    /\ tx[o].step = "read"
    /\ tx' = [tx EXCEPT ![o] = [step |-> "inserted", letter |-> tx[o].letter,
                                key |-> ReplayKey(o)]]
    /\ UNCHANGED <<second, outbox, letters, moved, extra>>

\* INSERT and flush.  It waits for a transaction that inserted the same key; a
\* committed row with that key makes it fail (ReplayAbort).
ReplayInsert(o) ==
    /\ tx[o].step = "read"
    /\ ~InUse(ReplayKey(o))
    /\ \A p \in Operators : ~(tx[p].step = "inserted" /\ tx[p].key = ReplayKey(o))
    /\ tx' = [tx EXCEPT ![o] = [step |-> "inserted", letter |-> tx[o].letter,
                                key |-> ReplayKey(o)]]
    /\ UNCHANGED <<second, outbox, letters, moved, extra>>

Replayed(o) ==
    Append(outbox, [key |-> tx[o].key, status |-> "pending", from |-> tx[o].letter])

\* Mutant of ReplayCommit: the letter is not deleted.
ReplayCommitKeeping(o) ==
    /\ tx[o].step = "inserted"
    /\ Len(outbox) < MaxMessages
    /\ outbox' = Replayed(o)
    /\ tx' = [tx EXCEPT ![o] = IdleTx]
    /\ UNCHANGED <<second, letters, moved, extra>>

\* DELETE of the letter, which may be gone already, and COMMIT.
ReplayCommit(o) ==
    /\ tx[o].step = "inserted"
    /\ Len(outbox) < MaxMessages
    /\ outbox' = Replayed(o)
    /\ letters' = [letters EXCEPT ![tx[o].letter].held = FALSE]
    /\ extra' = extra \cup {k \in {<<"replay", Len(outbox) + 1>>} : ~letters[tx[o].letter].held}
    /\ tx' = [tx EXCEPT ![o] = IdleTx]
    /\ UNCHANGED <<second, moved>>

\* The unique key, the audit entry or the caller's commit fails: rollback.
ReplayAbort(o) ==
    /\ tx[o].step # "idle"
    /\ tx' = [tx EXCEPT ![o] = IdleTx]
    /\ UNCHANGED <<second, outbox, letters, moved, extra>>

-----------------------------------------------------------------------------
Next ==
    \/ NextSecond
    \/ \E n \in Messages :
          \/ \E status \in {"sent", "failed", "suppressed"} : Settle(n, status)
          \/ RetryFailed(n)
          \/ Purge(n)
          \/ MoveToDeadLetter(n)
    \/ \E o \in Operators :
          \/ \E l \in Letters : ReplayRead(o, l)
          \/ ReplayInsert(o)
          \/ ReplayCommit(o)
          \/ ReplayAbort(o)

Spec == Init /\ [][Next]_vars

-----------------------------------------------------------------------------
(* Properties.                                                             *)

\* A message that failed for good is not lost: a letter goes away only with a
\* replay in its place, whatever is purged or rolled back (dead_letter.py:60-63,
\* 280-288).
NothingLost ==
    \A l \in Letters : letters[l].held \/ \E n \in Messages : outbox[n].from = l

\* What a parent has got or may still get for the reminder: messages sent or
\* waiting, failed messages nobody took care of, and letters.
Copies ==
    Cardinality({n \in Messages : outbox[n].status \in {"pending", "sent"}})
    + Cardinality({n \in Messages : outbox[n].status = "failed" /\ n \notin moved})
    + Cardinality({l \in Letters : letters[l].held})

\* The reminder exists once, apart from copies of three kinds: a message copied
\* twice, a copied message that is put back, and two replays that read the same
\* letter before either deletes it (dead_letter.py:176-188, 255-288).
CopiesAccounted == Copies <= 1 + Cardinality(extra)

\* Two replays of a letter have different keys, so the delivery receipts and logs
\* of one are never taken for those of the other (dead_letter.py:266-267).
ReplaysDistinct ==
    \A m, n \in Messages :
        /\ outbox[m].status # "purged" /\ outbox[n].status # "purged"
        /\ outbox[m].key = outbox[n].key
        => m = n
=============================================================================
