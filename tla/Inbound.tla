------------------------------- MODULE Inbound -------------------------------
(***************************************************************************)
(* The texts of one parent: the inbound webhook stores them, the task      *)
(* process_inbound_message acts on them (workers/inbound.py).              *)
(*                                                                         *)
(* A task is one transaction, but the audit entry of a STOP or an          *)
(* EXTENSION is committed in a session of its own before it.  Tasks of     *)
(* different texts overlap; two tasks of one text do not, the second waits *)
(* at the UPDATE that sets processed_at.  The broker hands a text to       *)
(* another worker when its worker is lost (task_acks_late, task_reject_on_ *)
(* worker_lost), also when it was lost after the commit.  A task that      *)
(* raises is acknowledged: nothing in the code asks for a retry.           *)
(*                                                                         *)
(* Two links of the chain that the source leaves open are taken to work:   *)
(* the webhook's `async with get_db()', and the enqueueing of the stored   *)
(* text for workers/inbound.py.                                            *)
(***************************************************************************)
EXTENDS Integers

CONSTANTS
    Texts,          \* MessageSids
    Body,           \* [Texts -> what parse_intent sees of the body]
    NameLength,     \* characters of the school's name
    Owes,           \* whether the parent has an unpaid invoice
    Workers,
    MaxLosses       \* bound: workers lost

Intents == {"paid", "status", "call", "extension", "help", "stop", "start"}

\* exact: the intent one of whose patterns matches the whole body; contains: the
\* intents whose keyword occurs in it.
BodyShape == [exact : Intents \cup {"none"}, contains : SUBSET Intents]

ASSUME InboundAssumption ==
    /\ Texts # {}
    /\ Body \in [Texts -> BodyShape]
    /\ NameLength \in 1..255
    /\ Owes \in BOOLEAN
    /\ MaxLosses \in Nat

VARIABLES
    inbox,          \* texts with a row in inbound_messages
    queue,          \* queue[t]: task messages of t in the broker
    processed,      \* rows whose processed_at is set
    optIn,          \* sms_opt_in of the parent
    audits,         \* texts with an audit entry
    responses,      \* responses[t]: outbox rows inserted in answer to t
    tickets,        \* tickets[t]: hardship requests created for t
    step,           \* step[w]: "idle", "loaded" or "audited"
    text,           \* text[w]: the text of the task w runs or last ran
    seen,           \* seen[w]: sms_opt_in as that task loaded it
    raised,         \* ghost: texts a task of which ended in an exception
    crossed,        \* ghost: workers that loaded FALSE before a START set TRUE
    stopped,        \* ghost: a STOP that was not crossed is the last word
    losses          \* workers lost so far

consent == <<crossed, stopped>>

vars == <<inbox, queue, processed, optIn, audits, responses, tickets,
          step, text, seen, raised, consent, losses>>

committed == <<processed, optIn, responses, tickets>>

-----------------------------------------------------------------------------
(* parse_intent: an exact match, else the first intent, in the order of    *)
(* KEYWORD_PATTERNS, whose keyword occurs anywhere.                        *)

Precedence ==
    <<"paid", "status", "call", "extension", "help", "stop", "start">>

ParseIntent(body) ==
    IF body.exact # "none" THEN body.exact
    ELSE IF body.contains = {} THEN "unknown"
    ELSE LET first == CHOOSE i \in 1..7 :
                         /\ Precedence[i] \in body.contains
                         /\ \A j \in 1..(i - 1) : Precedence[j] \notin body.contains
         IN  Precedence[first]

Intent(t) == ParseIntent(Body[t])

-----------------------------------------------------------------------------
(* The answer.                                                             *)

\* Characters of a template without the school's name, which each has once.
TemplateLength ==
    [stop |-> 68, start |-> 54, help |-> 155, extension |-> 119]

\* The table of GSM-7 characters ends at its quotation mark, so that every one of
\* the four templates, by its punctuation, counts as one that needs Unicode.
Segments(length) == IF length <= 70 THEN 1 ELSE (length + 66) \div 67

\* render() raises above two segments; the balance of an invoice needs its student,
\* a lazy load that an asynchronous session refuses.
Answerable(intent) ==
    IF intent \in DOMAIN TemplateLength
    THEN Segments(TemplateLength[intent] + NameLength) <= 2
    ELSE intent = "status" => ~Owes

-----------------------------------------------------------------------------
TypeOK ==
    /\ inbox \subseteq Texts
    /\ queue \in [Texts -> Nat]
    /\ processed \subseteq Texts
    /\ optIn \in BOOLEAN
    /\ audits \subseteq Texts
    /\ responses \in [Texts -> Nat]
    /\ tickets \in [Texts -> Nat]
    /\ step \in [Workers -> {"idle", "loaded", "audited"}]
    /\ text \in [Workers -> Texts]
    /\ seen \in [Workers -> BOOLEAN]
    /\ raised \subseteq Texts
    /\ crossed \subseteq Workers
    /\ stopped \in BOOLEAN
    /\ losses \in Nat

Init ==
    /\ inbox = {}
    /\ queue = [t \in Texts |-> 0]
    /\ processed = {}
    /\ optIn = TRUE
    /\ audits = {}
    /\ responses = [t \in Texts |-> 0]
    /\ tickets = [t \in Texts |-> 0]
    /\ step = [w \in Workers |-> "idle"]
    /\ text = [w \in Workers |-> CHOOSE t \in Texts : TRUE]
    /\ seen = [w \in Workers |-> TRUE]
    /\ raised = {}
    /\ crossed = {}
    /\ stopped = FALSE
    /\ losses = 0

-----------------------------------------------------------------------------
(* The webhook.  A repeated SID violates the unique key and changes nothing*)

Store(t) ==
    /\ t \notin inbox
    /\ inbox' = inbox \cup {t}
    /\ queue' = [queue EXCEPT ![t] = @ + 1]
    /\ UNCHANGED <<committed, audits, step, text, seen, raised, consent, losses>>

-----------------------------------------------------------------------------
(* The task.                                                               *)

\* Mutant of Begin: a task runs for every stored text, queued or not.
BeginUnqueued(w, t) ==
    /\ step[w] = "idle"
    /\ t \in inbox
    /\ \A v \in Workers : step[v] # "idle" => text[v] # t
    /\ queue' = [queue EXCEPT ![t] = @ - 1]
    /\ step' = [step EXCEPT ![w] = "loaded"]
    /\ text' = [text EXCEPT ![w] = t]
    /\ seen' = [seen EXCEPT ![w] = optIn]
    /\ crossed' = crossed \ {w}
    /\ UNCHANGED <<inbox, committed, audits, raised, stopped, losses>>

\* The row, the intent, the flush of processed_at, then the guardian.
Begin(w, t) ==
    /\ step[w] = "idle"
    /\ queue[t] > 0
    /\ \A v \in Workers : step[v] # "idle" => text[v] # t
    /\ queue' = [queue EXCEPT ![t] = @ - 1]
    /\ step' = [step EXCEPT ![w] = "loaded"]
    /\ text' = [text EXCEPT ![w] = t]
    /\ seen' = [seen EXCEPT ![w] = optIn]
    /\ crossed' = crossed \ {w}
    /\ UNCHANGED <<inbox, committed, audits, raised, stopped, losses>>

Audited == {"stop", "extension"}

\* The standalone commit of log_audit_event.
Audit(w) ==
    /\ step[w] = "loaded"
    /\ Intent(text[w]) \in Audited
    /\ Answerable(Intent(text[w]))
    /\ step' = [step EXCEPT ![w] = "audited"]
    /\ audits' = audits \cup {text[w]}
    /\ UNCHANGED <<inbox, queue, committed, text, seen, raised, consent, losses>>

\* Mutant of OptInWritten: the guardian is written back as it was loaded.
OptInWrittenBack(w) ==
    IF Intent(text[w]) = "stop" THEN FALSE
    ELSE IF Intent(text[w]) = "start" THEN TRUE
    ELSE seen[w]

\* The UPDATE has sms_opt_in only if the task changed the value it loaded.
OptInWritten(w) ==
    IF Intent(text[w]) = "stop" /\ seen[w] THEN FALSE
    ELSE IF Intent(text[w]) = "start" /\ ~seen[w] THEN TRUE
    ELSE optIn

\* What the commit of w says of the parent's wish: a START that finds FALSE sets TRUE,
\* and crosses whoever has loaded FALSE.
Consent(w) ==
    LET optsIn == Intent(text[w]) = "start" /\ ~seen[w]
        optsOut == Intent(text[w]) = "stop" /\ w \notin crossed
    IN  /\ crossed' = IF optsIn THEN {v \in Workers : ~seen[v]} ELSE crossed
        /\ stopped' = (~optsIn /\ (optsOut \/ stopped))

\* An EXTENSION gets a ticket, also one that has one already.
CreateRequest(t) ==
    [tickets EXCEPT ![t] = IF Intent(t) = "extension" THEN @ + 1 ELSE @]

\* Mutant of Finish: the audit entry is not waited for.
FinishUnaudited(w) ==
    LET t == text[w]
    IN  /\ step[w] # "idle"
        /\ Answerable(Intent(t))
        /\ processed' = processed \cup {t}
        /\ optIn' = OptInWritten(w)
        /\ responses' = [responses EXCEPT ![t] = @ + 1]
        /\ tickets' = CreateRequest(t)
        /\ step' = [step EXCEPT ![w] = "idle"]
        /\ Consent(w)
        /\ UNCHANGED <<inbox, queue, audits, text, seen, raised, losses>>

Finish(w) ==
    LET t == text[w]
    IN  /\ step[w] = IF Intent(t) \in Audited THEN "audited" ELSE "loaded"
        /\ Answerable(Intent(t))
        /\ processed' = processed \cup {t}
        /\ optIn' = OptInWritten(w)
        /\ responses' = [responses EXCEPT ![t] = @ + 1]
        /\ tickets' = CreateRequest(t)
        /\ step' = [step EXCEPT ![w] = "idle"]
        /\ Consent(w)
        /\ UNCHANGED <<inbox, queue, audits, text, seen, raised, losses>>

\* Mutant of Raise: create_request commits the ticket it inserts.
RaiseTicketKept(w) ==
    /\ step[w] # "idle"
    /\ step' = [step EXCEPT ![w] = "idle"]
    /\ raised' = raised \cup {text[w]}
    /\ tickets' = CreateRequest(text[w])
    /\ UNCHANGED <<inbox, queue, processed, optIn, responses, audits, text, seen,
                   consent, losses>>

\* A template that does not fit, a refused lazy load, a database that fails.
Raise(w) ==
    /\ step[w] # "idle"
    /\ step' = [step EXCEPT ![w] = "idle"]
    /\ raised' = raised \cup {text[w]}
    /\ UNCHANGED <<inbox, queue, committed, audits, text, seen, consent, losses>>

-----------------------------------------------------------------------------
(* Lost workers.                                                           *)

\* Mutant of Lose: the task message was acknowledged when it was received.
LoseAcked(w) ==
    /\ step[w] # "idle"
    /\ losses < MaxLosses
    /\ losses' = losses + 1
    /\ step' = [step EXCEPT ![w] = "idle"]
    /\ UNCHANGED <<inbox, queue, committed, audits, text, seen, raised, consent>>

Lose(w) ==
    /\ step[w] # "idle"
    /\ losses < MaxLosses
    /\ losses' = losses + 1
    /\ step' = [step EXCEPT ![w] = "idle"]
    /\ queue' = [queue EXCEPT ![text[w]] = @ + 1]
    /\ UNCHANGED <<inbox, committed, audits, text, seen, raised, consent>>

\* Lost between the commit and the acknowledgement.
Redeliver(t) ==
    /\ t \in processed
    /\ losses < MaxLosses
    /\ losses' = losses + 1
    /\ queue' = [queue EXCEPT ![t] = @ + 1]
    /\ UNCHANGED <<inbox, committed, audits, step, text, seen, raised, consent>>

Work(w) ==
    \/ \E t \in Texts : Begin(w, t)
    \/ Audit(w)
    \/ Finish(w)
    \/ Raise(w)

Next ==
    \/ \E t \in Texts : Store(t) \/ Redeliver(t)
    \/ \E w \in Workers : Work(w) \/ Lose(w)

Spec == Init /\ [][Next]_vars

\* A worker takes tasks as long as there are any, and ends what it began.
FairSpec == Spec /\ \A w \in Workers : WF_vars(Work(w))

-----------------------------------------------------------------------------
(* Properties.                                                             *)

\* A parent whose STOP was confirmed is opted out until the commit of a START that
\* found them opted out, whatever other texts are processed at the same time, and
\* however often they are redelivered.  The one STOP that is lost loaded FALSE before
\* a START committed TRUE (workers/inbound.py:178-198).
StopStands == stopped => ~optIn

EffectsAreAudited ==
    \A t \in processed : Intent(t) \in Audited => t \in audits

EntriesAreExplained ==
    \A t \in audits :
        \/ t \in processed \cup raised
        \/ queue[t] > 0
        \/ \E w \in Workers : step[w] # "idle" /\ text[w] = t

\* Audit entries and effects match, although each is committed in a transaction of its
\* own (inbound.py:185-191, 255-261): an opt-out or a ticket in the database has its
\* entry, and an entry is of something that happened or, also when workers are lost,
\* is still to be tried; only a task that raised leaves an entry of nothing.
AuditsMatchEffects == EffectsAreAudited /\ EntriesAreExplained

\* A text is answered exactly when it was acted on: no ticket without its
\* acknowledgement, no confirmation without the opt-out (inbound.py:271-274).
AllOrNothing ==
    \A t \in Texts :
        /\ responses[t] > 0 <=> t \in processed
        /\ tickets[t] = IF Intent(t) = "extension" THEN responses[t] ELSE 0

\* prd/01-product-requirements.md:169: an EXTENSION ends in a ticket, also when
\* workers are lost, unless a task raised: then nobody tries again.
ExtensionDecided ==
    \A t \in Texts :
        t \in inbox /\ Intent(t) = "extension" ~> tickets[t] > 0 \/ t \in raised
=============================================================================
