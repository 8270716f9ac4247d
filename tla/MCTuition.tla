----------------------------- MODULE MCTuition ------------------------------
(* Small instances of Tuition for TLC.                                     *)
EXTENDS Tuition

CONSTANTS i1, p1, r1, r2

OneInvoice == {i1}
OnePayment == {p1}
OneOnOne == [p \in OnePayment |-> i1]
OneInstalment == [p \in OnePayment |-> 1]
OnTheDay == [due_today |-> 0]
TwoRuns == {r1, r2}
OneRun == {r1}
=============================================================================
