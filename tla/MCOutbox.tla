------------------------------ MODULE MCOutbox ------------------------------
(* Small instances of Outbox for TLC.                                      *)
EXTENDS Outbox, TLC

CONSTANTS m1, m2, w1, w2

TwoMsgs == {m1, m2}
TwoWorkers == {w1, w2}
OneMsg == {m1}
NoMsgs == {}
AllRepaired == Defects
AsWritten == {}

MessageSymmetry == Permutations(TwoMsgs) \cup Permutations(TwoWorkers)
=============================================================================
