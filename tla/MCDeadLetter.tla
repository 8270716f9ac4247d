---------------------------- MODULE MCDeadLetter ----------------------------
(* Small instances of DeadLetter for TLC.                                  *)
EXTENDS DeadLetter, TLC

CONSTANTS o1, o2

TwoOperators == {o1, o2}

OperatorSymmetry == Permutations(TwoOperators)
=============================================================================
