------------------------------ MODULE MCBackup ------------------------------
(* Small instances of Backup for TLC.                                      *)
EXTENDS Backup, TLC

CONSTANTS j1, j2

TwoJobs == {j1, j2}

JobSymmetry == Permutations(TwoJobs)
=============================================================================
