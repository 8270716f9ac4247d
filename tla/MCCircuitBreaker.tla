-------------------------- MODULE MCCircuitBreaker --------------------------
(* Small instances of CircuitBreaker for TLC.                              *)
EXTENDS CircuitBreaker

CONSTANTS w1, w2, w3

ThreeWorkers == {w1, w2, w3}
=============================================================================
