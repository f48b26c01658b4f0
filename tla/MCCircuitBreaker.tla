-------------------------- MODULE MCCircuitBreaker --------------------------
(* Instances of CircuitBreaker for TLC.                                    *)
EXTENDS CircuitBreaker

CONSTANTS t1, t2, t3

MCThreads == {t1, t2, t3}
=============================================================================
