-------------------------- MODULE MCCircuitBreaker --------------------------
(***************************************************************************)
(* TLC instance of CircuitBreaker.  The constants are given in the .cfg    *)
(* file: the thresholds of recovery.py, and three callers, so that two can *)
(* be queued behind the one that holds the lock.                           *)
(***************************************************************************)
EXTENDS CircuitBreaker
=============================================================================
