-------------------------- MODULE AbstractBreaker --------------------------
(***************************************************************************)
(* What the repository promises of a circuit breaker: the four arrows of   *)
(* the state diagram "Circuit Breaker Pattern" (ARCHITECTURE.md, Diagram   *)
(* 9), with no callers, no lock and no clock.  CircuitBreaker.tla, which   *)
(* is translated from the code, is shown to implement it.                  *)
(***************************************************************************)
EXTENDS Naturals

CONSTANTS
  FailuresToOpen,    (* "5 failures"  : CLOSED -> OPEN                     *)
  SuccessesToClose   (* "3 successes" : HALF_OPEN -> CLOSED                *)

VARIABLES
  phase,       (* CLOSED, OPEN or HALF_OPEN                                *)
  failures,    (* consecutive failures seen while CLOSED                   *)
  successes,   (* successful probes since the breaker became HALF_OPEN     *)
  cooled       (* has the recovery timeout passed since it opened?         *)

vars == <<phase, failures, successes, cooled>>

Init ==
  /\ phase = "CLOSED"
  /\ failures = 0
  /\ successes = 0
  /\ cooled = FALSE

\* A success while CLOSED forgets the failures before it.
Success ==
  /\ phase = "CLOSED"
  /\ failures' = 0
  /\ UNCHANGED <<phase, successes, cooled>>

\* A failure while CLOSED counts; the FailuresToOpen-th in a row opens.
Failure ==
  /\ phase = "CLOSED"
  /\ \/ /\ failures + 1 < FailuresToOpen
        /\ failures' = failures + 1
        /\ UNCHANGED phase
     \/ /\ failures + 1 = FailuresToOpen
        /\ failures' = 0
        /\ phase' = "OPEN"
  /\ UNCHANGED <<successes, cooled>>

\* The recovery timeout passes.
Cool ==
  /\ phase = "OPEN"
  /\ cooled' = TRUE
  /\ UNCHANGED <<phase, failures, successes>>

\* The first call after the timeout makes the breaker HALF_OPEN.
Probe ==
  /\ phase = "OPEN"
  /\ cooled
  /\ phase' = "HALF_OPEN"
  /\ cooled' = FALSE
  /\ UNCHANGED <<failures, successes>>

\* The SuccessesToClose-th successful probe closes the breaker.
ProbeSuccess ==
  /\ phase = "HALF_OPEN"
  /\ \/ /\ successes + 1 < SuccessesToClose
        /\ successes' = successes + 1
        /\ UNCHANGED phase
     \/ /\ successes + 1 = SuccessesToClose
        /\ successes' = 0
        /\ phase' = "CLOSED"
  /\ UNCHANGED <<failures, cooled>>

\* One failed probe opens it again.
ProbeFailure ==
  /\ phase = "HALF_OPEN"
  /\ phase' = "OPEN"
  /\ successes' = 0
  /\ UNCHANGED <<failures, cooled>>

Next == Success \/ Failure \/ Cool \/ Probe \/ ProbeSuccess \/ ProbeFailure

Spec == Init /\ [][Next]_vars
=============================================================================
