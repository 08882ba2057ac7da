--------------------------- MODULE CircuitBreaker ---------------------------
(***************************************************************************)
(* One CircuitBreaker object of orchestrator/recovery.py, the coroutines   *)
(* that call through it, and the RetryHandler some of them put around the  *)
(* protected function.                                                     *)
(*                                                                         *)
(* call() holds an asyncio.Lock from before the state check until after    *)
(* the awaited function has returned or raised, back-off sleeps included,  *)
(* so the interesting interleavings are those of callers queueing for the  *)
(* lock, of time passing and of the protected service failing.             *)
(*                                                                         *)
(* Two data abstractions, both exact for the comparisons the code makes:   *)
(*  - last_failure_time is kept as the time since that failure, counted    *)
(*    up to RecoveryTimeout + 1 (the code only asks whether it is larger   *)
(*    than recovery_timeout);                                              *)
(*  - failure_count stops at FailureThreshold (the code only asks whether  *)
(*    it has reached failure_threshold).                                   *)
(***************************************************************************)
EXTENDS Integers, Sequences

CONSTANTS
  Callers,           (* coroutines that call through this breaker          *)
  FailureThreshold,  (* CircuitBreakerConfig.failure_threshold             *)
  RecoveryTimeout,   (* CircuitBreakerConfig.recovery_timeout              *)
  HalfOpenMaxCalls,  (* CircuitBreakerConfig.half_open_max_calls           *)
  MaxRetries,        (* RetryHandler.max_retries; 0 for a bare function    *)
  None               (* Python's None                                      *)

ASSUME BreakerAssumption ==
  /\ FailureThreshold \in Nat \ {0}
  /\ RecoveryTimeout  \in Nat
  /\ HalfOpenMaxCalls \in Nat \ {0}
  /\ MaxRetries       \in Nat
  /\ None \notin Callers \cup Nat

VARIABLES
  state,          (* self.state                                            *)
  failureCount,   (* self.failure_count, up to FailureThreshold            *)
  sinceFailure,   (* time since self.last_failure_time, or None            *)
  halfOpenCalls,  (* self.half_open_calls                                  *)
  lock,           (* the caller that holds self._lock, or None             *)
  waiters,        (* callers suspended in self._lock.acquire(), in order   *)
  pc,             (* where each caller is                                  *)
  attempt,        (* retry loop index of the call in progress              *)
  healthy         (* does the protected service answer at present?         *)

breakerVars == <<state, failureCount, sinceFailure, halfOpenCalls>>
lockVars    == <<lock, waiters, pc>>
vars        == <<breakerVars, lockVars, attempt, healthy>>

CircuitBreakerState == {"CLOSED", "OPEN", "HALF_OPEN"}
InFunction          == {"running", "backoff"}

Expired == RecoveryTimeout + 1

Init ==
  /\ state = "CLOSED"
  /\ failureCount = 0
  /\ sinceFailure = None
  /\ halfOpenCalls = 0
  /\ lock = None
  /\ waiters = << >>
  /\ pc = [c \in Callers |-> "idle"]
  /\ attempt = 0
  /\ healthy = TRUE

-----------------------------------------------------------------------------
(* The steps of CircuitBreaker.call                                        *)

\* Mutant: the lock is not waited for.
CallWithoutLock(c) ==
  /\ pc[c] = "idle"
  /\ lock' = c
  /\ pc' = [pc EXCEPT ![c] = "entering"]
  /\ UNCHANGED <<breakerVars, waiters, attempt, healthy>>

\* async with self._lock: taken at once when it is free, else queue.
Call(c) ==
  /\ pc[c] = "idle"
  /\ \/ /\ lock = None
        /\ lock' = c
        /\ pc' = [pc EXCEPT ![c] = "entering"]
        /\ UNCHANGED waiters
     \/ /\ lock # None
        /\ waiters' = Append(waiters, c)
        /\ pc' = [pc EXCEPT ![c] = "waiting"]
        /\ UNCHANGED lock
  /\ UNCHANGED <<breakerVars, attempt, healthy>>

\* Leaving the async with block hands the lock to the longest waiter.
Release(c) ==
  \/ /\ waiters = << >>
     /\ lock' = None
     /\ pc' = [pc EXCEPT ![c] = "idle"]
     /\ UNCHANGED waiters
  \/ /\ waiters # << >>
     /\ lock' = Head(waiters)
     /\ waiters' = Tail(waiters)
     /\ pc' = [pc EXCEPT ![c] = "idle", ![Head(waiters)] = "entering"]

\* Mutant: >= for > in the comparison with recovery_timeout.
ShouldAttemptRecoveryEarly == sinceFailure = None \/ sinceFailure >= RecoveryTimeout

ShouldAttemptRecovery == sinceFailure = None \/ sinceFailure > RecoveryTimeout

\* CLOSED or HALF_OPEN: the protected function starts.
Admit(c) ==
  /\ pc[c] = "entering"
  /\ state # "OPEN"
  /\ pc' = [pc EXCEPT ![c] = "running"]
  /\ attempt' = 0
  /\ UNCHANGED <<breakerVars, lock, waiters, healthy>>

\* OPEN, and the recovery timeout has passed: this call is the first probe.
AttemptRecovery(c) ==
  /\ pc[c] = "entering"
  /\ state = "OPEN"
  /\ ShouldAttemptRecovery
  /\ state' = "HALF_OPEN"
  /\ halfOpenCalls' = 0
  /\ pc' = [pc EXCEPT ![c] = "running"]
  /\ attempt' = 0
  /\ UNCHANGED <<failureCount, sinceFailure, lock, waiters, healthy>>

\* Mutant: the rejection leaves the lock held.
RejectKeepsLock(c) ==
  /\ pc[c] = "entering"
  /\ state = "OPEN"
  /\ ~ShouldAttemptRecovery
  /\ pc' = [pc EXCEPT ![c] = "idle"]
  /\ UNCHANGED <<breakerVars, lock, waiters, attempt, healthy>>

\* OPEN, too early: CircuitBreakerOpenError, which is not a failure.
Reject(c) ==
  /\ pc[c] = "entering"
  /\ state = "OPEN"
  /\ ~ShouldAttemptRecovery
  /\ Release(c)
  /\ UNCHANGED <<breakerVars, attempt, healthy>>

Reset ==
  /\ state' = "CLOSED"
  /\ failureCount' = 0
  /\ sinceFailure' = None
  /\ halfOpenCalls' = 0

\* Mutant: a successful probe is not counted.
RecordSuccessUncounted ==
  \/ /\ state = "HALF_OPEN"
     /\ UNCHANGED breakerVars
  \/ /\ state # "HALF_OPEN"
     /\ Reset

\* The function returned.
RecordSuccess ==
  \/ /\ state = "HALF_OPEN"
     /\ halfOpenCalls + 1 >= HalfOpenMaxCalls
     /\ Reset
  \/ /\ state = "HALF_OPEN"
     /\ halfOpenCalls + 1 < HalfOpenMaxCalls
     /\ halfOpenCalls' = halfOpenCalls + 1
     /\ UNCHANGED <<state, failureCount, sinceFailure>>
  \/ /\ state # "HALF_OPEN"
     /\ Reset

\* The function raised.  failure_count was not cleared when the breaker
\* became HALF_OPEN, so there one failure reaches the threshold again.
RecordFailure ==
  /\ failureCount' = IF failureCount < FailureThreshold
                       THEN failureCount + 1 ELSE failureCount
  /\ sinceFailure' = 0
  /\ state' = IF failureCount' >= FailureThreshold THEN "OPEN" ELSE state
  /\ UNCHANGED halfOpenCalls

Succeed(c) ==
  /\ pc[c] = "running"
  /\ healthy
  /\ RecordSuccess
  /\ Release(c)
  /\ UNCHANGED <<attempt, healthy>>

\* The last attempt failed: the exception reaches call().
Fail(c) ==
  /\ pc[c] = "running"
  /\ ~healthy
  /\ attempt = MaxRetries
  /\ RecordFailure
  /\ Release(c)
  /\ UNCHANGED <<attempt, healthy>>

-----------------------------------------------------------------------------
(* RetryHandler.execute_with_retry, run with the lock held                 *)

\* An attempt failed and others are left: sleep.
BackOff(c) ==
  /\ pc[c] = "running"
  /\ ~healthy
  /\ attempt < MaxRetries
  /\ pc' = [pc EXCEPT ![c] = "backoff"]
  /\ UNCHANGED <<breakerVars, lock, waiters, attempt, healthy>>

Retry(c) ==
  /\ pc[c] = "backoff"
  /\ pc' = [pc EXCEPT ![c] = "running"]
  /\ attempt' = attempt + 1
  /\ UNCHANGED <<breakerVars, lock, waiters, healthy>>

-----------------------------------------------------------------------------
(* The environment                                                         *)

Tick ==
  /\ sinceFailure # None
  /\ sinceFailure < Expired
  /\ sinceFailure' = sinceFailure + 1
  /\ UNCHANGED <<state, failureCount, halfOpenCalls, lockVars, attempt, healthy>>

ServiceChanges ==
  /\ healthy' = ~healthy
  /\ UNCHANGED <<breakerVars, lockVars, attempt>>

\* The steps the event loop takes for the caller that holds the lock.
Progress(c) ==
  \/ Admit(c) \/ AttemptRecovery(c) \/ Reject(c)
  \/ Succeed(c) \/ Fail(c) \/ BackOff(c) \/ Retry(c)

Next ==
  \/ \E c \in Callers : Call(c) \/ Progress(c)
  \/ Tick
  \/ ServiceChanges

\* The event loop runs every ready coroutine, sleeps end and time passes.  A
\* protected call answers or raises: it is assumed of Jira and Neo4j, whose
\* clients set no timeout.  Nobody is obliged to call.
Fairness ==
  /\ \A c \in Callers : WF_vars(Progress(c))
  /\ WF_vars(Tick)

Spec     == Init /\ [][Next]_vars
FairSpec == Spec /\ Fairness

-----------------------------------------------------------------------------
(* Properties                                                              *)

\* Types, and the thresholds that bound the counters.
TypeOK ==
  /\ state \in CircuitBreakerState
  /\ failureCount \in 0..FailureThreshold
  /\ sinceFailure \in (0..Expired) \cup {None}
  /\ halfOpenCalls \in 0..(HalfOpenMaxCalls - 1)
  /\ lock \in Callers \cup {None}
  /\ waiters \in Seq(Callers)
  /\ pc \in [Callers -> {"idle", "waiting", "entering"} \cup InFunction]
  /\ attempt \in 0..MaxRetries
  /\ healthy \in BOOLEAN

\* The protected function runs for at most one caller at a time, and never
\* while the breaker is OPEN: no caller slips in between the state check
\* and the recording of another call's failure.
NoCallWhileOpen ==
  \A c \in Callers : pc[c] \in InFunction => lock = c /\ state # "OPEN"

\* A breaker that is not CLOSED has its failure count at the threshold and
\* knows when it failed last.  It is what makes one failed probe open it
\* again, and what makes "last_failure_time is None" unreachable when OPEN.
TrippedAtThreshold ==
  state # "CLOSED" <=> failureCount = FailureThreshold

KnowsLastFailure ==
  failureCount > 0 <=> sinceFailure # None

\* Diagram 9 of ARCHITECTURE.md.
Diagram9 == INSTANCE AbstractBreaker WITH
  FailuresToOpen   <- FailureThreshold,
  SuccessesToClose <- HalfOpenMaxCalls,
  phase     <- state,
  failures  <- IF state = "CLOSED" THEN failureCount ELSE 0,
  successes <- IF state = "HALF_OPEN" THEN halfOpenCalls ELSE 0,
  cooled    <- state = "OPEN" /\ sinceFailure = Expired

\* The lock, the queue, the clock and the retry loop together do what the
\* diagram says and nothing else.
ImplementsDiagram9 == Diagram9!Spec

\* No caller is starved: whoever asks for the lock gets an answer, although
\* the lock is held across back-off sleeps.
EveryCallReturns ==
  \A c \in Callers : pc[c] # "idle" ~> pc[c] = "idle"

\* If the service stays up and calls keep arriving, the breaker ends CLOSED
\* for good: no sequence of probes leaves it stuck OPEN or HALF_OPEN.
ClosesAfterRecovery ==
  (<>[]healthy /\ []<>(\E c \in Callers : pc[c] # "idle"))
     => <>[](state = "CLOSED")
=============================================================================
