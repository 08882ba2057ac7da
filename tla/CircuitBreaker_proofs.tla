----------------------- MODULE CircuitBreaker_proofs -----------------------
(***************************************************************************)
(* Proofs about CircuitBreaker.tla, for any set of callers and any values  *)
(* of the thresholds: the safety invariants of the runs, that the breaker  *)
(* implements the state diagram of AbstractBreaker.tla, how long a caller  *)
(* waits, and the way back to CLOSED.                                      *)
(***************************************************************************)
EXTENDS CircuitBreaker, TLAPS

\* Who is inside the async with block holds the lock, and the other way
\* round.
LockHeldInside ==
  \A c \in Callers : pc[c] \in {"entering"} \cup InFunction <=> lock = c

\* The queue holds waiting callers, each once.
QueueOfWaiters ==
  /\ \A i \in 1..Len(waiters) : pc[waiters[i]] = "waiting"
  /\ \A i, j \in 1..Len(waiters) : waiters[i] = waiters[j] => i = j

\* The retry loop sleeps only when it has an attempt left.
SleepsWithAttemptsLeft ==
  \A c \in Callers : pc[c] = "backoff" => attempt < MaxRetries

\* The function runs only after the state check let it.
AdmittedNotOpen ==
  \A c \in Callers : pc[c] \in InFunction => state # "OPEN"

IInv ==
  /\ TypeOK
  /\ LockHeldInside
  /\ QueueOfWaiters
  /\ SleepsWithAttemptsLeft
  /\ AdmittedNotOpen
  /\ TrippedAtThreshold
  /\ KnowsLastFailure

-----------------------------------------------------------------------------
\* What handing over the lock does to the lock's own variables: they stay
\* well typed, the holder is again the only caller inside, the queue holds
\* waiting callers only, and nobody is in the function after it.
LEMMA ReleaseHandsOver ==
  ASSUME TypeOK, LockHeldInside, QueueOfWaiters,
         NEW c \in Callers, lock = c, Release(c)
  PROVE  /\ lock' \in Callers \cup {None}
         /\ waiters' \in Seq(Callers)
         /\ pc' \in [Callers -> {"idle", "waiting", "entering"} \cup InFunction]
         /\ LockHeldInside'
         /\ QueueOfWaiters'
         /\ \A d \in Callers : pc'[d] \notin InFunction
<1> USE BreakerAssumption DEF TypeOK, LockHeldInside, QueueOfWaiters, InFunction
<1>1. CASE waiters = << >> /\ lock' = None /\ pc' = [pc EXCEPT ![c] = "idle"]
           /\ UNCHANGED waiters
  BY <1>1
<1>2. CASE /\ waiters # << >>
           /\ lock' = Head(waiters)
           /\ waiters' = Tail(waiters)
           /\ pc' = [pc EXCEPT ![c] = "idle", ![Head(waiters)] = "entering"]
  <2> DEFINE h == Head(waiters)
  <2>1. /\ h \in Callers /\ h = waiters[1] /\ 1 \in 1..Len(waiters)
        /\ waiters' \in Seq(Callers)
        /\ Len(waiters') = Len(waiters) - 1
        /\ \A i \in 1..Len(waiters') : waiters'[i] = waiters[i + 1]
    BY <1>2
  <2>2. pc[h] = "waiting" /\ h # c
    BY <2>1
  <2>3. LockHeldInside'
    BY <1>2, <2>1, <2>2
  <2>4. QueueOfWaiters'
    <3>1. \A i \in 1..Len(waiters') :
             /\ i + 1 \in 1..Len(waiters)
             /\ waiters'[i] \in Callers
             /\ waiters'[i] # h
             /\ waiters'[i] # c
      BY <2>1, <2>2
    <3>2. \A i \in 1..Len(waiters') : pc'[waiters'[i]] = "waiting"
      BY <1>2, <2>1, <3>1
    <3>3. \A i, j \in 1..Len(waiters') : waiters'[i] = waiters'[j] => i = j
      BY <2>1, <3>1
    <3>4. QED BY <3>2, <3>3
  <2>5. QED
    BY <1>2, <2>1, <2>2, <2>3, <2>4
<1>3. QED BY <1>1, <1>2 DEF Release

\* RecordSuccess and RecordFailure keep the breaker's counters consistent
\* with its state when the state is not OPEN.
LEMMA SuccessKeepsCounters ==
  ASSUME TypeOK, TrippedAtThreshold, KnowsLastFailure, RecordSuccess
  PROVE  /\ state' \in CircuitBreakerState
         /\ failureCount' \in 0..FailureThreshold
         /\ sinceFailure' \in (0..Expired) \cup {None}
         /\ halfOpenCalls' \in 0..(HalfOpenMaxCalls - 1)
         /\ TrippedAtThreshold'
         /\ KnowsLastFailure'
BY BreakerAssumption
   DEF TypeOK, TrippedAtThreshold, KnowsLastFailure, RecordSuccess, Reset,
       CircuitBreakerState, Expired

LEMMA FailureKeepsCounters ==
  ASSUME TypeOK, TrippedAtThreshold, KnowsLastFailure, RecordFailure
  PROVE  /\ state' \in CircuitBreakerState
         /\ failureCount' \in 0..FailureThreshold
         /\ sinceFailure' \in (0..Expired) \cup {None}
         /\ halfOpenCalls' \in 0..(HalfOpenMaxCalls - 1)
         /\ TrippedAtThreshold'
         /\ KnowsLastFailure'
BY BreakerAssumption
   DEF TypeOK, TrippedAtThreshold, KnowsLastFailure, RecordFailure,
       CircuitBreakerState, Expired

LEMMA InitInv == Init => IInv
BY BreakerAssumption
   DEF Init, IInv, TypeOK, LockHeldInside, QueueOfWaiters,
       SleepsWithAttemptsLeft, AdmittedNotOpen, TrippedAtThreshold,
       KnowsLastFailure, CircuitBreakerState, InFunction, Expired

\* The invariant is inductive.
LEMMA NextInv == IInv /\ [Next]_vars => IInv'
<1> SUFFICES ASSUME IInv, [Next]_vars PROVE IInv'
  OBVIOUS
<1> USE BreakerAssumption DEF IInv, breakerVars, lockVars
<1>1. ASSUME NEW c \in Callers, Call(c) PROVE IInv'
  <2>1. CASE lock = None /\ lock' = c /\ pc' = [pc EXCEPT ![c] = "entering"]
             /\ UNCHANGED waiters
    BY <1>1, <2>1 DEF Call, TypeOK, LockHeldInside, QueueOfWaiters,
       SleepsWithAttemptsLeft, AdmittedNotOpen, TrippedAtThreshold,
       KnowsLastFailure, InFunction
  <2>2. CASE lock # None /\ waiters' = Append(waiters, c)
             /\ pc' = [pc EXCEPT ![c] = "waiting"] /\ UNCHANGED lock
    <3>1. /\ waiters' \in Seq(Callers)
          /\ Len(waiters') = Len(waiters) + 1
          /\ waiters'[Len(waiters) + 1] = c
          /\ \A i \in 1..Len(waiters) : waiters'[i] = waiters[i]
      BY <2>2 DEF TypeOK
    <3>2. \A i \in 1..Len(waiters) : waiters[i] \in Callers /\ waiters[i] # c
      BY <1>1 DEF TypeOK, QueueOfWaiters, Call
    <3>3. QueueOfWaiters'
      <4>1. \A i \in 1..Len(waiters') : pc'[waiters'[i]] = "waiting"
        BY <2>2, <3>1, <3>2 DEF TypeOK, QueueOfWaiters
      <4>2. \A i, j \in 1..Len(waiters') : waiters'[i] = waiters'[j] => i = j
        BY <3>1, <3>2 DEF TypeOK, QueueOfWaiters
      <4>3. QED BY <4>1, <4>2 DEF QueueOfWaiters
    <3>4. QED
      BY <1>1, <2>2, <3>1, <3>3 DEF Call, TypeOK, LockHeldInside,
         SleepsWithAttemptsLeft, AdmittedNotOpen, TrippedAtThreshold,
         KnowsLastFailure, InFunction
  <2>3. QED BY <1>1, <2>1, <2>2 DEF Call
<1>2. ASSUME NEW c \in Callers, Admit(c) PROVE IInv'
  BY <1>2 DEF Admit, TypeOK, LockHeldInside, QueueOfWaiters,
     SleepsWithAttemptsLeft, AdmittedNotOpen, TrippedAtThreshold,
     KnowsLastFailure, InFunction
<1>3. ASSUME NEW c \in Callers, AttemptRecovery(c) PROVE IInv'
  BY <1>3 DEF AttemptRecovery, TypeOK, LockHeldInside, QueueOfWaiters,
     SleepsWithAttemptsLeft, AdmittedNotOpen, TrippedAtThreshold,
     KnowsLastFailure, InFunction, CircuitBreakerState
<1>4. ASSUME NEW c \in Callers, Reject(c) PROVE IInv'
  <2>1. lock = c
    BY <1>4 DEF Reject, LockHeldInside
  <2>2. Release(c)
    BY <1>4 DEF Reject
  <2>3. QED
    BY <1>4, <2>1, <2>2, ReleaseHandsOver DEF Reject, TypeOK,
       SleepsWithAttemptsLeft, AdmittedNotOpen, TrippedAtThreshold,
       KnowsLastFailure, InFunction
<1>5. ASSUME NEW c \in Callers, Succeed(c) PROVE IInv'
  <2>1. lock = c
    BY <1>5 DEF Succeed, LockHeldInside, InFunction
  <2>2. Release(c) /\ RecordSuccess /\ UNCHANGED <<attempt, healthy>>
    BY <1>5 DEF Succeed
  <2>3. QED
    BY <2>1, <2>2, ReleaseHandsOver, SuccessKeepsCounters DEF TypeOK,
       SleepsWithAttemptsLeft, AdmittedNotOpen, InFunction
<1>6. ASSUME NEW c \in Callers, Fail(c) PROVE IInv'
  <2>1. lock = c
    BY <1>6 DEF Fail, LockHeldInside, InFunction
  <2>2. Release(c) /\ RecordFailure /\ UNCHANGED <<attempt, healthy>>
    BY <1>6 DEF Fail
  <2>3. QED
    BY <2>1, <2>2, ReleaseHandsOver, FailureKeepsCounters DEF TypeOK,
       SleepsWithAttemptsLeft, AdmittedNotOpen, InFunction
<1>7. ASSUME NEW c \in Callers, BackOff(c) PROVE IInv'
  BY <1>7 DEF BackOff, TypeOK, LockHeldInside, QueueOfWaiters,
     SleepsWithAttemptsLeft, AdmittedNotOpen, TrippedAtThreshold,
     KnowsLastFailure, InFunction
<1>8. ASSUME NEW c \in Callers, Retry(c) PROVE IInv'
  <2>1. \A d \in Callers : pc[d] = "backoff" => d = c
    BY <1>8 DEF Retry, LockHeldInside, InFunction
  <2>2. QED
    BY <1>8, <2>1 DEF Retry, TypeOK, LockHeldInside, QueueOfWaiters,
       SleepsWithAttemptsLeft, AdmittedNotOpen, TrippedAtThreshold,
       KnowsLastFailure, InFunction
<1>9. ASSUME Tick PROVE IInv'
  BY <1>9 DEF Tick, TypeOK, LockHeldInside, QueueOfWaiters,
     SleepsWithAttemptsLeft, AdmittedNotOpen, TrippedAtThreshold,
     KnowsLastFailure, InFunction, Expired
<1>10. ASSUME ServiceChanges PROVE IInv'
  BY <1>10 DEF ServiceChanges, TypeOK, LockHeldInside, QueueOfWaiters,
     SleepsWithAttemptsLeft, AdmittedNotOpen, TrippedAtThreshold,
     KnowsLastFailure, InFunction
<1>11. CASE UNCHANGED vars
  BY <1>11 DEF vars, TypeOK, LockHeldInside, QueueOfWaiters,
     SleepsWithAttemptsLeft, AdmittedNotOpen, TrippedAtThreshold,
     KnowsLastFailure
<1>12. QED
  BY <1>1, <1>2, <1>3, <1>4, <1>5, <1>6, <1>7, <1>8, <1>9, <1>10, <1>11
     DEF Next, Progress

LEMMA Invariance == Spec => []IInv
BY InitInv, NextInv, PTL DEF Spec

-----------------------------------------------------------------------------
(* The invariants the runs check                                           *)

\* Every variable of the breaker keeps its type (CircuitBreaker, whole
\* class).
THEOREM TypeCorrect == Spec => []TypeOK
<1>1. IInv => TypeOK  BY DEF IInv
<1>2. QED BY <1>1, Invariance, PTL

\* The protected function runs for one caller at a time and never while the
\* breaker is OPEN (call, lines 38-64).
THEOREM NoCallWhileOpenHolds == Spec => []NoCallWhileOpen
<1>1. IInv => NoCallWhileOpen
  BY DEF IInv, NoCallWhileOpen, LockHeldInside, AdmittedNotOpen
<1>2. QED BY <1>1, Invariance, PTL

\* Not CLOSED exactly when the failure count is at the threshold
\* (_record_failure and _reset).
THEOREM TrippedAtThresholdHolds == Spec => []TrippedAtThreshold
<1>1. IInv => TrippedAtThreshold  BY DEF IInv
<1>2. QED BY <1>1, Invariance, PTL

\* The failure time is known exactly when failures are counted, so
\* _should_attempt_recovery never takes its "no failure time" branch.
THEOREM KnowsLastFailureHolds == Spec => []KnowsLastFailure
<1>1. IInv => KnowsLastFailure  BY DEF IInv
<1>2. QED BY <1>1, Invariance, PTL

-----------------------------------------------------------------------------
(* Refinement                                                              *)

\* Every step of the breaker is a step of Diagram 9 or leaves it alone.
LEMMA StepRefines == IInv /\ [Next]_vars => [Diagram9!Next]_(Diagram9!vars)
<1> SUFFICES ASSUME IInv, [Next]_vars PROVE [Diagram9!Next]_(Diagram9!vars)
  OBVIOUS
<1> USE BreakerAssumption DEF IInv, Diagram9!vars, breakerVars
<1>1. CASE UNCHANGED breakerVars
  BY <1>1
<1>2. ASSUME NEW c \in Callers, AttemptRecovery(c) PROVE Diagram9!Next
  BY <1>2 DEF AttemptRecovery, ShouldAttemptRecovery, Diagram9!Next,
     Diagram9!Probe, TypeOK, TrippedAtThreshold, KnowsLastFailure, Expired
<1>3. ASSUME NEW c \in Callers, Succeed(c) PROVE Diagram9!Next
  <2>1. state # "OPEN" /\ RecordSuccess
    BY <1>3 DEF Succeed, AdmittedNotOpen, InFunction
  <2>2. CASE state = "CLOSED"
    BY <2>1, <2>2 DEF RecordSuccess, Reset, Diagram9!Next, Diagram9!Success
  <2>3. CASE state = "HALF_OPEN" /\ halfOpenCalls + 1 >= HalfOpenMaxCalls
    BY <2>1, <2>3 DEF RecordSuccess, Reset, Diagram9!Next,
       Diagram9!ProbeSuccess, TypeOK
  <2>4. CASE state = "HALF_OPEN" /\ halfOpenCalls + 1 < HalfOpenMaxCalls
    BY <2>1, <2>4 DEF RecordSuccess, Diagram9!Next,
       Diagram9!ProbeSuccess, TypeOK
  <2>5. QED
    BY <2>1, <2>2, <2>3, <2>4 DEF TypeOK, CircuitBreakerState
<1>4. ASSUME NEW c \in Callers, Fail(c) PROVE Diagram9!Next
  <2>1. state # "OPEN" /\ RecordFailure
    BY <1>4 DEF Fail, AdmittedNotOpen, InFunction
  <2>2. CASE state = "CLOSED"
    BY <2>1, <2>2 DEF RecordFailure, Diagram9!Next, Diagram9!Failure,
       TypeOK, TrippedAtThreshold, Expired
  <2>3. CASE state = "HALF_OPEN"
    BY <2>1, <2>3 DEF RecordFailure, Diagram9!Next, Diagram9!ProbeFailure,
       TypeOK, TrippedAtThreshold, Expired
  <2>4. QED
    BY <2>1, <2>2, <2>3 DEF TypeOK, CircuitBreakerState
<1>5. ASSUME Tick PROVE [Diagram9!Next]_(Diagram9!vars)
  BY <1>5 DEF Tick, Diagram9!Next, Diagram9!Cool, TypeOK, Expired
<1>6. QED
  BY <1>1, <1>2, <1>3, <1>4, <1>5 DEF Next, Progress, vars, Call, Admit,
     Reject, BackOff, Retry, ServiceChanges

\* The breaker implements Diagram 9 of ARCHITECTURE.md for every number of
\* callers, every threshold and every retry budget.
THEOREM Refinement == Spec => ImplementsDiagram9
<1>1. Init => Diagram9!Init
  BY BreakerAssumption DEF Init, Diagram9!Init
<1>2. QED
  BY <1>1, StepRefines, Invariance, PTL
     DEF Spec, ImplementsDiagram9, Diagram9!Spec
-----------------------------------------------------------------------------
(* How long a caller waits                                                 *)

\* Whoever waits is queued, and behind somebody: no wake-up is lost.
NoLostWakeUp ==
  \A c \in Callers : pc[c] = "waiting" =>
     lock \in Callers /\ \E i \in 1..Len(waiters) : waiters[i] = c

\* The most steps a caller takes inside the async with block: the state
\* check, and two for each attempt.
Turn == 2 * MaxRetries + 2

StepsLeft(c) ==
  CASE pc[c] = "entering" -> Turn
    [] pc[c] = "running"  -> 2 * (MaxRetries - attempt) + 1
    [] pc[c] = "backoff"  -> 2 * (MaxRetries - attempt)
    [] OTHER              -> 0

Place(c) == CHOOSE i \in 1..Len(waiters) : waiters[i] = c

\* How many steps of the callers inside the block are left at most until a
\* caller has its answer.
Wait(c) == IF pc[c] = "waiting" THEN StepsLeft(lock) + Place(c) * Turn ELSE StepsLeft(c)

\* Every step inside the block brings each caller's answer nearer, no other
\* step puts it off, and a caller that queues behind n others has its answer
\* after at most n + 2 turns.
WaitsShrink ==
  \A c \in Callers :
    /\ pc[c] # "idle" /\ (\E d \in Callers : Progress(d))
         => pc'[c] = "idle" \/ Wait(c)' < Wait(c)
    /\ pc[c] # "idle" /\ ~(\E d \in Callers : Progress(d)) => Wait(c)' = Wait(c)
    /\ pc[c] = "idle" /\ pc'[c] # "idle" => Wait(c)' <= (Len(waiters) + 2) * Turn

WaitInv == IInv /\ NoLostWakeUp

LEMMA TurnIsPositive == Turn \in Nat /\ Turn >= 2
BY BreakerAssumption DEF Turn

\* Multiples of a turn.
LEMMA Turns ==
  ASSUME NEW w \in Nat, NEW i \in Nat
  PROVE  /\ i * w \in Nat
         /\ (i + 1) * w = i * w + w
         /\ i > 0 => (i - 1) * w \in Nat /\ (i - 1) * w + w = i * w
         /\ \A j \in Nat : i <= j => i * w <= j * w
<1>1. i * w \in Nat /\ (i + 1) * w = i * w + w
  OBVIOUS
<1>2. i > 0 => (i - 1) * w \in Nat /\ (i - 1) * w + w = i * w
  OBVIOUS
<1>3. ASSUME NEW j \in Nat, i <= j PROVE i * w <= j * w
  <2>1. j - i \in Nat /\ (j - i) * w \in Nat /\ j * w = i * w + (j - i) * w
    BY <1>3
  <2> QED BY <2>1
<1> QED BY <1>1, <1>2, <1>3

\* A waiting caller has one place in the queue.
LEMMA OnePlace ==
  ASSUME IInv, NEW c \in Callers, NEW i \in 1..Len(waiters), waiters[i] = c
  PROVE  Place(c) = i
BY DEF IInv, QueueOfWaiters, Place

\* A caller inside the block has a step left, and never more than a turn.
LEMMA StepsAreLeft ==
  ASSUME IInv, NEW c \in Callers
  PROVE  /\ StepsLeft(c) \in Nat /\ StepsLeft(c) <= Turn
         /\ lock = c => StepsLeft(c) > 0
<1> USE BreakerAssumption DEF StepsLeft, Turn, IInv, TypeOK, LockHeldInside,
        SleepsWithAttemptsLeft, InFunction
<1>1. attempt \in 0..MaxRetries /\ pc[c] \in {"idle", "waiting", "entering", "running", "backoff"}
  OBVIOUS
<1>2. lock = c => pc[c] \in {"entering", "running", "backoff"}
  OBVIOUS
<1>3. CASE pc[c] = "entering"
  BY <1>3
<1>4. CASE pc[c] = "running"
  BY <1>1, <1>4
<1>5. CASE pc[c] = "backoff"
  BY <1>1, <1>5
<1>6. CASE pc[c] \in {"idle", "waiting"}
  BY <1>2, <1>6
<1> QED BY <1>1, <1>3, <1>4, <1>5, <1>6

\* A step inside the block that keeps the lock.
Advances(d) ==
  /\ lock' = lock /\ waiters' = waiters
  /\ \A e \in Callers \ {d} : pc'[e] = pc[e]
  /\ pc'[d] \in {"running", "backoff"}
  /\ StepsLeft(d)' < StepsLeft(d)

\* The callers inside the block go on with the lock or hand it over.
LEMMA InsideStep ==
  ASSUME IInv, NEW d \in Callers, Progress(d)
  PROVE  lock = d /\ (Release(d) \/ Advances(d))
<1> USE BreakerAssumption DEF IInv, TypeOK, InFunction, Advances, StepsLeft, Turn
<1>1. pc[d] \in {"entering", "running", "backoff"}
  BY DEF Progress, Admit, AttemptRecovery, Reject, Succeed, Fail, BackOff, Retry
<1>2. lock = d
  BY <1>1 DEF LockHeldInside
<1>3. CASE Admit(d) \/ AttemptRecovery(d)
  BY <1>2, <1>3 DEF Admit, AttemptRecovery
<1>4. CASE BackOff(d)
  BY <1>2, <1>4 DEF BackOff
<1>5. CASE Retry(d)
  BY <1>2, <1>5 DEF Retry, SleepsWithAttemptsLeft
<1>6. CASE Reject(d) \/ Succeed(d) \/ Fail(d)
  <2>1. Release(d)
    BY ONLY <1>6, Zenon DEF Reject, Succeed, Fail
  <2> QED BY <1>2, <2>1
<1> QED BY <1>2, <1>3, <1>4, <1>5, <1>6 DEF Progress

\* The queue after the lock is handed over: the first waiter is inside, the
\* others are one place further on.
LEMMA HandsOver ==
  ASSUME WaitInv, NEW d \in Callers, lock = d, Release(d),
         NEW c \in Callers, pc[c] = "waiting"
  PROVE  \/ lock' = c /\ pc'[c] = "entering"
         \/ /\ pc'[c] = "waiting"
            /\ Place(c) > 1 /\ Place(c) \in 1..Len(waiters)
            /\ Place(c) - 1 \in 1..Len(waiters') /\ waiters'[Place(c) - 1] = c
            /\ lock' \in Callers /\ pc'[lock'] = "entering"
<1>1. PICK i \in 1..Len(waiters) : waiters[i] = c
  BY DEF WaitInv, NoLostWakeUp
<1>2. Place(c) = i
  BY <1>1, OnePlace DEF WaitInv
<1>3. waiters \in Seq(Callers) /\ waiters # << >> /\ c # d
  BY <1>1 DEF WaitInv, IInv, TypeOK, LockHeldInside, InFunction
<1>4. /\ lock' = Head(waiters) /\ waiters' = Tail(waiters)
      /\ pc' = [pc EXCEPT ![d] = "idle", ![Head(waiters)] = "entering"]
  BY <1>3 DEF Release
<1>5. Head(waiters) = waiters[1] /\ Head(waiters) \in Callers /\ pc[Head(waiters)] = "waiting"
  BY <1>1, <1>3 DEF WaitInv, IInv, QueueOfWaiters
<1>6. pc'[Head(waiters)] = "entering"
  BY <1>4, <1>5 DEF WaitInv, IInv, TypeOK
<1>7. CASE i = 1
  BY <1>1, <1>4, <1>5, <1>6, <1>7
<1>8. CASE i > 1
  <2>1. c # Head(waiters)
    BY <1>1, <1>5, <1>8 DEF WaitInv, IInv, QueueOfWaiters
  <2>2. pc'[c] = "waiting"
    BY <1>3, <1>4, <2>1 DEF WaitInv, IInv, TypeOK
  <2>3. i - 1 \in 1..Len(waiters') /\ waiters'[i - 1] = c
    BY <1>1, <1>3, <1>4, <1>8
  <2> QED BY <1>2, <1>4, <1>5, <1>6, <1>8, <2>2, <2>3
<1> QED BY <1>1, <1>7, <1>8

\* Waiting for the lock is an invariant of the queue.
LEMMA StepWaits == WaitInv /\ [Next]_vars => WaitInv'
<1> SUFFICES ASSUME WaitInv, [Next]_vars PROVE NoLostWakeUp'
  BY NextInv DEF WaitInv
<1> SUFFICES ASSUME NEW c \in Callers, pc'[c] = "waiting"
             PROVE  lock' \in Callers /\ \E i \in 1..Len(waiters') : waiters'[i] = c
  BY DEF NoLostWakeUp
<1> USE DEF WaitInv
<1>0. pc \in [Callers -> {"idle", "waiting", "entering"} \cup InFunction] /\ waiters \in Seq(Callers)
      /\ lock \in Callers \cup {None}
  BY DEF IInv, TypeOK
<1>1. ASSUME UNCHANGED lockVars PROVE lock' \in Callers /\ \E i \in 1..Len(waiters') : waiters'[i] = c
  BY <1>1 DEF lockVars, NoLostWakeUp
<1>2. ASSUME NEW d \in Callers, Call(d)
      PROVE  lock' \in Callers /\ \E i \in 1..Len(waiters') : waiters'[i] = c
  <2>1. CASE c = d
    <3>1. lock # None /\ lock' = lock /\ waiters' = Append(waiters, c)
      BY <1>0, <1>2, <2>1 DEF Call
    <3>2. Len(waiters) + 1 \in 1..Len(waiters') /\ waiters'[Len(waiters) + 1] = c
      BY <1>0, <3>1
    <3> QED BY <1>0, <3>1, <3>2
  <2>2. CASE c # d
    <3>1. pc[c] = "waiting"
      BY <1>0, <1>2, <2>2 DEF Call
    <3>2. PICK i \in 1..Len(waiters) : waiters[i] = c /\ lock \in Callers
      BY <3>1 DEF NoLostWakeUp
    <3>3. i \in 1..Len(waiters') /\ waiters'[i] = c
      BY <1>0, <1>2, <3>2 DEF Call
    <3> QED BY <1>2, <3>2, <3>3, BreakerAssumption DEF Call
  <2> QED BY <2>1, <2>2
<1>3. ASSUME NEW d \in Callers, Progress(d)
      PROVE  lock' \in Callers /\ \E i \in 1..Len(waiters') : waiters'[i] = c
  <2>1. lock = d /\ (Release(d) \/ Advances(d))
    BY <1>3, InsideStep
  <2>2. CASE Advances(d)
    <3>1. pc[c] = "waiting"
      BY <2>2 DEF Advances
    <3> QED BY <2>2, <3>1 DEF Advances, NoLostWakeUp
  <2>3. CASE Release(d)
    <3>1. pc[c] = "waiting"
      BY <1>0, <2>3 DEF Release
    <3> QED BY <2>1, <2>3, <3>1, HandsOver
  <2> QED BY <2>1, <2>2, <2>3
<1>4. Tick \/ ServiceChanges \/ UNCHANGED vars => UNCHANGED lockVars
  BY DEF Tick, ServiceChanges, vars, lockVars
<1> QED BY <1>1, <1>2, <1>3, <1>4 DEF Next

LEMMA WaitInvariance == Spec => []WaitInv
<1>1. Init => WaitInv
  BY InitInv DEF Init, WaitInv, NoLostWakeUp
<1> QED BY <1>1, StepWaits, PTL DEF Spec

-----------------------------------------------------------------------------
\* A caller's wait is a number of steps.
LEMMA WaitIsNumber ==
  ASSUME WaitInv, NEW c \in Callers
  PROVE  /\ Wait(c) \in Nat
         /\ pc[c] = "waiting" => /\ Place(c) \in 1..Len(waiters)
                                 /\ Wait(c) = StepsLeft(lock) + Place(c) * Turn
<1>1. StepsLeft(c) \in Nat
  BY StepsAreLeft DEF WaitInv
<1>2. CASE pc[c] = "waiting"
  <2>1. PICK i \in 1..Len(waiters) : waiters[i] = c /\ lock \in Callers
    BY <1>2 DEF WaitInv, NoLostWakeUp
  <2>2. Place(c) = i
    BY <2>1, OnePlace DEF WaitInv
  <2>3. Turn \in Nat /\ i \in Nat /\ i * Turn \in Nat
    BY TurnIsPositive, Turns
  <2>4. StepsLeft(lock) \in Nat
    BY <2>1, StepsAreLeft DEF WaitInv
  <2> HIDE DEF StepsLeft, Turn
  <2> QED BY <1>2, <2>2, <2>3, <2>4 DEF Wait
<1> QED BY <1>1, <1>2 DEF Wait

\* One step inside the block, seen by a caller that is not idle.
LEMMA InsideShrinks ==
  ASSUME WaitInv, WaitInv', NEW d \in Callers, Progress(d),
         NEW c \in Callers, pc[c] # "idle", pc'[c] # "idle"
  PROVE  Wait(c)' < Wait(c)
<1>0. /\ Turn \in Nat /\ Turn' = Turn
      /\ waiters \in Seq(Callers) /\ Len(waiters) \in Nat
  BY TurnIsPositive DEF WaitInv, IInv, TypeOK, Turn
<1>1. lock = d /\ (Release(d) \/ Advances(d))
  BY InsideStep DEF WaitInv
<1>2. StepsLeft(d) \in Nat /\ StepsLeft(d) > 0
  BY <1>1, StepsAreLeft DEF WaitInv
<1>3. c # d => pc[c] = "waiting"
  BY <1>1, BreakerAssumption DEF WaitInv, IInv, TypeOK, LockHeldInside, InFunction
<1>4. pc[d] # "waiting"
  BY <1>1 DEF WaitInv, IInv, LockHeldInside, InFunction
<1>5. CASE Advances(d)
  <2>1. StepsLeft(d)' < StepsLeft(d) /\ lock' = lock /\ waiters' = waiters
    BY <1>5 DEF Advances
  <2>2. CASE c = d
    <3>1. pc'[c] # "waiting"
      BY <1>5, <2>2 DEF Advances
    <3>2. Wait(c) = StepsLeft(d) /\ Wait(c)' = StepsLeft(d)'
      BY <1>4, <2>2, <3>1 DEF Wait
    <3> QED BY <2>1, <3>2
  <2>3. CASE c # d
    <3>1. pc[c] = "waiting" /\ pc'[c] = "waiting"
      BY <1>3, <1>5, <2>3 DEF Advances
    <3>2. Wait(c)' = StepsLeft(d)' + Place(c) * Turn /\ Wait(c) = StepsLeft(d) + Place(c) * Turn
      BY <1>0, <1>1, <2>1, <3>1 DEF Wait, Place
    <3>3. Place(c) * Turn \in Nat
      BY <1>0, <3>1, WaitIsNumber, Turns
    <3>4. StepsLeft(d)' \in Nat
      <4>1. lock' = d /\ IInv'
        BY <1>1, <2>1 DEF WaitInv
      <4>2. attempt' \in 0..MaxRetries /\ MaxRetries \in Nat
        BY <4>1, BreakerAssumption DEF IInv, TypeOK
      <4>3. pc'[d] \in {"running", "backoff"}
        BY <1>5 DEF Advances
      <4>4. pc'[d] = "running" => StepsLeft(d)' = 2 * (MaxRetries - attempt') + 1
        BY DEF StepsLeft
      <4>5. pc'[d] = "backoff" => StepsLeft(d)' = 2 * (MaxRetries - attempt')
        BY DEF StepsLeft
      <4> QED BY <4>2, <4>3, <4>4, <4>5
    <3> QED BY <1>2, <2>1, <3>2, <3>3, <3>4
  <2> QED BY <2>2, <2>3
<1>6. CASE Release(d)
  <2>1. c # d
    <3> SUFFICES ASSUME c = d PROVE FALSE
      OBVIOUS
    <3> QED BY <1>4, <1>6 DEF Release, WaitInv, IInv, TypeOK, QueueOfWaiters
  <2>2. pc[c] = "waiting"
    BY <1>3, <2>1
  <2>3. /\ Place(c) \in 1..Len(waiters)
        /\ Wait(c) = StepsLeft(d) + Place(c) * Turn
    BY <1>1, <2>2, WaitIsNumber
  <2>4. CASE lock' = c /\ pc'[c] = "entering"
    <3>1. Wait(c)' = Turn
      BY <1>0, <2>4 DEF Wait, StepsLeft
    <3>2. 1 * Turn <= Place(c) * Turn /\ Place(c) * Turn \in Nat
      BY <1>0, <2>3, Turns
    <3>3. 1 * Turn = Turn
      BY <1>0
    <3> QED BY <1>0, <1>2, <2>3, <3>1, <3>2, <3>3
  <2>5. CASE /\ pc'[c] = "waiting"
             /\ Place(c) > 1 /\ Place(c) \in 1..Len(waiters)
             /\ Place(c) - 1 \in 1..Len(waiters') /\ waiters'[Place(c) - 1] = c
             /\ lock' \in Callers /\ pc'[lock'] = "entering"
    <3>1. Place(c)' = Place(c) - 1
      <4>1. \A i, j \in 1..Len(waiters') : waiters'[i] = waiters'[j] => i = j
        BY DEF WaitInv, IInv, QueueOfWaiters
      <4>2. \A i \in 1..Len(waiters') : waiters'[i] = c => i = Place(c) - 1
        BY <2>5, <4>1
      <4> DEFINE p == Place(c) - 1
      <4>3. p \in 1..Len(waiters') /\ waiters'[p] = c
        BY <2>5
      <4> HIDE DEF p
      <4>4. (CHOOSE i \in 1..Len(waiters') : waiters'[i] = c) = p
        BY <4>2, <4>3 DEF p
      <4> QED BY <4>4 DEF Place, p
    <3>2. Wait(c)' = Turn + (Place(c) - 1) * Turn
      BY <1>0, <2>5, <3>1 DEF Wait, StepsLeft
    <3>3. Place(c) * Turn \in Nat /\ (Place(c) - 1) * Turn + Turn = Place(c) * Turn
          /\ (Place(c) - 1) * Turn \in Nat
      BY <1>0, <2>3, Turns
    <3> QED BY <1>0, <1>2, <2>3, <3>2, <3>3
  <2> QED BY <1>1, <1>6, <2>2, <2>4, <2>5, HandsOver
<1> QED BY <1>1, <1>5, <1>6

\* A step of another kind, seen by a caller that is not idle.
LEMMA OutsideKeeps ==
  ASSUME WaitInv, [Next]_vars, ~(\E d \in Callers : Progress(d)),
         NEW c \in Callers, pc[c] # "idle"
  PROVE  Wait(c)' = Wait(c)
<1>0. Turn' = Turn /\ waiters \in Seq(Callers)
      /\ pc \in [Callers -> {"idle", "waiting", "entering"} \cup InFunction]
  BY DEF WaitInv, IInv, TypeOK, Turn
<1>1. CASE UNCHANGED <<lockVars, attempt>>
  BY <1>0, <1>1 DEF lockVars, Wait, StepsLeft, Place
<1>2. ASSUME NEW d \in Callers, Call(d) PROVE Wait(c)' = Wait(c)
  <2>1. c # d /\ pc'[c] = pc[c] /\ attempt' = attempt
    BY <1>0, <1>2 DEF Call
  <2>2. CASE pc[c] # "waiting"
    BY <1>0, <2>1, <2>2 DEF Wait, StepsLeft
  <2>3. CASE pc[c] = "waiting"
    <3>1. PICK i \in 1..Len(waiters) : waiters[i] = c /\ lock \in Callers
      BY <2>3 DEF WaitInv, NoLostWakeUp
    <3>2. lock' = lock /\ waiters' = Append(waiters, d) /\ pc' = [pc EXCEPT ![d] = "waiting"]
      BY <1>2, <3>1, BreakerAssumption DEF Call
    <3>3. pc'[lock] = pc[lock]
      BY <1>0, <1>2, <3>1, <3>2 DEF Call, WaitInv, IInv, LockHeldInside, InFunction
    <3>4. StepsLeft(lock)' = StepsLeft(lock)
      BY <1>0, <2>1, <3>2, <3>3 DEF StepsLeft
    <3>5. Place(c) = i
      BY <3>1, OnePlace DEF WaitInv
    <3>6. Place(c)' = i
      <4>1. \A j \in 1..Len(waiters) : waiters[j] = c => j = i
        BY <3>1 DEF WaitInv, IInv, QueueOfWaiters
      <4>2. i \in 1..Len(waiters') /\ waiters'[i] = c
        BY <1>0, <3>1, <3>2
      <4>3. \A j \in 1..Len(waiters') : waiters'[j] = c => j = i
        <5>1. /\ waiters' = Append(waiters, d) /\ waiters \in Seq(Callers)
              /\ Len(waiters') = Len(waiters) + 1 /\ waiters'[Len(waiters) + 1] = d
              /\ \A j \in 1..Len(waiters) : waiters'[j] = waiters[j]
          BY <1>0, <3>2
        <5>2. Len(waiters) \in Nat
          BY <5>1
        <5> QED BY <2>1, <4>1, <5>1, <5>2
      <4>4. (CHOOSE j \in 1..Len(waiters') : waiters'[j] = c) = i
        BY <4>2, <4>3
      <4> QED BY <4>4 DEF Place
    <3> QED BY <1>0, <2>1, <2>3, <3>4, <3>5, <3>6 DEF Wait
  <2> QED BY <2>2, <2>3
<1>3. Tick \/ ServiceChanges \/ UNCHANGED vars => UNCHANGED <<lockVars, attempt>>
  BY DEF Tick, ServiceChanges, vars, lockVars
<1> QED BY <1>1, <1>2, <1>3 DEF Next

\* A call comes in.
LEMMA ArrivalBound ==
  ASSUME WaitInv, WaitInv', [Next]_vars, NEW c \in Callers, pc[c] = "idle", pc'[c] # "idle"
  PROVE  Wait(c)' <= (Len(waiters) + 2) * Turn
<1>0. /\ Turn \in Nat /\ Turn' = Turn /\ waiters \in Seq(Callers) /\ Len(waiters) \in Nat
      /\ pc \in [Callers -> {"idle", "waiting", "entering"} \cup InFunction]
  BY TurnIsPositive DEF WaitInv, IInv, TypeOK, Turn
<1>1. Call(c)
  <2>1. \A d \in Callers : Progress(d) => pc'[c] = "idle"
    <3> SUFFICES ASSUME NEW d \in Callers, Progress(d) PROVE pc'[c] = "idle"
      OBVIOUS
    <3>1. lock = d /\ (Release(d) \/ Advances(d))
      BY InsideStep DEF WaitInv
    <3>2. c # d
      BY <3>1 DEF WaitInv, IInv, LockHeldInside, InFunction
    <3>3. waiters # << >> => Head(waiters) # c
      BY <1>0 DEF WaitInv, IInv, QueueOfWaiters
    <3> QED BY <1>0, <3>1, <3>2, <3>3 DEF Release, Advances
  <2>2. \A d \in Callers : Call(d) => d = c
    BY <1>0 DEF Call
  <2>3. ~Tick /\ ~ServiceChanges /\ ~UNCHANGED vars
    BY DEF Tick, ServiceChanges, vars, lockVars
  <2> QED BY <2>1, <2>2, <2>3 DEF Next
<1>2. /\ (Len(waiters) + 2) * Turn = (Len(waiters) + 1) * Turn + Turn
      /\ (Len(waiters) + 1) * Turn \in Nat
  BY <1>0, Turns
<1>3. CASE lock = None /\ lock' = c /\ pc' = [pc EXCEPT ![c] = "entering"]
  <2>1. Wait(c)' = Turn
    BY <1>0, <1>3 DEF Wait, StepsLeft
  <2> QED BY <1>0, <1>2, <2>1
<1>4. CASE lock # None /\ waiters' = Append(waiters, c) /\ pc' = [pc EXCEPT ![c] = "waiting"]
           /\ UNCHANGED lock
  <2>1. pc'[c] = "waiting" /\ Len(waiters') = Len(waiters) + 1
    BY <1>0, <1>4
  <2>2. Place(c)' \in 1..Len(waiters') /\ Wait(c)' = StepsLeft(lock)' + Place(c)' * Turn
    <3>1. pc'[c] = "waiting" => /\ Place(c)' \in 1..Len(waiters')
                                /\ Wait(c)' = StepsLeft(lock)' + Place(c)' * Turn'
      <4>1. PICK i \in 1..Len(waiters') : waiters'[i] = c
        BY <2>1 DEF WaitInv, NoLostWakeUp
      <4>2. (CHOOSE j \in 1..Len(waiters') : waiters'[j] = c) \in 1..Len(waiters')
        BY <4>1
      <4> QED BY <4>2 DEF Wait, Place
    <3> QED BY <1>0, <2>1, <3>1
  <2>3. StepsLeft(lock)' = StepsLeft(lock) /\ lock \in Callers
    <3>1. lock \in Callers /\ lock # c /\ pc'[lock] = pc[lock] /\ attempt' = attempt
      BY <1>0, <1>1, <1>4 DEF Call, WaitInv, IInv, TypeOK, LockHeldInside, InFunction
    <3> QED BY <1>4, <3>1 DEF StepsLeft
  <2>4. StepsLeft(lock) \in Nat /\ StepsLeft(lock) <= Turn
    BY <2>3, StepsAreLeft DEF WaitInv
  <2>5. Place(c)' * Turn <= (Len(waiters) + 1) * Turn /\ Place(c)' * Turn \in Nat
    BY <1>0, <2>1, <2>2, Turns
  <2> QED BY <1>0, <1>2, <2>2, <2>3, <2>4, <2>5
<1> QED BY <1>1, <1>3, <1>4 DEF Call

\* Nobody waits for a lock that is free, or without being in its queue.
THEOREM NoLostWakeUpHolds == Spec => []NoLostWakeUp
<1>1. WaitInv => NoLostWakeUp  BY DEF WaitInv
<1> QED BY <1>1, WaitInvariance, PTL

\* The wait of every caller is bounded when it calls and shrinks with every
\* step taken inside the block, whatever the callers after it do: what
\* EveryCallReturns adds to this is only that the block's steps are taken.
THEOREM WaitsShrinkHolds == Spec => [][WaitsShrink]_vars
<1>1. WaitInv /\ WaitInv' /\ [Next]_vars => [WaitsShrink]_vars
  BY InsideShrinks, OutsideKeeps, ArrivalBound DEF WaitsShrink
<1> QED BY <1>1, WaitInvariance, PTL DEF Spec
-----------------------------------------------------------------------------
(* The way back to CLOSED                                                  *)

\* How far the breaker is from CLOSED: the probes that have to succeed, and
\* before the first one the time that has to pass.
Distance ==
  CASE state = "CLOSED"    -> 0
    [] state = "HALF_OPEN" -> HalfOpenMaxCalls - halfOpenCalls
    [] OTHER               -> HalfOpenMaxCalls + 1 + (Expired - sinceFailure)

\* While the service answers, nothing takes the breaker further from CLOSED,
\* each probe and, when it is OPEN, time bring it nearer, a call is rejected
\* only when time is still to pass, and only CLOSED is at the end.
RecoveryAdvances ==
  /\ Distance \in Nat
  /\ Distance = 0 <=> state = "CLOSED"
  /\ healthy =>
       /\ Distance' <= Distance
       /\ state # "CLOSED" /\ (\E c \in Callers : AttemptRecovery(c) \/ Succeed(c))
            => Distance' < Distance
       /\ state = "OPEN" /\ Tick => Distance' < Distance
       /\ (\E c \in Callers : Reject(c)) => Distance > HalfOpenMaxCalls + 1

LEMMA StepRecovers == IInv /\ IInv' /\ [Next]_vars => [RecoveryAdvances]_vars
<1> SUFFICES ASSUME IInv, [Next]_vars, ~UNCHANGED vars PROVE RecoveryAdvances
  OBVIOUS
<1> USE BreakerAssumption
<1>0. /\ state \in {"CLOSED", "OPEN", "HALF_OPEN"} /\ halfOpenCalls \in 0..(HalfOpenMaxCalls - 1)
      /\ HalfOpenMaxCalls \in Nat \ {0} /\ RecoveryTimeout \in Nat /\ Expired \in Nat
      /\ state = "OPEN" => sinceFailure \in 0..Expired
  BY DEF IInv, TypeOK, TrippedAtThreshold, KnowsLastFailure, CircuitBreakerState, Expired
<1>1. Distance \in Nat /\ (Distance = 0 <=> state = "CLOSED")
  BY <1>0 DEF Distance
<1>2. CASE UNCHANGED breakerVars
  <2>1. Distance' = Distance
    BY <1>2 DEF breakerVars, Distance, Expired
  <2>2. ~(\E c \in Callers : AttemptRecovery(c)) /\ ~Tick
    <3>1. sinceFailure # None => sinceFailure \in Nat /\ sinceFailure + 1 # sinceFailure
      BY <1>0 DEF IInv, TypeOK
    <3>2. ~Tick
      BY <1>2, <3>1 DEF breakerVars, Tick
    <3>3. \A c \in Callers : ~AttemptRecovery(c)
      BY <1>2 DEF breakerVars, AttemptRecovery
    <3> QED BY <3>2, <3>3
  <2>3. \A c \in Callers : Succeed(c) => state = "CLOSED"
    BY <1>0, <1>2 DEF breakerVars, Succeed, RecordSuccess, Reset, IInv, AdmittedNotOpen, InFunction
  <2>4. \A c \in Callers : Reject(c) => Distance > HalfOpenMaxCalls + 1
    BY <1>0 DEF Reject, ShouldAttemptRecovery, Distance, Expired
  <2> QED BY <1>1, <2>1, <2>2, <2>3, <2>4 DEF RecoveryAdvances
<1>3. ASSUME NEW d \in Callers, AttemptRecovery(d) PROVE RecoveryAdvances
  <2>1. state = "OPEN" /\ state' = "HALF_OPEN" /\ halfOpenCalls' = 0
    BY <1>3 DEF AttemptRecovery
  <2>2. Distance' = HalfOpenMaxCalls /\ Distance >= HalfOpenMaxCalls + 1
    BY <1>0, <2>1 DEF Distance
  <2>3. ~(\E c \in Callers : Reject(c))
    BY <1>3 DEF AttemptRecovery, Reject
  <2> QED BY <1>0, <1>1, <2>2, <2>3 DEF RecoveryAdvances
<1>4. ASSUME NEW d \in Callers, Succeed(d) PROVE RecoveryAdvances
  <2>1. state # "OPEN" /\ RecordSuccess
    BY <1>4 DEF Succeed, IInv, AdmittedNotOpen, InFunction
  <2>2. Distance' <= Distance /\ (state # "CLOSED" => Distance' < Distance)
    BY <1>0, <2>1 DEF RecordSuccess, Reset, Distance
  <2>3. ~(\E c \in Callers : Reject(c))
    BY <2>1 DEF Reject
  <2> QED BY <1>1, <2>1, <2>2, <2>3 DEF RecoveryAdvances
<1>5. ASSUME NEW d \in Callers, Fail(d) PROVE RecoveryAdvances
  BY <1>1, <1>5 DEF Fail, RecoveryAdvances
<1>6. CASE Tick
  <2>1. UNCHANGED <<state, halfOpenCalls>> /\ sinceFailure' = sinceFailure + 1
    BY <1>6 DEF Tick
  <2>2. Distance' <= Distance /\ (state = "OPEN" => Distance' < Distance)
    BY <1>0, <2>1 DEF Distance, Expired
  <2>3. \A c \in Callers : ~AttemptRecovery(c) /\ ~Reject(c)
    BY <1>6 DEF Tick, AttemptRecovery, Reject, breakerVars, IInv, TypeOK
  <2>4. \A c \in Callers : ~Succeed(c)
    <3> SUFFICES ASSUME NEW c \in Callers, Succeed(c) PROVE FALSE
      OBVIOUS
    <3>1. lock = c /\ Release(c) /\ pc' = pc
      BY <1>6 DEF Succeed, Tick, lockVars, IInv, LockHeldInside, InFunction
    <3>2. pc[c] = "running" /\ pc \in [Callers -> {"idle", "waiting", "entering"} \cup InFunction]
      BY DEF Succeed, IInv, TypeOK
    <3>3. waiters # << >> => waiters[1] = Head(waiters) /\ waiters[1] # c
      BY <3>2 DEF IInv, TypeOK, QueueOfWaiters
    <3> QED BY <3>1, <3>2, <3>3 DEF Release
  <2> QED BY <1>1, <2>2, <2>3, <2>4 DEF RecoveryAdvances
<1> QED BY <1>2, <1>3, <1>4, <1>5, <1>6
     DEF Next, Progress, Call, Admit, Reject, BackOff, Retry, ServiceChanges

\* However calls, rejections, outages and time follow each other, a breaker
\* whose service answers is on its way to CLOSED: what ClosesAfterRecovery
\* adds to this is that time passes and calls arrive.
THEOREM RecoveryAdvancesHolds == Spec => [][RecoveryAdvances]_vars
BY Invariance, StepRecovers, PTL DEF Spec
=============================================================================
