------------------------- MODULE RateLimiter_proofs -------------------------
(***************************************************************************)
(* Proofs about RateLimiter.tla, for any limit, period, workers, clients   *)
(* and requests: one worker never exceeds its limit in any window, and     *)
(* refuses nobody without cause.                                           *)
(***************************************************************************)
EXTENDS RateLimiter, FiniteSetTheorems, TLAPS

\* What was let through in the last Period ticks.
Fresh(w, c) == {r \in through[w][c] : now - at[r] < Period}

\* A worker remembers every fresh request, and only requests it let through.
RemembersFresh ==
  \A w \in Workers, c \in Clients :
    /\ Fresh(w, c) \subseteq _requests[w][c]
    /\ _requests[w][c] \subseteq through[w][c]
    /\ IsFiniteSet(_requests[w][c])

\* A request is let through once it is asked, and not in the future.
AskedBefore ==
  /\ \A w \in Workers, c \in Clients : through[w][c] \subseteq asked
  /\ \A r \in Requests : at[r] <= now

\* The cap with what induction needs: for every window, also those that
\* begin later, and with finiteness.
Capped ==
  \A w \in Workers, c \in Clients, t \in Nat :
    IsFiniteSet(Window(w, c, t)) /\ Cardinality(Window(w, c, t)) <= Limit

IInv == TypeOK /\ RemembersFresh /\ AskedBefore /\ Capped

-----------------------------------------------------------------------------
\* With the invariant, the requests a worker looks at in a call are exactly
\* the fresh ones.
LEMMA RecentIsFresh ==
  ASSUME IInv, NEW w \in Workers, NEW c \in Clients
  PROVE  /\ Recent(w, c) = Fresh(w, c)
         /\ IsFiniteSet(Recent(w, c))
         /\ Cardinality(Recent(w, c)) \in Nat
         /\ Cardinality(Recent(w, c)) <= Limit
<1>1. Recent(w, c) = Fresh(w, c)
  BY DEF IInv, RemembersFresh, Recent, Fresh
<1>2. Recent(w, c) \subseteq _requests[w][c] /\ IsFiniteSet(_requests[w][c])
  BY DEF IInv, RemembersFresh, Recent
<1>3. /\ IsFiniteSet(Recent(w, c))
      /\ Cardinality(Recent(w, c)) <= Cardinality(_requests[w][c])
  BY <1>2, FS_Subset
<1>4. Cardinality(Recent(w, c)) \in Nat /\ Cardinality(_requests[w][c]) \in Nat
  BY <1>2, <1>3, FS_CardinalityType
<1>5. Cardinality(_requests[w][c]) <= Limit
  BY DEF IInv, TypeOK
<1> QED BY <1>1, <1>3, <1>4, <1>5, LimiterAssumption

LEMMA InitInv == Init => IInv
<1> SUFFICES ASSUME Init PROVE IInv
  OBVIOUS
<1> USE LimiterAssumption, FS_EmptySet DEF Init
<1>1. TypeOK
  BY DEF TypeOK
<1>2. RemembersFresh
  BY DEF RemembersFresh, Fresh
<1>3. AskedBefore
  BY DEF AskedBefore
<1>4. Capped
  <2> SUFFICES ASSUME NEW w \in Workers, NEW c \in Clients, NEW t \in Nat
               PROVE  IsFiniteSet(Window(w, c, t)) /\ Cardinality(Window(w, c, t)) <= Limit
    BY DEF Capped
  <2>1. Window(w, c, t) = {}
    BY DEF Window
  <2> QED BY <2>1
<1> QED BY <1>1, <1>2, <1>3, <1>4 DEF IInv

\* Letting a request through keeps every window within the limit: a window
\* that the request falls into holds, besides it, fresh requests only.
LEMMA AdmitInv ==
  ASSUME IInv, NEW w \in Workers, NEW c \in Clients, NEW r \in Requests, Admit(w, c, r)
  PROVE  IInv'
<1> DEFINE kept == Recent(w, c) \cup {r}
<1> USE LimiterAssumption
<1>1. /\ r \notin asked
      /\ _requests' = [_requests EXCEPT ![w][c] = kept]
      /\ asked' = asked \cup {r}
      /\ through' = [through EXCEPT ![w][c] = @ \cup {r}]
      /\ at' = [at EXCEPT ![r] = now]
      /\ now' = now /\ now \in Nat
  BY DEF Admit, IInv, TypeOK
<1>2. /\ Cardinality(Recent(w, c)) < Limit /\ Cardinality(Recent(w, c)) \in Nat
      /\ IsFiniteSet(Recent(w, c)) /\ Recent(w, c) = Fresh(w, c)
  BY RecentIsFresh DEF Admit, Full
<1>3. IsFiniteSet(kept) /\ Cardinality(kept) <= Limit /\ Cardinality(kept) \in Nat
  <2>1. /\ IsFiniteSet(kept)
        /\ Cardinality(kept) = Cardinality(Recent(w, c)) \/
           Cardinality(kept) = Cardinality(Recent(w, c)) + 1
    BY <1>2, FS_AddElement
  <2> QED BY <1>2, <2>1
<1>4. ASSUME NEW x \in Workers, NEW d \in Clients
      PROVE  /\ _requests'[x][d] = IF x = w /\ d = c THEN kept ELSE _requests[x][d]
             /\ through'[x][d] = IF x = w /\ d = c THEN through[w][c] \cup {r} ELSE through[x][d]
             /\ through[x][d] \subseteq asked /\ through[x][d] \subseteq Requests
             /\ \A s \in through[x][d] : at'[s] = at[s]
  BY <1>1 DEF IInv, TypeOK, AskedBefore
<1>5. TypeOK'
  <2>1. kept \subseteq Requests
    BY DEF IInv, TypeOK, Recent
  <2>2. _requests' \in [Workers -> [Clients -> SUBSET Requests]]
    BY <1>1, <2>1 DEF IInv, TypeOK
  <2>3. \A x \in Workers, d \in Clients : Cardinality(_requests'[x][d]) <= Limit
    BY <1>3, <1>4 DEF IInv, TypeOK
  <2>4. through' \in [Workers -> [Clients -> SUBSET Requests]]
    BY <1>1 DEF IInv, TypeOK
  <2> QED BY <1>1, <2>2, <2>3, <2>4 DEF IInv, TypeOK
<1>6. AskedBefore'
  BY <1>1, <1>4 DEF IInv, TypeOK, AskedBefore
<1>7. RemembersFresh'
  <2> SUFFICES ASSUME NEW x \in Workers, NEW d \in Clients
               PROVE  /\ Fresh(x, d)' \subseteq _requests'[x][d]
                      /\ _requests'[x][d] \subseteq through'[x][d]
                      /\ IsFiniteSet(_requests'[x][d])
    BY DEF RemembersFresh
  <2>1. CASE x = w /\ d = c
    <3>1. _requests'[x][d] = kept /\ through'[x][d] = through[w][c] \cup {r}
      BY <1>4, <2>1
    <3>2. Fresh(x, d)' \subseteq kept
      BY <1>1, <1>2, <1>4, <2>1, <3>1 DEF Fresh
    <3>3. kept \subseteq through[w][c] \cup {r}
      BY <1>2 DEF Fresh
    <3> QED BY <1>3, <3>1, <3>2, <3>3
  <2>2. CASE ~(x = w /\ d = c)
    BY <1>1, <1>4, <2>2 DEF Fresh, IInv, RemembersFresh
  <2> QED BY <2>1, <2>2
<1>8. Capped'
  <2> SUFFICES ASSUME NEW x \in Workers, NEW d \in Clients, NEW t \in Nat
               PROVE  (IsFiniteSet(Window(x, d, t)) /\ Cardinality(Window(x, d, t)) <= Limit)'
    BY DEF Capped
  <2>1. CASE ~(x = w /\ d = c) \/ now < t \/ now >= t + Period
    <3>1. Window(x, d, t)' = Window(x, d, t)
      BY <1>1, <1>4, <2>1 DEF Window, IInv, TypeOK
    <3> QED BY <3>1 DEF IInv, Capped
  <2>2. CASE x = w /\ d = c /\ t <= now /\ now < t + Period
    <3>1. Window(x, d, t)' \subseteq kept
      <4> SUFFICES ASSUME NEW s \in Window(w, c, t)' PROVE s \in kept
        BY <2>2
      <4>1. CASE s = r
        BY <4>1
      <4>2. CASE s # r
        <5>1. s \in through[w][c] /\ at[s] >= t /\ at[s] \in Nat
          BY <1>4, <4>2 DEF Window, IInv, TypeOK
        <5> QED BY <1>1, <1>2, <2>2, <5>1 DEF Fresh
      <4> QED BY <4>1, <4>2
    <3>2. /\ IsFiniteSet(Window(x, d, t)')
          /\ Cardinality(Window(x, d, t)') <= Cardinality(kept)
          /\ Cardinality(Window(x, d, t)') \in Nat
      BY <1>3, <3>1, FS_Subset, FS_CardinalityType
    <3> QED BY <1>3, <3>2
  <2> QED BY <1>1, <2>1, <2>2
<1> QED BY <1>5, <1>6, <1>7, <1>8 DEF IInv

\* A refusal only forgets requests that are no longer fresh.
LEMMA RejectInv ==
  ASSUME IInv, NEW w \in Workers, NEW c \in Clients, NEW r \in Requests, Reject(w, c, r)
  PROVE  IInv'
<1> USE LimiterAssumption
<1>1. /\ _requests' = [_requests EXCEPT ![w][c] = Recent(w, c)]
      /\ asked' = asked \cup {r}
      /\ UNCHANGED <<now, through, at>>
  BY DEF Reject
<1>2. /\ Recent(w, c) = Fresh(w, c) /\ IsFiniteSet(Recent(w, c))
      /\ Cardinality(Recent(w, c)) <= Limit
  BY RecentIsFresh
<1>3. ASSUME NEW x \in Workers, NEW d \in Clients
      PROVE  _requests'[x][d] = IF x = w /\ d = c THEN Recent(w, c) ELSE _requests[x][d]
  BY <1>1 DEF IInv, TypeOK
<1>4. TypeOK'
  <2>1. Recent(w, c) \subseteq Requests
    BY DEF IInv, TypeOK, Recent
  <2>2. _requests' \in [Workers -> [Clients -> SUBSET Requests]]
    BY <1>1, <2>1 DEF IInv, TypeOK
  <2>3. \A x \in Workers, d \in Clients : Cardinality(_requests'[x][d]) <= Limit
    BY <1>2, <1>3 DEF IInv, TypeOK
  <2> QED BY <1>1, <2>2, <2>3 DEF IInv, TypeOK
<1>5. RemembersFresh'
  BY <1>1, <1>2, <1>3 DEF IInv, RemembersFresh, Fresh, Recent
<1>6. AskedBefore' /\ Capped'
  BY <1>1 DEF IInv, AskedBefore, Capped, Window
<1> QED BY <1>4, <1>5, <1>6 DEF IInv

LEMMA NextInv == IInv /\ [Next]_vars => IInv'
<1> SUFFICES ASSUME IInv, [Next]_vars PROVE IInv'
  OBVIOUS
<1>1. CASE Tick
  <2>1. now \in Nat /\ now' = now + 1 /\ UNCHANGED <<_requests, asked, through, at>>
    BY <1>1 DEF Tick, IInv, TypeOK
  <2>2. TypeOK' /\ AskedBefore'
    BY <2>1 DEF IInv, TypeOK, AskedBefore
  <2>3. Capped'
    BY <2>1 DEF IInv, Capped, Window
  <2>4. RemembersFresh'
    <3> SUFFICES ASSUME NEW w \in Workers, NEW c \in Clients,
                        NEW r \in through[w][c], now' - at[r] < Period
                 PROVE  r \in _requests[w][c]
      BY <2>1 DEF IInv, RemembersFresh, Fresh
    <3>1. at[r] \in Nat
      BY DEF IInv, TypeOK
    <3>2. now - at[r] < Period
      BY <2>1, <3>1, LimiterAssumption
    <3> QED BY <3>2 DEF IInv, RemembersFresh, Fresh
  <2> QED BY <2>2, <2>3, <2>4 DEF IInv
<1>2. CASE UNCHANGED vars
  BY <1>2 DEF vars, IInv, TypeOK, RemembersFresh, Fresh, AskedBefore, Capped, Window
<1> QED BY <1>1, <1>2, AdmitInv, RejectInv DEF Next

LEMMA Invariance == Spec => []IInv
BY InitInv, NextInv, PTL DEF Spec

\* The limiter's state is well formed and no list is longer than the limit.
THEOREM TypeCorrect == Spec => []TypeOK
<1>1. IInv => TypeOK
  BY DEF IInv
<1> QED BY <1>1, Invariance, PTL

\* In no window of Period ticks does a worker let more than Limit requests
\* of a client through.
THEOREM WorkerCapHolds == Spec => []WorkerCap
<1>1. IInv => WorkerCap
  <2> SUFFICES ASSUME IInv, NEW w \in Workers, NEW c \in Clients, NEW t \in 0..now
               PROVE  Cardinality(Window(w, c, t)) <= Limit
    BY DEF WorkerCap
  <2>1. t \in Nat
    BY DEF IInv, TypeOK
  <2> QED BY <2>1 DEF IInv, Capped
<1> QED BY <1>1, Invariance, PTL

\* A refusal means that Limit requests went through in the last Period
\* ticks.
THEOREM RefusedOnlyWhenFullHolds == Spec => RefusedOnlyWhenFull
<1>1. IInv /\ [Next]_vars =>
        [\A w \in Workers, c \in Clients, r \in Requests :
           Reject(w, c, r) =>
             Cardinality({s \in through[w][c] : now - at[s] < Period}) = Limit]_vars
  <2> SUFFICES ASSUME IInv, NEW w \in Workers, NEW c \in Clients, NEW r \in Requests,
                      Reject(w, c, r)
               PROVE  Cardinality({s \in through[w][c] : now - at[s] < Period}) = Limit
    OBVIOUS
  <2>1. Cardinality(Recent(w, c)) >= Limit
    BY DEF Reject, Full
  <2>2. Recent(w, c) = {s \in through[w][c] : now - at[s] < Period}
    BY RecentIsFresh DEF Fresh
  <2> QED BY <2>1, <2>2, RecentIsFresh, LimiterAssumption
<1> QED BY <1>1, Invariance, PTL DEF Spec, RefusedOnlyWhenFull
=============================================================================
