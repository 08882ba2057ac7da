----------------------------- MODULE RateLimiter -----------------------------
(***************************************************************************)
(* The sliding-window limiter of api/dependencies.py: one RateLimiter per  *)
(* worker process, with the times of the requests it let through in a      *)
(* dictionary of lists.  The list of a client is kept as the set of its    *)
(* requests, whose times are in "at".  __call__ has no await, so a call is *)
(* one step; the clock does not go back.                                   *)
(***************************************************************************)
EXTENDS Naturals, FiniteSets

CONSTANTS
  Workers,   (* worker processes                                           *)
  Clients,   (* client ids, as _get_client_id tells them apart             *)
  Requests,  (* requests, one slot each                                    *)
  Limit,     (* RATE_LIMIT_REQUESTS                                        *)
  Period,    (* RATE_LIMIT_PERIOD, in ticks                                *)
  MaxTime    (* bound of the clock                                         *)

ASSUME LimiterAssumption ==
  /\ Limit \in Nat
  /\ Period \in Nat \ {0}
  /\ MaxTime \in Nat

VARIABLES
  now,        (* the clock                                                 *)
  _requests,  (* per worker and client, the requests it remembers          *)
  asked,      (* history: requests answered, let through or not            *)
  through,    (* history: per worker and client, the requests let through  *)
  at          (* history: when each request was let through                *)

vars == <<now, _requests, asked, through, at>>

Init ==
  /\ now = 0
  /\ _requests = [w \in Workers |-> [c \in Clients |-> {}]]
  /\ asked = {}
  /\ through = [w \in Workers |-> [c \in Clients |-> {}]]
  /\ at = [r \in Requests |-> 0]

\* Mutant: a request is forgotten one tick too early.
RecentOnlyBefore(w, c) == {r \in _requests[w][c] : now - at[r] < Period - 1}

\* The requests that are not older than the period.
Recent(w, c) == {r \in _requests[w][c] : now - at[r] < Period}

Full(w, c) == Cardinality(Recent(w, c)) >= Limit

Admit(w, c, r) ==
  /\ r \notin asked
  /\ ~Full(w, c)
  /\ _requests' = [_requests EXCEPT ![w][c] = Recent(w, c) \cup {r}]
  /\ asked' = asked \cup {r}
  /\ through' = [through EXCEPT ![w][c] = @ \cup {r}]
  /\ at' = [at EXCEPT ![r] = now]
  /\ UNCHANGED now

\* Mutant: the request is appended before the limit is checked.
RejectRemembers(w, c, r) ==
  /\ r \notin asked
  /\ Full(w, c)
  /\ _requests' = [_requests EXCEPT ![w][c] = Recent(w, c) \cup {r}]
  /\ asked' = asked \cup {r}
  /\ at' = [at EXCEPT ![r] = now]
  /\ UNCHANGED <<now, through>>

\* 429; the old requests are forgotten all the same.
Reject(w, c, r) ==
  /\ r \notin asked
  /\ Full(w, c)
  /\ _requests' = [_requests EXCEPT ![w][c] = Recent(w, c)]
  /\ asked' = asked \cup {r}
  /\ UNCHANGED <<now, through, at>>

Tick ==
  /\ now < MaxTime
  /\ now' = now + 1
  /\ UNCHANGED <<_requests, asked, through, at>>

Next ==
  \/ \E w \in Workers, c \in Clients, r \in Requests : Admit(w, c, r) \/ Reject(w, c, r)
  \/ Tick

Spec == Init /\ [][Next]_vars

-----------------------------------------------------------------------------
(* Properties                                                              *)

\* Types; a worker never remembers more than Limit requests of a client.
TypeOK ==
  /\ now \in Nat
  /\ _requests \in [Workers -> [Clients -> SUBSET Requests]]
  /\ \A w \in Workers, c \in Clients : Cardinality(_requests[w][c]) <= Limit
  /\ asked \subseteq Requests
  /\ through \in [Workers -> [Clients -> SUBSET Requests]]
  /\ at \in [Requests -> Nat]

\* The requests a worker let through for a client in the window that begins
\* at t.
Window(w, c, t) == {r \in through[w][c] : at[r] >= t /\ at[r] < t + Period}

\* No window of Period ticks, wherever it begins, holds more than Limit
\* requests that one worker let through for one client.
WorkerCap ==
  \A w \in Workers, c \in Clients, t \in 0..now :
    Cardinality(Window(w, c, t)) <= Limit

\* A request is refused only if the worker let Limit requests of the client
\* through in the last Period ticks: refused requests do not count.
RefusedOnlyWhenFull ==
  [][\A w \in Workers, c \in Clients, r \in Requests :
       Reject(w, c, r) =>
         Cardinality({s \in through[w][c] : now - at[s] < Period}) = Limit]_vars
=============================================================================
