------------------------ MODULE AlertIngress_proofs ------------------------
(***************************************************************************)
(* Proofs about AlertIngress.tla, for any workers, alerts, fingerprints,   *)
(* requests, window and faults, and however many requests overlap.         *)
(***************************************************************************)
EXTENDS AlertIngress, TLAPS

\* A key lives exactly until its last claim is a window old: nothing else
\* touches it.
KeyIsClaim == \A f \in Fingerprints : key[f] = Window - since[f]

\* The worker of a request under way remembers its alert.
RunningIsRecorded ==
  \A r \in Requests : pc[r] # "free" =>
    /\ req[r] # None
    /\ pc[r] \in Running => req[r].alert \in processed[req[r].worker]

IInv == TypeOK /\ KeyIsClaim /\ RunningIsRecorded /\ OneTaskPerIdAndWorker

\* A request's fingerprint is one of the fingerprints.
LEMMA FpType ==
  ASSUME IInv, NEW r \in Requests, pc[r] # "free"
  PROVE  /\ req[r] \in Request
         /\ Fp(r) \in Fingerprints
BY DEF IInv, TypeOK, RunningIsRecorded, Fp, Fingerprints, Request

-----------------------------------------------------------------------------
LEMMA InitInv == Init => IInv
BY IngressAssumption DEF Init, IInv, TypeOK, KeyIsClaim, RunningIsRecorded,
   OneTaskPerIdAndWorker, InFlight, Running, Ended, Forever

\* An endpoint takes a request: it is new to the worker, or it ends here.
LEMMA WebhookInv ==
  ASSUME IInv, NEW r \in Requests, Webhook(r)
  PROVE  IInv'
<1> USE IngressAssumption
<1>1. PICK w \in Workers, a \in Alerts, to \in Running \cup Ended :
        /\ pc[r] = "free"
        /\ req' = [req EXCEPT ![r] = [alert |-> a, worker |-> w]]
        /\ pc' = [pc EXCEPT ![r] = to]
        /\ to \in Running => a \notin processed[w]
        /\ \/ to \notin Running /\ processed' = processed
           \/ processed' = [processed EXCEPT ![w] = @ \cup {a}]
        /\ UNCHANGED <<key, count, since, repeats>>
  BY DEF Webhook, SeenBefore, AdoWebhook, TripwireWebhook, Arrives, Move, Running, Ended
<1>2. [alert |-> a, worker |-> w] \in Request /\ [alert |-> a, worker |-> w] # None
  BY DEF Request
<1>3. TypeOK'
  BY <1>1, <1>2 DEF IInv, TypeOK
<1>4. KeyIsClaim'
  BY <1>1 DEF IInv, KeyIsClaim
<1>5. \A v \in Workers : processed[v] \subseteq processed'[v]
  BY <1>1 DEF IInv, TypeOK
<1>6. RunningIsRecorded'
  BY <1>1, <1>2, <1>5 DEF IInv, TypeOK, RunningIsRecorded, Request
<1>7. OneTaskPerIdAndWorker'
  BY <1>1, <1>2 DEF IInv, TypeOK, OneTaskPerIdAndWorker, RunningIsRecorded, InFlight, Running
<1> QED BY <1>3, <1>4, <1>6, <1>7 DEF IInv

\* Moving on: a request that is under way goes further or ends, and changes
\* nothing but the keys.
LEMMA MovesOn ==
  ASSUME IInv, NEW r \in Requests, NEW to \in Running \cup Ended,
         pc[r] \in Running, Move(r, to), UNCHANGED <<req, processed>>
  PROVE  /\ pc' \in [Requests -> {"free"} \cup Running \cup Ended]
         /\ RunningIsRecorded'
         /\ OneTaskPerIdAndWorker'
<1>1. pc' = [pc EXCEPT ![r] = to] /\ pc[r] # "free" /\ to # "free"
  BY DEF Move, Running, Ended
<1>2. pc' \in [Requests -> {"free"} \cup Running \cup Ended]
  BY <1>1 DEF IInv, TypeOK
<1>3. RunningIsRecorded'
  BY <1>1 DEF IInv, TypeOK, RunningIsRecorded
<1>4. \A s \in Requests : pc'[s] \in Running => pc[s] \in Running
  BY <1>1 DEF IInv, TypeOK
<1>5. OneTaskPerIdAndWorker'
  BY <1>4 DEF IInv, OneTaskPerIdAndWorker, InFlight
<1> QED BY <1>2, <1>3, <1>5

\* What a task does with its keys is well typed and keeps KeyIsClaim.
LEMMA TaskKeys ==
  ASSUME IInv, NEW r \in Requests, Task(r) \/ AuditRaises(r) \/ RedisRaises(r)
  PROVE  /\ \E to \in Running \cup Ended : Move(r, to)
         /\ pc[r] \in Running /\ UNCHANGED <<req, processed>>
         /\ key' \in [Fingerprints -> 0..Window]
         /\ count' \in [Fingerprints -> [n : Nat, ttl : 0..Forever]]
         /\ since' \in [Fingerprints -> 0..Window]
         /\ repeats' \in [Fingerprints -> Nat]
         /\ KeyIsClaim'
<1> USE IngressAssumption
<1>1. pc[r] \in Running /\ UNCHANGED <<req, processed>>
  BY DEF Task, Verify, Get, Incr, Expire, Claim, ResetCount, Begin, AuditRaises, RedisRaises, Running
<1>2. \E to \in Running \cup Ended : Move(r, to)
  BY DEF Task, Verify, Get, Incr, Expire, Claim, ResetCount, Begin, AuditRaises, RedisRaises,
         Running, Ended
<1>3. Fp(r) \in Fingerprints
  BY <1>1, FpType DEF Running
<1>4. /\ key \in [Fingerprints -> 0..Window] /\ since \in [Fingerprints -> 0..Window]
      /\ count \in [Fingerprints -> [n : Nat, ttl : 0..Forever]]
      /\ repeats \in [Fingerprints -> Nat]
      /\ KeyIsClaim
  BY DEF IInv, TypeOK
<1>5. CASE /\ UNCHANGED <<key, since>>
           /\ \/ UNCHANGED <<count, repeats>>
              \/ IncrCount(Fp(r)) \/ ExpireCount(Fp(r)) \/ SetCount(Fp(r))
  <2>1. KeyIsClaim' /\ key' \in [Fingerprints -> 0..Window]
        /\ since' \in [Fingerprints -> 0..Window]
    BY <1>4, <1>5 DEF KeyIsClaim
  <2>2. /\ count' \in [Fingerprints -> [n : Nat, ttl : 0..Forever]]
        /\ repeats' \in [Fingerprints -> Nat]
    BY <1>3, <1>4, <1>5 DEF IncrCount, ExpireCount, SetCount, Forever
  <2> QED BY <1>1, <1>2, <2>1, <2>2
<1>6. CASE SetKey(Fp(r))
  BY <1>1, <1>2, <1>3, <1>4, <1>6 DEF SetKey, KeyIsClaim
<1> QED BY <1>5, <1>6 DEF Task, Verify, Get, Incr, IncrCount, Expire, ExpireCount, Claim,
                          ResetCount, SetCount, Begin, AuditRaises, RedisRaises

LEMMA NextInv == IInv /\ [Next]_vars => IInv'
<1> SUFFICES ASSUME IInv, [Next]_vars PROVE IInv'
  OBVIOUS
<1> USE IngressAssumption
<1>1. CASE UNCHANGED vars
  BY <1>1 DEF vars, IInv, TypeOK, KeyIsClaim, RunningIsRecorded, OneTaskPerIdAndWorker, InFlight
<1>2. ASSUME NEW r \in Requests, Task(r) \/ AuditRaises(r) \/ RedisRaises(r)
      PROVE  IInv'
  <2>1. PICK to \in Running \cup Ended : Move(r, to)
    BY <1>2, TaskKeys
  <2> QED BY <1>2, <2>1, TaskKeys, MovesOn DEF IInv, TypeOK
<1>3. ASSUME NEW w \in Workers, Die(w) PROVE IInv'
  <2>1. /\ pc' \in [Requests -> {"free"} \cup Running \cup Ended]
        /\ processed' \in [Workers -> SUBSET Alerts]
    BY <1>3 DEF Die, IInv, TypeOK, Ended
  <2>2. \A r \in Requests :
          /\ pc'[r] # "free" => pc[r] # "free"
          /\ pc'[r] \in Running => pc[r] \in Running /\ req[r].worker # w
    BY <1>3 DEF Die, InFlight, Running
  <2>3. \A v \in Workers : v # w => processed'[v] = processed[v]
    BY <1>3 DEF Die, IInv, TypeOK
  <2>4. RunningIsRecorded'
    <3> SUFFICES ASSUME NEW r \in Requests, pc'[r] # "free"
                 PROVE  /\ req[r] # None
                        /\ pc'[r] \in Running => req[r].alert \in processed'[req[r].worker]
      BY <1>3 DEF Die, RunningIsRecorded
    <3>1. req[r] \in Request /\ req[r] # None
      BY <2>2, FpType DEF IInv, RunningIsRecorded
    <3> QED BY <2>2, <2>3, <3>1 DEF IInv, RunningIsRecorded, Request
  <2>5. OneTaskPerIdAndWorker'
    BY <1>3, <2>2 DEF Die, IInv, OneTaskPerIdAndWorker, InFlight
  <2> QED BY <1>3, <2>1, <2>4, <2>5 DEF Die, IInv, TypeOK, KeyIsClaim
<1>4. CASE Tick
  <2>1. UNCHANGED <<req, pc, processed, repeats>>
    BY <1>4 DEF Tick
  <2>2. key' \in [Fingerprints -> 0..Window] /\ since' \in [Fingerprints -> 0..Window]
        /\ KeyIsClaim'
    BY <1>4 DEF Tick, Less, IInv, TypeOK, KeyIsClaim
  <2>3. count' \in [Fingerprints -> [n : Nat, ttl : 0..Forever]]
    BY <1>4 DEF Tick, Less, IInv, TypeOK, Forever
  <2> QED BY <2>1, <2>2, <2>3 DEF IInv, TypeOK, RunningIsRecorded, OneTaskPerIdAndWorker, InFlight
<1> QED BY <1>1, <1>2, <1>3, <1>4, WebhookInv DEF Next

LEMMA Invariance == Spec => []IInv
BY InitInv, NextInv, PTL DEF Spec

\* The requests, the workers' sets and the Redis keys are well formed; no
\* key outlives the window.
THEOREM TypeCorrect == Spec => []TypeOK
<1>1. IInv => TypeOK
  BY DEF IInv
<1> QED BY <1>1, Invariance, PTL

\* One worker never runs two tasks for one alert id.
THEOREM OneTaskPerIdAndWorkerHolds == Spec => []OneTaskPerIdAndWorker
<1>1. IInv => OneTaskPerIdAndWorker
  BY DEF IInv
<1> QED BY <1>1, Invariance, PTL

\* However many duplicates arrive, a fingerprint is let through again once
\* its last claim is a window old, and not before.
THEOREM DroppedIffInWindowHolds == Spec => DroppedIffInWindow
<1>1. IInv /\ [Next]_vars =>
        [\A r \in Requests :
           pc[r] = "queued" /\ pc'[r] \in {"hit", "miss"} =>
             (pc'[r] = "hit" <=> since[Fp(r)] < Window)]_vars
  <2> SUFFICES ASSUME IInv, Next, NEW r \in Requests, pc[r] = "queued",
                      pc'[r] \in {"hit", "miss"}
               PROVE  pc'[r] = "hit" <=> since[Fp(r)] < Window
    BY DEF vars
  <2> USE IngressAssumption
  <2>1. Fp(r) \in Fingerprints
    BY FpType
  <2>2. Get(r)
    <3>1. ASSUME NEW s \in Requests, Webhook(s) PROVE FALSE
      BY <3>1 DEF Webhook, SeenBefore, AdoWebhook, TripwireWebhook, Arrives, Move, IInv, TypeOK
    <3>2. ASSUME NEW s \in Requests, AuditRaises(s) \/ RedisRaises(s) PROVE FALSE
      BY <3>2 DEF AuditRaises, RedisRaises, Move, IInv, TypeOK
    <3>3. ASSUME NEW s \in Requests, Task(s), s # r PROVE FALSE
      BY <3>3 DEF Task, Verify, Get, Incr, Expire, Claim, ResetCount, Begin, Move, IInv, TypeOK
    <3>4. ASSUME NEW w \in Workers, Die(w) PROVE FALSE
      BY <3>4 DEF Die
    <3>5. ~Tick
      BY DEF Tick
    <3>6. Task(r) => Get(r)
      BY DEF Task, Verify, Incr, Expire, Claim, ResetCount, Begin
    <3> QED BY <3>1, <3>2, <3>3, <3>4, <3>5, <3>6 DEF Next
  <2>3. pc'[r] = "hit" <=> key[Fp(r)] > 0
    BY <2>2 DEF Get, Move, IInv, TypeOK
  <2> QED BY <2>1, <2>3 DEF IInv, TypeOK, KeyIsClaim
<1> QED BY <1>1, Invariance, PTL DEF Spec, DroppedIffInWindow

-----------------------------------------------------------------------------
(* Owners and counts of a fingerprint                                      *)

Owner(f) == \E s \in Requests : pc[s] \in {"claimed", "fresh", "started"} /\ Fp(s) = f
Dropping(f) == \E s \in Requests : pc[s] \in {"hit", "counted", "duplicate"} /\ Fp(s) = f
Claiming(f) == \E s \in Requests : pc[s] = "claimed" /\ Fp(s) = f

\* A key has a request behind it; and between a SETEX of the key and that of
\* the count, the count may be of an earlier window, but otherwise it is not
\* and lives as long as the key.
OwnedAt(f) ==
  /\ count[f].ttl > 0 => count[f].n >= 1
  /\ Unscathed(f) =>
       /\ key[f] > 0 \/ Dropping(f) => Owner(f)
       /\ ~Claiming(f) => count[f].n <= 1 + repeats[f] /\ key[f] <= count[f].ttl

Owned == \A f \in Fingerprints : OwnedAt(f)

LEMMA InitOwned == Init => Owned
BY DEF Init, Owned, OwnedAt, Dropping, Claiming

\* A step of a request says nothing of another fingerprint.
LEMMA Elsewhere ==
  ASSUME IInv, NEW r \in Requests, NEW to, Move(r, to), UNCHANGED req,
         NEW f \in Fingerprints, f # Fp(r), OwnedAt(f),
         key'[f] = key[f], count'[f] = count[f], repeats'[f] = repeats[f]
  PROVE  OwnedAt(f)'
<1>1. /\ \A s \in Requests : Fp(s)' = Fp(s)
      /\ \A s \in Requests : s # r => pc'[s] = pc[s]
  BY DEF Fp, Move, IInv, TypeOK
<1>2. /\ Unscathed(f)' => Unscathed(f)
      /\ Dropping(f)' => Dropping(f)
      /\ Owner(f) => Owner(f)'
      /\ Claiming(f) => Claiming(f)'
  BY <1>1 DEF Unscathed, Dropping, Owner, Claiming
<1> QED BY <1>2 DEF OwnedAt

\* A step of a request for its own fingerprint.
LEMMA TaskOwned ==
  ASSUME IInv, NEW r \in Requests, Task(r),
         NEW f \in Fingerprints, f = Fp(r), OwnedAt(f)
  PROVE  OwnedAt(f)'
<1> USE IngressAssumption
<1>1. /\ UNCHANGED req /\ pc[r] \in Running
      /\ \A s \in Requests : Fp(s)' = Fp(s)
  BY TaskKeys DEF Fp
<1>3. /\ count[f] \in [n : Nat, ttl : 0..Forever] /\ key[f] \in 0..Window /\ repeats[f] \in Nat
  BY DEF IInv, TypeOK
<1>4. ASSUME NEW to, Move(r, to)
      PROVE  /\ pc'[r] = to /\ \A s \in Requests : s # r => pc'[s] = pc[s]
  BY <1>4 DEF Move, IInv, TypeOK
<1>5. ASSUME NEW to, Move(r, to), to \notin {"failed", "lost"}
      PROVE  Unscathed(f)' => Unscathed(f)
  BY <1>1, <1>4, <1>5 DEF Unscathed, Running
<1>6. CASE Verify(r)
  <2>1. PICK to \in {"rejected", "filtered", "queued"} : Move(r, to)
    BY <1>6 DEF Verify
  <2>2. Unscathed(f)' => Unscathed(f)
    BY <2>1, <1>5
  <2>3. /\ Dropping(f)' => Dropping(f)
        /\ Owner(f) => Owner(f)'
        /\ Claiming(f) => Claiming(f)'
    BY <1>1, <1>4, <1>6, <2>1 DEF Verify, Dropping, Owner, Claiming
  <2> QED BY <1>3, <1>6, <2>2, <2>3 DEF Verify, OwnedAt
<1>7. CASE Get(r)
  <2>1. PICK to \in {"hit", "miss"} : Move(r, to) /\ (to = "hit" => key[f] > 0)
    BY <1>7 DEF Get
  <2>2. Unscathed(f)' => Unscathed(f)
    BY <2>1, <1>5
  <2>3. /\ Dropping(f)' => Dropping(f) \/ key[f] > 0
        /\ Owner(f) => Owner(f)'
        /\ Claiming(f) => Claiming(f)'
    BY <1>1, <1>4, <1>7, <2>1 DEF Get, Dropping, Owner, Claiming
  <2> QED BY <1>3, <1>7, <2>2, <2>3 DEF Get, OwnedAt
<1>8. CASE Incr(r)
  <2>1. Move(r, "counted") /\ pc[r] = "hit"
    BY <1>8 DEF Incr
  <2>2. Unscathed(f)' => Unscathed(f)
    BY <2>1, <1>5
  <2>3. /\ Dropping(f)
        /\ Owner(f) => Owner(f)'
        /\ Claiming(f) => Claiming(f)'
    BY <1>1, <1>4, <2>1 DEF Dropping, Owner, Claiming
  <2>4. /\ count'[f].n = count[f].n + 1 /\ repeats'[f] = repeats[f] + 1
        /\ count'[f].ttl = (IF count[f].ttl = 0 THEN Forever ELSE count[f].ttl)
        /\ key' = key
    BY <1>8 DEF Incr, IncrCount, IInv, TypeOK
  <2> QED BY <1>3, <2>2, <2>3, <2>4 DEF OwnedAt, Forever
<1>9. CASE Expire(r)
  <2>1. Move(r, "duplicate") /\ pc[r] = "counted"
    BY <1>9 DEF Expire
  <2>2. Unscathed(f)' => Unscathed(f)
    BY <2>1, <1>5
  <2>3. /\ Dropping(f)
        /\ Owner(f) => Owner(f)'
        /\ Claiming(f) => Claiming(f)'
    BY <1>1, <1>4, <2>1 DEF Dropping, Owner, Claiming
  <2>4. /\ count'[f].n = count[f].n /\ UNCHANGED <<key, repeats>>
        /\ count'[f].ttl = (IF count[f].ttl = 0 THEN 0 ELSE Window)
    BY <1>9 DEF Expire, ExpireCount, IInv, TypeOK
  <2> QED BY <1>3, <2>2, <2>3, <2>4 DEF OwnedAt, Forever
<1>10. CASE Claim(r)
  <2>1. Move(r, "claimed") /\ UNCHANGED count
    BY <1>10 DEF Claim, SetKey
  <2>2. Owner(f)' /\ Claiming(f)'
    BY <1>1, <1>4, <2>1 DEF Owner, Claiming
  <2> QED BY <1>3, <2>1, <2>2 DEF OwnedAt
<1>11. CASE ResetCount(r)
  <2>1. Move(r, "fresh")
    BY <1>11 DEF ResetCount
  <2>2. Owner(f)'
    BY <1>1, <1>4, <2>1 DEF Owner
  <2>3. count'[f] = [n |-> 1, ttl |-> Window] /\ UNCHANGED <<key, repeats>>
    BY <1>11 DEF ResetCount, SetCount, IInv, TypeOK
  <2> QED BY <1>3, <2>2, <2>3 DEF OwnedAt
<1>12. CASE Begin(r)
  <2>1. Move(r, "started") /\ pc[r] = "fresh" /\ UNCHANGED <<key, count, repeats>>
    BY <1>12 DEF Begin
  <2>2. Unscathed(f)' => Unscathed(f)
    BY <2>1, <1>5
  <2>3. Claiming(f) => Claiming(f)'
    BY <1>1, <1>4, <2>1 DEF Claiming
  <2>4. Owner(f)'
    BY <1>1, <1>4, <2>1 DEF Owner
  <2> QED BY <1>3, <2>1, <2>2, <2>3, <2>4 DEF OwnedAt
<1> QED BY <1>6, <1>7, <1>8, <1>9, <1>10, <1>11, <1>12 DEF Task

\* A request that arrives owes nothing and has nothing yet.
LEMMA WebhookOwned ==
  ASSUME IInv, NEW r \in Requests, Webhook(r), NEW f \in Fingerprints, OwnedAt(f)
  PROVE  OwnedAt(f)'
<1>1. PICK to \in {"filtered", "rejected", "queued", "verifying"} :
        pc[r] = "free" /\ pc' = [pc EXCEPT ![r] = to]
  BY DEF Webhook, SeenBefore, AdoWebhook, TripwireWebhook, Arrives, Move
<1>2. UNCHANGED <<key, count, repeats>>
  BY DEF Webhook, SeenBefore, AdoWebhook, TripwireWebhook, Arrives
<1>3. \A s \in Requests : s # r => pc'[s] = pc[s] /\ req'[s] = req[s]
  BY DEF Webhook, SeenBefore, AdoWebhook, TripwireWebhook, Arrives, Move, IInv, TypeOK
<1>4. pc'[r] = to /\ \A s \in Requests : s # r => Fp(s)' = Fp(s)
  BY <1>1, <1>3 DEF Fp, IInv, TypeOK
<1>5. /\ Unscathed(f)' => Unscathed(f)
      /\ Dropping(f)' => Dropping(f)
      /\ Owner(f) => Owner(f)'
      /\ Claiming(f) => Claiming(f)'
  BY <1>1, <1>3, <1>4 DEF Unscathed, Dropping, Owner, Claiming
<1> QED BY <1>2, <1>5 DEF OwnedAt

\* A task that an exception ends leaves a fingerprint that is not unscathed.
LEMMA FailOwned ==
  ASSUME IInv, NEW r \in Requests, AuditRaises(r) \/ RedisRaises(r),
         NEW f \in Fingerprints, f = Fp(r), OwnedAt(f)
  PROVE  OwnedAt(f)'
<1>1. Move(r, "failed") /\ UNCHANGED req
  BY DEF AuditRaises, RedisRaises
<1>2. ~Unscathed(f)'
  BY <1>1 DEF Move, Unscathed, Fp, IInv, TypeOK
<1>3. count[f].ttl > 0 => count[f].n >= 1
  BY DEF OwnedAt
<1>4. count[f] \in [n : Nat, ttl : 0..Forever]
  BY DEF IInv, TypeOK
<1>5. \/ count'[f] = count[f] \/ count'[f].n = 1
      \/ count'[f].n = count[f].n + 1
      \/ /\ count'[f].n = count[f].n
         /\ count'[f].ttl > 0 => count[f].ttl > 0
  BY <1>4, IngressAssumption DEF AuditRaises, RedisRaises, IncrCount, ExpireCount, SetKey,
     SetCount, IInv, TypeOK, Forever
<1> QED BY <1>2, <1>3, <1>4, <1>5 DEF OwnedAt

LEMMA DieOwned ==
  ASSUME IInv, NEW w \in Workers, Die(w), NEW f \in Fingerprints, OwnedAt(f)
  PROVE  OwnedAt(f)'
<1>1. /\ UNCHANGED <<req, key, count, repeats>>
      /\ \A s \in Requests : pc'[s] = "lost" \/ pc'[s] = pc[s]
      /\ \A s \in Requests : pc[s] \in {"failed", "lost", "started"} => pc'[s] = pc[s]
  BY DEF Die, InFlight, Running
<1>2. \A s \in Requests : Fp(s)' = Fp(s)
  BY <1>1 DEF Fp
<1>3. /\ Unscathed(f)' => Unscathed(f)
      /\ Dropping(f)' => Dropping(f)
      /\ Unscathed(f)' => (Owner(f) => Owner(f)')
      /\ Unscathed(f)' => (Claiming(f) => Claiming(f)')
  BY <1>1, <1>2 DEF Unscathed, Dropping, Owner, Claiming
<1> QED BY <1>1, <1>3 DEF OwnedAt

\* Keys and counts grow old together.
LEMMA TickOwned ==
  ASSUME IInv, Tick, NEW f \in Fingerprints, OwnedAt(f)
  PROVE  OwnedAt(f)'
<1> USE IngressAssumption
<1>1. /\ UNCHANGED <<req, pc, repeats>>
      /\ key'[f] = Less(key[f])
      /\ count'[f] = IF count[f].ttl = Forever THEN count[f]
                     ELSE [n   |-> IF count[f].ttl <= 1 THEN 0 ELSE count[f].n,
                           ttl |-> Less(count[f].ttl)]
  BY DEF Tick
<1>2. /\ count[f] \in [n : Nat, ttl : 0..Forever] /\ key[f] \in 0..Window
      /\ repeats[f] \in Nat
  BY DEF IInv, TypeOK
<1>3. /\ Unscathed(f)' = Unscathed(f) /\ Dropping(f)' = Dropping(f)
      /\ Owner(f)' = Owner(f) /\ Claiming(f)' = Claiming(f)
  BY <1>1 DEF Unscathed, Dropping, Owner, Claiming, Fp
<1>4. key'[f] <= key[f] /\ key'[f] \in Nat
  BY <1>1, <1>2 DEF Less
<1>5. CASE count[f].ttl = Forever
  BY <1>1, <1>2, <1>3, <1>4, <1>5 DEF OwnedAt
<1>6. CASE count[f].ttl # Forever
  <2>1. /\ count'[f].n = (IF count[f].ttl <= 1 THEN 0 ELSE count[f].n)
        /\ count'[f].ttl = Less(count[f].ttl)
    BY <1>1, <1>6
  <2> QED BY <1>1, <1>2, <1>3, <1>4, <2>1 DEF OwnedAt, Less
<1> QED BY <1>5, <1>6

LEMMA NextOwned == IInv /\ Owned /\ [Next]_vars => Owned'
<1> SUFFICES ASSUME IInv, Owned, [Next]_vars, NEW f \in Fingerprints
             PROVE  OwnedAt(f)'
  BY DEF Owned
<1>1. OwnedAt(f)
  BY DEF Owned
<1>2. ASSUME NEW r \in Requests, Task(r) \/ AuditRaises(r) \/ RedisRaises(r)
      PROVE  OwnedAt(f)'
  <2>1. CASE f = Fp(r)
    BY <1>1, <1>2, <2>1, TaskOwned, FailOwned
  <2>2. CASE f # Fp(r)
    <3>1. PICK to \in Running \cup Ended : Move(r, to)
      BY <1>2, TaskKeys
    <3>2. UNCHANGED req
      BY <1>2, TaskKeys
    <3>3. key'[f] = key[f] /\ count'[f] = count[f] /\ repeats'[f] = repeats[f]
      BY <1>2, <2>2 DEF Task, Verify, Get, Incr, IncrCount, Expire, ExpireCount, Claim,
                        ResetCount, SetCount, Begin, AuditRaises, RedisRaises, SetKey,
                        IInv, TypeOK
    <3> QED BY <1>1, <2>2, <3>1, <3>2, <3>3, Elsewhere
  <2> QED BY <2>1, <2>2
<1>3. CASE UNCHANGED vars
  BY <1>1, <1>3 DEF vars, OwnedAt, Unscathed, Dropping, Owner, Claiming, Fp
<1> QED BY <1>1, <1>2, <1>3, WebhookOwned, DieOwned, TickOwned DEF Next

LEMMA OwnedInvariance == Spec => [](IInv /\ Owned)
BY InitInv, InitOwned, NextInv, NextOwned, PTL DEF Spec

\* An alert that start_workflow drops as a duplicate has a request of its
\* fingerprint that has entered the graph or is about to, for any workers
\* and alerts, unless a request of that fingerprint failed or died.
THEOREM DuplicateHasOwnerHolds == Spec => []DuplicateHasOwner
<1>1. IInv /\ Owned => DuplicateHasOwner
  <2> SUFFICES ASSUME IInv, Owned, NEW r \in Requests, pc[r] = "duplicate", Unscathed(Fp(r))
               PROVE  \E s \in Requests :
                        pc[s] \in {"claimed", "fresh", "started"} /\ Fp(s) = Fp(r)
    BY DEF DuplicateHasOwner
  <2>1. Fp(r) \in Fingerprints
    BY FpType
  <2> QED BY <2>1 DEF Owned, OwnedAt, Dropping, Owner
<1> QED BY <1>1, OwnedInvariance, PTL

\* What is_duplicate counts for an earlier claim of a fingerprint is never
\* counted for a later one, however claims and duplicates race in Redis.
THEOREM CountNeverOverHolds == Spec => []CountNeverOver
<1>1. IInv /\ Owned => CountNeverOver
  <2> SUFFICES ASSUME IInv, Owned, InFlight = {}, NEW f \in Fingerprints,
                      key[f] > 0, Unscathed(f)
               PROVE  count[f].n \in 1..(1 + repeats[f])
    BY DEF CountNeverOver
  <2>1. ~Claiming(f)
    BY DEF Claiming, InFlight, Running
  <2>2. /\ count[f] \in [n : Nat, ttl : 0..Forever] /\ key[f] \in 0..Window
        /\ repeats[f] \in Nat
    BY DEF IInv, TypeOK
  <2>3. /\ count[f].ttl > 0 => count[f].n >= 1
        /\ count[f].n <= 1 + repeats[f] /\ key[f] <= count[f].ttl
    BY <2>1 DEF Owned, OwnedAt
  <2> QED BY <2>2, <2>3, IngressAssumption DEF Forever
<1> QED BY <1>1, OwnedInvariance, PTL
-----------------------------------------------------------------------------
(* Every request has an end                                                *)

\* How many steps a request has left at most.
StepsLeft(r) ==
  CASE pc[r] = "verifying" -> 5
    [] pc[r] = "queued"    -> 4
    [] pc[r] = "miss"      -> 3
    [] pc[r] \in {"hit", "claimed"}   -> 2
    [] pc[r] \in {"counted", "fresh"} -> 1
    [] OTHER -> 0

\* Whatever other requests do to the keys between its commands, each step of
\* a request brings it nearer to its end, and nothing but its own steps, its
\* faults and the death of its worker moves it.
RequestsDwindle ==
  \A r \in Requests :
    /\ pc[r] \in Running => StepsLeft(r) \in 1..5
    /\ Task(r) => StepsLeft(r)' < StepsLeft(r)
    /\ pc'[r] # pc[r] => (pc[r] = "free" /\ Webhook(r)) \/ StepsLeft(r)' < StepsLeft(r)

LEMMA StepDwindles == IInv /\ [Next]_vars => [RequestsDwindle]_vars
<1> SUFFICES ASSUME IInv, [Next]_vars, NEW r \in Requests
             PROVE  /\ pc[r] \in Running => StepsLeft(r) \in 1..5
                    /\ Task(r) => StepsLeft(r)' < StepsLeft(r)
                    /\ pc'[r] # pc[r] =>
                         (pc[r] = "free" /\ Webhook(r)) \/ StepsLeft(r)' < StepsLeft(r)
  BY DEF RequestsDwindle
<1>0. pc \in [Requests -> {"free"} \cup Running \cup Ended]
  BY DEF IInv, TypeOK
<1>1. pc[r] \in Running => StepsLeft(r) \in 1..5
  BY DEF Running, StepsLeft
<1>2. ASSUME NEW s \in Requests, NEW to, Move(s, to)
      PROVE  pc'[s] = to /\ (r # s => pc'[r] = pc[r])
  BY <1>0, <1>2 DEF Move
<1>3. ASSUME NEW s \in Requests, Task(s)
      PROVE  /\ r # s => pc'[r] = pc[r]
             /\ r = s => StepsLeft(r)' < StepsLeft(r)
  <2>1. CASE Verify(s)
    <3>1. pc[s] = "verifying" /\ \E to \in {"rejected", "filtered", "queued"} : Move(s, to)
      BY <2>1 DEF Verify
    <3> QED BY <1>2, <3>1 DEF StepsLeft
  <2>2. CASE Get(s)
    <3>1. pc[s] = "queued" /\ \E to \in {"hit", "miss"} : Move(s, to)
      BY <2>2 DEF Get
    <3> QED BY <1>2, <3>1 DEF StepsLeft
  <2>3. CASE Claim(s)
    <3>1. pc[s] = "miss" /\ Move(s, "claimed")
      BY <2>3 DEF Claim
    <3> QED BY <1>2, <3>1 DEF StepsLeft
  <2>4. CASE Incr(s) \/ ResetCount(s)
    <3>1. pc[s] \in {"hit", "claimed"} /\ \E to \in {"counted", "fresh"} : Move(s, to)
      BY <2>4 DEF Incr, ResetCount
    <3> QED BY <1>2, <3>1 DEF StepsLeft
  <2>5. CASE Expire(s) \/ Begin(s)
    <3>1. pc[s] \in {"counted", "fresh"} /\ \E to \in {"duplicate", "started"} : Move(s, to)
      BY <2>5 DEF Expire, Begin
    <3> QED BY <1>2, <3>1 DEF StepsLeft
  <2> QED BY <1>3, <2>1, <2>2, <2>3, <2>4, <2>5 DEF Task
<1>4. ASSUME pc'[r] # pc[r]
      PROVE  (pc[r] = "free" /\ Webhook(r)) \/ StepsLeft(r)' < StepsLeft(r)
  <2>1. ASSUME NEW s \in Requests, Webhook(s) PROVE pc[r] = "free" /\ Webhook(r)
    <3>1. pc[s] = "free" /\ \E to : Move(s, to)
      BY <2>1 DEF Webhook, SeenBefore, AdoWebhook, TripwireWebhook, Arrives
    <3>2. r = s
      BY <1>2, <1>4, <3>1
    <3> QED BY <2>1, <3>1, <3>2
  <2>2. ASSUME NEW s \in Requests, AuditRaises(s) \/ RedisRaises(s)
        PROVE  StepsLeft(r)' < StepsLeft(r)
    <3>1. pc[s] \in {"fresh", "queued", "hit", "counted", "miss", "claimed"} /\ Move(s, "failed")
      BY <2>2 DEF AuditRaises, RedisRaises
    <3>2. r = s /\ pc'[r] = "failed"
      BY <1>2, <1>4, <3>1
    <3> QED BY <3>1, <3>2 DEF StepsLeft
  <2>3. ASSUME NEW w \in Workers, Die(w) PROVE StepsLeft(r)' < StepsLeft(r)
    <3>1. pc'[r] = "lost" /\ pc[r] \in Running
      BY <1>4, <2>3 DEF Die, InFlight
    <3>2. StepsLeft(r)' = 0
      BY <3>1 DEF StepsLeft
    <3> QED BY <1>1, <3>1, <3>2
  <2> QED BY <1>3, <1>4, <2>1, <2>2, <2>3 DEF Next, Tick, vars
<1> QED BY <1>1, <1>3, <1>4

\* A request is at its end after at most five steps: nothing makes it ask
\* Redis twice.
THEOREM RequestsDwindleHolds == Spec => [][RequestsDwindle]_vars
<1>1. IInv /\ [Next]_vars => [RequestsDwindle]_vars
  BY StepDwindles
<1> QED BY InitInv, NextInv, <1>1, PTL DEF Spec
=============================================================================
