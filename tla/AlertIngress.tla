---------------------------- MODULE AlertIngress ----------------------------
(***************************************************************************)
(* How an alert gets from a webhook to its workflow: the endpoints of      *)
(* api/webhooks.py in several worker processes, each with its own          *)
(* _processed_alert_ids, and the head of SREWorkflow.start_workflow with   *)
(* AlertDeduplicator.is_duplicate, whose keys in Redis all workers share.  *)
(*                                                                         *)
(* Every await is a step of its own: between the GET and the SETEX of      *)
(* is_duplicate any other task may run.  A Redis key is its remaining      *)
(* time to live, 0 when it is absent.                                      *)
(***************************************************************************)
EXTENDS Naturals, FiniteSets

CONSTANTS
  Workers,      (* worker processes                                        *)
  Alerts,       (* alert ids                                               *)
  Fingerprint,  (* _generate_alert_fingerprint, a function of the alert    *)
  Requests,     (* webhooks received, numbered as they arrive              *)
  Window,       (* dedup_window, in ticks                                  *)
  MaxInFlight,  (* requests a run lets overlap                             *)
  Faults,       (* which of PossibleFaults a run allows                    *)
  None

\* "die":   a worker process is killed and started again
\* "redis": a Redis command raises, executed or not
\* "audit": AuditLogger.log_event raises
PossibleFaults == {"die", "redis", "audit"}

\* What is known of a request.
Request == [alert : Alerts, worker : Workers]

Fingerprints == {Fingerprint[a] : a \in Alerts}

ASSUME IngressAssumption ==
  /\ DOMAIN Fingerprint = Alerts
  /\ Window \in Nat \ {0}
  /\ MaxInFlight \in Nat
  /\ Faults \subseteq PossibleFaults
  /\ Requests \subseteq Nat /\ IsFiniteSet(Requests)
  /\ None \notin Request

VARIABLES
  req,        (* each request's alert and worker                           *)
  pc,         (* how far each request is                                   *)
  processed,  (* _processed_alert_ids of each worker                       *)
  key,        (* alert:dedup:<fingerprint>, its time to live               *)
  count,      (* alert:count:<fingerprint>, its value and time to live     *)
  since,      (* history: time since a request last set the key            *)
  repeats     (* history: duplicates counted since then                    *)

vars == <<req, pc, processed, key, count, since, repeats>>

\* In the order of the code; "rejected" is an answer 500, "lost" a request
\* that died with its worker, "failed" a task an exception ended.
Running == {"verifying", "queued", "hit", "counted", "miss", "claimed", "fresh"}
Ended   == {"filtered", "rejected", "duplicate", "started", "failed", "lost"}

\* A count key that EXPIRE has not reached has no time to live.
Forever == Window + 1

InFlight == {r \in Requests : pc[r] \in Running}
Fp(r)    == Fingerprint[req[r].alert]

Init ==
  /\ req = [r \in Requests |-> None]
  /\ pc = [r \in Requests |-> "free"]
  /\ processed = [w \in Workers |-> {}]
  /\ key = [f \in Fingerprints |-> 0]
  /\ count = [f \in Fingerprints |-> [n |-> 0, ttl |-> 0]]
  /\ since = [f \in Fingerprints |-> Window]
  /\ repeats = [f \in Fingerprints |-> 0]

Move(r, to) == pc' = [pc EXCEPT ![r] = to]

-----------------------------------------------------------------------------
(* The endpoints                                                           *)

Arrives(r, w, a) ==
  /\ pc[r] = "free"
  /\ \A s \in Requests : s < r => pc[s] # "free"
  /\ Cardinality(InFlight) < MaxInFlight
  /\ req' = [req EXCEPT ![r] = [alert |-> a, worker |-> w]]
  /\ UNCHANGED <<key, count, since, repeats>>

\* The endpoint has seen the id: it answers "filtered".
SeenBefore(r, w, a) ==
  /\ Arrives(r, w, a)
  /\ a \in processed[w]
  /\ Move(r, "filtered")
  /\ UNCHANGED processed

\* handle_ado_webhook has no await: the id is recorded, then validation may
\* raise, the filter may drop the alert, or its task is queued.
AdoWebhook(r, w, a) ==
  /\ Arrives(r, w, a)
  /\ a \notin processed[w]
  /\ processed' = [processed EXCEPT ![w] = @ \cup {a}]
  /\ \E to \in {"rejected", "filtered", "queued"} : Move(r, to)

\* Mutant: the id is not recorded on this path.
TripwireUnrecorded(r, w, a) ==
  /\ Arrives(r, w, a)
  /\ a \notin processed[w]
  /\ UNCHANGED processed
  /\ Move(r, "verifying")

\* handle_tripwire_webhook records the id and awaits webhook_handler.process.
TripwireWebhook(r, w, a) ==
  /\ Arrives(r, w, a)
  /\ a \notin processed[w]
  /\ processed' = [processed EXCEPT ![w] = @ \cup {a}]
  /\ Move(r, "verifying")

Verify(r) ==
  /\ pc[r] = "verifying"
  /\ \E to \in {"rejected", "filtered", "queued"} : Move(r, to)
  /\ UNCHANGED <<req, processed, key, count, since, repeats>>

-----------------------------------------------------------------------------
(* is_duplicate                                                            *)

\* Mutant: the key is set before it is looked at.
GetClaims(r) ==
  /\ pc[r] = "queued"
  /\ key' = [key EXCEPT ![Fp(r)] = Window]
  /\ Move(r, "hit")
  /\ UNCHANGED <<req, processed, count, since, repeats>>

Get(r) ==
  /\ pc[r] = "queued"
  /\ Move(r, IF key[Fp(r)] > 0 THEN "hit" ELSE "miss")
  /\ UNCHANGED <<req, processed, key, count, since, repeats>>

\* INCR leaves the time to live of an existing key alone.
IncrCount(f) ==
  /\ count' = [count EXCEPT ![f] =
                 [n |-> @.n + 1, ttl |-> IF @.ttl = 0 THEN Forever ELSE @.ttl]]
  /\ repeats' = [repeats EXCEPT ![f] = @ + 1]
  /\ UNCHANGED <<key, since>>

Incr(r) ==
  /\ pc[r] = "hit"
  /\ IncrCount(Fp(r))
  /\ Move(r, "counted")
  /\ UNCHANGED <<req, processed>>

\* Mutant: EXPIRE is sent for the alert's key.
ExpireKey(r) ==
  /\ pc[r] = "counted"
  /\ key' = [key EXCEPT ![Fp(r)] = IF @ > 0 THEN Window ELSE 0]
  /\ Move(r, "duplicate")
  /\ UNCHANGED <<req, processed, count, since, repeats>>

\* EXPIRE of the count key; then start_workflow returns "duplicate".
ExpireCount(f) ==
  /\ count' = [count EXCEPT ![f].ttl = IF @ = 0 THEN 0 ELSE Window]
  /\ UNCHANGED <<key, since, repeats>>

Expire(r) ==
  /\ pc[r] = "counted"
  /\ ExpireCount(Fp(r))
  /\ Move(r, "duplicate")
  /\ UNCHANGED <<req, processed>>

\* SETEX of the key, whoever has set it meanwhile.
SetKey(f) ==
  /\ key' = [key EXCEPT ![f] = Window]
  /\ since' = [since EXCEPT ![f] = 0]
  /\ repeats' = [repeats EXCEPT ![f] = 0]
  /\ UNCHANGED count

Claim(r) ==
  /\ pc[r] = "miss"
  /\ SetKey(Fp(r))
  /\ Move(r, "claimed")
  /\ UNCHANGED <<req, processed>>

\* Mutant: a count that is still there is kept.
ResetCountOnce(r) ==
  /\ pc[r] = "claimed"
  /\ count' = [count EXCEPT ![Fp(r)] =
                 [n |-> IF @.n = 0 THEN 1 ELSE @.n, ttl |-> Window]]
  /\ Move(r, "fresh")
  /\ UNCHANGED <<req, processed, key, since, repeats>>

\* SETEX of the count.
SetCount(f) ==
  /\ count' = [count EXCEPT ![f] = [n |-> 1, ttl |-> Window]]
  /\ UNCHANGED <<key, since, repeats>>

ResetCount(r) ==
  /\ pc[r] = "claimed"
  /\ SetCount(Fp(r))
  /\ Move(r, "fresh")
  /\ UNCHANGED <<req, processed>>

-----------------------------------------------------------------------------
(* The rest of start_workflow, and what can go wrong                       *)

\* ALERT_RECEIVED is audited and the graph is entered.
Begin(r) ==
  /\ pc[r] = "fresh"
  /\ Move(r, "started")
  /\ UNCHANGED <<req, processed, key, count, since, repeats>>

\* The background task ends with the exception of log_event, which stands
\* before the try block.
AuditRaises(r) ==
  /\ "audit" \in Faults
  /\ pc[r] = "fresh"
  /\ Move(r, "failed")
  /\ UNCHANGED <<req, processed, key, count, since, repeats>>

\* A Redis command raises in the client before it is executed, or after.
RedisRaises(r) ==
  /\ "redis" \in Faults
  /\ \/ /\ pc[r] \in {"queued", "hit", "counted", "miss", "claimed"}
        /\ UNCHANGED <<key, count, since, repeats>>
     \/ pc[r] = "hit" /\ IncrCount(Fp(r))
     \/ pc[r] = "counted" /\ ExpireCount(Fp(r))
     \/ pc[r] = "miss" /\ SetKey(Fp(r))
     \/ pc[r] = "claimed" /\ SetCount(Fp(r))
  /\ Move(r, "failed")
  /\ UNCHANGED <<req, processed>>

\* A worker dies; another one starts in its place.
Die(w) ==
  /\ "die" \in Faults
  /\ processed' = [processed EXCEPT ![w] = {}]
  /\ pc' = [r \in Requests |->
              IF r \in InFlight /\ req[r].worker = w THEN "lost" ELSE pc[r]]
  /\ UNCHANGED <<req, key, count, since, repeats>>

Less(ttl) == IF ttl = 0 THEN 0 ELSE ttl - 1

Tick ==
  /\ key' = [f \in Fingerprints |-> Less(key[f])]
  /\ count' = [f \in Fingerprints |->
       IF count[f].ttl = Forever THEN count[f]
       ELSE [n   |-> IF count[f].ttl <= 1 THEN 0 ELSE count[f].n,
             ttl |-> Less(count[f].ttl)]]
  /\ since' = [f \in Fingerprints |-> IF since[f] < Window THEN since[f] + 1 ELSE Window]
  /\ UNCHANGED <<req, pc, processed, repeats>>

Task(r) ==
  \/ Verify(r) \/ Get(r) \/ Incr(r) \/ Expire(r) \/ Claim(r) \/ ResetCount(r)
  \/ Begin(r)

Webhook(r) ==
  \E w \in Workers, a \in Alerts :
    SeenBefore(r, w, a) \/ AdoWebhook(r, w, a) \/ TripwireWebhook(r, w, a)

Next ==
  \/ \E r \in Requests : Webhook(r) \/ Task(r) \/ AuditRaises(r) \/ RedisRaises(r)
  \/ \E w \in Workers : Die(w)
  \/ Tick

Spec == Init /\ [][Next]_vars

\* The event loop of each worker runs every task it has queued, which assumes
\* that no call of Jira holds it for ever; a Redis command times out after 5 s.
FairSpec == Spec /\ \A r \in Requests : WF_vars(Task(r))

-----------------------------------------------------------------------------
(* Properties                                                              *)

\* Types, and the bounds of keys, counts and history.
TypeOK ==
  /\ req \in [Requests -> Request \cup {None}]
  /\ pc \in [Requests -> {"free"} \cup Running \cup Ended]
  /\ processed \in [Workers -> SUBSET Alerts]
  /\ key \in [Fingerprints -> 0..Window]
  /\ count \in [Fingerprints -> [n : Nat, ttl : 0..Forever]]
  /\ since \in [Fingerprints -> 0..Window]
  /\ repeats \in [Fingerprints -> Nat]

\* A worker never runs two tasks for one alert id at the same time, on
\* whichever endpoint and in whatever order the requests arrive.
OneTaskPerIdAndWorker ==
  \A r, s \in InFlight :
    req[r] = req[s] => r = s

\* An alert is dropped exactly while the last claim of its fingerprint is
\* younger than the window: duplicates do not prolong the silence they fall
\* into, and nothing cuts it short.
DroppedIffInWindow ==
  [][\A r \in Requests :
       pc[r] = "queued" /\ pc'[r] \in {"hit", "miss"} =>
         (pc'[r] = "hit" <=> since[Fp(r)] < Window)]_vars

\* No request for the fingerprint has failed or died.
Unscathed(f) == \A s \in Requests : pc[s] \in {"failed", "lost"} => Fp(s) # f

\* While a fingerprint is claimed and nothing is under way, its count is at
\* least 1 and at most the alerts it stands for, the first and every
\* duplicate since: racing claims may lose duplicates, but what was counted
\* for an earlier claim never shows up again.
CountNeverOver ==
  InFlight = {} =>
    \A f \in Fingerprints :
      key[f] > 0 /\ Unscathed(f) => count[f].n \in 1..(1 + repeats[f])

\* graph.py: a duplicate is answered "Alert deduplicated - already
\* processing": a request of its fingerprint has started or is about to,
\* unless something failed.
DuplicateHasOwner ==
  \A r \in Requests : pc[r] = "duplicate" /\ Unscathed(Fp(r)) =>
    \E s \in Requests :
      /\ pc[s] \in {"claimed", "fresh", "started"}
      /\ Fp(s) = Fp(r)

\* An alert that is queued gets its workflow, or the workflow of another
\* alert with its fingerprint, unless something failed.
QueuedAlertStarts ==
  \A f \in Fingerprints :
    (\E r \in Requests : pc[r] = "queued" /\ Fp(r) = f)
      ~> (\E r \in Requests : pc[r] \in {"started", "failed", "lost"} /\ Fp(r) = f)
=============================================================================
