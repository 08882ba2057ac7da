----------------------------- MODULE Diagnosis ------------------------------
(***************************************************************************)
(* The first two nodes of the workflow, _retrieve_context_node and         *)
(* _diagnostic_agent_node, with what they call: the clients of Retrieval,  *)
(* DiagnosticAgent, CanaryDeployment and CostManager.                      *)
(*                                                                         *)
(* A worker's calls of one service go through one circuit breaker, whose   *)
(* lock is held while the call is under way.  The state of a thread is     *)
(* loaded when its stream starts and saved after each node; the channel    *)
(* vector_context has a reducer that appends what a node returns.          *)
(*                                                                         *)
(* A model's answer is a proposal; where a document, a vector context or a *)
(* topology is from is all that is kept of it: the alert it was found for. *)
(***************************************************************************)
EXTENDS Retrieval

CONSTANTS
  Alerts,         (* alerts                                                *)
  ThreadOf,       (* the thread of each alert                              *)
  ServiceOf,      (* its service                                           *)
  ProdAlerts,     (* those of PROD                                         *)
  CanaryAlerts,   (* those of canary_services                              *)
  Proposals,      (* what a model may answer: [action, confident]          *)
  MinSuccess,     (* canary_success a promotion must exceed: 10 in the code *)
  Scenarios       (* [provider, down, work]: LLM_PROVIDER, the vendors that *)
                  (* do not answer, and what each task does                *)

ASSUME DiagnosisAssumption ==
  /\ ProdAlerts \subseteq Alerts /\ CanaryAlerts \subseteq Alerts
  /\ DOMAIN ThreadOf = Alerts /\ DOMAIN ServiceOf = Alerts
  /\ MinSuccess \in Nat /\ IsFiniteSet(Tasks) /\ "free" \notin Tasks
  /\ \A s \in Scenarios, t \in Tasks :
       LET kind == s.work[t].kind
           arg == s.work[t].arg
       IN  /\ kind = "alert" => arg[1] \in Alerts
           /\ kind \in EmbedOps => arg \in Seq({arg[i] : i \in DOMAIN arg})

VARIABLES
  scenario,   (* the scenario, chosen at the start                         *)
  saved,      (* the checkpoint of each thread                             *)
  flow,       (* where each task is, its state and its analyses            *)
  holder,     (* who holds the lock of each breaker of each worker         *)
  vendor,     (* per worker, who its model is of; None without an agent    *)
  metrics,    (* per worker, CanaryDeployment.metrics                      *)
  enabled,    (* per worker, its experiments that are enabled              *)
  usage       (* per worker, the records of CostManager                    *)

dvars == <<scenario, saved, flow, holder, vendor, metrics, enabled, usage>>
vars == <<rvars, dvars>>

Threads == {ThreadOf[a] : a \in Alerts}
Breakers == {"qdrant", "neo4j", "llm"}
Free == "free"

\* The channels of a thread: for which alerts it holds documents, in the
\* order of the list, and whose service's topology.
NoContext == [vector |-> <<>>, topology |-> EmptyTopology(None)]

NoMetrics == [canary_success |-> 0, canary_failure |-> 0,
              control_success |-> 0, control_failure |-> 0]

\* "canary" without an experiment and the experiment that is enabled at the
\* start; optimized_graph_rag never is.
Experiments == {"canary_prompt_engineering_v2"}
CanaryVersions == {"canary"} \cup Experiments

\* first: no other alert had come to the thread.  found: what the search
\* answered.  results: the analyses that a task ends with, none for a node
\* that failed.
NoFlow == [pc |-> "idle", context |-> NoContext, first |-> TRUE, found |-> <<>>,
           retrieved |-> FALSE, version |-> None, asks |-> <<>>, results |-> <<>>]

\* The vendors whose model _get_model_instance may end up with.  A LiteLLM
\* proxy or an Azure endpoint that the client's class does not take, and an
\* unknown provider, leave plain OpenAI.
ModelOf(provider) ==
  CASE provider \in {"openai", "anthropic", "gemini", "ollama"} -> {provider}
    [] provider \in {"litellm", "azure"} -> {provider, "openai"}
    [] OTHER -> {"openai"}

Init ==
  /\ RetrievalInit
  /\ scenario \in Scenarios
  /\ saved = [th \in Threads |-> NoContext]
  /\ flow = [t \in Tasks |-> NoFlow]
  /\ holder = [w \in Workers |-> [b \in Breakers |-> Free]]
  /\ vendor \in [Workers -> ModelOf(scenario.provider)]
  /\ metrics = [w \in Workers |-> NoMetrics]
  /\ enabled = [w \in Workers |-> Experiments]
  /\ usage = [w \in Workers |-> 0]

-----------------------------------------------------------------------------

Kind(t) == scenario.work[t].kind
Arg(t) == scenario.work[t].arg
Alert(t) == Arg(t)[1]
Pc(t, pc) == flow[t].pc = pc
Goto(t, pc) == flow' = [flow EXCEPT ![t].pc = pc]
Thread(t) == ThreadOf[Alert(t)]
UnderWay(t) == flow[t].pc \notin {"idle", "done", "gone"}

\* DiagnosticAgent is built with the workflow; without it there is no worker.
Boot(w) ==
  /\ vendor[w] = None
  /\ \E v \in ModelOf(scenario.provider) : vendor' = [vendor EXCEPT ![w] = v]
  /\ UNCHANGED <<rvars, scenario, saved, flow, holder, metrics, enabled, usage>>

\* circuit_breaker.call: wait for the lock, then call.
Acquire(t, b) ==
  /\ holder[WorkerOf[t]][b] = Free
  /\ holder' = [holder EXCEPT ![WorkerOf[t]][b] = t]
Release(t, b) == holder' = [holder EXCEPT ![WorkerOf[t]][b] = Free]

-----------------------------------------------------------------------------
(* Calls outside of the workflow: the operations of Retrieval              *)

Direct(t) == Kind(t) \in VectorOps \cup GraphOps \cup EmbedOps

CallDirectly(t) ==
  /\ Pc(t, "idle") /\ vendor[WorkerOf[t]] # None
  /\ Direct(t)
  /\ Begins(t, Kind(t), Arg(t))
  /\ Goto(t, "call")
  /\ UNCHANGED <<stores, flags, faults, scenario, saved, holder, vendor, metrics,
                 enabled, usage>>

CallEnds(t) ==
  /\ Pc(t, "call") /\ Ended(t)
  /\ Goto(t, "done")
  /\ UNCHANGED <<rvars, scenario, saved, holder, vendor, metrics, enabled, usage>>

-----------------------------------------------------------------------------
(* _retrieve_context_node                                                  *)

\* astream loads what earlier alerts have left on the thread.
StartStream(t) ==
  /\ Pc(t, "idle") /\ Kind(t) = "alert" /\ vendor[WorkerOf[t]] # None
  /\ flow' = [flow EXCEPT ![t].pc = "qdrant", ![t].context = saved[Thread(t)],
       ![t].first = \A u \in Tasks \ {t} :
          Kind(u) = "alert" /\ Thread(u) = Thread(t) => Pc(u, "idle")]
  /\ UNCHANGED <<rvars, scenario, saved, holder, vendor, metrics, enabled, usage>>

Search(t) ==
  /\ Pc(t, "qdrant")
  /\ Acquire(t, "qdrant")
  /\ Begins(t, "search", <<Alert(t)>>)
  /\ Goto(t, "searching")
  /\ UNCHANGED <<stores, flags, faults, scenario, saved, vendor, metrics, enabled, usage>>

\* The node ends, and what it returns is merged into the channels and saved.
Retrieved(t, context, ok) ==
  /\ flow' = [flow EXCEPT ![t].pc = "diagnose", ![t].context = context,
                          ![t].retrieved = ok, ![t].found = <<>>]
  /\ saved' = [saved EXCEPT ![Thread(t)] = context]

\* The except clause returns the channels as they were, and the reducer
\* appends them to themselves.
Unretrieved(t) ==
  LET old == flow[t].context
  IN  Retrieved(t, [old EXCEPT !.vector = @ \o old.vector], FALSE)

\* Mutant: the lock is released only after a search that returned.
SearchedKeepsLock(t) ==
  /\ Pc(t, "searching") /\ Ended(t)
  /\ IF call[t].pc = "returned"
       THEN /\ Release(t, "qdrant")
            /\ flow' = [flow EXCEPT ![t].pc = "neo4j", ![t].found = call[t].result]
            /\ UNCHANGED saved
       ELSE UNCHANGED holder /\ Unretrieved(t)
  /\ call' = [call EXCEPT ![t] = NoCall]
  /\ UNCHANGED <<stores, flags, faults, scenario, vendor, metrics, enabled, usage>>

\* The search has ended: go on with the topology, or give up.
Searched(t) ==
  /\ Pc(t, "searching") /\ Ended(t)
  /\ Release(t, "qdrant")
  /\ IF call[t].pc = "returned"
       THEN /\ flow' = [flow EXCEPT ![t].pc = "neo4j", ![t].found = call[t].result]
            /\ UNCHANGED saved
       ELSE Unretrieved(t)
  /\ call' = [call EXCEPT ![t] = NoCall]
  /\ UNCHANGED <<stores, flags, faults, scenario, vendor, metrics, enabled, usage>>

AskTopology(t) ==
  /\ Pc(t, "neo4j")
  /\ Acquire(t, "neo4j")
  /\ Begins(t, "topology", <<ServiceOf[Alert(t)]>>)
  /\ Goto(t, "relating")
  /\ UNCHANGED <<stores, flags, faults, scenario, saved, vendor, metrics, enabled, usage>>

\* Mutant: a topology that the thread has is not replaced.
FirstTopology(t) ==
  LET old == flow[t].context
  IN  [vector |-> old.vector \o flow[t].found,
       topology |-> IF old.topology.service = None THEN call[t].result[1] ELSE old.topology]

\* What a retrieval that succeeds leaves in the channels.
NewContext(t) ==
  [vector |-> flow[t].context.vector \o flow[t].found, topology |-> call[t].result[1]]

\* The topology is there, and the audit entry may still fail.
Related(t) ==
  /\ Pc(t, "relating") /\ Ended(t)
  /\ Release(t, "neo4j")
  /\ \/ call[t].pc = "returned" /\ Retrieved(t, NewContext(t), TRUE) /\ UNCHANGED faults
     \/ call[t].pc = "returned" /\ Fails /\ Unretrieved(t)
     \/ call[t].pc = "raised" /\ Unretrieved(t) /\ UNCHANGED faults
  /\ call' = [call EXCEPT ![t] = NoCall]
  /\ UNCHANGED <<stores, flags, scenario, vendor, metrics, enabled, usage>>

\* An open breaker raises without a call.
BreakerRefuses(t) ==
  /\ flow[t].pc \in {"qdrant", "neo4j"}
  /\ holder[WorkerOf[t]][flow[t].pc] = Free
  /\ Fails
  /\ Unretrieved(t)
  /\ UNCHANGED <<stores, flags, call, scenario, holder, vendor, metrics, enabled, usage>>

-----------------------------------------------------------------------------
(* DiagnosticAgent.analyze: one ask per analysis                           *)

\* st: "primary" and "fallback" while a model is asked, then "answered",
\* "escalated" when none has, "unusable" when a prompt cannot be made or an
\* answer is no DiagnosticAnalysis.
NoPlan == [action |-> None, confident |-> FALSE]
Ask(a) == [alert |-> a, st |-> "primary", plan |-> NoPlan]
Asking(ask) == ask.st \in {"primary", "fallback"}

\* _create_fallback_analysis
Escalation == [action |-> "ESCALATE_ONLY", confident |-> FALSE]

AskEnds(t, i, st, plan) ==
  flow' = [flow EXCEPT ![t].asks[i].st = st, ![t].asks[i].plan = plan]
Uses(t) == usage' = [usage EXCEPT ![WorkerOf[t]] = @ + 1]

\* Whom an ask asks: the fallback is OpenAI.
Asked(t, i) == IF flow[t].asks[i].st = "primary" THEN vendor[WorkerOf[t]] ELSE "openai"

\* The model or the one of _fallback_analysis answers; the use is recorded.
Answers(t, i) ==
  /\ Asking(flow[t].asks[i]) /\ Asked(t, i) \notin scenario.down
  /\ \E p \in Proposals : AskEnds(t, i, "answered", p)
  /\ Uses(t)

\* It raises.  OpenAI is asked next unless it is LLM_PROVIDER; the escalation
\* that ends it is recorded as a use.
AskRaises(t, i) ==
  /\ Asking(flow[t].asks[i])
  /\ IF flow[t].asks[i].st = "primary" /\ scenario.provider # "openai"
       THEN AskEnds(t, i, "fallback", NoPlan) /\ UNCHANGED usage
       ELSE AskEnds(t, i, "escalated", Escalation) /\ Uses(t)

\* _build_prompt raises, or the answer does not parse: no use is recorded.
AskUnusable(t, i) ==
  /\ Asking(flow[t].asks[i])
  /\ AskEnds(t, i, "unusable", Escalation)
  /\ UNCHANGED usage

Analyzing(t) ==
  /\ Pc(t, "asking")
  /\ \E i \in DOMAIN flow[t].asks : Answers(t, i) \/ AskRaises(t, i) \/ AskUnusable(t, i)
  /\ UNCHANGED <<rvars, scenario, saved, holder, vendor, metrics, enabled>>

Analyzed(t) ==
  Pc(t, "asking") /\ \A i \in DOMAIN flow[t].asks : ~Asking(flow[t].asks[i])

\* batch_analyze asks for all pairs of an alert and a context at once; the
\* alerts beyond the contexts are dropped.  stream_analysis asks for one.
AnalyzeBatch(t) ==
  /\ Pc(t, "idle") /\ Kind(t) \in {"batch", "stream"} /\ vendor[WorkerOf[t]] # None
  /\ \E n \in IF Kind(t) = "stream" THEN {1} ELSE 0..Len(Arg(t)) :
       flow' = [flow EXCEPT ![t].pc = "asking", ![t].asks = [i \in 1..n |-> Ask(Arg(t)[i])]]
  /\ UNCHANGED <<rvars, scenario, saved, holder, vendor, metrics, enabled, usage>>

\* gather keeps the order of the alerts.
BatchAnalyzed(t) ==
  /\ Kind(t) \in {"batch", "stream"} /\ Analyzed(t)
  /\ flow' = [flow EXCEPT ![t].pc = "done",
       ![t].results = [i \in DOMAIN flow[t].asks |-> flow[t].asks[i].plan]]
  /\ UNCHANGED <<rvars, scenario, saved, holder, vendor, metrics, enabled, usage>>

-----------------------------------------------------------------------------
(* _diagnostic_agent_node                                                  *)

\* route_to_workflow_version
Versions(t) ==
  IF Alert(t) \in CanaryAlerts
    THEN {"control", "canary"} \cup enabled[WorkerOf[t]] ELSE {"control"}

Route(t) ==
  /\ Pc(t, "diagnose")
  /\ \E v \in Versions(t) :
       flow' = [flow EXCEPT ![t].pc = "llm", ![t].version = v]
  /\ UNCHANGED <<rvars, scenario, saved, holder, vendor, metrics, enabled, usage>>

\* The lock of the breaker "llm" has one analysis at a time.  analyze raises
\* nothing, so that neither breaker nor retry sees a model fail.
Analyze(t) ==
  /\ Pc(t, "llm")
  /\ Acquire(t, "llm")
  /\ flow' = [flow EXCEPT ![t].pc = "asking", ![t].asks = <<Ask(Alert(t))>>]
  /\ UNCHANGED <<rvars, scenario, saved, vendor, metrics, enabled, usage>>

\* In PROD an unsure rollback or restart becomes an escalation.
Adjust(a, p) ==
  IF a \in ProdAlerts /\ p.action \in {"ROLLBACK", "RESTART_SERVICE"} /\ ~p.confident
    THEN Escalation ELSE p

\* record_result
Counter(version, success) ==
  IF version \in CanaryVersions
    THEN IF success THEN "canary_success" ELSE "canary_failure"
    ELSE IF success THEN "control_success" ELSE "control_failure"
Count(m, version, success) == [m EXCEPT ![Counter(version, success)] = @ + 1]

\* The canary's rate of success is over 1.1 times the control's.
CanaryBetter(m) ==
  LET AtLeast1(n) == IF n = 0 THEN 1 ELSE n
  IN  /\ 10 * m.canary_success * AtLeast1(m.control_success + m.control_failure)
           > 11 * m.control_success * AtLeast1(m.canary_success + m.canary_failure)
      /\ m.canary_success > MinSuccess

\* _evaluate_experiment and _promote_experiment
Promoted(m, version) ==
  IF version \in Experiments /\ CanaryBetter(m) THEN {version} ELSE {}

\* The analysis is adjusted and counted; when its audit entry fails, the
\* except clause counts a failure too, of "control" whatever the version is.
Diagnosed(t, audited) ==
  LET w == WorkerOf[t]
      counted == Count(metrics[w], flow[t].version, TRUE)
      plan == Adjust(Alert(t), flow[t].asks[1].plan)
  IN  /\ metrics' = [metrics EXCEPT ![w] =
                       IF audited THEN counted ELSE Count(counted, "control", FALSE)]
      /\ enabled' = [enabled EXCEPT ![w] = @ \ Promoted(counted, flow[t].version)]
      /\ flow' = [flow EXCEPT ![t].pc = "done", ![t].results = IF audited THEN <<plan>> ELSE <<>>]

\* Mutant: the audit entry is written before the result is counted.
AuditBeforeCount(t) ==
  /\ Kind(t) = "alert" /\ Analyzed(t)
  /\ Release(t, "llm")
  /\ \/ Diagnosed(t, TRUE) /\ UNCHANGED faults
     \/ /\ Fails
        /\ flow' = [flow EXCEPT ![t].pc = "done", ![t].results = <<>>]
        /\ metrics' = [metrics EXCEPT ![WorkerOf[t]] = Count(@, flow[t].version, FALSE)]
        /\ UNCHANGED enabled
  /\ UNCHANGED <<stores, flags, call, scenario, saved, vendor, usage>>

\* The node after the call of the breaker, which has let go of its lock by then.
\* Nothing comes in between: log_event is awaited, but suspends nowhere.
Diagnose(t) ==
  /\ Kind(t) = "alert" /\ Analyzed(t)
  /\ Release(t, "llm")
  /\ \/ Diagnosed(t, TRUE) /\ UNCHANGED faults
     \/ Fails /\ Diagnosed(t, FALSE)
  /\ UNCHANGED <<stores, flags, call, scenario, saved, vendor, usage>>

-----------------------------------------------------------------------------

\* A worker dies: its tasks are gone, and what it counted.
Die(w) ==
  /\ vendor[w] # None
  /\ Fails
  /\ ForgetRetrieval(w)
  /\ flow' = [t \in Tasks |-> IF WorkerOf[t] = w /\ ~Pc(t, "idle")
                                THEN [NoFlow EXCEPT !.pc = "gone"] ELSE flow[t]]
  /\ holder' = [holder EXCEPT ![w] = [b \in Breakers |-> Free]]
  /\ vendor' = [vendor EXCEPT ![w] = None]
  /\ metrics' = [metrics EXCEPT ![w] = NoMetrics]
  /\ enabled' = [enabled EXCEPT ![w] = Experiments]
  /\ usage' = [usage EXCEPT ![w] = 0]
  /\ UNCHANGED <<scenario, saved>>

Starts(t) == CallDirectly(t) \/ StartStream(t) \/ AnalyzeBatch(t)

Step(t) ==
  \/ RetrievalStep(t) /\ UNCHANGED dvars
  \/ CallEnds(t)
  \/ Search(t) \/ Searched(t) \/ AskTopology(t) \/ Related(t) \/ BreakerRefuses(t)
  \/ Route(t) \/ Analyze(t) \/ Analyzing(t) \/ BatchAnalyzed(t) \/ Diagnose(t)

Next ==
  \/ \E t \in Tasks : Starts(t) \/ Step(t)
  \/ \E w \in Workers : Boot(w) \/ Die(w)

\* A task that has started goes on, which assumes that what it awaits answers
\* or raises in the end: the clients of Qdrant and of the models by timeouts of
\* theirs, Neo4j by itself; and that no call of Jira, which has no timeout,
\* holds the loop of its worker for ever.
Spec == Init /\ [][Next]_vars /\ \A t \in Tasks : WF_vars(Step(t))

-----------------------------------------------------------------------------
(* Properties                                                              *)

\* The prompt's evidence is of the alert's thread only, its topology is the
\* alert's service's if the retrieval succeeded, and the first alert of a
\* thread has its own documents once or, if its retrieval failed, nothing.
EvidenceFits ==
  \A t \in Tasks :
    Kind(t) = "alert" /\ flow[t].pc \in {"diagnose", "llm", "asking", "done"} =>
      LET c == flow[t].context
      IN  /\ \A i \in DOMAIN c.vector : ThreadOf[c.vector[i]] = Thread(t)
          /\ flow[t].retrieved => c.topology.service = ServiceOf[Alert(t)]
          /\ flow[t].first => c.vector \in {<<>>, <<Alert(t)>>}
          /\ flow[t].first /\ ~flow[t].retrieved => c = NoContext

Asks(w, sts) ==
  UNION {{<<t, i>> : i \in {j \in DOMAIN flow[t].asks : flow[t].asks[j].st \in sts}} :
           t \in {u \in Tasks : WorkerOf[u] = w}}

\* A worker's counters agree with what its tasks have come to since it
\* started: each diagnosis counts as a success of its version, those whose
\* node then failed as a failure as well, and each analysis that a model
\* gave or that stands in for one that raised is one record of usage.
CountersAgree ==
  \A w \in Workers :
    LET over == {t \in Tasks : WorkerOf[t] = w /\ Kind(t) = "alert" /\ Pc(t, "done")}
        canary == {t \in over : flow[t].version \in CanaryVersions}
    IN  /\ metrics[w].canary_success = Cardinality(canary)
        /\ metrics[w].control_success = Cardinality(over \ canary)
        /\ metrics[w].canary_failure = 0
        /\ metrics[w].control_failure = Cardinality({t \in over : flow[t].results = <<>>})
        /\ usage[w] = Cardinality(Asks(w, {"answered", "escalated"}))

\* Only the first use of a new Qdrant can lose the race to create the
\* collection: a vector call that began when it was there raises by a fault
\* alone, and a worker that has noted the collection can use it.
CollectionOnce ==
  /\ \A t \in Tasks :
       faults = 0 /\ call[t].op \in VectorOps /\ call[t].late => call[t].pc # "raised"
  /\ \A w \in Workers : ready[w] => collection
  /\ points # {} => collection

\* The vectors that a call answers are those of its texts in their order,
\* whatever other calls did to the cache and however often it was tried;
\* a key is cached once, and the cache keeps to its size.
EmbeddingsFit ==
  /\ \A t \in Tasks :
       call[t].op \in EmbedOps /\ call[t].pc = "returned" => call[t].result = call[t].arg
  /\ \A w \in Workers :
       /\ Len(cache[w]) <= CacheSize
       /\ \A i, j \in DOMAIN cache[w] :
            /\ cache[w][i].vector = cache[w][i].text
            /\ cache[w][i].text = cache[w][j].text => i = j

\* Whatever fails, every task that has started ends: no breaker's lock is
\* kept, and no analysis waits for another that does not end.
EveryTaskEnds == \A t \in Tasks : UnderWay(t) ~> ~UnderWay(t)
=============================================================================
