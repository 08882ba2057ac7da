# Verification of auto-sre-graph

TLA+ models of the parts of auto-sre-graph where order, failure and
concurrency decide whether it is correct, model-checked with TLC, and proofs
about them checked by TLAPS. Every definition is translated from the code under
`src/`; `PROJECT.json` maps each one to the lines it stands for. Where a
diagram or a sentence of the documentation promises something, the promise is a
specification or a property of its own, and the code's model is compared with it.

## 1. The system

An alert arrives as a webhook at one of several worker processes, passes a rate
limit, a per-process set of ids and a deduplication window in Redis, and becomes
a LangGraph thread whose state lives in PostgreSQL. The graph retrieves context
from Qdrant and Neo4j, asks an LLM for a diagnosis, opens a Jira ticket and
stops. A decision webhook resumes it; an approved plan runs as a subprocess. A
sidecar turns log lines into alerts; a mining subsystem reads the history,
stores an hourly snapshot of its clusters and answers questions about them.

| Part | State it keeps | Operations | What makes it hard | What makes it correct |
|---|---|---|---|---|
| Workflow, `orchestrator/graph.py` | a checkpoint per thread, and each running task's copy of it | start, the six nodes, decide, resume | nothing locks a thread; `as_node` forces the next node; a restarted thread keeps its old values; processes die between checkpoints; a synchronous Jira client holds the event loop | no command without approval, at most one per webhook, only plans that were shown and allowed; no thread left between nodes; Diagram 3 |
| Remediation, `tools/remediation.py` | none (two tables) | execute | a timeout, a failing command, retries around it | allowlist, never PROD, never an escalation |
| Breaker, `orchestrator/recovery.py` | state, count, last failure, probes, a lock | call, retry | the lock is held across awaits and sleeps; the clock | Diagram 9; nobody starves; it recovers |
| Ingress, `api/webhooks.py` | ids seen by each process | the two alert endpoints, the Jira endpoint | processes with separate memory, which they lose | one task per id and process; a queued alert starts |
| Deduplication, `orchestrator/deduplication.py` | two keys per fingerprint, in Redis | is_duplicate | four awaits that any other task may split; expiry | dropped exactly inside the window; counts that are not stale; a duplicate of something |
| Rate limiter, `api/dependencies.py` | times per client and process | call | the sliding window's edges; several processes | never above the limit, never refused below it |
| Retrieval, `context/` | the collection and graph outside; flags and a cache per process | search, index, delete, topology, generate | first use raced by several processes; a cache that evicts under a batch | evidence of the right alert; vectors of the right texts; one collection |
| Diagnosis, `agents/diagnostician.py`, `orchestrator/canary.py`, `observability/cost_manager.py` | counters, experiments, usage records | analyze, stream, batch, route, record, promote | fallbacks between vendors; one lock for all analyses of a process; a reducer that appends | evidence that fits, counters that agree with what happened, every task ends |
| Tripwire, `tools/tripwire.py` | position, capture buffer, debounce cache, tasks | tail, dispatch, restart | tasks that outlive the session they were given; restarts inside a capture | no line twice; silent for exactly the window; every task ends |
| Mining runs, `api/mining.py`, `mining/persist.py`, `scheduler.py`, `notifier.py`, `event_store.py` | snapshots in PostgreSQL, one connection per process | scheduled and requested runs, announcements | runs share a connection and its transaction; a failed statement aborts it, one that waits stops them all; a new connection may replace one in use; several schedulers write the same rows | a snapshot appears at once; what is reported saved is stored; every run ends |
| Mining queries, `mining/cluster_engine.py`, `pattern_detector.py`, `forecaster.py`, `predictor.py` | none | patterns, predictions, runbook suggestion | greedy clusters, events assigned by thread, histories read from both ends, cuts and thresholds | cascades happened, declines are declines, forecasts follow, a known error gets a runbook |
| Set-up, `graph.py:58-146` | pool, saver, compiled app | get_app | several tasks initialise at once; a pool that failed to open | one pool; no task harmed by another |
| Second set-up, `checkpointer.py` | another pool and saver | initialize, save, load, delete, list, close | the same, and an initialisation that always raises at its end | an open pool for whoever comes after the first call |
| Clients, `integrations/jira.py`, `ado.py` | a client, a session; issues and runs outside | create, update, get; trigger, read | answers that get lost after the effect, a library that sends again, updates of up to five requests, people who move issues | one effect per request; an update that answers True is whole |

Calls go from the endpoints to `start_workflow` and `resume_workflow` as
background tasks of the event loop. `start_workflow` calls the deduplicator; the
nodes call Qdrant, Neo4j, the LLM and Jira through a breaker each, and the
remediation tool through a breaker and a retry loop. The processes share Redis,
PostgreSQL and the external services and nothing else. The checkpointer manager,
the Azure DevOps client and `update_ticket` and `get_ticket` of the Jira client
are called by no other part of the program; they are modelled as a library would
be, by any sequence of calls.

## 2. Modules

| Module | Models | Runs |
|---|---|---|
| `CircuitBreaker` | `recovery.py`: one breaker, its lock and queue, the retry loop | `breaker` |
| `AbstractBreaker` | Diagram 9 of `ARCHITECTURE.md` | refined in `breaker` |
| `RemediationRules` | the tables of `remediation.py` | used by `SREWorkflow` |
| `SREWorkflow` | `graph.py`, `state.py`, the Jira endpoint, the command | `workflow_overlap`, `workflow_serial`, `rejection_races` |
| `AbstractWorkflow` | Diagram 3 | refined in `workflow_serial` |
| `AlertIngress` | the alert endpoints of `webhooks.py`, `deduplication.py`, the head of `start_workflow` | `ingress` |
| `RateLimiter` | `RateLimiter` of `dependencies.py` | `rate_limiter` |
| `WorkflowSetup` | `get_app`, `_get_checkpointer`, `_initialize_pool` of `graph.py` | `setup` |
| `Retrieval` | `vector_rag.py`, `graph_rag.py`, `embeddings.py` | composed in `Diagnosis` |
| `Diagnosis` | the first two nodes with `diagnostician.py`, `canary.py`, `cost_manager.py`, over `Retrieval` | `diagnosis` |
| `Tripwire` | `tripwire.py` | `tripwire` |
| `MiningRuns` | `_run_scheduled_mining` and what it calls | `mining_runs` |
| `MiningQueries` | the three questions of `api/mining.py` and their algorithms | `mining_queries` |
| `Clients` | `checkpointer.py`, `jira.py`, `ado.py` | `clients` |
| `MC*` | the instances for TLC | |
| `*_proofs` | theorems about the module of that name; `Mining_proofs` about `MiningRuns` and `MiningQueries`, `TripwireClients_proofs` about `Tripwire` and `Clients` | |

Each module's header says what its variables stand for. The correspondence in
short:

* **SREWorkflow.** A task slot is one accepted webhook. `pc` is the node it is
  in, `vals` its copy of the channels, `ckpt` the thread's latest checkpoint.
  A node is one step: what it awaits touches no other variable of the model, and
  LangGraph writes the checkpoint after it. The command is two steps, because a
  process may die or another webhook may come while it runs. `resume_workflow` is
  three: the audit entry, `aupdate_state`, and the stream that reads the state
  back. Kept channels are those a guard or a property reads; `error_count` stops
  at 3, the only value it is compared with. Deduplication is a free choice, so
  that whatever `AlertIngress` lets through is a behaviour of this module.
  `WorkerOf` gives each task its event loop, which the fairness is about.
* **CircuitBreaker.** A caller is idle, queued, at the state check, in the
  function or asleep between attempts. Time is the time since the last failure,
  up to the first tick at which the timeout has passed.
* **AlertIngress.** One step per Redis command, and any of them may raise before
  or after Redis has executed it. A key is its remaining time to
  live. `since` and `repeats` are history: they record when the key was last
  set and how many duplicates were counted, so that the properties do not define
  correctness by the very key they are about.
* **RateLimiter.** `__call__` awaits nothing, so a call is a step. `through` and
  `at` are history.
* **WorkflowSetup.** The fields `_pool`, `_checkpointer` and `_app` of the shared
  workflow, and where each task is among the awaits of `get_app`. Between two
  awaits a task is one step. `calm` is history: the running tasks that nothing
  outside has harmed.
* **Retrieval, Diagnosis.** A task's call is stepped from await to await, so that
  other tasks and workers come in between. A document, a topology or a vector is
  what it was found for. `Diagnosis` adds the breaker's lock around each service,
  the checkpoints of the two nodes and the reducer of `vector_context`
  (`state.py:16`), which appends what a node returns. The node that diagnoses is
  one step after the breaker has let go: `log_event` is awaited there, but contains
  no await that suspends (`audit.py`). A disabled cache is one of size 0.
* **Tripwire.** A line is its number and its text; a restart may skip any number
  of lines (the file is sought to its end) and closes the session older tasks hold.
* **MiningRuns.** A run is a step per statement, over the connection that the
  worker's `MiningPersist` has. The step that finds none awaits a new one, and
  `Connect` puts it in the field whatever is there by then. A connection has a
  transaction with PostgreSQL's rules: after an error every statement fails, COMMIT
  of an aborted transaction rolls back, a written row is locked for other
  connections. A statement that waits for a row keeps its connection busy for all
  runs that share it (psycopg's own lock), and PostgreSQL fails one of the
  connections that wait in a circle. `shared` and `raced` are history: the workers
  that had two runs at once, and those where a connection was replaced alive.
* **MiningQueries.** The store is any sequence of checkpoints; each question is
  one step, since the algorithms await nothing. A message is its set of words,
  and similarities and averages of floats are compared as exact fractions. An
  answer keeps what a property reads, and all of it: the endpoints show its first
  ten or twenty entries.
* **Clients.** A step per request. A request that changes something may fail, or be
  answered with an error, before or after its effect; one of the Jira library may
  then be sent again (`MaxRetries`, which is 3 where `jira.py:35` gives none). The
  Jira client blocks its worker's event loop. The four checkpoint operations take
  what saver they find and fail at once (see below).

## 3. What is checked

### Runs that hold

* `workflow_overlap`: one thread, three tasks, webhooks in any order, repeated
  and for any thread, processes dying and the audit log failing. Three tasks are
  the smallest number at which a start and two contrary decisions overlap; one
  thread, because tasks of different threads share only the sets `audit` and
  `tickets`, whose elements carry the thread. `NoStrandedThread` speaks of the
  moments when every task has returned normally: a task whose process died, or
  whose own error handler raised, may leave its thread at its last checkpoint,
  since nothing in the code resumes it.
* `workflow_serial`: two threads, one of them about PROD, each started once, and
  one decision for each ticket that waits. This is the use the documentation
  describes. Here the plan that runs is one a ticket showed, and the checkpoints
  walk along the arrows of Diagram 3 even when processes die. Two of the tasks
  share an event loop and the third has its own, so that a call of Jira can hold
  up another task and can leave one alone.
* `breaker`: the thresholds of the code (five failures, three probes, three
  retries) and a timeout of three ticks, so that "before", "at" and "after" the
  timeout are different states. Three callers: one inside and two in the queue.
* `ingress`: one alert id delivered three times to two workers. Deliveries to
  two workers meet in Redis just as two ids with one fingerprint do, so a second
  id adds no new interleaving. The window is two ticks: inside, at the edge, after.
* `tripwire`: two texts, a buffer of two lines (the least that can be half
  full), six lines: three captures, so that a text can come inside its window
  and once more after it, or two captures with lines between them.
* `setup`: three tasks: one opens the pool, one finds it opening, one finds the
  saver before its setup has ended. A fourth can only repeat what these do.
* `rate_limiter`: a limit of two in three ticks and six requests of two clients:
  the window fills, refuses, and empties again, for each.
* `diagnosis`: three tasks, two of them in one worker, in seven scenarios that
  between them make every operation and every pair of kinds that share state:
  two alerts of a thread in one worker and in two, runbooks indexed and deleted
  under a search, a growing graph, batches larger than the cache of two, each
  vendor with its fallback. One fault (a request, a model, an audit entry or a
  worker): one is enough for each except clause, and a second within a task
  finds it already failed. Promotion needs more than one success instead of more
  than ten.
* `mining_runs`: two workers with a scheduler each and a requested run in each, so
  that runs share a connection and connections share rows, in three plans: three
  runs over two hours (a snapshot and the one before it) that find up to two
  clusters (the smallest snapshot that can be half written) with one fault; four
  runs that find one cluster each, without a fault, the least in which two
  connections wait for each other; and runs that find nothing.
* `mining_queries`: every store of at most six checkpoints of three threads over
  four times. Two messages are similar and a third is not; a day is one unit, so
  there are four days of history; the cut at the newest members is at five
  instead of ten, so that six events exceed it. Runbooks are asked for every set
  of eight words that between them hit each type, none and several. The third
  message is like both others in part, so that the clusters of one thread's
  checkpoints can be two. `CascadesAreReal` and `DeclineIsReal` say as much as is
  true: `pattern_detector.py` attributes an event by its thread, whose last
  cluster wins, so a pair may be counted for other clusters than those its events
  were placed in (`PATTERN_MINING_ENGINE.md:67` has errors "from cluster A
  precede cluster B"); and an acceleration may be the work of the cut.
* `clients`: four tasks, three of them in one worker, in seven scenarios: first
  calls that race through the initialisation, a close under calls, two updates
  of one issue, a session closed by another task. Two failing requests (a call
  and a later one, or a request and its repetition), one repetition by the Jira
  library instead of its three (the second and third find what the first finds),
  and one move of an issue by people, at any moment.

`CHECK_DEADLOCK FALSE` stands where the system may stop: no webhook has to
arrive, requests, hours and clock are bounded, and a scenario ends.

### A run that finds a disagreement

`rejection_races`: the task of a rejection runs the command, because an approval
was written between its update and its stream (`graph.py:668`). Diagram 3 says
"check_approved --> skip_remediation : approved == false".

### Other disagreements between documents and code

Met while modelling; they are stated here instead of as runs.

* *An approved restart never runs.* `README.md:20` says that approval "executes
  the remediation"; the tool's table is keyed by `restart` and the lookup at
  `remediation.py:74` is by `restart_service`. `CommandIsAllowed` holds of
  what does run.
* *Two workflows inside one window.* The docstring at `deduplication.py:14`
  promises to prevent duplicates; GET (`:68`) and SETEX (`:76`) are two awaits,
  and two deliveries to two workers may both find no key. `DuplicateHasOwner`
  and `CountNeverOver` say what remains true.
* *An error that is never reported.* `DEMO.md:204` appends a line to the log and
  lets the sidecar report it. The buffer is handed over only when it holds 15
  lines (`tripwire.py:102`). Trace: an ERROR line is read, `is_capturing`
  becomes true; the application writes nothing more; the tail loop sleeps and
  reads nothing for ever; no timeout flushes the buffer. A restart of the loop
  keeps the buffer but skips to the end of the file.
* *A pool that failed once.* `graph.py:83` checks `_pool is None` to notice a
  failed initialisation, but `_initialize_pool` assigns the field before it
  opens the pool (`:75` raises with the closed pool in place). Every workflow of
  that process then fails until it is restarted.
* *Checkpoints that nobody can save.* `checkpointer.py:95` has `save_checkpoint`
  return a checkpoint id. With the pinned `langgraph-checkpoint-postgres==3.1.0`
  none of the four operations gets as far as a request: `put` lacks its
  `new_versions` (`:105`), `get_tuple` is the synchronous one and refuses the event
  loop's thread (`:144`), there is no `delete` (`:180`), and what `list` returns
  cannot be iterated with `async for` (`:214`). So the model lets each fail as soon
  as it has a saver, and `FindsOpenPool` asks for no more than that it finds one on
  an open pool.
* *A connection that replaces another.* `persist.py:24` awaits a new connection
  between its look at the field and its assignment. Of two first runs of a process
  that both find none, each makes one, and the second takes the place of the first,
  over which the first goes on saving. Its COMMIT (`:98`) then goes to the other
  connection: its rows are rolled back with the connection that nobody keeps, and
  "Saved n clusters" is logged (`:99`). And if the other connection waits for a row
  that the first one holds, the COMMIT waits behind that statement and the
  statement for the COMMIT, which PostgreSQL cannot see. `SavedIsStored` and
  `EveryRunEnds` say what holds otherwise (`raced`).
* *A run that compares with itself.* Diagram 6 (`ARCHITECTURE_MINING.md:238`)
  announces clusters that are new against the previous snapshot;
  `api/mining.py:58` saves the run's snapshot before it asks for the latest
  period, so the snapshot it finds is its own or one that another run wrote for
  the hour, never the hour before.
* *A pause without a ticket.* When Jira refuses, the thread still stops at the
  approval gate, with `JIRA_FAILED`; Diagram 3 has only "Ticket created -> pause".
* *Four times the limit.* The cap per client of `ENTERPRISE_PROBLEMS.md:41` is
  kept by each worker for itself.

Behaviours a maintainer should know. The models contain them, unless it is said:

* Workflow: the Jira client is synchronous and has no timeout (`jira.py:35`), so a
  Jira that does not answer stops everything in its worker, for good if it never
  does. `EveryTaskEnds` says that nothing else does.
* Ingress: the key of the deduplicator is set before the workflow starts. When the
  task fails in between, or its worker dies, later deliveries are dropped as
  duplicates of nothing until the window is over.
* Retrieval: the reducer appends, so a failed retrieval, which returns the list
  it found (`graph.py:188`), doubles the evidence, and later alerts on a thread
  see that of earlier ones. A fresh vector result is lost when Neo4j or the
  audit log fails after it. `*1..$depth` in `get_service_topology` is refused by
  Neo4j, so the topology is always empty; `get_impacted_services` follows the
  edges the other way (`graph_rag.py:75`). `batch_analyze` drops the alerts
  that have no context.
* Diagnosis: `analyze` never raises, so the LLM's breaker and retry never see a
  failure; failures are counted as the control's, a diagnosis whose audit entry
  fails counts as a success and a failure (`graph.py:260`), and since
  `canary_failure` stays 0 the promotion at `canary.py:90` ignores failures. The
  breaker's lock serialises the analyses of a worker.
* Mining: `event_store.py` selects `checkpoint` and `created_at` of
  `checkpoint_blobs`, columns that the table LangGraph makes does not have, so that
  on such a table no run gets past `get_events` (`FetchRaises`, for ever); the models
  let the query succeed as well. The endpoints never give the forecaster a velocity
  or a trend, so a quarter of the risk score, which is not modelled, is dead
  (`forecaster.py:120`). The cut at the newest
  ten members can make a steady cluster look accelerating
  (`pattern_detector.py:48`). A runbook of the message's own type may be cut by
  `top_k` when other types score higher. The upsert renews a cluster's size but
  not its error type (`persist.py:49`), while ids are ranks. Each worker has its
  own scheduler, so an hour is mined, and announced, once per worker.
* Checkpointer manager: the first call always fails (`asyncio` is not imported,
  `checkpointer.py:66`), pools of concurrent or failed initialisations leak, a
  close during one leaves the manager "initialized" without a saver for ever,
  and `load` answers None for a failure.
* Clients: a closed Azure DevOps session is never replaced; a caller whose answer
  was lost, or was an error after the effect, is told of a failure or gets `{}`
  though the issue or the run exists; the Jira library sends the POST of
  `create_issue` again when its connection breaks, which makes a second issue;
  `update_ticket` answers True when no transition leads to the status, and the
  tickets the workflow makes never hold the "Thread ID:" line that
  `webhook_handler.py:129` looks for.

### Fairness

* `SREWorkflow`: a step of a task is weakly fair while no call of Jira holds the
  event loop of its worker (`WF_vars(Step(k) /\ ~LoopHeld(k))`), and
  `EveryTaskEnds` speaks of tasks whose loop is free again and again. The Jira
  client has no timeout, so Jira need not answer. The loop runs every ready task; Redis,
  the pool of connections and the command have timeouts in the code, the LLM and
  Qdrant those of their clients; that a statement of PostgreSQL or Neo4j is
  answered or fails is assumed. Webhooks, deaths and failures are not fair.
* In the other modules with liveness it is assumed, in the same way, that no call
  of Jira holds the loop of a worker for ever.
* `CircuitBreaker`: the steps of whoever holds the lock, and the clock: the call
  that is protected answers or raises, which is an assumption about Jira and Neo4j.
  Callers need not call, the service need not recover; `ClosesAfterRecovery` assumes both.
* `AlertIngress`: the steps of queued tasks (Redis has a socket timeout).
* `WorkflowSetup`: the steps of every task; opening the pool and taking one of its
  connections time out after 30 seconds, and the statements of `setup` are assumed
  to be answered or to fail. Outages and restarts are not fair.
* `Tripwire`: the dispatch tasks; a POST has a timeout of ten seconds. Nobody
  has to write a line.
* `MiningRuns`: one condition for all runs: while some run can take a step that adds
  no failure, or is in a circle that PostgreSQL finds, some run does (`GoesOn`).
  Nothing obliges PostgreSQL to fail, the clock to advance or a run to start.
* `Diagnosis`: the steps of tasks that have started; requests and models answer
  or raise, which is assumed of Neo4j. Faults, deaths and starts are not fair.
* `RateLimiter`, `MiningQueries` and `Clients` state no liveness.

## 4. What is proved

All theorems hold for every value of the constants that satisfies the module's
assumption (`BreakerAssumption`, `WorkflowAssumption`, `IngressAssumption`,
`LimiterAssumption`, `SetupAssumption`, `TripwireAssumption`,
`MiningAssumption`, `QueriesAssumption`, `RetrievalAssumption`,
`DiagnosisAssumption`, `ClientsAssumption`); TLC evaluates those on every run.
Each proof is an inductive invariant (`IInv`, or one named for what it is about),
shown for `Init`, for every action and, by temporal logic, for `Spec`.

* **SREWorkflow_proofs.** `TypeCorrect`, `CommandWasApprovedHolds`,
  `AtMostOneLaunchHolds`, `CommandIsAllowedHolds`, `SuccessIsAuditedHolds`, for
  any number of threads and overlapping tasks. The properties speak of tasks
  that started a process, but approval travels: a decision is audited, written
  to a checkpoint, read by any task of the thread, carried through nodes,
  written again, and inherited by a restart. So the invariant says that every
  copy of a thread's values, in a checkpoint or in a task, is *backed* by the
  audit log (`AllBacked`), which only grows. One lemma, `SuperStep`, shows that
  any node that writes backed values keeps it. `NoStrandedThreadHolds` adds
  `NotStranded`: a thread with an alert is settled, or some task still *carries*
  it, be it one that overtook the task that owns the thread.
  Assuming that webhooks do not overlap (`"overlap" \notin Faults`), its second
  half proves `TicketedPlanRunsHolds`, and `ImplementsDiagram3Holds`, the
  refinement of Diagram 3, with crashes and audit failures. The invariant `Serial` ties each task to its thread's checkpoint: a
  starting task stands where the checkpoint stands, a decision finds the starting
  task ended and its plan on a ticket, and no other task touches the thread.
  `StartWrites` and `ExecuteWrites` say what a step writes; preservation
  and the refinement both follow from them.
* **CircuitBreaker_proofs.** Its invariants, and `Refinement`: with its
  lock, queue, clock and retries the breaker implements Diagram 9. The
  invariant says that whoever is inside holds the lock and that the queue has
  each waiting caller once; without it a second caller could record its result
  in a state it did not check.
* **AlertIngress_proofs.** `OneTaskPerIdAndWorkerHolds`,
  `DroppedIffInWindowHolds`, `DuplicateHasOwnerHolds` and `CountNeverOverHolds`.
  The invariant ties the key to the history (`key = Window - since`): nothing but
  a claim and the clock touches it. For the last two, `OwnedAt` says of each
  fingerprint who owns its key and what a claim under way has yet to reset.
* **WorkflowSetup_proofs.** `OnePoolWatchedHolds`, `SetUpInOrderHolds` and
  `CalmTaskSucceedsHolds`, for any number of tasks. The invariant adds what `calm`
  stands for: PostgreSQL answers, the tables exist and the pool is not closed;
  so no step of a calm task can raise.
* **RateLimiter_proofs.** `WorkerCapHolds` and `RefusedOnlyWhenFullHolds` for any
  limit, period and clock. The invariant says that a worker remembers exactly the
  requests that are not yet a period old, and it bounds windows that have not
  begun, too.
* **TripwireClients_proofs.** Of `Tripwire`, `CapturesAreDisjointHolds` and
  `OncePerWindowHolds`, for any texts, buffer, window and log. `Past` says that
  every captured line has been read, so that the next one is new; `CacheIsHistory`
  that an entry's age is the time since its POST. Of `Clients`, `OneEffectHolds`,
  `UpdateIsWholeHolds` and `FindsOpenPoolHolds`, for any workers, calls, faults,
  retries and moves of issues. `EffectInv`: a call has no effect before its request,
  one at most after it, and in Jira one more at most for each time it was sent
  again. `UpdateInv`: what an update has written and what it has still to do cover
  what it was asked for except the status, and the comment is the last.
  `ServedInv`: where nothing failed and the manager was not closed, its pool is one
  its own worker opened, still open, and the manager is initialised as soon as one
  call has ended; a call that waits inside `initialize` cannot take either away.
* **Mining_proofs.** Of `MiningRuns`, `SnapshotAtOnceHolds` and
  `SavedIsStoredHolds`, for any workers, runs and clusters. `Connected` says over
  which connection a run works: one of its worker, and the one that the worker has,
  or a lost one, unless one was replaced alive. `OwnWrites` says that
  a worker that never had two runs at once has in its transaction the rows
  its one run has written so far, `WritersSave` that there are no others, and
  `OneAtATime` that it is one run. `Kept` follows a row that a run has written until
  a commit stores it, whoever commits: it is in the transaction of the worker's
  connection, or stored, or a later row has taken its place.
  Of `MiningQueries`, for stores of any length:
  `CascadesAreRealHolds`: sorting by time is a permutation (`RankRises`,
  `PlacesTaken`, `TimeOrders`), so the pairs that are counted inject into pairs of
  stored events, the second no earlier than the first, and those of a co-occurrence
  into the pairs of either order.
  `DeclineIsRealHolds`: a slope through counts that never fall is not negative
  (`RisingSlope`, from Chebyshev's sum inequality `RisingTogether`); greedy
  clustering keeps each cluster newest first (`PlaceKeepsOrder`), so the cut
  takes only from the oldest day left, which cannot make the counts fall
  (`CutAddsNoFall`). `ForecastFollowsHolds` has the hypothesis
  `MaxMembers <= 10`, the cut `members[:10]` of the code, and needs it: the
  smoother overshoots, and daily counts of 10, 10, 1, 1, 1, which a larger cut
  lets through, are forecast to rise. With it the counts add up to ten at most,
  so at most ten days matter, and the smoothing can be unfolded for each number
  of days. `KnownErrorGetsRunbookHolds`: the message's own type is
  scored, and the head of a list that is not empty is not empty.
* **Diagnosis_proofs.** `CollectionOnceHolds`, `EvidenceFitsHolds`,
  `CountersAgreeHolds` and `EmbeddingsFitHolds`, over both `Diagnosis` and
  `Retrieval`, for any workers, tasks, scenarios and faults, any sizes of cache
  and batch and any texts. Each has its invariant: `CollectionKnown` says what a
  worker, a call and Qdrant know of the collection; `FlowInv` what a task may
  hold at each of its steps, down to the result of a call that it has not yet
  taken up; `CounterInv` that a counter is the number of tasks that are past the
  step that counts; `EmbedInv` that a batch under way has the vectors of the texts
  before it, in their order. `_add_to_cache` evicts until there is room, which the
  model writes as a recursive function: `AddToCacheUnfolds` shows that it is
  defined, and `AddToCacheFits`, by induction on the set of lengths for which it
  holds (`SetInduction`), that an entry it adds is the only one of its key.

Where a model folds over a set or a sequence or defines a function by recursion,
a proof needs that the recursion defines what it says. The library's
induction theorems take an operator and cannot be instantiated, so
`SetInduction` states induction for the *set* of numbers for which something
holds (from the library's `WFMin`). With it `TotalUnfolds`, `FoldUnfolds` and
`AddToCacheUnfolds` show that a function with the recursive equations exists, hence that
`CHOOSE` in the fold yields one; the rest is induction on that function.

The type invariants of `SREWorkflow`, `CircuitBreaker`, `AlertIngress`,
`WorkflowSetup`, `RateLimiter`, `Tripwire` and `MiningRuns`, `KnowsLastFailure`,
`TrippedAtThreshold` and `OnePoolWatched` are proved and not run: the theorem
says more.

Every invariant and every action property of a run that holds is thereby a
theorem, and so is each refinement. No module declares a RECURSIVE operator.

### What liveness rests on

Only model-checked are the liveness properties: what follows from fairness needs
ENABLED, which the prover cannot reason about. What they need besides
fairness is proved, for every value of the constants: that no step is
undone, so that what is to come is bounded, and that nobody waits in a circle.
These theorems are about the same `Spec`, with every fault in it; the properties
they state are in the proof modules.

| Property TLC checks | What is proved of the same module |
|---|---|
| `EveryCallReturns` | `NoLostWakeUpHolds`: whoever waits is in the queue of a lock somebody holds. `WaitsShrinkHolds`: a caller that finds *n* in the queue has its answer after *n* + 2 turns of `2 * MaxRetries + 2` steps at most, whoever comes after it. |
| `ClosesAfterRecovery` | `RecoveryAdvancesHolds`: while the service answers nothing takes the breaker further from CLOSED, each probe brings it nearer, and a call is rejected only when time is still to pass. |
| `EveryRunEnds` | `NoRunStuckHolds`: while runs are under way, one of them can go on (`CanGoOn`, the guards of the steps that add no failure), though a waiting statement stops every run of its connection. By `WritersSave` a row that is waited for is held by a connection over which its writer still saves, so that where nobody else can go on the writer's connection waits as well, and some connection waits in a circle (`SomeCircle`), which PostgreSQL breaks. `RunsDwindleHolds`: a run has `3 * MaxClusters + 7` steps at most. Both, like the property, but for connections replaced alive. |
| `EveryTaskEnds` of `SREWorkflow` | `TasksDwindleHolds`: nine steps at most, whatever checkpoint a task goes on from. |
| `EveryTaskReturns` of `WorkflowSetup` | `TasksDwindleHolds`: four steps at most, whoever fills the fields. |
| `QueuedAlertStarts` | `RequestsDwindleHolds`: five steps at most; nothing makes a request ask Redis twice. |
| `EveryTaskEnds` of `Tripwire` | `TasksDwindleHolds`: two steps per task, one task at most per line, and as long as one is not over, some task waits for its answer or is the next to start. |
| `EveryTaskEnds` of `Diagnosis` | `LocksAreInUseHolds`: a breaker's lock is held by a task that is in its call, hence waits for no other lock, and a task that raised or whose worker died has left it. `TasksAdvanceHolds`: each step takes the task to its next stage, or ends one of its asks, or leaves its call with fewer texts, tries or vectors to go, a measure that cannot shrink for ever. |

## 5. What is not modelled, and why

* External services are reduced to an answer or an exception; the LLM may
  propose anything in `Proposals`.
* Validation and noise filtering of alerts are a choice between "rejected",
  "filtered" and "queued": both are pure functions of one alert. The handlers for
  GitHub, GitLab, Jira, Azure DevOps and custom payloads in `webhook_handler.py`
  are reached by no endpoint.
* An id is recorded before its alert is validated (`webhooks.py:90`), so a
  delivery answered 500 and sent again is answered as a duplicate; the set of ids
  and the limiter's lists are never emptied. The model has no value for memory.
* Shutdown (`core/shutdown.py`): nothing installs its lifespan; three of its four
  coroutines import names that do not exist and the fourth closes a client it has
  just made.
* The subprocess after a timeout or a worker's death: it may go on, and the
  model stops at what the workflow records.
* Heatmap, service matrix and reports of mining only read and format, and so do
  `GET /mining/snapshots` and `/mining/metrics`, whose queries go over the runs'
  connection and could wait or make it (`_connect`) as a run's do;
  `EmbeddingClusterEngine` works on real-valued distances; confidences,
  intervals, peaks, risk scores and their labels are figures nothing reads. A
  suggestion of no type, "general", has no runbook and is left out.
* A `batch_size` of its own for `generate_batch`, which no caller gives.
* SLA and dollar figures, statistics and health checks of the clients, metrics,
  tracing and log texts: no decision reads them.

## 6. Plan

1. **Composition** of `AlertIngress` with `SREWorkflow`. As `SREWorkflow` starts
   a thread at any time, every composed behaviour is one of its behaviours
   already; what a composition would add is how often a window lets a
   second workflow through.
