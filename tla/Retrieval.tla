----------------------------- MODULE Retrieval ------------------------------
(***************************************************************************)
(* The clients of context/: VectorRAG over Qdrant, GraphRAG over Neo4j and *)
(* EmbeddingProvider with its cache.  A task has at most one call under    *)
(* way, and the awaits of a call are its steps, so that the calls of a     *)
(* worker and of other workers come in between.                            *)
(*                                                                         *)
(* Qdrant, Neo4j and the embedding services are external: a request of     *)
(* theirs may fail, and a failed one may have had its effect.              *)
(***************************************************************************)
EXTENDS Naturals, Sequences, FiniteSets

CONSTANTS
  Workers,       (* worker processes                                       *)
  Tasks,         (* asyncio tasks                                          *)
  WorkerOf,      (* the worker of each task                                *)
  BatchSize,     (* EMBEDDING_BATCH_SIZE                                   *)
  CacheSize,     (* EMBEDDING_CACHE_SIZE; 0 when the cache is disabled     *)
  MaxFaults      (* bound: requests that fail                              *)

ASSUME RetrievalAssumption ==
  /\ WorkerOf \in [Tasks -> Workers]
  /\ BatchSize \in Nat \ {0} /\ CacheSize \in Nat /\ MaxFaults \in Nat

VARIABLES
  collection,  (* the collection exists in Qdrant                          *)
  points,      (* the runbooks that it holds                               *)
  services,    (* the Service nodes of Neo4j                               *)
  depends,     (* its DEPENDS_ON edges, <<service, what it depends on>>    *)
  ready,       (* per worker, VectorRAG._collection_initialized            *)
  constrained, (* per worker, GraphRAG._constraints_initialized            *)
  cache,       (* per worker, EmbeddingProvider._cache, oldest first       *)
  call,        (* the call of each task                                    *)
  faults       (* failures so far                                          *)

rvars ==
  <<collection, points, services, depends, ready, constrained, cache, call, faults>>

stores == <<collection, points, services, depends>>
flags == <<ready, constrained, cache>>

VectorOps == {"search", "index", "get", "delete"}
GraphOps == {"topology", "impacted", "add_service", "add_dependency"}
EmbedOps == {"generate", "generate_batch"}

None == "none"

\* arg and result: what the call is given and answers, as sequences.
\* late: the collection existed when the call began.  The rest is of
\* embedding calls: the vectors of the batches got so far, those of the
\* generate calls of generate_batch that are over, and the attempts.
NoCall == [op |-> None, pc |-> "idle", arg |-> <<>>, result |-> <<>>,
           late |-> FALSE, got |-> <<>>, past |-> <<>>, tries |-> 0]

RetrievalInit ==
  /\ collection = FALSE /\ points = {} /\ services = {} /\ depends = {}
  /\ ready = [w \in Workers |-> FALSE]
  /\ constrained = [w \in Workers |-> FALSE]
  /\ cache = [w \in Workers |-> <<>>]
  /\ call = [t \in Tasks |-> NoCall]
  /\ faults = 0

-----------------------------------------------------------------------------

At(t, ops, pc) == call[t].op \in ops /\ call[t].pc = pc
To(t, pc) == call' = [call EXCEPT ![t].pc = pc]
Returns(t, result) ==
  call' = [call EXCEPT ![t].pc = "returned", ![t].result = result]
Raises(t) == To(t, "raised")
Fails == faults < MaxFaults /\ faults' = faults + 1
Ended(t) == call[t].pc \in {"returned", "raised"}

\* Every vector call begins with _ensure_collection; of the graph calls
\* only get_service_topology initializes.
Begins(t, op, arg) ==
  call[t].pc = "idle" /\
  call' = [call EXCEPT ![t] =
             [NoCall EXCEPT !.op = op, !.arg = arg, !.late = collection,
                !.pc = CASE op \in VectorOps -> "ensure"
                         [] op = "topology" -> "initialize"
                         [] op \in GraphOps \ {"topology"} -> "query"
                         [] OTHER -> "generate"]]

-----------------------------------------------------------------------------
(* VectorRAG                                                               *)

\* Mutant: the collections are not looked at.
EnsureBlindly(t) ==
  /\ At(t, VectorOps, "ensure")
  /\ To(t, IF ready[WorkerOf[t]] THEN "store" ELSE "create")
  /\ UNCHANGED <<stores, flags, faults>>

\* _ensure_collection: the flag, then get_collections.
EnsureCollection(t) ==
  /\ At(t, VectorOps, "ensure")
  /\ To(t, IF ready[WorkerOf[t]] \/ collection THEN "store" ELSE "create")
  /\ ready' = [ready EXCEPT ![WorkerOf[t]] = @ \/ collection]
  /\ UNCHANGED <<stores, constrained, cache, faults>>

\* create_collection, outside of every try: Qdrant refuses a collection
\* that someone else has created meanwhile.
CreateCollection(t) ==
  /\ At(t, VectorOps, "create")
  /\ IF collection
       THEN Raises(t) /\ UNCHANGED <<collection, ready>>
       ELSE /\ To(t, "store")
            /\ collection' = TRUE
            /\ ready' = [ready EXCEPT ![WorkerOf[t]] = TRUE]
  /\ UNCHANGED <<points, services, depends, constrained, cache, faults>>

EnsureRaises(t) ==
  /\ call[t].op \in VectorOps /\ call[t].pc \in {"ensure", "create"}
  /\ Fails
  /\ Raises(t)
  /\ \/ UNCHANGED collection
     \/ call[t].pc = "create" /\ collection' = TRUE
  /\ UNCHANGED <<points, services, depends, flags>>

\* The points after the request of a vector call.
PointsAfter(op, runbook) ==
  CASE op = "index"  -> points \cup {runbook}
    [] op = "delete" -> points \ {runbook}
    [] OTHER         -> points

\* search_similar, index_runbook, get_runbook_by_id and delete_runbook: the
\* embedding, then the request.  A search answers what it is near to.
UsePoints(t) ==
  LET op == call[t].op
      arg == call[t].arg[1]
  IN  /\ At(t, VectorOps, "store")
      /\ points' = PointsAfter(op, arg)
      /\ Returns(t, CASE op = "search" -> IF points = {} THEN <<>> ELSE <<arg>>
                      [] op = "get" -> IF arg \in points THEN <<arg>> ELSE <<>>
                      [] OTHER -> <<arg>>)
      /\ UNCHANGED <<collection, services, depends, flags, faults>>

\* A search and an indexing raise again; a get answers None and a delete
\* False, like a runbook that is not there.
UsePointsFails(t) ==
  /\ At(t, VectorOps, "store")
  /\ Fails
  /\ points' \in {points, PointsAfter(call[t].op, call[t].arg[1])}
  /\ IF call[t].op \in {"search", "index"} THEN Raises(t) ELSE Returns(t, <<>>)
  /\ UNCHANGED <<collection, services, depends, flags>>

-----------------------------------------------------------------------------
(* GraphRAG                                                                *)

\* initialize: three CREATE CONSTRAINT IF NOT EXISTS, outside of the try.
InitializeGraph(t) ==
  /\ At(t, {"topology"}, "initialize")
  /\ \/ /\ To(t, "query")
        /\ constrained' = [constrained EXCEPT ![WorkerOf[t]] = TRUE]
        /\ UNCHANGED faults
     \/ ~constrained[WorkerOf[t]] /\ Fails /\ Raises(t) /\ UNCHANGED constrained
  /\ UNCHANGED <<stores, ready, cache>>

\* The services that those of S depend on.
Hop(S) == {e[2] : e \in {d \in depends : d[1] \in S}}

Upstream(s) == Hop({s}) \cup Hop(Hop({s}))
Downstream(s) == {d \in services : s \in Upstream(d)}

EmptyTopology(s) == [service |-> s, upstream |-> {}, downstream |-> {}]

\* get_service_topology, whose result is the service's in any case.  The
\* empty one needs no fault: Neo4j takes no parameter as a path's length.
Topology(t) ==
  LET s == call[t].arg[1]
  IN  /\ At(t, {"topology"}, "query")
      /\ \/ /\ Returns(t, <<[service |-> s, upstream |-> Upstream(s),
                             downstream |-> Downstream(s)]>>)
         \/ Returns(t, <<EmptyTopology(s)>>)
      /\ UNCHANGED <<stores, flags, faults>>

\* get_impacted_services follows DEPENDS_ON from the service.
Impacted(t) ==
  /\ At(t, {"impacted"}, "query")
  /\ LET s == {call[t].arg[1]}
     IN  \/ Returns(t, <<Hop(s) \cup Hop(Hop(s)) \cup Hop(Hop(Hop(s)))>>) /\ UNCHANGED faults
         \/ Fails /\ Returns(t, <<{}>>)
  /\ UNCHANGED <<stores, flags>>

\* add_service merges its node; a failure is answered like no record.
AddService(t) ==
  /\ At(t, {"add_service"}, "query")
  /\ \/ services' = services \cup {call[t].arg[1]} /\ Returns(t, <<TRUE>>) /\ UNCHANGED faults
     \/ /\ Fails /\ Returns(t, <<FALSE>>)
        /\ services' \in {services, services \cup {call[t].arg[1]}}
  /\ UNCHANGED <<collection, points, depends, flags>>

\* add_dependency matches both services first and then merges the edge.
AddDependency(t) ==
  LET e == call[t].arg
      known == {e[1], e[2]} \subseteq services
      added == IF known THEN depends \cup {e} ELSE depends
  IN  /\ At(t, {"add_dependency"}, "query")
      /\ \/ depends' = added /\ Returns(t, <<known>>) /\ UNCHANGED faults
         \/ Fails /\ Returns(t, <<FALSE>>) /\ depends' \in {depends, added}
      /\ UNCHANGED <<collection, points, services, flags>>

-----------------------------------------------------------------------------
(* EmbeddingProvider: the vector of a text stands as the text              *)

\* The texts of the generate call under way: all, or the next batch, of the
\* size that no caller of generate_batch overrides.
Texts(t) ==
  LET n == Len(call[t].past)
      all == call[t].arg
  IN  IF call[t].op = "generate" THEN all
      ELSE SubSeq(all, n + 1, IF n + BatchSize < Len(all) THEN n + BatchSize ELSE Len(all))

Cached(w, text) == {i \in DOMAIN cache[w] : cache[w][i].text = text}

\* Mutant: the size is looked at before the entry is added.
PutLate(c, text, vector) ==
  LET entry == [text |-> text, vector |-> vector]
      kept == IF Len(c) > CacheSize THEN Tail(c) ELSE c
  IN  SelectSeq(kept, LAMBDA e : e.text # text) \o <<entry>>

\* A key that is there keeps its place; the oldest go when there are too many.
Put(c, text, vector) ==
  LET entry == [text |-> text, vector |-> vector]
      at == {i \in DOMAIN c : c[i].text = text}
      all == IF at = {} THEN Append(c, entry)
             ELSE [i \in DOMAIN c |-> IF i \in at THEN entry ELSE c[i]]
  IN  IF Len(all) > CacheSize THEN SubSeq(all, Len(all) - CacheSize + 1, Len(all)) ELSE all

\* _add_to_cache
AddToCache(c, texts, vectors) ==
  LET after[n \in 0..Len(texts)] ==
        IF n = 0 THEN c ELSE Put(after[n - 1], texts[n], vectors[n])
  IN  after[Len(texts)]

\* A generate call is over; generate_batch goes on with its next batch.
Generated(t, vectors) ==
  LET past == call[t].past \o vectors
  IN  IF Len(past) >= Len(call[t].arg) THEN Returns(t, past)
      ELSE call' = [call EXCEPT ![t].past = past, ![t].pc = "generate",
                                ![t].got = <<>>, ![t].tries = 0]

\* The cache answers only when it holds every text.
Generate(t) ==
  LET w == WorkerOf[t]
      texts == Texts(t)
  IN  /\ At(t, EmbedOps, "generate")
      /\ IF \A i \in DOMAIN texts : Cached(w, texts[i]) # {}
           THEN Generated(t, [i \in DOMAIN texts |->
                                cache[w][CHOOSE j \in Cached(w, texts[i]) : TRUE].vector])
           ELSE To(t, "batch")
      /\ UNCHANGED <<stores, flags, faults>>

\* A batch is answered; the last one fills the cache.
EmbedBatch(t) ==
  LET w == WorkerOf[t]
      texts == Texts(t)
      n == Len(call[t].got)
      upto == IF n + BatchSize < Len(texts) THEN n + BatchSize ELSE Len(texts)
      got == call[t].got \o SubSeq(texts, n + 1, upto)
  IN  /\ At(t, EmbedOps, "batch")
      /\ IF upto = Len(texts)
           THEN /\ cache' = [cache EXCEPT ![w] = AddToCache(@, texts, got)]
                /\ Generated(t, got)
           ELSE call' = [call EXCEPT ![t].got = got] /\ UNCHANGED cache
      /\ UNCHANGED <<stores, ready, constrained, faults>>

\* A rate limit or a timeout has generate called again, three times at most,
\* and any other error is raised at once.
EmbedBatchFails(t) ==
  /\ At(t, EmbedOps, "batch")
  /\ Fails
  /\ \/ /\ call[t].tries < 2
        /\ call' = [call EXCEPT ![t].pc = "generate", ![t].tries = @ + 1, ![t].got = <<>>]
     \/ Raises(t)
  /\ UNCHANGED <<stores, flags>>

-----------------------------------------------------------------------------

RetrievalStep(t) ==
  \/ EnsureCollection(t) \/ CreateCollection(t) \/ EnsureRaises(t)
  \/ UsePoints(t) \/ UsePointsFails(t)
  \/ InitializeGraph(t) \/ Topology(t) \/ Impacted(t)
  \/ AddService(t) \/ AddDependency(t)
  \/ Generate(t) \/ EmbedBatch(t) \/ EmbedBatchFails(t)

\* A worker starts anew: what its objects held is gone.
ForgetRetrieval(w) ==
  /\ ready' = [ready EXCEPT ![w] = FALSE]
  /\ constrained' = [constrained EXCEPT ![w] = FALSE]
  /\ cache' = [cache EXCEPT ![w] = <<>>]
  /\ call' = [t \in Tasks |-> IF WorkerOf[t] = w THEN NoCall ELSE call[t]]
  /\ UNCHANGED stores
=============================================================================
