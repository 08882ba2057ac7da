-------------------------- MODULE Diagnosis_proofs --------------------------
(***************************************************************************)
(* Proofs about Diagnosis.tla and the clients of Retrieval.tla below it,   *)
(* for any workers, tasks, alerts, scenarios and faults: one invariant for *)
(* each of its safety properties, then what EveryTaskEnds rests on, the    *)
(* locks of the breakers and the steps that a task has left.               *)
(***************************************************************************)
EXTENDS Diagnosis, FiniteSetTheorems, SequenceTheorems, WellFoundedInduction, TLAPS

\* The records of the model, whatever their fields hold.
IsCall(c) ==
  c = [op |-> c.op, pc |-> c.pc, arg |-> c.arg, result |-> c.result, late |-> c.late,
       got |-> c.got, past |-> c.past, tries |-> c.tries]

\* The calls of the clients.
CallsTyped ==
  /\ call = [t \in Tasks |-> call[t]]
  /\ \A t \in Tasks : IsCall(call[t])
  /\ ready \in [Workers -> BOOLEAN]
  /\ collection \in BOOLEAN
  /\ faults \in Nat

\* A step of the task's call.
CallMoves(t) ==
  /\ call' = [u \in Tasks |-> call'[u]]
  /\ \A u \in Tasks \ {t} : call'[u] = call[u]
  /\ IsCall(call'[t])
  /\ call'[t].op = call[t].op /\ call'[t].arg = call[t].arg
  /\ call'[t].late = call[t].late

LEMMA ToMoves ==
  ASSUME CallsTyped, NEW t \in Tasks, NEW pc, To(t, pc)
  PROVE  CallMoves(t) /\ call'[t].pc = pc
BY DEF CallsTyped, To, CallMoves, IsCall

LEMMA ReturnsMoves ==
  ASSUME CallsTyped, NEW t \in Tasks, NEW result, Returns(t, result)
  PROVE  CallMoves(t) /\ call'[t].pc = "returned" /\ call'[t].result = result
<1> DEFINE c == call[t]
           mid == [c EXCEPT !.pc = "returned"]
           new == [mid EXCEPT !.result = result]
<1>1. call' = [call EXCEPT ![t] = new] /\ IsCall(c)
  BY DEF Returns, CallsTyped
<1>2. /\ IsCall(mid) /\ mid.pc = "returned"
      /\ mid.op = c.op /\ mid.arg = c.arg /\ mid.late = c.late
  BY <1>1 DEF IsCall
<1> HIDE DEF mid
<1>3. /\ IsCall(new) /\ new.pc = "returned" /\ new.result = result
      /\ new.op = c.op /\ new.arg = c.arg /\ new.late = c.late
  BY <1>2 DEF IsCall
<1> HIDE DEF new
<1> QED BY <1>1, <1>3 DEF CallsTyped, CallMoves

LEMMA RaisesMoves ==
  ASSUME CallsTyped, NEW t \in Tasks, Raises(t)
  PROVE  CallMoves(t) /\ call'[t].pc = "raised"
BY ToMoves DEF Raises

\* A call that begins; the others stand still.
LEMMA BeginsCall ==
  ASSUME CallsTyped, NEW t \in Tasks, NEW op, NEW arg, Begins(t, op, arg)
  PROVE  /\ call' = [u \in Tasks |-> call'[u]]
         /\ \A u \in Tasks \ {t} : call'[u] = call[u]
         /\ IsCall(call'[t])
         /\ call'[t].op = op /\ call'[t].arg = arg /\ call'[t].late = collection
         /\ op \in VectorOps => call'[t].pc = "ensure"
         /\ op = "topology" => call'[t].pc = "initialize"
         /\ call'[t].pc \notin {"returned", "raised"}
<1> DEFINE pc == CASE op \in VectorOps -> "ensure"
                   [] op = "topology" -> "initialize"
                   [] op \in GraphOps \ {"topology"} -> "query"
                   [] OTHER -> "generate"
           one == [NoCall EXCEPT !.op = op]
           two == [one EXCEPT !.arg = arg]
           three == [two EXCEPT !.late = collection]
           four == [three EXCEPT !.pc = pc]
<1>1. call' = [call EXCEPT ![t] = four]
  BY DEF Begins
<1>2. /\ op \in VectorOps => pc = "ensure"
      /\ op = "topology" => pc = "initialize"
      /\ pc \notin {"returned", "raised"}
  <2>1. op = "topology" => op \notin VectorOps
    BY DEF VectorOps
  <2>2. CASE op \in VectorOps
    <3>1. pc = "ensure"
      BY <2>1, <2>2 DEF VectorOps, GraphOps
    <3> QED BY <3>1, <2>1, <2>2
  <2>3. CASE op \notin VectorOps /\ op = "topology"
    <3>1. pc = "initialize"
      BY <2>3
    <3> QED BY <3>1, <2>3
  <2>4. CASE op \notin VectorOps /\ op # "topology"
    <3>1. pc \in {"query", "generate"}
      BY <2>4
    <3> QED BY <3>1, <2>4
  <2> QED BY <2>2, <2>3, <2>4
<1> HIDE DEF pc
<1>7. IsCall(NoCall)
  BY DEF NoCall, IsCall
<1>3. IsCall(one) /\ one.op = op
  BY <1>7 DEF IsCall
<1> HIDE DEF one
<1>4. IsCall(two) /\ two.op = op /\ two.arg = arg
  BY <1>3 DEF IsCall
<1> HIDE DEF two
<1>5. IsCall(three) /\ three.op = op /\ three.arg = arg /\ three.late = collection
  BY <1>4 DEF IsCall
<1> HIDE DEF three
<1>6. /\ IsCall(four) /\ four.op = op /\ four.arg = arg /\ four.late = collection
      /\ four.pc = pc
  BY <1>5 DEF IsCall
<1> HIDE DEF four
<1> QED BY <1>1, <1>2, <1>6 DEF CallsTyped

\* Every step of a client is one of the task's call.
LEMMA RetrievalMoves ==
  ASSUME CallsTyped, NEW t \in Tasks, RetrievalStep(t)
  PROVE  CallMoves(t)
<1>1. CASE EnsureCollection(t) \/ CreateCollection(t) \/ EnsureRaises(t) \/ InitializeGraph(t)
  BY <1>1, ToMoves, RaisesMoves
  DEF EnsureCollection, CreateCollection, EnsureRaises, InitializeGraph
<1>2. CASE UsePoints(t) \/ UsePointsFails(t)
  BY <1>2, ReturnsMoves, RaisesMoves DEF UsePoints, UsePointsFails
<1>3. CASE Topology(t) \/ Impacted(t) \/ AddService(t) \/ AddDependency(t)
  BY <1>3, ReturnsMoves DEF Topology, Impacted, AddService, AddDependency
<1>4. ASSUME NEW vectors, Generated(t, vectors) PROVE CallMoves(t)
  <2> DEFINE past == call[t].past \o vectors
             one == [call[t] EXCEPT !.past = past]
             two == [one EXCEPT !.pc = "generate"]
             three == [two EXCEPT !.got = <<>>]
             four == [three EXCEPT !.tries = 0]
  <2>1. CASE Returns(t, past)
    BY <2>1, ReturnsMoves
  <2>2. CASE ~Returns(t, past)
    <3>1. call' = [call EXCEPT ![t] = four] /\ IsCall(call[t])
      BY <2>2, <1>4 DEF Generated, CallsTyped
    <3> HIDE DEF past
    <3>2. IsCall(one) /\ one.op = call[t].op /\ one.arg = call[t].arg /\ one.late = call[t].late
      BY <3>1 DEF IsCall
    <3> HIDE DEF one
    <3>3. IsCall(two) /\ two.op = one.op /\ two.arg = one.arg /\ two.late = one.late
      BY <3>2 DEF IsCall
    <3> HIDE DEF two
    <3>4. IsCall(three) /\ three.op = two.op /\ three.arg = two.arg /\ three.late = two.late
      BY <3>3 DEF IsCall
    <3> HIDE DEF three
    <3>5. IsCall(four) /\ four.op = three.op /\ four.arg = three.arg /\ four.late = three.late
      BY <3>4 DEF IsCall
    <3> HIDE DEF four
    <3> QED BY <3>1, <3>2, <3>3, <3>4, <3>5 DEF CallsTyped, CallMoves
  <2> QED BY <2>1, <2>2
<1>5. CASE Generate(t)
  BY <1>5, <1>4, ToMoves DEF Generate
<1>6. CASE EmbedBatch(t)
  <2>1. \/ \E got : Generated(t, got)
        \/ \E got : call' = [call EXCEPT ![t].got = got]
    BY <1>6 DEF EmbedBatch
  <2>2. ASSUME NEW got, call' = [call EXCEPT ![t].got = got] PROVE CallMoves(t)
    BY <2>2 DEF CallsTyped, CallMoves, IsCall
  <2> QED BY <2>1, <2>2, <1>4
<1>7. CASE EmbedBatchFails(t)
  <2> DEFINE one == [call[t] EXCEPT !.pc = "generate"]
             two == [one EXCEPT !.tries = @ + 1]
             three == [two EXCEPT !.got = <<>>]
  <2>1. CASE Raises(t)
    BY <2>1, RaisesMoves
  <2>2. CASE ~Raises(t)
    <3>1. call' = [call EXCEPT ![t] = three] /\ IsCall(call[t])
      BY <2>2, <1>7 DEF EmbedBatchFails, CallsTyped
    <3>2. IsCall(one) /\ one.op = call[t].op /\ one.arg = call[t].arg /\ one.late = call[t].late
      BY <3>1 DEF IsCall
    <3> HIDE DEF one
    <3>3. IsCall(two) /\ two.op = one.op /\ two.arg = one.arg /\ two.late = one.late
      BY <3>2 DEF IsCall
    <3> HIDE DEF two
    <3>4. IsCall(three) /\ three.op = two.op /\ three.arg = two.arg /\ three.late = two.late
      BY <3>3 DEF IsCall
    <3> HIDE DEF three
    <3> QED BY <3>1, <3>2, <3>3, <3>4 DEF CallsTyped, CallMoves
  <2> QED BY <2>1, <2>2
<1> QED BY <1>1, <1>2, <1>3, <1>5, <1>6, <1>7 DEF RetrievalStep

-----------------------------------------------------------------------------
(* What the steps of Diagnosis do to the clients                           *)

\* Who touches the clients' state: a call's own step, the start of a call,
\* the task that takes its answer, the death of its worker, or nobody.
Begun(t)  ==
  \E op, arg : Begins(t, op, arg) /\ (op \in EmbedOps => op = Kind(t) /\ arg = Arg(t))
Taken(t)  == call' = [call EXCEPT ![t] = NoCall]
MoreFaults == faults' \in {faults, faults + 1}

ClientSteps ==
  \/ \E t \in Tasks : RetrievalStep(t)
  \/ \E t \in Tasks : Begun(t) /\ UNCHANGED <<stores, flags, faults>>
  \/ \E t \in Tasks : Taken(t) /\ UNCHANGED <<stores, flags>>
  \/ \E w \in Workers : ForgetRetrieval(w)
  \/ UNCHANGED <<stores, flags, call>>

LEMMA NextIsClientStep ==
  ASSUME [Next]_vars
  PROVE  ClientSteps /\ MoreFaults
<1> USE DEF MoreFaults, Fails
<1>1. CASE UNCHANGED vars
  BY <1>1 DEF vars, rvars, stores, flags, ClientSteps
<1>2. ASSUME NEW t \in Tasks, Starts(t) PROVE ClientSteps /\ MoreFaults
  <2>1. CASE CallDirectly(t)
    BY <2>1 DEF CallDirectly, ClientSteps, Begun
  <2>2. CASE StartStream(t) \/ AnalyzeBatch(t)
    BY <2>2 DEF StartStream, AnalyzeBatch, rvars, stores, flags, ClientSteps
  <2> QED BY <1>2, <2>1, <2>2 DEF Starts
<1>3. ASSUME NEW t \in Tasks, Step(t) PROVE ClientSteps /\ MoreFaults
  <2>1. CASE RetrievalStep(t)
    <3>1. MoreFaults
      BY <2>1 DEF RetrievalStep, EnsureCollection, CreateCollection, EnsureRaises, UsePoints,
        UsePointsFails, InitializeGraph, Topology, Impacted, AddService, AddDependency,
        Generate, EmbedBatch, EmbedBatchFails
    <3> QED BY <2>1, <3>1 DEF ClientSteps
  <2>2. CASE Search(t) \/ AskTopology(t)
    BY <2>2 DEF Search, AskTopology, ClientSteps, Begun, EmbedOps
  <2>3. CASE Searched(t) \/ Related(t)
    BY <2>3 DEF Searched, Related, ClientSteps, Taken
  <2>4. CASE CallEnds(t) \/ Route(t) \/ Analyze(t) \/ Analyzing(t) \/ BatchAnalyzed(t)
    BY <2>4 DEF CallEnds, Route, Analyze, Analyzing, BatchAnalyzed, rvars, stores, flags,
      ClientSteps
  <2>5. CASE BreakerRefuses(t) \/ Diagnose(t)
    BY <2>5 DEF BreakerRefuses, Diagnose, ClientSteps
  <2> QED BY <1>3, <2>1, <2>2, <2>3, <2>4, <2>5 DEF Step
<1>4. ASSUME NEW w \in Workers, Boot(w) \/ Die(w) PROVE ClientSteps /\ MoreFaults
  BY <1>4 DEF Boot, Die, rvars, stores, flags, ClientSteps
<1> QED BY <1>1, <1>2, <1>3, <1>4 DEF Next

LEMMA NoCallTyped == IsCall(NoCall)
BY DEF NoCall, IsCall

LEMMA InitCalls == Init => CallsTyped
<1> SUFFICES ASSUME Init PROVE CallsTyped
  OBVIOUS
<1>1. \A t \in Tasks : call[t] = NoCall
  BY DEF Init, RetrievalInit
<1> QED BY <1>1, NoCallTyped DEF Init, RetrievalInit, CallsTyped

LEMMA StepCalls ==
  ASSUME CallsTyped, [Next]_vars
  PROVE  CallsTyped'
<1> USE RetrievalAssumption
<1>1. faults' \in Nat
  BY NextIsClientStep DEF MoreFaults, CallsTyped
<1>2. CASE \E t \in Tasks : RetrievalStep(t)
  <2>1. PICK t \in Tasks : RetrievalStep(t)
    BY <1>2
  <2>2. CallMoves(t)
    BY <2>1, RetrievalMoves
  <2>3. ready' \in [Workers -> BOOLEAN] /\ collection' \in BOOLEAN
    BY <2>1 DEF RetrievalStep, EnsureCollection, CreateCollection, EnsureRaises, UsePoints,
      UsePointsFails, InitializeGraph, Topology, Impacted, AddService, AddDependency,
      Generate, EmbedBatch, EmbedBatchFails, CallsTyped, stores, flags
  <2> QED BY <1>1, <2>2, <2>3 DEF CallsTyped, CallMoves
<1>3. CASE \E t \in Tasks : Begun(t) /\ UNCHANGED <<stores, flags, faults>>
  <2>1. PICK t \in Tasks : Begun(t)
    BY <1>3
  <2>2. PICK op, arg : Begins(t, op, arg)
    BY <2>1 DEF Begun
  <2> QED BY <1>1, <1>3, <2>2, BeginsCall DEF CallsTyped, stores, flags
<1>4. CASE \E t \in Tasks : Taken(t) /\ UNCHANGED <<stores, flags>>
  BY <1>1, <1>4, NoCallTyped DEF Taken, CallsTyped, stores, flags
<1>5. CASE \E w \in Workers : ForgetRetrieval(w)
  <2>1. PICK w \in Workers : ForgetRetrieval(w)
    BY <1>5
  <2>2. /\ call' = [t \in Tasks |-> call'[t]]
        /\ \A t \in Tasks : IsCall(call'[t])
    BY <2>1, NoCallTyped DEF ForgetRetrieval, CallsTyped
  <2> QED BY <1>1, <2>1, <2>2 DEF ForgetRetrieval, CallsTyped, stores
<1>6. CASE UNCHANGED <<stores, flags, call>>
  BY <1>1, <1>6 DEF CallsTyped, stores, flags
<1> QED BY <1>2, <1>3, <1>4, <1>5, <1>6, NextIsClientStep DEF ClientSteps

-----------------------------------------------------------------------------
(* The collection of Qdrant                                                *)

\* A vector call past its _ensure_collection has the collection, and one
\* that began with it never comes to create it.
VectorCallFits(t) ==
  call[t].op \in VectorOps =>
    /\ call[t].late => collection /\ call[t].pc # "create"
    /\ call[t].pc = "store" => collection
    /\ faults = 0 /\ call[t].late => call[t].pc # "raised"

CollectionKnown ==
  /\ \A w \in Workers : ready[w] => collection
  /\ points # {} => collection
  /\ \A t \in Tasks : VectorCallFits(t)

LEMMA InitCollection == Init => CollectionKnown
BY DEF Init, RetrievalInit, CollectionKnown, VectorCallFits, NoCall, None, VectorOps

\* The collection stays, and who does not move is not disturbed.
LEMMA OthersFit ==
  ASSUME CallsTyped, CollectionKnown, NEW u \in Tasks, call'[u] = call[u],
         collection => collection', MoreFaults
  PROVE  VectorCallFits(u)'
BY DEF CallsTyped, CollectionKnown, VectorCallFits, MoreFaults

LEMMA RetrievalCollection ==
  ASSUME CallsTyped, CollectionKnown, MoreFaults, NEW t \in Tasks, RetrievalStep(t)
  PROVE  CollectionKnown'
<1> USE RetrievalAssumption
<1>1. CallMoves(t) /\ VectorCallFits(t) /\ WorkerOf[t] \in Workers
  BY RetrievalMoves DEF CollectionKnown
<1>2. /\ collection => collection'
      /\ \A w \in Workers : ready'[w] => collection'
      /\ points' # {} => collection'
      /\ VectorCallFits(t)'
  <2>1. CASE EnsureCollection(t)
    BY <1>1, <2>1, ToMoves DEF EnsureCollection, At, stores, CollectionKnown, VectorCallFits, CallsTyped, CallMoves
  <2>2. CASE CreateCollection(t)
    BY <1>1, <2>2, ToMoves, RaisesMoves
    DEF CreateCollection, At, CollectionKnown, VectorCallFits, CallsTyped, CallMoves
  <2>3. CASE EnsureRaises(t)
    BY <1>1, <2>3, RaisesMoves
    DEF EnsureRaises, Fails, flags, CollectionKnown, VectorCallFits, CallsTyped, CallMoves
  <2>4. CASE UsePoints(t)
    BY <1>1, <2>4, ReturnsMoves
    DEF UsePoints, At, flags, CollectionKnown, VectorCallFits, CallsTyped, CallMoves
  <2>5. CASE UsePointsFails(t)
    BY <1>1, <2>5, ReturnsMoves, RaisesMoves
    DEF UsePointsFails, Fails, At, flags, CollectionKnown, VectorCallFits, CallsTyped, CallMoves
  <2>6. CASE InitializeGraph(t) \/ Topology(t) \/ Impacted(t) \/ AddService(t)
               \/ AddDependency(t) \/ Generate(t) \/ EmbedBatch(t) \/ EmbedBatchFails(t)
    <3>1. call[t].op \notin VectorOps
      BY <2>6 DEF InitializeGraph, Topology, Impacted, AddService, AddDependency, Generate,
        EmbedBatch, EmbedBatchFails, At, VectorOps, EmbedOps
    <3>2. UNCHANGED <<collection, points, ready>>
      BY <2>6 DEF InitializeGraph, Topology, Impacted, AddService, AddDependency, Generate,
        EmbedBatch, EmbedBatchFails, stores, flags
    <3> QED BY <1>1, <3>1, <3>2 DEF CollectionKnown, VectorCallFits, CallMoves
  <2> QED BY <2>1, <2>2, <2>3, <2>4, <2>5, <2>6 DEF RetrievalStep
<1> QED BY <1>1, <1>2, OthersFit DEF CollectionKnown, CallMoves

LEMMA StepCollection ==
  ASSUME CallsTyped, CollectionKnown, [Next]_vars
  PROVE  CollectionKnown'
<1>1. MoreFaults
  BY NextIsClientStep
<1>2. CASE \E t \in Tasks : Begun(t) /\ UNCHANGED <<stores, flags, faults>>
  <2>1. PICK t \in Tasks : Begun(t)
    BY <1>2
  <2>2. PICK op, arg : Begins(t, op, arg)
    BY <2>1 DEF Begun
  <2>3. VectorCallFits(t)'
    BY <1>2, <2>2, BeginsCall DEF VectorCallFits, stores
  <2> QED BY <1>1, <1>2, <2>2, <2>3, BeginsCall, OthersFit DEF CollectionKnown, stores, flags
<1>3. CASE \E t \in Tasks : Taken(t) /\ UNCHANGED <<stores, flags>>
  <2>1. PICK t \in Tasks : Taken(t) /\ UNCHANGED <<stores, flags>>
    BY <1>3
  <2>2. /\ \A u \in Tasks \ {t} : call'[u] = call[u]
        /\ VectorCallFits(t)'
    BY <2>1 DEF Taken, CallsTyped, VectorCallFits, NoCall, None, VectorOps
  <2> QED BY <1>1, <2>1, <2>2, OthersFit DEF CollectionKnown, stores, flags
<1>4. CASE \E w \in Workers : ForgetRetrieval(w)
  <2>1. PICK w \in Workers : ForgetRetrieval(w)
    BY <1>4
  <2>2. ASSUME NEW t \in Tasks PROVE VectorCallFits(t)'
    <3>1. call'[t] = NoCall \/ call'[t] = call[t]
      BY <2>1 DEF ForgetRetrieval
    <3>2. call'[t] = NoCall => VectorCallFits(t)'
      BY DEF VectorCallFits, NoCall, None, VectorOps
    <3> QED BY <1>1, <2>1, <3>1, <3>2, OthersFit DEF ForgetRetrieval, stores
  <2> QED BY <2>1, <2>2 DEF ForgetRetrieval, CollectionKnown, CallsTyped, stores
<1>5. CASE UNCHANGED <<stores, flags, call>>
  BY <1>1, <1>5, OthersFit DEF CollectionKnown, stores, flags
<1> QED BY <1>1, <1>2, <1>3, <1>4, <1>5, RetrievalCollection, NextIsClientStep DEF ClientSteps

\* _ensure_collection and create_collection of VectorRAG, run by any tasks of
\* any workers, with any failures and restarts: what a worker remembers of the
\* collection is true, and a call loses the race to create it only if it began
\* before there was one.
THEOREM CollectionOnceHolds == Spec => []CollectionOnce
<1>1. CallsTyped /\ CollectionKnown => CollectionOnce
  BY DEF CollectionKnown, VectorCallFits, CollectionOnce
<1> QED BY InitCalls, StepCalls, InitCollection, StepCollection, <1>1, PTL DEF Spec

-----------------------------------------------------------------------------
(* The tasks: their state is a record, which each step changes in part     *)

FlowFields == {"pc", "context", "first", "found", "retrieved", "version", "asks", "results"}

IsFlow(f) == f = [x \in FlowFields |-> f[x]]
With(f, field, value) == [f EXCEPT ![field] = value]

LEMMA WithSets ==
  ASSUME NEW f, IsFlow(f), NEW g \in FlowFields, NEW x
  PROVE  /\ IsFlow(With(f, g, x))
         /\ With(f, g, x)[g] = x
         /\ \A h \in FlowFields \ {g} : With(f, g, x)[h] = f[h]
BY DEF IsFlow, With

LEMMA WithTwice ==
  ASSUME NEW f, IsFlow(f), NEW g \in FlowFields, NEW x, NEW y
  PROVE  With(With(f, g, x), g, y) = With(f, g, y)
<1>1. /\ IsFlow(With(With(f, g, x), g, y)) /\ IsFlow(With(f, g, y))
      /\ \A h \in FlowFields : With(With(f, g, x), g, y)[h] = With(f, g, y)[h]
  BY WithSets
<1> QED BY <1>1 DEF IsFlow

IsContext(c) == c = [vector |-> c.vector, topology |-> c.topology]

FlowsTyped ==
  /\ flow = [t \in Tasks |-> flow[t]]
  /\ \A t \in Tasks : IsFlow(flow[t])
  /\ saved = [th \in Threads |-> saved[th]]
  /\ \A th \in Threads : IsContext(saved[th])
  /\ scenario \in Scenarios

\* A step of the task, which leaves these of its fields.
FlowMoves(t) ==
  /\ flow' = [u \in Tasks |-> flow'[u]]
  /\ \A u \in Tasks \ {t} : flow'[u] = flow[u]
  /\ IsFlow(flow'[t])
Leaves(t, fields) == \A h \in fields : flow'[t][h] = flow[t][h]

LEMMA GotoMoves ==
  ASSUME FlowsTyped, NEW t \in Tasks, NEW pc, Goto(t, pc)
  PROVE  FlowMoves(t) /\ flow'[t].pc = pc /\ Leaves(t, FlowFields \ {"pc"})
<1>1. flow' = [flow EXCEPT ![t] = With(flow[t], "pc", pc)]
  BY DEF Goto, With, FlowsTyped
<1>2. flow'[t] = With(flow[t], "pc", pc) /\ IsFlow(flow[t])
  BY <1>1 DEF FlowsTyped
<1> QED BY <1>1, <1>2, WithSets DEF FlowsTyped, FlowMoves, Leaves, FlowFields

LEMMA StartMoves ==
  ASSUME FlowsTyped, NEW t \in Tasks, StartStream(t)
  PROVE  /\ FlowMoves(t)
         /\ flow'[t].pc = "qdrant" /\ flow'[t].context = saved[Thread(t)]
         /\ flow'[t].first => \A u \in Tasks \ {t} :
               Kind(u) = "alert" /\ Thread(u) = Thread(t) => Pc(u, "idle")
         /\ Leaves(t, {"found", "retrieved", "version", "asks", "results"})
<1> DEFINE first == \A u \in Tasks \ {t} :
                      Kind(u) = "alert" /\ Thread(u) = Thread(t) => Pc(u, "idle")
           new == With(With(With(flow[t], "pc", "qdrant"), "context", saved[Thread(t)]),
                       "first", first)
<1>1. flow' = [flow EXCEPT ![t] = new]
  BY DEF StartStream, With, FlowsTyped
<1> HIDE DEF first
<1>2. flow'[t] = new /\ IsFlow(flow[t])
  BY <1>1 DEF FlowsTyped
<1>3. /\ IsFlow(new) /\ new.pc = "qdrant" /\ new.context = saved[Thread(t)]
      /\ new.first = first
      /\ \A h \in {"found", "retrieved", "version", "asks", "results"} : new[h] = flow[t][h]
  BY <1>2, WithSets DEF FlowFields
<1> HIDE DEF new
<1> QED BY <1>1, <1>2, <1>3 DEF FlowsTyped, FlowMoves, Leaves, first

LEMMA RetrievedMoves ==
  ASSUME FlowsTyped, NEW t \in Tasks, NEW context, NEW ok, Retrieved(t, context, ok)
  PROVE  /\ FlowMoves(t)
         /\ flow'[t].pc = "diagnose" /\ flow'[t].context = context
         /\ flow'[t].retrieved = ok /\ flow'[t].found = <<>>
         /\ Leaves(t, {"first", "version", "asks", "results"})
<1> DEFINE new == With(With(With(With(flow[t], "pc", "diagnose"), "context", context),
                            "retrieved", ok), "found", <<>>)
<1>1. flow' = [flow EXCEPT ![t] = new]
  BY DEF Retrieved, With, FlowsTyped
<1>2. flow'[t] = new /\ IsFlow(flow[t])
  BY <1>1 DEF FlowsTyped
<1>3. /\ IsFlow(new) /\ new.pc = "diagnose" /\ new.context = context
      /\ new.retrieved = ok /\ new.found = <<>>
      /\ \A h \in {"first", "version", "asks", "results"} : new[h] = flow[t][h]
  BY <1>2, WithSets DEF FlowFields
<1> HIDE DEF new
<1> QED BY <1>1, <1>2, <1>3 DEF FlowsTyped, FlowMoves, Leaves

\* The steps that change the pc and one more field.
LEMMA PairMoves ==
  ASSUME FlowsTyped, NEW t \in Tasks, NEW pc, NEW field \in FlowFields \ {"pc"}, NEW x,
         flow' = [flow EXCEPT ![t] = With(With(flow[t], "pc", pc), field, x)]
  PROVE  /\ FlowMoves(t)
         /\ flow'[t].pc = pc /\ flow'[t][field] = x
         /\ Leaves(t, FlowFields \ {"pc", field})
<1> DEFINE new == With(With(flow[t], "pc", pc), field, x)
<1>1. flow' = [flow EXCEPT ![t] = new] /\ flow'[t] = new /\ IsFlow(flow[t])
  BY DEF FlowsTyped
<1>2. /\ IsFlow(new) /\ new.pc = pc /\ new[field] = x
      /\ \A h \in FlowFields \ {"pc", field} : new[h] = flow[t][h]
  BY <1>1, WithSets DEF FlowFields
<1> HIDE DEF new
<1> QED BY <1>1, <1>2 DEF FlowsTyped, FlowMoves, Leaves

LEMMA FoundMoves ==
  ASSUME FlowsTyped, NEW t \in Tasks, NEW pc, NEW x,
         flow' = [flow EXCEPT ![t].pc = pc, ![t].found = x]
  PROVE  /\ FlowMoves(t) /\ flow'[t].pc = pc /\ flow'[t].found = x
         /\ Leaves(t, FlowFields \ {"pc", "found"})
<1>1. flow' = [flow EXCEPT ![t] = With(With(flow[t], "pc", pc), "found", x)]
  BY DEF With, FlowsTyped
<1>2. "found" \in FlowFields \ {"pc"}
  BY DEF FlowFields
<1> QED BY ONLY FlowsTyped, t \in Tasks, <1>1, <1>2, PairMoves

LEMMA VersionMoves ==
  ASSUME FlowsTyped, NEW t \in Tasks, NEW pc, NEW x,
         flow' = [flow EXCEPT ![t].pc = pc, ![t].version = x]
  PROVE  /\ FlowMoves(t) /\ flow'[t].pc = pc /\ flow'[t].version = x
         /\ Leaves(t, FlowFields \ {"pc", "version"})
<1>1. flow' = [flow EXCEPT ![t] = With(With(flow[t], "pc", pc), "version", x)]
  BY DEF With, FlowsTyped
<1>2. "version" \in FlowFields \ {"pc"}
  BY DEF FlowFields
<1> QED BY ONLY FlowsTyped, t \in Tasks, <1>1, <1>2, PairMoves

LEMMA AsksMoves ==
  ASSUME FlowsTyped, NEW t \in Tasks, NEW pc, NEW x,
         flow' = [flow EXCEPT ![t].pc = pc, ![t].asks = x]
  PROVE  /\ FlowMoves(t) /\ flow'[t].pc = pc /\ flow'[t].asks = x
         /\ Leaves(t, FlowFields \ {"pc", "asks"})
<1>1. flow' = [flow EXCEPT ![t] = With(With(flow[t], "pc", pc), "asks", x)]
  BY DEF With, FlowsTyped
<1>2. "asks" \in FlowFields \ {"pc"}
  BY DEF FlowFields
<1> QED BY ONLY FlowsTyped, t \in Tasks, <1>1, <1>2, PairMoves

LEMMA ResultsMoves ==
  ASSUME FlowsTyped, NEW t \in Tasks, NEW pc, NEW x,
         flow' = [flow EXCEPT ![t].pc = pc, ![t].results = x]
  PROVE  /\ FlowMoves(t) /\ flow'[t].pc = pc /\ flow'[t].results = x
         /\ Leaves(t, FlowFields \ {"pc", "results"})
<1>1. flow' = [flow EXCEPT ![t] = With(With(flow[t], "pc", pc), "results", x)]
  BY DEF With, FlowsTyped
<1>2. "results" \in FlowFields \ {"pc"}
  BY DEF FlowFields
<1> QED BY ONLY FlowsTyped, t \in Tasks, <1>1, <1>2, PairMoves

-----------------------------------------------------------------------------
(* The evidence of an analysis                                             *)

InThread(v, th) == v \in Seq(Alerts) /\ \A i \in DOMAIN v : ThreadOf[v[i]] = th

Retrieving == {"qdrant", "searching", "neo4j", "relating"}
Diagnosing == {"diagnose", "llm", "asking", "done"}

FlowFits(t) ==
  /\ flow[t].pc \in {"idle", "call", "gone"} \cup Retrieving \cup Diagnosing
  /\ flow[t].pc \in Retrieving \cup {"diagnose", "llm"} => Kind(t) = "alert"
  /\ flow[t].pc = "call" => Kind(t) # "alert"
  /\ flow[t].pc = "idle" => flow[t] = NoFlow
  /\ flow[t].pc \notin {"asking", "done"} => flow[t].asks = <<>>

EvidenceKept(t) ==
  Kind(t) = "alert" =>
    /\ flow[t].pc \in Retrieving \cup Diagnosing => InThread(flow[t].context.vector, Thread(t))
    /\ flow[t].pc \in Retrieving => IsContext(flow[t].context)
    /\ flow[t].pc \in Retrieving /\ flow[t].first => flow[t].context = NoContext
    /\ flow[t].pc = "searching" =>
         /\ call[t].op = "search" /\ call[t].arg[1] = Alert(t)
         /\ call[t].pc = "returned" => call[t].result \in {<<>>, <<Alert(t)>>}
    /\ flow[t].pc \in {"neo4j", "relating"} => flow[t].found \in {<<>>, <<Alert(t)>>}
    /\ flow[t].pc = "relating" =>
         /\ call[t].op = "topology" /\ call[t].arg[1] = ServiceOf[Alert(t)]
         /\ call[t].pc = "returned" => call[t].result[1].service = ServiceOf[Alert(t)]
    /\ flow[t].pc \in Diagnosing =>
         /\ flow[t].retrieved => flow[t].context.topology.service = ServiceOf[Alert(t)]
         /\ flow[t].first => flow[t].context.vector \in {<<>>, <<Alert(t)>>}
         /\ flow[t].first /\ ~flow[t].retrieved => flow[t].context = NoContext

SavedKept ==
  \A th \in Threads :
    /\ InThread(saved[th].vector, th)
    /\ (\A u \in Tasks : Kind(u) = "alert" /\ Thread(u) = th => Pc(u, "idle"))
         => saved[th] = NoContext

FlowInv ==
  /\ CallsTyped /\ FlowsTyped /\ SavedKept
  /\ \A t \in Tasks : FlowFits(t) /\ EvidenceKept(t)

\* The alert of a task is one, and has a thread.
LEMMA AlertType ==
  ASSUME scenario \in Scenarios, NEW t \in Tasks, Kind(t) = "alert"
  PROVE  Alert(t) \in Alerts /\ Thread(t) \in Threads /\ ThreadOf[Alert(t)] = Thread(t)
BY DiagnosisAssumption DEF Kind, Arg, Alert, Thread, Threads

LEMMA ConcatInThread ==
  ASSUME NEW th, NEW v, NEW w, InThread(v, th), InThread(w, th)
  PROVE  InThread(v \o w, th)
<1>1. v \in Seq(Alerts) /\ w \in Seq(Alerts)
  BY DEF InThread
<1>2. /\ v \o w \in Seq(Alerts) /\ Len(v \o w) = Len(v) + Len(w)
      /\ \A i \in 1 .. Len(v) + Len(w) : (v \o w)[i] =
           IF i <= Len(v) THEN v[i] ELSE w[i - Len(v)]
  BY <1>1, ConcatProperties
<1>3. Len(v) \in Nat /\ Len(w) \in Nat /\ DOMAIN v = 1..Len(v) /\ DOMAIN w = 1..Len(w)
      /\ DOMAIN (v \o w) = 1..(Len(v) + Len(w))
  BY <1>1, <1>2, LenProperties
<1>4. ASSUME NEW i \in 1..(Len(v) + Len(w)) PROVE ThreadOf[(v \o w)[i]] = th
  <2>1. CASE i <= Len(v)
    <3>1. i \in DOMAIN v /\ (v \o w)[i] = v[i]
      BY <1>2, <1>3, <2>1
    <3> QED BY <3>1 DEF InThread
  <2>2. CASE ~(i <= Len(v))
    <3>1. i - Len(v) \in DOMAIN w /\ (v \o w)[i] = w[i - Len(v)]
      BY <1>2, <1>3, <2>2
    <3> QED BY <3>1 DEF InThread
  <2> QED BY <2>1, <2>2
<1> QED BY <1>2, <1>3, <1>4 DEF InThread

\* Nothing, and a document found for an alert of the thread.
LEMMA FewInThread ==
  /\ \A th : InThread(<<>>, th)
  /\ \A a \in Alerts : InThread(<<a>>, ThreadOf[a])
BY DEF InThread

LEMMA InitFlow == Init => FlowInv
<1> SUFFICES ASSUME Init PROVE FlowInv
  OBVIOUS
<1>1. /\ \A t \in Tasks : flow[t] = NoFlow
      /\ \A th \in Threads : saved[th] = NoContext
      /\ flow = [t \in Tasks |-> flow[t]] /\ saved = [th \in Threads |-> saved[th]]
      /\ scenario \in Scenarios
  BY DEF Init
<1>2. IsFlow(NoFlow) /\ NoFlow.pc = "idle" /\ NoFlow.asks = <<>>
  BY DEF IsFlow, NoFlow, FlowFields
<1>3. IsContext(NoContext) /\ NoContext.vector = <<>>
  BY DEF NoContext, IsContext
<1>4. FlowsTyped /\ SavedKept
  BY <1>1, <1>2, <1>3, FewInThread DEF FlowsTyped, SavedKept
<1>5. \A t \in Tasks : FlowFits(t) /\ EvidenceKept(t)
  BY <1>1, <1>2 DEF FlowFits, EvidenceKept, Retrieving, Diagnosing
<1> QED BY <1>4, <1>5, InitCalls DEF FlowInv

\* What a task is to do never changes.
LEMMA SameWork ==
  ASSUME scenario' = scenario, NEW t \in Tasks
  PROVE  Kind(t)' = Kind(t) /\ Alert(t)' = Alert(t) /\ Thread(t)' = Thread(t)
BY DEF Kind, Arg, Alert, Thread

LEMMA OtherKept ==
  ASSUME FlowInv, NEW u \in Tasks, flow'[u] = flow[u], call'[u] = call[u], scenario' = scenario
  PROVE  FlowFits(u)' /\ EvidenceKept(u)'
<1>1. Kind(u)' = Kind(u) /\ Alert(u)' = Alert(u) /\ Thread(u)' = Thread(u)
  BY SameWork
<1>2. FlowFits(u) /\ EvidenceKept(u)
  BY DEF FlowInv
<1>3. FlowFits(u)'
  BY <1>1, <1>2 DEF FlowFits
<1>4. EvidenceKept(u)'
  BY <1>1, <1>2 DEF EvidenceKept
<1> QED BY <1>3, <1>4

\* One task moves, and leaves the checkpoint of its thread.
LEMMA TaskKept ==
  ASSUME FlowInv, CallsTyped', NEW t \in Tasks, FlowMoves(t), scenario' = scenario,
         \A u \in Tasks \ {t} : call'[u] = call[u], saved' = saved,
         Pc(t, "idle")' => Pc(t, "idle"),
         FlowFits(t)', EvidenceKept(t)'
  PROVE  FlowInv'
<1>1. \A u \in Tasks : FlowFits(u)' /\ EvidenceKept(u)'
  BY OtherKept DEF FlowMoves
<1>2. FlowsTyped'
  BY DEF FlowInv, FlowsTyped, FlowMoves
<1>3. \A u \in Tasks : Pc(u, "idle")' => Pc(u, "idle")
  BY DEF Pc, FlowMoves
<1>4. \A u \in Tasks : Kind(u)' = Kind(u) /\ Thread(u)' = Thread(u)
  BY SameWork
<1>5. SavedKept'
  BY <1>3, <1>4 DEF FlowInv, SavedKept
<1> QED BY <1>1, <1>2, <1>5 DEF FlowInv

\* One task moves, and saves what is of its thread.
LEMMA SaverKept ==
  ASSUME FlowInv, CallsTyped', NEW t \in Tasks, FlowMoves(t), scenario' = scenario,
         \A u \in Tasks \ {t} : call'[u] = call[u],
         Kind(t) = "alert", NEW c, saved' = [saved EXCEPT ![Thread(t)] = c],
         IsContext(c), InThread(c.vector, Thread(t)), ~Pc(t, "idle")',
         FlowFits(t)', EvidenceKept(t)'
  PROVE  FlowInv'
<1>1. \A u \in Tasks : FlowFits(u)' /\ EvidenceKept(u)'
  BY OtherKept DEF FlowMoves
<1>2. /\ saved' = [th \in Threads |-> saved'[th]]
      /\ \A th \in Threads : saved'[th] = IF th = Thread(t) THEN c ELSE saved[th]
  BY DEF FlowInv, FlowsTyped
<1>3. FlowsTyped'
  BY <1>2 DEF FlowInv, FlowsTyped, FlowMoves
<1>4. \A u \in Tasks : Pc(u, "idle")' => Pc(u, "idle")
  BY DEF Pc, FlowMoves
<1>5. \A u \in Tasks : Kind(u)' = Kind(u) /\ Thread(u)' = Thread(u)
  BY SameWork
<1>6. SavedKept'
  BY <1>2, <1>4, <1>5 DEF FlowInv, SavedKept
<1> QED BY <1>1, <1>3, <1>6 DEF FlowInv

-----------------------------------------------------------------------------
(* One lemma per action                                                    *)

\* What a search answers, and a request for a topology.
LEMMA RetrievalAnswers ==
  ASSUME CallsTyped, NEW t \in Tasks, RetrievalStep(t), call'[t].pc = "returned"
  PROVE  /\ call[t].op = "search" => call'[t].result \in {<<>>, <<call[t].arg[1]>>}
         /\ call[t].op = "topology" => call'[t].result[1].service = call[t].arg[1]
<1>1. CASE EnsureCollection(t) \/ CreateCollection(t) \/ EnsureRaises(t) \/ InitializeGraph(t)
  BY <1>1, ToMoves, RaisesMoves
  DEF EnsureCollection, CreateCollection, EnsureRaises, InitializeGraph
<1>2. CASE UsePoints(t)
  <2>1. call[t].op # "topology"
    BY <1>2 DEF UsePoints, At, VectorOps
  <2>2. CASE call[t].op = "search"
    <3> DEFINE result == IF points = {} THEN <<>> ELSE <<call[t].arg[1]>>
    <3>1. Returns(t, result)
      BY <1>2, <2>2 DEF UsePoints
    <3>2. call'[t].result = result
      BY <3>1, ReturnsMoves
    <3> QED BY <2>1, <3>2
  <2> QED BY <2>1, <2>2
<1>3. CASE UsePointsFails(t)
  BY <1>3, ReturnsMoves, RaisesMoves DEF UsePointsFails, At, VectorOps
<1>4. CASE Topology(t)
  <2> DEFINE s == call[t].arg[1]
  <2>1. PICK top : Returns(t, <<top>>) /\ top.service = s
    BY <1>4 DEF Topology, EmptyTopology
  <2>2. call'[t].result = <<top>> /\ call[t].op = "topology"
    BY <1>4, <2>1, ReturnsMoves DEF Topology, At
  <2> QED BY <2>1, <2>2
<1>5. CASE Impacted(t) \/ AddService(t) \/ AddDependency(t)
  BY <1>5 DEF Impacted, AddService, AddDependency, At
<1>6. CASE Generate(t) \/ EmbedBatch(t) \/ EmbedBatchFails(t)
  BY <1>6 DEF Generate, EmbedBatch, EmbedBatchFails, At, EmbedOps
<1> QED BY <1>1, <1>2, <1>3, <1>4, <1>5, <1>6 DEF RetrievalStep

LEMMA RetrievalFlow ==
  ASSUME FlowInv, NEW t \in Tasks, RetrievalStep(t), UNCHANGED dvars, CallsTyped'
  PROVE  FlowInv'
<1>1. flow' = flow /\ saved' = saved /\ scenario' = scenario
  BY DEF dvars
<1>2. CallMoves(t)
  BY RetrievalMoves DEF FlowInv
<1>3. FlowMoves(t)
  BY <1>1 DEF FlowInv, FlowsTyped, FlowMoves
<1>4. Kind(t)' = Kind(t) /\ Alert(t)' = Alert(t) /\ Thread(t)' = Thread(t)
  BY <1>1, SameWork
<1>5. FlowFits(t)'
  BY <1>1, <1>4 DEF FlowInv, FlowFits
<1>6. EvidenceKept(t)'
  <2>1. EvidenceKept(t) /\ CallsTyped
    BY DEF FlowInv
  <2>2. call'[t].pc = "returned" =>
          /\ call[t].op = "search" => call'[t].result \in {<<>>, <<call[t].arg[1]>>}
          /\ call[t].op = "topology" => call'[t].result[1].service = call[t].arg[1]
    BY <2>1, RetrievalAnswers
  <2>3. /\ flow[t].pc = "searching" /\ Kind(t) = "alert" =>
             /\ call'[t].op = "search" /\ call'[t].arg[1] = Alert(t)
             /\ call'[t].pc = "returned" => call'[t].result \in {<<>>, <<Alert(t)>>}
        /\ flow[t].pc = "relating" /\ Kind(t) = "alert" =>
             /\ call'[t].op = "topology" /\ call'[t].arg[1] = ServiceOf[Alert(t)]
             /\ call'[t].pc = "returned" => call'[t].result[1].service = ServiceOf[Alert(t)]
    BY <1>2, <2>1, <2>2 DEF EvidenceKept, CallMoves
  <2> QED BY <1>1, <1>4, <2>1, <2>3 DEF EvidenceKept
<1> QED BY <1>1, <1>2, <1>3, <1>5, <1>6, TaskKept DEF CallMoves, Pc

\* The steps that touch neither the tasks nor their calls.
LEMMA IdleFlow ==
  ASSUME FlowInv, CallsTyped', UNCHANGED <<call, flow, saved, scenario>>
  PROVE  FlowInv'
<1>1. \A t \in Tasks : FlowFits(t)' /\ EvidenceKept(t)'
  BY OtherKept
<1>2. FlowsTyped'
  BY DEF FlowInv, FlowsTyped
<1>3. \A u \in Tasks : Kind(u)' = Kind(u) /\ Thread(u)' = Thread(u)
  BY SameWork
<1>4. SavedKept'
  BY <1>3 DEF FlowInv, SavedKept, Pc
<1> QED BY <1>1, <1>2, <1>4 DEF FlowInv

LEMMA DirectFlow ==
  ASSUME FlowInv, NEW t \in Tasks, CallDirectly(t) \/ CallEnds(t), CallsTyped'
  PROVE  FlowInv'
<1>1. saved' = saved /\ scenario' = scenario
  BY DEF CallDirectly, CallEnds
<1>2. FlowsTyped /\ CallsTyped /\ FlowFits(t)
  BY DEF FlowInv
<1>3. \A u \in Tasks \ {t} : call'[u] = call[u]
  <2>1. CASE CallDirectly(t)
    BY <1>2, <2>1, BeginsCall DEF CallDirectly
  <2>2. CASE CallEnds(t)
    BY <2>2 DEF CallEnds, rvars
  <2> QED BY <2>1, <2>2
<1>4. PICK pc \in {"call", "done"} : Goto(t, pc)
  BY DEF CallDirectly, CallEnds
<1>5. FlowMoves(t) /\ flow'[t].pc = pc /\ Leaves(t, FlowFields \ {"pc"})
  BY <1>2, <1>4, GotoMoves
<1>6. Kind(t)' = Kind(t)
  BY <1>1, SameWork
<1>7. Kind(t) # "alert"
  BY <1>2 DEF CallDirectly, CallEnds, Direct, VectorOps, GraphOps, EmbedOps, FlowFits, Pc
<1>8. flow'[t].asks = flow[t].asks /\ flow[t].asks = <<>>
  BY <1>2, <1>5 DEF FlowFits, Leaves, FlowFields, CallDirectly, CallEnds, Pc
<1>9. FlowFits(t)' /\ EvidenceKept(t)' /\ ~Pc(t, "idle")'
  BY <1>5, <1>6, <1>7, <1>8 DEF FlowFits, EvidenceKept, Pc, Retrieving, Diagnosing
<1> QED BY <1>1, <1>3, <1>5, <1>9, TaskKept

LEMMA StartFlow ==
  ASSUME FlowInv, NEW t \in Tasks, StartStream(t), CallsTyped'
  PROVE  FlowInv'
<1>1. /\ saved' = saved /\ scenario' = scenario /\ call' = call
      /\ Kind(t) = "alert" /\ flow[t].pc = "idle"
  BY DEF StartStream, rvars, Pc
<1>2. FlowsTyped /\ SavedKept /\ FlowFits(t)
  BY DEF FlowInv
<1>3. /\ FlowMoves(t)
      /\ flow'[t].pc = "qdrant" /\ flow'[t].context = saved[Thread(t)]
      /\ flow'[t].first => \A u \in Tasks \ {t} :
            Kind(u) = "alert" /\ Thread(u) = Thread(t) => Pc(u, "idle")
      /\ flow'[t].asks = flow[t].asks
  BY <1>2, StartMoves DEF Leaves
<1>4. Thread(t) \in Threads
  BY <1>1, <1>2, AlertType DEF FlowsTyped
<1>5. /\ InThread(flow'[t].context.vector, Thread(t))
      /\ IsContext(flow'[t].context)
      /\ flow'[t].first => flow'[t].context = NoContext
  BY <1>1, <1>2, <1>3, <1>4 DEF FlowsTyped, SavedKept, Pc
<1>6. Kind(t)' = Kind(t) /\ Alert(t)' = Alert(t) /\ Thread(t)' = Thread(t)
  BY <1>1, SameWork
<1>7. FlowFits(t)' /\ EvidenceKept(t)' /\ ~Pc(t, "idle")'
  BY <1>1, <1>2, <1>3, <1>5, <1>6 DEF FlowFits, EvidenceKept, Pc, Retrieving, Diagnosing
<1> QED BY <1>1, <1>3, <1>7, TaskKept

\* The breaker lets a search or a request for a topology begin.
LEMMA AsksStoreFlow ==
  ASSUME FlowInv, NEW t \in Tasks, Search(t) \/ AskTopology(t), CallsTyped'
  PROVE  FlowInv'
<1>1. saved' = saved /\ scenario' = scenario
  BY DEF Search, AskTopology
<1>2. FlowsTyped /\ CallsTyped /\ FlowFits(t) /\ EvidenceKept(t)
  BY DEF FlowInv
<1>3. PICK pc, op, arg :
        /\ Goto(t, pc) /\ Begins(t, op, <<arg>>)
        /\ \/ flow[t].pc = "qdrant" /\ pc = "searching" /\ op = "search" /\ arg = Alert(t)
           \/ flow[t].pc = "neo4j" /\ pc = "relating" /\ op = "topology"
                /\ arg = ServiceOf[Alert(t)]
  BY DEF Search, AskTopology, Pc
<1>4. FlowMoves(t) /\ flow'[t].pc = pc /\ Leaves(t, FlowFields \ {"pc"})
  BY <1>2, <1>3, GotoMoves
<1>5. /\ \A u \in Tasks \ {t} : call'[u] = call[u]
      /\ call'[t].op = op /\ call'[t].arg = <<arg>> /\ call'[t].pc # "returned"
  BY <1>2, <1>3, BeginsCall
<1>6. Kind(t)' = Kind(t) /\ Alert(t)' = Alert(t) /\ Thread(t)' = Thread(t)
  BY <1>1, SameWork
<1>7. Kind(t) = "alert"
  BY <1>2, <1>3 DEF FlowFits, Retrieving
<1>8. flow'[t].context = flow[t].context /\ flow'[t].first = flow[t].first
      /\ flow'[t].found = flow[t].found /\ flow'[t].asks = flow[t].asks
  BY <1>4 DEF Leaves, FlowFields
<1>9. FlowFits(t)' /\ EvidenceKept(t)' /\ ~Pc(t, "idle")'
  BY <1>2, <1>3, <1>4, <1>5, <1>6, <1>7, <1>8
  DEF FlowFits, EvidenceKept, Pc, Retrieving, Diagnosing
<1> QED BY <1>1, <1>4, <1>5, <1>9, TaskKept

\* The node returns a context that fits, and the checkpoint has it.
LEMMA NodeEnds ==
  ASSUME FlowInv, NEW t \in Tasks, CallsTyped', flow[t].pc \in Retrieving,
         \A u \in Tasks \ {t} : call'[u] = call[u], scenario' = scenario,
         NEW c, NEW ok \in BOOLEAN, Retrieved(t, c, ok),
         IsContext(c), InThread(c.vector, Thread(t)),
         ok => c.topology.service = ServiceOf[Alert(t)],
         flow[t].first => c.vector \in {<<>>, <<Alert(t)>>},
         flow[t].first /\ ~ok => c = NoContext
  PROVE  FlowInv'
<1>1. saved' = [saved EXCEPT ![Thread(t)] = c]
  BY DEF Retrieved
<1>2. FlowsTyped /\ FlowFits(t)
  BY DEF FlowInv
<1>3. /\ FlowMoves(t)
      /\ flow'[t].pc = "diagnose" /\ flow'[t].context = c /\ flow'[t].retrieved = ok
      /\ flow'[t].first = flow[t].first /\ flow'[t].asks = flow[t].asks
  BY <1>2, RetrievedMoves DEF Leaves
<1>4. Kind(t)' = Kind(t) /\ Alert(t)' = Alert(t) /\ Thread(t)' = Thread(t)
  BY SameWork
<1>5. Kind(t) = "alert" /\ flow[t].asks = <<>>
  BY <1>2 DEF FlowFits, Retrieving
<1>6. FlowFits(t)' /\ ~Pc(t, "idle")'
  BY <1>3, <1>4, <1>5 DEF FlowFits, Pc, Retrieving, Diagnosing
<1>7. EvidenceKept(t)'
  BY <1>3, <1>4, <1>5 DEF EvidenceKept, Retrieving, Diagnosing
<1> QED BY <1>1, <1>3, <1>5, <1>6, <1>7, SaverKept

LEMMA UnretrievedFlow ==
  ASSUME FlowInv, NEW t \in Tasks, CallsTyped', flow[t].pc \in Retrieving,
         \A u \in Tasks \ {t} : call'[u] = call[u], scenario' = scenario, Unretrieved(t)
  PROVE  FlowInv'
<1> DEFINE old == flow[t].context
           twice == old.vector \o old.vector
           c == [old EXCEPT !.vector = twice]
<1>1. Kind(t) = "alert" /\ EvidenceKept(t)
  BY DEF FlowInv, FlowFits, Retrieving
<1>2. /\ IsContext(old) /\ InThread(old.vector, Thread(t))
      /\ flow[t].first => old = NoContext
  BY <1>1 DEF EvidenceKept
<1>0. Retrieved(t, c, FALSE)
  BY DEF Unretrieved
<1> HIDE DEF old, twice
<1>3. IsContext(c) /\ c.vector = twice /\ c.topology = old.topology
  BY <1>2 DEF IsContext
<1> HIDE DEF c
<1> USE DEF old, twice
<1>4. InThread(c.vector, Thread(t))
  BY <1>2, <1>3, ConcatInThread
<1>5. flow[t].first => c = NoContext
  <2> SUFFICES ASSUME flow[t].first PROVE c = NoContext
    OBVIOUS
  <2>1. old = NoContext
    BY <1>2
  <2>2. NoContext.vector = <<>> /\ IsContext(NoContext)
    BY DEF NoContext, IsContext
  <2>3. <<>> \o <<>> = <<>>
    BY ConcatEmptySeq
  <2>4. c.vector = <<>> /\ c.topology = NoContext.topology
    BY <1>3, <2>1, <2>2, <2>3
  <2> QED BY <1>3, <2>2, <2>4 DEF IsContext
<1>6. Retrieved(t, c, FALSE) /\ NoContext.vector = <<>>
  BY <1>0 DEF NoContext
<1>7. flow[t].first => c.vector \in {<<>>, <<Alert(t)>>}
  BY <1>5, <1>6
<1> QED BY <1>3, <1>4, <1>5, <1>6, <1>7, NodeEnds

LEMMA SearchedFlow ==
  ASSUME FlowInv, NEW t \in Tasks, Searched(t), CallsTyped'
  PROVE  FlowInv'
<1>1. /\ scenario' = scenario /\ flow[t].pc = "searching"
      /\ \A u \in Tasks \ {t} : call'[u] = call[u]
  BY DEF Searched, Pc, FlowInv, CallsTyped
<1>2. FlowsTyped /\ FlowFits(t) /\ EvidenceKept(t) /\ flow[t].pc \in Retrieving
  BY <1>1 DEF FlowInv, Retrieving
<1>3. CASE call[t].pc # "returned"
  BY <1>1, <1>2, <1>3, UnretrievedFlow DEF Searched
<1>4. CASE call[t].pc = "returned"
  <2> DEFINE found == call[t].result
  <2>1. flow' = [flow EXCEPT ![t].pc = "neo4j", ![t].found = found] /\ saved' = saved
    BY <1>4 DEF Searched
  <2>2. FlowMoves(t) /\ flow'[t].pc = "neo4j" /\ flow'[t].found = found
        /\ Leaves(t, FlowFields \ {"pc", "found"})
    BY <1>2, <2>1, FoundMoves
  <2>3. flow'[t].context = flow[t].context /\ flow'[t].first = flow[t].first
        /\ flow'[t].asks = flow[t].asks
    BY <2>2 DEF Leaves, FlowFields
  <2>4. Kind(t) = "alert" /\ found \in {<<>>, <<Alert(t)>>}
    BY <1>1, <1>2, <1>4 DEF FlowFits, EvidenceKept
  <2>5. Kind(t)' = Kind(t) /\ Alert(t)' = Alert(t) /\ Thread(t)' = Thread(t)
    BY <1>1, SameWork
  <2> HIDE DEF found
  <2>6. FlowFits(t)' /\ EvidenceKept(t)' /\ ~Pc(t, "idle")'
    BY <1>1, <1>2, <2>2, <2>3, <2>4, <2>5 DEF FlowFits, EvidenceKept, Pc, Retrieving, Diagnosing
  <2> QED BY <1>1, <2>1, <2>2, <2>6, TaskKept
<1> QED BY <1>3, <1>4

LEMMA RelatedFlow ==
  ASSUME FlowInv, NEW t \in Tasks, Related(t), CallsTyped'
  PROVE  FlowInv'
<1>1. /\ scenario' = scenario /\ flow[t].pc = "relating"
      /\ \A u \in Tasks \ {t} : call'[u] = call[u]
  BY DEF Related, Pc, FlowInv, CallsTyped
<1>2. FlowFits(t) /\ EvidenceKept(t) /\ flow[t].pc \in Retrieving /\ scenario \in Scenarios
  BY <1>1 DEF FlowInv, FlowsTyped, Retrieving
<1>3. CASE Unretrieved(t)
  BY <1>1, <1>2, <1>3, UnretrievedFlow
<1>4. CASE call[t].pc = "returned" /\ Retrieved(t, NewContext(t), TRUE)
  <2> DEFINE old == flow[t].context
             found == flow[t].found
             c == NewContext(t)
  <2>1. Kind(t) = "alert"
    BY <1>1, <1>2 DEF FlowFits
  <2>2. /\ InThread(old.vector, Thread(t)) /\ found \in {<<>>, <<Alert(t)>>}
        /\ flow[t].first => old = NoContext
        /\ call[t].result[1].service = ServiceOf[Alert(t)]
    BY <1>1, <1>2, <1>4, <2>1 DEF EvidenceKept
  <2>3. /\ IsContext(c) /\ c.vector = old.vector \o found
        /\ c.topology = call[t].result[1]
    BY DEF NewContext, IsContext
  <2>4. Alert(t) \in Alerts /\ ThreadOf[Alert(t)] = Thread(t)
    BY <1>2, <2>1, AlertType
  <2>5. InThread(found, Thread(t))
    BY <2>2, <2>4, FewInThread
  <2>6. InThread(c.vector, Thread(t))
    BY <2>2, <2>3, <2>5, ConcatInThread
  <2>7. flow[t].first => c.vector \in {<<>>, <<Alert(t)>>}
    <3>1. NoContext.vector = <<>>
      BY DEF NoContext
    <3>2. <<>> \o found = found
      <4>1. found \in Seq(Alerts)
        BY <2>5 DEF InThread
      <4> QED BY <4>1, ConcatEmptySeq
    <3> QED BY <2>2, <2>3, <3>1, <3>2
  <2>8. Retrieved(t, c, TRUE) /\ c.topology.service = ServiceOf[Alert(t)]
    BY <1>4, <2>2, <2>3
  <2> HIDE DEF c, old, found
  <2>9. IsContext(c)
    BY <2>3
  <2> QED BY <1>1, <1>2, <2>6, <2>7, <2>8, <2>9, NodeEnds
<1> QED BY <1>3, <1>4 DEF Related

LEMMA RefusedFlow ==
  ASSUME FlowInv, NEW t \in Tasks, BreakerRefuses(t), CallsTyped'
  PROVE  FlowInv'
BY UnretrievedFlow DEF BreakerRefuses, Retrieving

\* Steps of a task that has its evidence, or needs none.
LEMMA EvidenceGoesOn ==
  ASSUME FlowInv, NEW t \in Tasks, CallsTyped', FlowMoves(t), scenario' = scenario,
         saved' = saved, call' = call,
         flow'[t].pc \in Diagnosing, flow'[t].pc \in {"diagnose", "llm"} => Kind(t) = "alert",
         flow'[t].pc \notin {"asking", "done"} => flow'[t].asks = <<>>,
         Kind(t) = "alert" => flow[t].pc \in Diagnosing,
         Leaves(t, {"context", "first", "retrieved"})
  PROVE  FlowInv'
<1>1. Kind(t)' = Kind(t) /\ Alert(t)' = Alert(t) /\ Thread(t)' = Thread(t)
  BY SameWork
<1>2. /\ flow'[t].context = flow[t].context /\ flow'[t].first = flow[t].first
      /\ flow'[t].retrieved = flow[t].retrieved
  BY DEF Leaves
<1>3. FlowFits(t)' /\ ~Pc(t, "idle")'
  BY <1>1 DEF FlowFits, Pc, Retrieving, Diagnosing
<1>4. EvidenceKept(t)'
  BY <1>1, <1>2 DEF FlowInv, EvidenceKept, Retrieving, Diagnosing
<1> QED BY <1>3, <1>4, TaskKept

LEMMA RouteFlow ==
  ASSUME FlowInv, NEW t \in Tasks, Route(t), CallsTyped'
  PROVE  FlowInv'
<1>1. scenario' = scenario /\ saved' = saved /\ call' = call /\ flow[t].pc = "diagnose"
  BY DEF Route, rvars, Pc
<1>2. FlowsTyped /\ Kind(t) = "alert" /\ flow[t].asks = <<>>
  BY <1>1 DEF FlowInv, FlowFits
<1>3. PICK v : flow' = [flow EXCEPT ![t].pc = "llm", ![t].version = v]
  BY DEF Route
<1>4. FlowMoves(t) /\ flow'[t].pc = "llm" /\ Leaves(t, FlowFields \ {"pc", "version"})
  BY <1>2, <1>3, VersionMoves
<1>5. Leaves(t, {"context", "first", "retrieved"}) /\ flow'[t].asks = <<>>
  BY <1>2, <1>4 DEF Leaves, FlowFields
<1>6. flow'[t].pc \in Diagnosing /\ flow[t].pc \in Diagnosing
  BY <1>1, <1>4 DEF Diagnosing
<1> QED BY <1>1, <1>2, <1>4, <1>5, <1>6, EvidenceGoesOn

LEMMA AnalyzeFlow ==
  ASSUME FlowInv, NEW t \in Tasks, Analyze(t) \/ AnalyzeBatch(t), CallsTyped'
  PROVE  FlowInv'
<1>1. /\ scenario' = scenario /\ saved' = saved /\ call' = call
      /\ flow[t].pc = "llm" \/ Kind(t) # "alert"
  BY DEF Analyze, AnalyzeBatch, rvars, Pc
<1>2. FlowsTyped
  BY DEF FlowInv
<1>3. PICK asks : flow' = [flow EXCEPT ![t].pc = "asking", ![t].asks = asks]
  BY DEF Analyze, AnalyzeBatch
<1>4. FlowMoves(t) /\ flow'[t].pc = "asking" /\ Leaves(t, FlowFields \ {"pc", "asks"})
  BY <1>2, <1>3, AsksMoves
<1>5. Leaves(t, {"context", "first", "retrieved"})
  BY <1>4 DEF Leaves, FlowFields
<1>6. flow'[t].pc \in Diagnosing /\ (Kind(t) = "alert" => flow[t].pc \in Diagnosing)
  BY <1>1, <1>4 DEF Diagnosing
<1> QED BY <1>1, <1>4, <1>5, <1>6, EvidenceGoesOn

\* An ask goes on; the task stays where it is.
AsksAfter(asks, i, st, plan) == [[asks EXCEPT ![i].st = st] EXCEPT ![i].plan = plan]

LEMMA AskEndsMoves ==
  ASSUME FlowsTyped, NEW t \in Tasks, NEW i, NEW st, NEW plan, AskEnds(t, i, st, plan)
  PROVE  /\ FlowMoves(t) /\ Leaves(t, FlowFields \ {"asks"})
         /\ flow'[t].asks = AsksAfter(flow[t].asks, i, st, plan)
<1> DEFINE asks == AsksAfter(flow[t].asks, i, st, plan)
<1>1. flow' = [flow EXCEPT ![t] = With(flow[t], "asks", asks)]
  <2> DEFINE mid == [flow EXCEPT ![t].asks[i].st = st]
             one == [flow[t].asks EXCEPT ![i].st = st]
  <2>1. flow' = [mid EXCEPT ![t].asks[i].plan = plan]
    BY DEF AskEnds
  <2>2. mid = [flow EXCEPT ![t] = With(flow[t], "asks", one)]
    BY DEF With, FlowsTyped
  <2> HIDE DEF one
  <2>3. /\ mid = [u \in Tasks |-> mid[u]] /\ mid[t] = With(flow[t], "asks", one)
        /\ \A u \in Tasks \ {t} : mid[u] = flow[u]
        /\ IsFlow(mid[t]) /\ mid[t].asks = one
        /\ \A h \in FlowFields \ {"asks"} : mid[t][h] = flow[t][h]
    BY <2>2, WithSets DEF FlowsTyped, FlowFields
  <2> HIDE DEF mid
  <2>4. flow' = [mid EXCEPT ![t] = With(mid[t], "asks", [one EXCEPT ![i].plan = plan])]
    BY <2>1, <2>3 DEF With
  <2>5. With(mid[t], "asks", [one EXCEPT ![i].plan = plan]) = With(flow[t], "asks", asks)
    <3>1. asks = [one EXCEPT ![i].plan = plan] /\ IsFlow(flow[t]) /\ "asks" \in FlowFields
      BY DEF one, FlowsTyped, FlowFields, AsksAfter
    <3> HIDE DEF asks
    <3> QED BY <2>3, <3>1, WithTwice
  <2> QED BY <2>3, <2>4, <2>5 DEF FlowsTyped
<1> HIDE DEF asks
<1>2. flow'[t] = With(flow[t], "asks", asks) /\ IsFlow(flow[t])
  BY <1>1 DEF FlowsTyped
<1>3. IsFlow(flow'[t]) /\ flow'[t].asks = asks /\ Leaves(t, FlowFields \ {"asks"})
  BY <1>2, WithSets DEF FlowFields, Leaves
<1> QED BY <1>1, <1>3 DEF FlowsTyped, FlowMoves, asks

LEMMA AnalyzingFlow ==
  ASSUME FlowInv, NEW t \in Tasks, Analyzing(t), CallsTyped'
  PROVE  FlowInv'
<1>1. scenario' = scenario /\ saved' = saved /\ call' = call /\ flow[t].pc = "asking"
  BY DEF Analyzing, rvars, Pc
<1>2. FlowsTyped
  BY DEF FlowInv
<1>3. PICK i, st, plan : AskEnds(t, i, st, plan)
  BY DEF Analyzing, Answers, AskRaises, AskUnusable
<1>4. FlowMoves(t) /\ Leaves(t, FlowFields \ {"asks"})
  BY <1>2, <1>3, AskEndsMoves
<1>5. Leaves(t, {"context", "first", "retrieved"}) /\ flow'[t].pc = "asking"
  BY <1>1, <1>4 DEF Leaves, FlowFields
<1>6. flow'[t].pc \in Diagnosing /\ flow[t].pc \in Diagnosing
  BY <1>1, <1>5 DEF Diagnosing
<1> QED BY <1>1, <1>4, <1>5, <1>6, EvidenceGoesOn

\* The results are there, of a batch or of an alert.
LEMMA ResultsFlow ==
  ASSUME FlowInv, NEW t \in Tasks, BatchAnalyzed(t) \/ Diagnose(t), CallsTyped'
  PROVE  FlowInv'
<1>1. scenario' = scenario /\ saved' = saved /\ call' = call /\ flow[t].pc = "asking"
  BY DEF BatchAnalyzed, Diagnose, Analyzed, rvars, Pc
<1>2. FlowsTyped
  BY DEF FlowInv
<1>3. PICK results : flow' = [flow EXCEPT ![t].pc = "done", ![t].results = results]
  BY DEF BatchAnalyzed, Diagnose, Diagnosed
<1>4. FlowMoves(t) /\ flow'[t].pc = "done" /\ Leaves(t, FlowFields \ {"pc", "results"})
  BY <1>2, <1>3, ResultsMoves
<1>5. Leaves(t, {"context", "first", "retrieved"})
  BY <1>4 DEF Leaves, FlowFields
<1>6. flow'[t].pc \in Diagnosing /\ flow[t].pc \in Diagnosing
  BY <1>1, <1>4 DEF Diagnosing
<1> QED BY <1>1, <1>4, <1>5, <1>6, EvidenceGoesOn

\* A task of a worker that dies.
Gone == [NoFlow EXCEPT !.pc = "gone"]

LEMMA GoneFlow == IsFlow(Gone) /\ Gone.pc = "gone" /\ Gone.asks = <<>>
<1>1. Gone = With(NoFlow, "pc", "gone") /\ IsFlow(NoFlow) /\ NoFlow.asks = <<>>
  BY DEF Gone, With, IsFlow, NoFlow, FlowFields
<1> QED BY <1>1, WithSets DEF FlowFields

LEMMA DieMoves ==
  ASSUME FlowInv, NEW w \in Workers, Die(w)
  PROVE  /\ flow' = [t \in Tasks |-> flow'[t]]
         /\ \A t \in Tasks :
              \/ WorkerOf[t] = w /\ ~Pc(t, "idle") /\ flow'[t] = Gone
              \/ WorkerOf[t] = w /\ Pc(t, "idle") /\ flow'[t] = flow[t]
              \/ WorkerOf[t] # w /\ call'[t] = call[t] /\ flow'[t] = flow[t]
<1>1. /\ flow' = [t \in Tasks |-> IF WorkerOf[t] = w /\ ~Pc(t, "idle") THEN Gone ELSE flow[t]]
      /\ call' = [t \in Tasks |-> IF WorkerOf[t] = w THEN NoCall ELSE call[t]]
  BY DEF Die, ForgetRetrieval, Gone
<1> HIDE DEF Gone
<1> QED BY <1>1

LEMMA DieFlow ==
  ASSUME FlowInv, NEW w \in Workers, Die(w), CallsTyped'
  PROVE  FlowInv'
<1>1. saved' = saved /\ scenario' = scenario
  BY DEF Die
<1>2. ASSUME NEW t \in Tasks
      PROVE  FlowFits(t)' /\ EvidenceKept(t)' /\ IsFlow(flow'[t]) /\ (Pc(t, "idle")' => Pc(t, "idle"))
  <2>1. /\ Kind(t)' = Kind(t) /\ Alert(t)' = Alert(t) /\ Thread(t)' = Thread(t)
        /\ FlowFits(t) /\ IsFlow(flow[t])
    BY <1>1, SameWork DEF FlowInv, FlowsTyped
  <2>2. CASE flow'[t] = Gone
    BY <2>1, <2>2, GoneFlow DEF FlowFits, EvidenceKept, Pc, Retrieving, Diagnosing
  <2>3. CASE Pc(t, "idle") /\ flow'[t] = flow[t]
    <3>1. FlowFits(t)'
      BY <2>1, <2>3 DEF FlowFits
    <3> QED BY <2>1, <2>3, <3>1 DEF EvidenceKept, Pc, Retrieving, Diagnosing
  <2>4. CASE call'[t] = call[t] /\ flow'[t] = flow[t]
    BY <1>1, <2>1, <2>4, OtherKept DEF Pc
  <2> QED BY <2>2, <2>3, <2>4, DieMoves
<1>3. FlowsTyped'
  BY <1>1, <1>2, DieMoves DEF FlowInv, FlowsTyped
<1>4. \A u \in Tasks : Kind(u)' = Kind(u) /\ Thread(u)' = Thread(u)
  BY <1>1, SameWork
<1>5. SavedKept'
  BY <1>1, <1>2, <1>4 DEF FlowInv, SavedKept
<1> QED BY <1>2, <1>3, <1>5 DEF FlowInv

LEMMA StepFlow ==
  ASSUME FlowInv, [Next]_vars
  PROVE  FlowInv'
<1>1. CallsTyped'
  BY StepCalls DEF FlowInv
<1>2. CASE UNCHANGED vars
  BY <1>1, <1>2, IdleFlow DEF vars, rvars, dvars
<1>3. ASSUME NEW t \in Tasks, Starts(t) PROVE FlowInv'
  BY <1>1, <1>3, DirectFlow, StartFlow, AnalyzeFlow DEF Starts
<1>4. ASSUME NEW t \in Tasks, Step(t) PROVE FlowInv'
  BY <1>1, <1>4, RetrievalFlow, DirectFlow, AsksStoreFlow, SearchedFlow, RelatedFlow,
     RefusedFlow, RouteFlow, AnalyzeFlow, AnalyzingFlow, ResultsFlow DEF Step
<1>5. ASSUME NEW w \in Workers, Boot(w) PROVE FlowInv'
  BY <1>1, <1>5, IdleFlow DEF Boot, rvars
<1>6. ASSUME NEW w \in Workers, Die(w) PROVE FlowInv'
  BY <1>1, <1>6, DieFlow
<1> QED BY <1>2, <1>3, <1>4, <1>5, <1>6 DEF Next

\* _retrieve_context_node of any tasks of any workers, with the reducer of
\* vector_context, failures and restarts: no analysis sees a document of
\* another thread, its topology is of the alert's service if the retrieval
\* succeeded, and a thread's first alert has its own documents once, or, if
\* its retrieval failed, nothing.
THEOREM EvidenceFitsHolds == Spec => []EvidenceFits
<1>1. FlowInv => EvidenceFits
  BY DEF FlowInv, EvidenceKept, Diagnosing, InThread, EvidenceFits
<1> QED BY InitFlow, StepFlow, <1>1, PTL DEF Spec

-----------------------------------------------------------------------------
(* The counters of a worker                                                *)

Counters == {"canary_success", "canary_failure", "control_success", "control_failure"}

\* What the counters count: the alerts that came to an end, those of a
\* canary version, those whose node failed, and the analyses that were used.
Over(w)   == {t \in Tasks : WorkerOf[t] = w /\ Kind(t) = "alert" /\ Pc(t, "done")}
Canary(w) == {t \in Over(w) : flow[t].version \in CanaryVersions}
Failed(w) == {t \in Over(w) : flow[t].results = <<>>}
UsedStates == {"answered", "escalated"}
Used(w)   == Asks(w, UsedStates)
UsedOf(t) == {i \in DOMAIN flow[t].asks : flow[t].asks[i].st \in UsedStates}

IsAsk(a) == a = [alert |-> a.alert, st |-> a.st, plan |-> a.plan]
AreAsks(asks) ==
  asks = [i \in DOMAIN asks |-> asks[i]] /\ \A i \in DOMAIN asks : IsAsk(asks[i])

CountersOf(w) ==
  /\ metrics[w] \in [Counters -> Nat] /\ usage[w] \in Nat /\ IsFiniteSet(Used(w))
  /\ metrics[w].canary_success = Cardinality(Canary(w))
  /\ metrics[w].control_success = Cardinality(Over(w) \ Canary(w))
  /\ metrics[w].canary_failure = 0
  /\ metrics[w].control_failure = Cardinality(Failed(w))
  /\ usage[w] = Cardinality(Used(w))

CounterInv ==
  /\ FlowInv
  /\ metrics = [w \in Workers |-> metrics[w]] /\ usage = [w \in Workers |-> usage[w]]
  /\ \A t \in Tasks : AreAsks(flow[t].asks)
  /\ \A w \in Workers : CountersOf(w)

LEMMA UsedElements ==
  ASSUME NEW w, NEW x
  PROVE  x \in Used(w) <=> \E t \in Tasks : WorkerOf[t] = w /\ \E i \in UsedOf(t) : x = <<t, i>>
BY DEF Used, Asks, UsedOf

LEMMA InitCounters == Init => CounterInv
<1> SUFFICES ASSUME Init PROVE CounterInv
  OBVIOUS
<1>1. /\ \A t \in Tasks : flow[t] = NoFlow
      /\ metrics = [w \in Workers |-> NoMetrics] /\ usage = [w \in Workers |-> 0]
  BY DEF Init
<1>2. NoFlow.pc = "idle" /\ NoFlow.asks = <<>>
  BY DEF NoFlow
<1>3. \A t \in Tasks : AreAsks(flow[t].asks) /\ UsedOf(t) = {} /\ ~Pc(t, "done")
  BY <1>1, <1>2 DEF AreAsks, UsedOf, Pc
<1>4. ASSUME NEW w \in Workers PROVE CountersOf(w)
  <2>1. Over(w) = {} /\ Canary(w) = {} /\ Failed(w) = {} /\ Over(w) \ Canary(w) = {}
    BY <1>3 DEF Over, Canary, Failed
  <2>2. Used(w) = {}
    BY <1>3, UsedElements
  <2>3. NoMetrics \in [Counters -> Nat] /\ metrics[w] = NoMetrics /\ usage[w] = 0
    BY <1>1 DEF NoMetrics, Counters
  <2> QED BY <2>1, <2>2, <2>3, FS_EmptySet DEF CountersOf, NoMetrics
<1> QED BY <1>1, <1>3, <1>4, InitFlow DEF CounterInv

\* The task does not come to its end, and nor does one of its analyses.
StillOver(t) ==
  /\ Kind(t) = "alert" => (Pc(t, "done")' <=> Pc(t, "done"))
  /\ Kind(t) = "alert" /\ Pc(t, "done") =>
       flow'[t].version = flow[t].version /\ flow'[t].results = flow[t].results
StillCounts(t) == StillOver(t) /\ UsedOf(t)' = UsedOf(t)

LEMMA SameOver ==
  ASSUME scenario' = scenario, NEW w, \A t \in Tasks : WorkerOf[t] = w => StillOver(t)
  PROVE  Over(w)' = Over(w) /\ Canary(w)' = Canary(w) /\ Failed(w)' = Failed(w)
<1>1. \A t \in Tasks : Kind(t)' = Kind(t)
  BY SameWork
<1>2. Over(w)' = Over(w)
  BY <1>1 DEF Over, StillOver
<1> QED BY <1>2 DEF Canary, Failed, StillOver, Over

LEMMA UsedElementsNext ==
  ASSUME NEW w, NEW x
  PROVE  x \in Used(w)' <=> \E t \in Tasks : WorkerOf[t] = w /\ \E i \in UsedOf(t)' : x = <<t, i>>
BY DEF Used, Asks, UsedOf

LEMMA SameUsed ==
  ASSUME NEW w, \A t \in Tasks : WorkerOf[t] = w => UsedOf(t)' = UsedOf(t)
  PROVE  Used(w)' = Used(w)
<1>1. ASSUME NEW x PROVE x \in Used(w)' <=> x \in Used(w)
  BY UsedElements, UsedElementsNext
<1> QED BY <1>1

LEMMA SameCounters ==
  ASSUME CounterInv, scenario' = scenario, NEW w \in Workers,
         metrics'[w] = metrics[w], usage'[w] = usage[w],
         \A t \in Tasks : WorkerOf[t] = w => StillCounts(t)
  PROVE  CountersOf(w)'
<1>1. Over(w)' = Over(w) /\ Canary(w)' = Canary(w) /\ Failed(w)' = Failed(w)
  BY SameOver DEF StillCounts
<1>2. Used(w)' = Used(w)
  BY SameUsed DEF StillCounts
<1> QED BY <1>1, <1>2 DEF CounterInv, CountersOf

LEMMA QuietCounters ==
  ASSUME CounterInv, FlowInv', scenario' = scenario, UNCHANGED <<metrics, usage>>,
         \A t \in Tasks : StillCounts(t) /\ AreAsks(flow'[t].asks)
  PROVE  CounterInv'
<1>1. \A w \in Workers : CountersOf(w)'
  BY SameCounters
<1> QED BY <1>1 DEF CounterInv

LEMMA StaysStill ==
  ASSUME CounterInv, NEW u \in Tasks, flow'[u] = flow[u]
  PROVE  StillCounts(u) /\ AreAsks(flow'[u].asks)
BY DEF CounterInv, StillCounts, StillOver, UsedOf, Pc

\* A task moves that does not end a diagnosis, and whose new asks, if it has
\* any, are under way.
LEMMA MoverCounts ==
  ASSUME CounterInv, FlowInv', scenario' = scenario, UNCHANGED <<metrics, usage>>,
         NEW t \in Tasks, FlowMoves(t),
         Kind(t) = "alert" => flow[t].pc # "done" /\ flow'[t].pc # "done",
         AreAsks(flow'[t].asks), UsedOf(t)' = UsedOf(t)
  PROVE  CounterInv'
<1>1. StillCounts(t)
  BY DEF StillCounts, StillOver, Pc
<1>2. \A u \in Tasks : StillCounts(u) /\ AreAsks(flow'[u].asks)
  BY <1>1, StaysStill DEF FlowMoves
<1> QED BY <1>2, QuietCounters

LEMMA SameAsksCount ==
  ASSUME CounterInv, FlowInv', scenario' = scenario, UNCHANGED <<metrics, usage>>,
         NEW t \in Tasks, FlowMoves(t),
         Kind(t) = "alert" => flow[t].pc # "done" /\ flow'[t].pc # "done",
         flow'[t].asks = flow[t].asks
  PROVE  CounterInv'
<1>1. AreAsks(flow'[t].asks) /\ UsedOf(t)' = UsedOf(t)
  BY DEF CounterInv, UsedOf
<1> QED BY <1>1, MoverCounts

LEMMA RetrievedCounts ==
  ASSUME CounterInv, FlowInv', scenario' = scenario, UNCHANGED <<metrics, usage>>,
         NEW t \in Tasks, flow[t].pc \in Retrieving, NEW c, NEW ok, Retrieved(t, c, ok)
  PROVE  CounterInv'
<1>1. FlowMoves(t) /\ flow'[t].pc = "diagnose" /\ Leaves(t, {"first", "version", "asks", "results"})
  BY RetrievedMoves DEF CounterInv, FlowInv
<1>2. flow[t].pc # "done" /\ flow'[t].asks = flow[t].asks
  BY <1>1 DEF Retrieving, Leaves
<1> QED BY <1>1, <1>2, SameAsksCount

\* The steps up to the diagnosis.
LEMMA EarlyCounts ==
  ASSUME CounterInv, FlowInv', NEW t \in Tasks,
         \/ CallDirectly(t) \/ CallEnds(t) \/ StartStream(t) \/ Search(t) \/ AskTopology(t)
         \/ Searched(t) \/ Related(t) \/ BreakerRefuses(t) \/ Route(t) \/ BatchAnalyzed(t)
  PROVE  CounterInv'
<1>1. scenario' = scenario /\ UNCHANGED <<metrics, usage>>
  BY DEF CallDirectly, CallEnds, StartStream, Search, AskTopology, Searched, Related,
    BreakerRefuses, Route, BatchAnalyzed
<1>2. FlowsTyped /\ FlowFits(t)
  BY DEF CounterInv, FlowInv
<1>3. CASE Search(t) \/ AskTopology(t) \/ CallDirectly(t) \/ CallEnds(t)
  <2>1. PICK pc : Goto(t, pc) /\ (Kind(t) = "alert" => pc # "done" /\ flow[t].pc # "done")
    <3>1. CASE Search(t) \/ AskTopology(t)
      BY <3>1 DEF Search, AskTopology, Pc
    <3>2. CASE CallDirectly(t) \/ CallEnds(t)
      BY <1>2, <3>2 DEF CallDirectly, CallEnds, Direct, VectorOps, GraphOps, EmbedOps,
        FlowFits, Pc
    <3> QED BY <1>3, <3>1, <3>2
  <2>2. FlowMoves(t) /\ flow'[t].pc = pc /\ Leaves(t, FlowFields \ {"pc"})
    BY <1>2, <2>1, GotoMoves
  <2>3. flow'[t].asks = flow[t].asks
    BY <2>2 DEF Leaves, FlowFields
  <2> QED BY <1>1, <2>1, <2>2, <2>3, SameAsksCount
<1>4. CASE StartStream(t)
  <2>1. FlowMoves(t) /\ flow'[t].pc = "qdrant" /\ flow'[t].asks = flow[t].asks
    BY <1>2, <1>4, StartMoves DEF Leaves
  <2>2. flow[t].pc # "done"
    BY <1>4 DEF StartStream, Pc
  <2> QED BY <1>1, <2>1, <2>2, SameAsksCount
<1>5. CASE \E c, ok : Retrieved(t, c, ok) /\ flow[t].pc \in Retrieving
  BY <1>1, <1>5, RetrievedCounts
<1>6. CASE Searched(t)
  <2>1. CASE call[t].pc = "returned"
    <3>1. flow' = [flow EXCEPT ![t].pc = "neo4j", ![t].found = call[t].result]
          /\ flow[t].pc = "searching"
      BY <1>6, <2>1 DEF Searched, Pc
    <3>2. FlowMoves(t) /\ flow'[t].pc = "neo4j" /\ Leaves(t, FlowFields \ {"pc", "found"})
      BY <1>2, <3>1, FoundMoves
    <3>3. flow'[t].asks = flow[t].asks
      BY <3>2 DEF Leaves, FlowFields
    <3> QED BY <1>1, <3>1, <3>2, <3>3, SameAsksCount
  <2>2. CASE call[t].pc # "returned"
    BY <1>5, <1>6, <2>2 DEF Searched, Unretrieved, Retrieving, Pc
  <2> QED BY <2>1, <2>2
<1>7. CASE Related(t) \/ BreakerRefuses(t)
  BY <1>5, <1>7 DEF Related, BreakerRefuses, Unretrieved, Retrieving, Pc
<1>8. CASE Route(t)
  <2>1. flow[t].pc = "diagnose"
    BY <1>8 DEF Route, Pc
  <2>2. PICK v : flow' = [flow EXCEPT ![t].pc = "llm", ![t].version = v]
    BY <1>8 DEF Route
  <2>3. FlowMoves(t) /\ flow'[t].pc = "llm" /\ Leaves(t, FlowFields \ {"pc", "version"})
    BY <1>2, <2>2, VersionMoves
  <2>4. flow'[t].asks = flow[t].asks
    BY <2>3 DEF Leaves, FlowFields
  <2> QED BY <1>1, <2>1, <2>3, <2>4, SameAsksCount
<1>9. CASE BatchAnalyzed(t)
  <2>1. Kind(t) # "alert"
    BY <1>9 DEF BatchAnalyzed
  <2>2. PICK results : flow' = [flow EXCEPT ![t].pc = "done", ![t].results = results]
    BY <1>9 DEF BatchAnalyzed
  <2>3. FlowMoves(t) /\ Leaves(t, FlowFields \ {"pc", "results"})
    BY <1>2, <2>2, ResultsMoves
  <2>4. flow'[t].asks = flow[t].asks
    BY <2>3 DEF Leaves, FlowFields
  <2> QED BY <1>1, <2>1, <2>3, <2>4, SameAsksCount
<1> QED BY <1>3, <1>4, <1>6, <1>7, <1>8, <1>9

\* New asks are asked of nobody yet.
LEMMA AnalyzeCounts ==
  ASSUME CounterInv, FlowInv', NEW t \in Tasks, Analyze(t) \/ AnalyzeBatch(t)
  PROVE  CounterInv'
<1>1. /\ scenario' = scenario /\ UNCHANGED <<metrics, usage>>
      /\ flow[t].pc \in {"llm", "idle"}
  BY DEF Analyze, AnalyzeBatch, Pc
<1>2. FlowsTyped /\ flow[t].asks = <<>>
  BY <1>1 DEF CounterInv, FlowInv, FlowFits
<1>3. PICK asks : /\ flow' = [flow EXCEPT ![t].pc = "asking", ![t].asks = asks]
                  /\ AreAsks(asks) /\ \A i \in DOMAIN asks : asks[i].st = "primary"
  <2>1. ASSUME NEW a PROVE IsAsk(Ask(a)) /\ Ask(a).st = "primary"
    BY DEF Ask, IsAsk
  <2> HIDE DEF Ask
  <2>2. CASE Analyze(t)
    <3> DEFINE asks == <<Ask(Alert(t))>>
    <3>1. AreAsks(asks) /\ \A i \in DOMAIN asks : asks[i].st = "primary"
      BY <2>1 DEF AreAsks
    <3>2. flow' = [flow EXCEPT ![t].pc = "asking", ![t].asks = asks]
      BY <2>2 DEF Analyze
    <3> QED BY <3>1, <3>2
  <2>3. CASE AnalyzeBatch(t)
    <3>1. PICK n : flow' = [flow EXCEPT ![t].pc = "asking", ![t].asks = [i \in 1..n |-> Ask(Arg(t)[i])]]
      BY <2>3 DEF AnalyzeBatch
    <3> DEFINE asks == [i \in 1..n |-> Ask(Arg(t)[i])]
    <3>2. AreAsks(asks) /\ \A i \in DOMAIN asks : asks[i].st = "primary"
      BY <2>1 DEF AreAsks
    <3> QED BY <3>1, <3>2
  <2> QED BY <2>2, <2>3
<1>4. FlowMoves(t) /\ flow'[t].pc = "asking" /\ flow'[t].asks = asks
  BY <1>2, <1>3, AsksMoves
<1>5. AreAsks(flow'[t].asks) /\ UsedOf(t)' = UsedOf(t)
  <2>1. AreAsks(flow'[t].asks)
    BY <1>3, <1>4 DEF AreAsks
  <2>2. UsedOf(t)' = {}
    BY <1>3, <1>4 DEF UsedOf, UsedStates
  <2>3. UsedOf(t) = {}
    BY <1>2 DEF UsedOf
  <2> QED BY <2>1, <2>2, <2>3
<1> QED BY <1>1, <1>4, <1>5, MoverCounts

\* What the end of an ask does to the asks, and to those that count.
LEMMA AskRecord ==
  ASSUME NEW asks, AreAsks(asks), NEW i \in DOMAIN asks, NEW st, NEW plan, NEW new,
         new = AsksAfter(asks, i, st, plan)
  PROVE  /\ AreAsks(new) /\ DOMAIN new = DOMAIN asks /\ new[i].st = st
         /\ \A j \in DOMAIN asks \ {i} : new[j] = asks[j]
<1> DEFINE a == asks[i]
           one == [a EXCEPT !.st = st]
           two == [one EXCEPT !.plan = plan]
           mid == [asks EXCEPT ![i] = one]
<1>1. mid = [asks EXCEPT ![i].st = st] /\ IsAsk(a)
  BY DEF AreAsks
<1>2. IsAsk(one) /\ one.st = st
  BY <1>1 DEF IsAsk
<1> HIDE DEF one
<1>3. IsAsk(two) /\ two.st = st
  BY <1>2 DEF IsAsk
<1>4. /\ DOMAIN mid = DOMAIN asks /\ mid[i] = one
      /\ \A j \in DOMAIN asks \ {i} : mid[j] = asks[j]
      /\ mid = [j \in DOMAIN asks |-> mid[j]]
  BY DEF AreAsks
<1>5. new = [mid EXCEPT ![i].plan = plan]
  BY <1>1 DEF AsksAfter
<1> HIDE DEF mid
<1>6. new = [mid EXCEPT ![i] = two]
  BY <1>4, <1>5
<1> HIDE DEF two
<1> QED BY <1>3, <1>4, <1>6 DEF AreAsks

LEMMA AnalyzingCounts ==
  ASSUME CounterInv, FlowInv', NEW t \in Tasks, Analyzing(t)
  PROVE  CounterInv'
<1> DEFINE w == WorkerOf[t]
<1>1. scenario' = scenario /\ metrics' = metrics /\ flow[t].pc = "asking"
  BY DEF Analyzing, Pc
<1>2. FlowsTyped /\ AreAsks(flow[t].asks) /\ w \in Workers
  BY RetrievalAssumption DEF CounterInv, FlowInv
<1>3. PICK i \in DOMAIN flow[t].asks : Answers(t, i) \/ AskRaises(t, i) \/ AskUnusable(t, i)
  BY DEF Analyzing
<1>4. PICK st, plan :
        /\ AskEnds(t, i, st, plan)
        /\ \/ st \in UsedStates /\ Uses(t)
           \/ st \notin UsedStates /\ UNCHANGED usage
  BY <1>3 DEF Answers, AskRaises, AskUnusable, UsedStates
<1>5. FlowMoves(t) /\ Leaves(t, FlowFields \ {"asks"})
      /\ flow'[t].asks = AsksAfter(flow[t].asks, i, st, plan)
  BY <1>2, <1>4, AskEndsMoves
<1>6. flow'[t].pc = "asking"
  BY <1>1, <1>5 DEF Leaves, FlowFields
<1>7. /\ AreAsks(flow'[t].asks) /\ DOMAIN flow'[t].asks = DOMAIN flow[t].asks
      /\ flow'[t].asks[i].st = st
      /\ \A j \in DOMAIN flow[t].asks \ {i} : flow'[t].asks[j] = flow[t].asks[j]
  BY <1>2, <1>5, AskRecord
<1>8. flow[t].asks[i].st \notin UsedStates
  BY <1>3 DEF Answers, AskRaises, AskUnusable, Asking, UsedStates
<1>9. /\ UsedOf(t)' = IF st \in UsedStates THEN UsedOf(t) \cup {i} ELSE UsedOf(t)
      /\ i \notin UsedOf(t)
  BY <1>7, <1>8 DEF UsedOf
<1>10. CASE st \notin UsedStates
  BY <1>1, <1>4, <1>5, <1>6, <1>7, <1>9, <1>10, MoverCounts
<1>11. CASE st \in UsedStates
  <2>1. /\ usage' = [u \in Workers |-> usage'[u]] /\ usage'[w] = usage[w] + 1
        /\ \A v \in Workers \ {w} : usage'[v] = usage[v]
    BY <1>2, <1>4, <1>11 DEF Uses, CounterInv
  <2>2. StillOver(t)
    BY <1>1, <1>6 DEF StillOver, Pc
  <2>3. \A u \in Tasks \ {t} : StillCounts(u) /\ AreAsks(flow'[u].asks)
    BY <1>5, StaysStill DEF FlowMoves
  <2>4. ASSUME NEW v \in Workers \ {w} PROVE CountersOf(v)'
    <3>1. \A u \in Tasks : WorkerOf[u] = v => StillCounts(u)
      BY <2>3
    <3> QED BY <1>1, <2>1, <3>1, SameCounters
  <2>5. Over(w)' = Over(w) /\ Canary(w)' = Canary(w) /\ Failed(w)' = Failed(w)
    BY <1>1, <2>2, <2>3, SameOver DEF StillCounts
  <2>6. Used(w)' = Used(w) \cup {<<t, i>>} /\ <<t, i>> \notin Used(w)
    <3>1. <<t, i>> \notin Used(w)
      BY <1>9, UsedElements
    <3>2. ASSUME NEW x PROVE x \in Used(w)' <=> x \in Used(w) \/ x = <<t, i>>
      <4>1. \A u \in Tasks \ {t} : UsedOf(u)' = UsedOf(u)
        BY <2>3 DEF StillCounts
      <4>2. UsedOf(t)' = UsedOf(t) \cup {i}
        BY <1>9, <1>11
      <4>3. x \in Used(w)' <=>
              \/ \E u \in Tasks \ {t} : WorkerOf[u] = w /\ \E j \in UsedOf(u) : x = <<u, j>>
              \/ \E j \in UsedOf(t) \cup {i} : x = <<t, j>>
        BY <4>1, <4>2, UsedElementsNext
      <4>4. x \in Used(w) <=>
              \/ \E u \in Tasks \ {t} : WorkerOf[u] = w /\ \E j \in UsedOf(u) : x = <<u, j>>
              \/ \E j \in UsedOf(t) : x = <<t, j>>
        BY UsedElements
      <4> QED BY <4>3, <4>4
    <3> QED BY <3>1, <3>2
  <2>7. CountersOf(w)
    BY <1>2 DEF CounterInv
  <2>8. IsFiniteSet(Used(w)') /\ Cardinality(Used(w)') = Cardinality(Used(w)) + 1
    <3>1. IsFiniteSet(Used(w))
      BY <2>7 DEF CountersOf
    <3> QED BY <2>6, <3>1, FS_AddElement
  <2>9. CountersOf(w)'
    BY <1>1, <2>1, <2>5, <2>7, <2>8 DEF CountersOf
  <2>10. \A u \in Tasks : AreAsks(flow'[u].asks)
    BY <1>7, <2>3
  <2> QED BY <1>1, <2>1, <2>4, <2>9, <2>10 DEF CounterInv
<1> QED BY <1>10, <1>11

\* A success of the version is counted, or a failure of the control.
Bump(m, c) == [m EXCEPT ![c] = @ + 1]

LEMMA BumpsOne ==
  ASSUME NEW m \in [Counters -> Nat], NEW c \in Counters
  PROVE  /\ Bump(m, c) \in [Counters -> Nat]
         /\ Bump(m, c)[c] = m[c] + 1
         /\ \A d \in Counters \ {c} : Bump(m, c)[d] = m[d]
BY DEF Bump

LEMMA CountsSuccess ==
  ASSUME NEW m \in [Counters -> Nat], NEW v
  PROVE  /\ Count(m, v, TRUE) \in [Counters -> Nat]
         /\ Count(m, v, TRUE).canary_failure = m.canary_failure
         /\ Count(m, v, TRUE).control_failure = m.control_failure
         /\ Count(m, v, TRUE).canary_success =
              IF v \in CanaryVersions THEN m.canary_success + 1 ELSE m.canary_success
         /\ Count(m, v, TRUE).control_success =
              IF v \in CanaryVersions THEN m.control_success ELSE m.control_success + 1
<1> DEFINE c == IF v \in CanaryVersions THEN "canary_success" ELSE "control_success"
<1>1. Count(m, v, TRUE) = Bump(m, c) /\ c \in Counters
  BY DEF Count, Counter, Bump, Counters
<1>2. /\ Bump(m, c) \in [Counters -> Nat] /\ Bump(m, c)[c] = m[c] + 1
      /\ \A d \in Counters \ {c} : Bump(m, c)[d] = m[d]
  BY <1>1, BumpsOne
<1> QED BY <1>1, <1>2 DEF Counters

LEMMA CountsFailure ==
  ASSUME NEW m \in [Counters -> Nat]
  PROVE  /\ Count(m, "control", FALSE) \in [Counters -> Nat]
         /\ Count(m, "control", FALSE).canary_failure = m.canary_failure
         /\ Count(m, "control", FALSE).control_failure = m.control_failure + 1
         /\ Count(m, "control", FALSE).canary_success = m.canary_success
         /\ Count(m, "control", FALSE).control_success = m.control_success
<1> DEFINE c == "control_failure"
<1>1. Count(m, "control", FALSE) = Bump(m, c) /\ c \in Counters
  BY DEF Count, Counter, Bump, Counters, CanaryVersions, Experiments
<1>2. /\ Bump(m, c) \in [Counters -> Nat] /\ Bump(m, c)[c] = m[c] + 1
      /\ \A d \in Counters \ {c} : Bump(m, c)[d] = m[d]
  BY <1>1, BumpsOne
<1> QED BY <1>1, <1>2 DEF Counters

LEMMA OverFinite ==
  ASSUME NEW w
  PROVE  /\ IsFiniteSet(Over(w)) /\ IsFiniteSet(Canary(w)) /\ IsFiniteSet(Failed(w))
         /\ IsFiniteSet(Over(w) \ Canary(w))
<1>1. /\ IsFiniteSet(Tasks) /\ Over(w) \in SUBSET Tasks /\ Canary(w) \in SUBSET Tasks
      /\ Failed(w) \in SUBSET Tasks /\ Over(w) \ Canary(w) \in SUBSET Tasks
  BY DiagnosisAssumption DEF Over, Canary, Failed
<1> QED BY <1>1, FS_Subset

LEMMA DiagnoseCounts ==
  ASSUME CounterInv, FlowInv', NEW t \in Tasks, Diagnose(t)
  PROVE  CounterInv'
<1> DEFINE w == WorkerOf[t]
           v == flow[t].version
           counted == Count(metrics[w], v, TRUE)
<1>1. /\ scenario' = scenario /\ usage' = usage
      /\ flow[t].pc = "asking" /\ Kind(t) = "alert"
  BY DEF Diagnose, Analyzed, Pc
<1>2. FlowsTyped /\ w \in Workers /\ CountersOf(w)
  BY RetrievalAssumption DEF CounterInv, FlowInv
<1>3. PICK results :
        /\ flow' = [flow EXCEPT ![t].pc = "done", ![t].results = results]
        /\ \/ results # <<>> /\ metrics' = [metrics EXCEPT ![w] = counted]
           \/ results = <<>>
                /\ metrics' = [metrics EXCEPT ![w] = Count(counted, "control", FALSE)]
  <2> DEFINE plan == Adjust(Alert(t), flow[t].asks[1].plan)
  <2>1. CASE Diagnosed(t, TRUE)
    <3>1. /\ metrics' = [metrics EXCEPT ![w] = counted]
          /\ flow' = [flow EXCEPT ![t].pc = "done", ![t].results = <<plan>>]
      BY <2>1 DEF Diagnosed
    <3> HIDE DEF plan, counted
    <3>2. <<plan>> # <<>>
      OBVIOUS
    <3> QED BY ONLY <3>1, <3>2
  <2>2. CASE Diagnosed(t, FALSE)
    <3>1. /\ metrics' = [metrics EXCEPT ![w] = Count(counted, "control", FALSE)]
          /\ flow' = [flow EXCEPT ![t].pc = "done", ![t].results = <<>>]
      BY <2>2 DEF Diagnosed
    <3> HIDE DEF counted
    <3> QED BY ONLY <3>1
  <2> QED BY <2>1, <2>2 DEF Diagnose
<1>4. FlowMoves(t) /\ flow'[t].pc = "done" /\ flow'[t].results = results
      /\ Leaves(t, FlowFields \ {"pc", "results"})
  BY <1>2, <1>3, ResultsMoves
<1>5. flow'[t].version = v /\ flow'[t].asks = flow[t].asks
  BY <1>4 DEF Leaves, FlowFields
<1>6. \A u \in Tasks \ {t} : StillCounts(u) /\ AreAsks(flow'[u].asks)
  BY <1>4, StaysStill DEF FlowMoves
<1>7. AreAsks(flow'[t].asks) /\ UsedOf(t)' = UsedOf(t)
  BY <1>5 DEF CounterInv, UsedOf
<1>8. \A u \in Tasks : Kind(u)' = Kind(u)
  BY <1>1, SameWork
<1>9. /\ Over(w)' = Over(w) \cup {t} /\ t \notin Over(w)
      /\ \A u \in Over(w) : flow'[u] = flow[u]
  <2>1. t \in Over(w)' /\ t \notin Over(w)
    BY <1>1, <1>4, <1>8 DEF Over, Pc
  <2>2. \A u \in Tasks \ {t} : u \in Over(w)' <=> u \in Over(w)
    BY <1>4, <1>8 DEF Over, Pc, FlowMoves
  <2>3. Over(w)' \subseteq Tasks /\ Over(w) \subseteq Tasks
    BY DEF Over
  <2> QED BY <1>4, <2>1, <2>2, <2>3 DEF FlowMoves
<1>10. /\ Canary(w)' = IF v \in CanaryVersions THEN Canary(w) \cup {t} ELSE Canary(w)
       /\ Failed(w)' = IF results = <<>> THEN Failed(w) \cup {t} ELSE Failed(w)
       /\ t \notin Canary(w) /\ t \notin Failed(w)
  <2>1. \A u \in Over(w) : /\ (u \in Canary(w)' <=> u \in Canary(w))
                           /\ (u \in Failed(w)' <=> u \in Failed(w))
    BY <1>9 DEF Canary, Failed
  <2>2. /\ (t \in Canary(w)' <=> v \in CanaryVersions)
        /\ (t \in Failed(w)' <=> results = <<>>)
    BY <1>3, <1>4, <1>5, <1>9 DEF Canary, Failed
  <2>3. /\ Canary(w) \subseteq Over(w) /\ Failed(w) \subseteq Over(w)
        /\ Canary(w)' \subseteq Over(w)' /\ Failed(w)' \subseteq Over(w)'
    BY DEF Canary, Failed
  <2> HIDE DEF v
  <2>4. t \notin Canary(w) /\ t \notin Failed(w)
    BY <1>9, <2>3
  <2>5. Canary(w)' = IF v \in CanaryVersions THEN Canary(w) \cup {t} ELSE Canary(w)
    <3>1. \A x : x \in Canary(w)' <=> x \in Canary(w) \/ (x = t /\ v \in CanaryVersions)
      BY <1>9, <2>1, <2>2, <2>3, <2>4
    <3> QED BY ONLY <3>1
  <2>6. Failed(w)' = IF results = <<>> THEN Failed(w) \cup {t} ELSE Failed(w)
    <3>1. \A x : x \in Failed(w)' <=> x \in Failed(w) \/ (x = t /\ results = <<>>)
      BY <1>9, <2>1, <2>2, <2>3, <2>4
    <3> QED BY ONLY <3>1
  <2> QED BY <2>4, <2>5, <2>6
<1>11. Over(w)' \ Canary(w)' =
         IF v \in CanaryVersions THEN Over(w) \ Canary(w) ELSE (Over(w) \ Canary(w)) \cup {t}
  BY <1>9, <1>10
<1>12. /\ Cardinality(Canary(w)') =
            IF v \in CanaryVersions THEN Cardinality(Canary(w)) + 1 ELSE Cardinality(Canary(w))
       /\ Cardinality(Failed(w)') =
            IF results = <<>> THEN Cardinality(Failed(w)) + 1 ELSE Cardinality(Failed(w))
       /\ Cardinality(Over(w)' \ Canary(w)') =
            IF v \in CanaryVersions THEN Cardinality(Over(w) \ Canary(w))
            ELSE Cardinality(Over(w) \ Canary(w)) + 1
  <2> DEFINE some == v \in CanaryVersions
             counts == {Canary(w), Failed(w), Over(w) \ Canary(w)}
  <2>1. /\ Canary(w)' = IF some THEN Canary(w) \cup {t} ELSE Canary(w)
        /\ Failed(w)' = IF results = <<>> THEN Failed(w) \cup {t} ELSE Failed(w)
        /\ Over(w)' \ Canary(w)' =
             IF some THEN Over(w) \ Canary(w) ELSE (Over(w) \ Canary(w)) \cup {t}
    BY <1>10, <1>11, Zenon
  <2> HIDE DEF v, some
  <2>2. \A S \in counts : IsFiniteSet(S) /\ t \notin S
    BY <1>9, <1>10, OverFinite
  <2>3. \A S \in counts : Cardinality(S \cup {t}) = Cardinality(S) + 1
    <3>1. ASSUME NEW S \in counts PROVE Cardinality(S \cup {t}) = Cardinality(S) + 1
      BY ONLY <2>2, S \in counts, FS_AddElement
    <3> QED BY <3>1
  <2>4. /\ Cardinality(Canary(w) \cup {t}) = Cardinality(Canary(w)) + 1
        /\ Cardinality(Failed(w) \cup {t}) = Cardinality(Failed(w)) + 1
        /\ Cardinality((Over(w) \ Canary(w)) \cup {t}) = Cardinality(Over(w) \ Canary(w)) + 1
    BY <2>3
  <2>5. /\ Cardinality(Canary(w)') =
             IF some THEN Cardinality(Canary(w)) + 1 ELSE Cardinality(Canary(w))
        /\ Cardinality(Failed(w)') =
             IF results = <<>> THEN Cardinality(Failed(w)) + 1 ELSE Cardinality(Failed(w))
        /\ Cardinality(Over(w)' \ Canary(w)') =
             IF some THEN Cardinality(Over(w) \ Canary(w))
             ELSE Cardinality(Over(w) \ Canary(w)) + 1
    BY ONLY <2>1, <2>4
  <2> QED BY <2>5 DEF some
<1>13. CountersOf(w)'
  <2>1. Used(w)' = Used(w)
    BY <1>6, <1>7, SameUsed DEF StillCounts
  <2>2. metrics[w] \in [Counters -> Nat]
    BY <1>2 DEF CountersOf
  <2>3. /\ counted \in [Counters -> Nat]
        /\ counted.canary_failure = metrics[w].canary_failure
        /\ counted.control_failure = metrics[w].control_failure
        /\ counted.canary_success =
             IF v \in CanaryVersions THEN metrics[w].canary_success + 1
             ELSE metrics[w].canary_success
        /\ counted.control_success =
             IF v \in CanaryVersions THEN metrics[w].control_success
             ELSE metrics[w].control_success + 1
    BY <2>2, CountsSuccess
  <2>4. metrics'[w] = IF results = <<>> THEN Count(counted, "control", FALSE) ELSE counted
    BY <1>2, <1>3 DEF CounterInv
  <2> HIDE DEF counted
  <2>5. /\ metrics'[w] \in [Counters -> Nat]
        /\ metrics'[w].canary_failure = counted.canary_failure
        /\ metrics'[w].canary_success = counted.canary_success
        /\ metrics'[w].control_success = counted.control_success
        /\ metrics'[w].control_failure =
             IF results = <<>> THEN counted.control_failure + 1 ELSE counted.control_failure
    BY <2>3, <2>4, CountsFailure
  <2> HIDE DEF v
  <2> QED BY <1>1, <1>2, <1>12, <2>1, <2>3, <2>5 DEF CountersOf
<1>14. ASSUME NEW x \in Workers \ {w} PROVE CountersOf(x)'
  <2>1. metrics'[x] = metrics[x] /\ usage'[x] = usage[x]
    BY <1>1, <1>3 DEF CounterInv
  <2>2. \A u \in Tasks : WorkerOf[u] = x => StillCounts(u)
    BY <1>6
  <2> QED BY <1>1, <2>1, <2>2, SameCounters
<1>15. metrics' = [x \in Workers |-> metrics'[x]]
  BY <1>3 DEF CounterInv
<1>16. \A u \in Tasks : AreAsks(flow'[u].asks)
  BY <1>6, <1>7
<1> QED BY <1>1, <1>13, <1>14, <1>15, <1>16 DEF CounterInv

LEMMA DieCounts ==
  ASSUME CounterInv, FlowInv', NEW w \in Workers, Die(w)
  PROVE  CounterInv'
<1>1. /\ scenario' = scenario
      /\ metrics' = [metrics EXCEPT ![w] = NoMetrics] /\ usage' = [usage EXCEPT ![w] = 0]
  BY DEF Die
<1>2. /\ flow' = [t \in Tasks |-> flow'[t]]
      /\ \A t \in Tasks :
           \/ WorkerOf[t] = w /\ ~Pc(t, "idle") /\ flow'[t] = Gone
           \/ WorkerOf[t] = w /\ Pc(t, "idle") /\ flow'[t] = flow[t]
           \/ WorkerOf[t] # w /\ flow'[t] = flow[t]
  BY DieMoves DEF CounterInv
<1>3. \A t \in Tasks : Kind(t)' = Kind(t)
  BY <1>1, SameWork
<1>4. ASSUME NEW t \in Tasks, WorkerOf[t] = w
      PROVE  flow'[t].pc # "done" /\ flow'[t].asks = <<>>
  <2>1. FlowFits(t)
    BY DEF CounterInv, FlowInv
  <2>2. Pc(t, "idle") => flow[t].pc # "done" /\ flow[t].asks = <<>>
    BY <2>1 DEF FlowFits, Pc
  <2> QED BY <1>2, <1>4, <2>2, GoneFlow
<1>5. \A t \in Tasks : AreAsks(flow'[t].asks)
  <2>1. AreAsks(<<>>)
    BY DEF AreAsks
  <2> QED BY <1>2, <1>4, <2>1 DEF CounterInv
<1>6. CountersOf(w)'
  <2>1. Over(w)' = {}
    BY <1>4 DEF Over, Pc
  <2>2. Canary(w)' = {} /\ Failed(w)' = {} /\ Over(w)' \ Canary(w)' = {}
    BY <2>1 DEF Canary, Failed
  <2>3. Used(w)' = {}
    <3>1. \A t \in Tasks : WorkerOf[t] = w => UsedOf(t)' = {}
      BY <1>4 DEF UsedOf
    <3> QED BY <3>1, UsedElementsNext
  <2>4. NoMetrics \in [Counters -> Nat] /\ metrics'[w] = NoMetrics /\ usage'[w] = 0
    BY <1>1 DEF NoMetrics, Counters, CounterInv
  <2> QED BY <2>1, <2>2, <2>3, <2>4, FS_EmptySet DEF CountersOf, NoMetrics
<1>7. ASSUME NEW x \in Workers \ {w} PROVE CountersOf(x)'
  <2>1. metrics'[x] = metrics[x] /\ usage'[x] = usage[x]
    BY <1>1 DEF CounterInv
  <2>2. \A t \in Tasks : WorkerOf[t] = x => StillCounts(t)
    BY <1>2, StaysStill
  <2> QED BY <1>1, <2>1, <2>2, SameCounters
<1>8. metrics' = [x \in Workers |-> metrics'[x]] /\ usage' = [x \in Workers |-> usage'[x]]
  BY <1>1 DEF CounterInv
<1> QED BY <1>5, <1>6, <1>7, <1>8 DEF CounterInv

LEMMA StepCounters ==
  ASSUME CounterInv, [Next]_vars
  PROVE  CounterInv'
<1>1. FlowInv'
  BY StepFlow DEF CounterInv
<1>2. CASE UNCHANGED <<flow, scenario, metrics, usage>>
  <2>1. \A t \in Tasks : StillCounts(t) /\ AreAsks(flow'[t].asks)
    BY <1>2, StaysStill
  <2> QED BY <1>1, <1>2, <2>1, QuietCounters
<1>3. CASE UNCHANGED vars
  BY <1>2, <1>3 DEF vars, dvars
<1>4. ASSUME NEW t \in Tasks, Starts(t) PROVE CounterInv'
  BY <1>1, <1>4, EarlyCounts, AnalyzeCounts DEF Starts
<1>5. ASSUME NEW t \in Tasks, Step(t) PROVE CounterInv'
  <2>1. CASE RetrievalStep(t) /\ UNCHANGED dvars
    BY <1>2, <2>1 DEF dvars
  <2> QED BY <1>1, <1>5, <2>1, EarlyCounts, AnalyzeCounts, AnalyzingCounts, DiagnoseCounts
          DEF Step
<1>6. ASSUME NEW w \in Workers, Boot(w) PROVE CounterInv'
  BY <1>2, <1>6 DEF Boot
<1>7. ASSUME NEW w \in Workers, Die(w) PROVE CounterInv'
  BY <1>1, <1>7, DieCounts
<1> QED BY <1>3, <1>4, <1>5, <1>6, <1>7 DEF Next

\* CanaryDeployment.record_result and CostManager, called by any tasks of a
\* worker in any order: a diagnosis is a success of its version, one whose
\* node then fails is a failure of the control as well, and each analysis that
\* a model gave, or that stands in for one that raised, is one record of usage.
THEOREM CountersAgreeHolds == Spec => []CountersAgree
<1>1. CounterInv => CountersAgree
  BY DEF CounterInv, CountersOf, CountersAgree, Over, Canary, Failed, Used, UsedStates
<1> QED BY InitCounters, StepCounters, <1>1, PTL DEF Spec

-----------------------------------------------------------------------------
(* The cache of embeddings: what _add_to_cache, a loop, leaves             *)

\* Induction on a set of numbers.
LEMMA SetInduction ==
  ASSUME NEW T, 0 \in T, \A n \in Nat : n \in T => n + 1 \in T
  PROVE  Nat \subseteq T
<1> DEFINE R == OpToRel(<, Nat)
           U == Nat \ T
<1>1. IsWellFoundedOn(R, Nat)
  BY NatLessThanWellFounded
<1>2. \A x, y \in Nat : x < y => <<x, y>> \in R
  BY DEF OpToRel
<1> SUFFICES ASSUME U # {} PROVE FALSE
  OBVIOUS
<1>3. U \subseteq Nat
  OBVIOUS
<1> HIDE DEF R, U
<1>4. PICK x \in U : \A y \in U : ~(<<y, x>> \in R)
  BY <1>1, <1>3, WFMin
<1> USE DEF U
<1>5. x \in Nat /\ x # 0 /\ x - 1 \in Nat /\ x - 1 + 1 = x /\ x - 1 < x
  OBVIOUS
<1>6. x - 1 \in U
  BY <1>5
<1> QED BY <1>2, <1>4, <1>5, <1>6

\* The function that AddToCache defines by recursion exists.
LEMMA AddToCacheUnfolds ==
  ASSUME NEW c, NEW texts, NEW vectors, Len(texts) \in Nat
  PROVE \E f : /\ AddToCache(c, texts, vectors) = f[Len(texts)]
               /\ f = [n \in 0..Len(texts) |-> IF n = 0 THEN c ELSE Put(f[n - 1], texts[n], vectors[n])]
<1> DEFINE N == Len(texts)
           P(f, m) == f = [n \in 0..m |-> IF n = 0 THEN c ELSE Put(f[n - 1], texts[n], vectors[n])]
           T == {m \in Nat : \E g : P(g, m)}
<1>1. 0 \in T
  <2> DEFINE g == [n \in 0..0 |-> c]
  <2> HIDE DEF Put
  <2>1. P(g, 0)
    OBVIOUS
  <2> QED BY <2>1
<1>2. ASSUME NEW m \in Nat, m \in T PROVE m + 1 \in T
  <2> HIDE DEF Put
  <2>1. PICK g : P(g, m)
    BY <1>2
  <2> DEFINE h == [n \in 0..(m + 1) |-> IF n = 0 THEN c ELSE Put(g[n - 1], texts[n], vectors[n])]
  <2>2. \A n \in 0..m : h[n] = g[n]
    BY <2>1
  <2>3. P(h, m + 1)
    <3>1. ASSUME NEW n \in 0..(m + 1), n # 0 PROVE h[n - 1] = g[n - 1]
      <4>1. n - 1 \in 0..m
        BY <3>1
      <4> HIDE DEF h
      <4> QED BY <2>2, <4>1
    <3> QED BY <3>1
  <2> HIDE DEF h
  <2>4. \E f : P(f, m + 1)
    <3> HIDE DEF P
    <3> QED BY <2>3
  <2> QED BY <2>4
<1>3. N \in T
  <2> HIDE DEF T
  <2> QED BY <1>1, <1>2, SetInduction
<1>4. \E g : P(g, N)
  BY <1>3
<1> DEFINE f == CHOOSE g : P(g, N)
<1>5. P(f, N)
  <2> HIDE DEF P
  <2> QED BY <1>4
<1>6. AddToCache(c, texts, vectors) = f[N]
  BY DEF AddToCache
<1> HIDE DEF f
<1> QED BY <1>5, <1>6

\* The texts that are embedded at all.
AllTexts ==
  UNION {{s.work[t].arg[i] : i \in DOMAIN s.work[t].arg} : s \in Scenarios, t \in Tasks}
Entries == [text : AllTexts, vector : AllTexts]

CacheFits(c) ==
  /\ c \in Seq(Entries) /\ Len(c) <= CacheSize
  /\ \A i \in 1..Len(c) : c[i].vector = c[i].text
  /\ \A i, j \in 1..Len(c) : c[i].text = c[j].text => i = j

LEMMA PutFits ==
  ASSUME NEW c, CacheFits(c), NEW x \in AllTexts
  PROVE  CacheFits(Put(c, x, x))
<1> USE RetrievalAssumption
<1> DEFINE entry == [text |-> x, vector |-> x]
           at == {i \in DOMAIN c : c[i].text = x}
           all == IF at = {} THEN Append(c, entry)
                  ELSE [i \in DOMAIN c |-> IF i \in at THEN entry ELSE c[i]]
<1>1. entry \in Entries /\ entry.text = x /\ entry.vector = x
  BY DEF Entries
<1>2. /\ c \in Seq(Entries) /\ Len(c) \in Nat /\ DOMAIN c = 1..Len(c)
      /\ \A i \in 1..Len(c) : c[i] \in Entries
  BY DEF CacheFits
<1>3. CASE at # {}
  <2>1. \A i \in DOMAIN c : (IF i \in at THEN entry ELSE c[i]) = c[i]
    BY <1>1, <1>2 DEF CacheFits, Entries
  <2>2. all = c
    <3>1. c = [i \in DOMAIN c |-> c[i]]
      BY <1>2
    <3> HIDE DEF at, entry
    <3> QED BY <1>3, <2>1, <3>1
  <2>3. Put(c, x, x) = IF Len(all) > CacheSize
                         THEN SubSeq(all, Len(all) - CacheSize + 1, Len(all)) ELSE all
    BY DEF Put
  <2> HIDE DEF all
  <2> QED BY <1>2, <2>2, <2>3 DEF CacheFits
<1>4. CASE at = {}
  <2> DEFINE d == Append(c, entry)
             n == Len(c) + 1
  <2>1. /\ d \in Seq(Entries) /\ Len(d) = n
        /\ \A i \in 1..Len(c) : d[i] = c[i]
        /\ d[n] = entry
    BY <1>1, <1>2
  <2>2. /\ \A i \in 1..n : d[i].vector = d[i].text
        /\ \A i, j \in 1..n : d[i].text = d[j].text => i = j
    <3>1. \A i \in 1..n : i = n \/ i \in 1..Len(c)
      BY <1>2
    <3>2. \A i \in 1..Len(c) : c[i].text # x
      BY <1>2, <1>4
    <3> HIDE DEF d, entry, n
    <3> QED BY <1>1, <2>1, <3>1, <3>2 DEF CacheFits
  <2>3. Put(c, x, x) = IF Len(d) > CacheSize
                         THEN SubSeq(d, Len(d) - CacheSize + 1, Len(d)) ELSE d
    BY <1>4 DEF Put
  <2> HIDE DEF d
  <2>4. CASE ~(n > CacheSize)
    BY <1>2, <2>1, <2>2, <2>3, <2>4 DEF CacheFits
  <2>5. CASE n > CacheSize
    <3> DEFINE m == n - CacheSize + 1
               e == SubSeq(d, m, n)
    <3>1. n \in Nat /\ m \in Int /\ n \in Int /\ m >= 1
      BY <1>2, <2>5
    <3>2. \A i \in m..n : d[i] \in Entries
      BY <2>1, <3>1
    <3>3. e \in Seq(Entries) /\ Len(e) = IF m <= n THEN n - m + 1 ELSE 0
      BY <3>1, <3>2, SubSeqProperties
    <3>4. \A i \in 1..(n - m + 1) : e[i] = d[m + i - 1]
      BY <3>1, <3>2, SubSeqProperties
    <3>5. Len(e) = CacheSize /\ n - m + 1 = CacheSize
      BY <1>2, <3>3
    <3>6. Put(c, x, x) = e
      BY <2>1, <2>3, <2>5
    <3>7. \A i \in 1..CacheSize : e[i] = d[m + i - 1] /\ m + i - 1 \in 1..n
      BY <3>1, <3>4, <3>5
    <3> HIDE DEF e
    <3>8. \A i \in 1..CacheSize : e[i].vector = e[i].text
      BY <2>2, <3>7
    <3>9. \A i, j \in 1..CacheSize : e[i].text = e[j].text => i = j
      <4>1. ASSUME NEW i \in 1..CacheSize, NEW j \in 1..CacheSize, e[i].text = e[j].text
            PROVE  i = j
        <5>1. m + i - 1 = m + j - 1
          BY <2>2, <3>7, <4>1
        <5> QED BY <3>1, <5>1
      <4> QED BY <4>1
    <3> QED BY <3>3, <3>5, <3>6, <3>8, <3>9 DEF CacheFits
  <2> QED BY <2>4, <2>5
<1> QED BY <1>3, <1>4

\* The vectors of the texts are the texts.
LEMMA AddToCacheFits ==
  ASSUME NEW c, CacheFits(c), NEW texts \in Seq(AllTexts)
  PROVE  CacheFits(AddToCache(c, texts, texts))
<1> DEFINE N == Len(texts)
<1>1. N \in Nat /\ \A n \in 1..N : texts[n] \in AllTexts
  OBVIOUS
<1>2. PICK f : /\ AddToCache(c, texts, texts) = f[N]
               /\ f = [n \in 0..N |-> IF n = 0 THEN c ELSE Put(f[n - 1], texts[n], texts[n])]
  BY <1>1, AddToCacheUnfolds
<1>3. /\ f[0] = c
      /\ \A n \in 1..N : f[n] = Put(f[n - 1], texts[n], texts[n])
  <2> HIDE DEF Put
  <2> QED BY <1>1, <1>2
<1> DEFINE T == {n \in Nat : n <= N => CacheFits(f[n])}
<1>4. 0 \in T
  BY <1>3
<1>5. ASSUME NEW n \in Nat, n \in T PROVE n + 1 \in T
  <2>1. ASSUME n + 1 <= N PROVE CacheFits(f[n + 1])
    <3>1. n + 1 \in 1..N /\ n <= N /\ n + 1 - 1 = n
      BY <1>1, <2>1
    <3>2. CacheFits(f[n]) /\ f[n + 1] = Put(f[n], texts[n + 1], texts[n + 1])
      BY <1>3, <1>5, <3>1
    <3> QED BY <1>1, <3>1, <3>2, PutFits
  <2> QED BY <2>1
<1>6. N \in T
  <2> HIDE DEF T
  <2> QED BY <1>1, <1>4, <1>5, SetInduction
<1> QED BY <1>1, <1>2, <1>6

-----------------------------------------------------------------------------
(* The calls of EmbeddingProvider                                          *)

IsPrefixOf(p, a) ==
  p \in Seq(AllTexts) /\ Len(p) <= Len(a) /\ \A i \in 1..Len(p) : p[i] = a[i]

LEMMA WholePrefix ==
  ASSUME NEW a \in Seq(AllTexts), NEW p, IsPrefixOf(p, a), Len(p) >= Len(a)
  PROVE  p = a
<1>1. p \in Seq(AllTexts) /\ Len(p) = Len(a) /\ Len(p) \in Nat /\ Len(a) \in Nat
  BY DEF IsPrefixOf
<1>2. \A i \in 1..Len(p) : p[i] = a[i]
  BY DEF IsPrefixOf
<1> QED BY <1>1, <1>2, SeqEqual

\* The next elements are added to a prefix.
LEMMA LongerPrefix ==
  ASSUME NEW a \in Seq(AllTexts), NEW p, IsPrefixOf(p, a), NEW m \in Len(p)..Len(a)
  PROVE  /\ SubSeq(a, Len(p) + 1, m) \in Seq(AllTexts)
         /\ IsPrefixOf(p \o SubSeq(a, Len(p) + 1, m), a)
         /\ Len(p \o SubSeq(a, Len(p) + 1, m)) = m
<1> DEFINE n == Len(p)
           b == SubSeq(a, n + 1, m)
<1>1. p \in Seq(AllTexts) /\ n \in Nat /\ Len(a) \in Nat /\ m \in Int /\ n + 1 \in Int
      /\ n <= m /\ m <= Len(a)
  BY DEF IsPrefixOf
<1>2. \A i \in (n + 1)..m : a[i] \in AllTexts
  BY <1>1
<1>3. /\ b \in Seq(AllTexts)
      /\ Len(b) = IF n + 1 <= m THEN m - (n + 1) + 1 ELSE 0
      /\ \A i \in 1..(m - (n + 1) + 1) : b[i] = a[n + 1 + i - 1]
  BY <1>1, <1>2, SubSeqProperties
<1> HIDE DEF b
<1>4. Len(b) = m - n
  BY <1>1, <1>3
<1>5. \A i \in 1..(m - n) : b[i] = a[n + i]
  BY <1>1, <1>3
<1>6. /\ p \o b \in Seq(AllTexts) /\ Len(p \o b) = m
      /\ \A i \in 1..m : (p \o b)[i] = IF i <= n THEN p[i] ELSE b[i - n]
  BY <1>1, <1>3, <1>4, ConcatProperties
<1>7. \A i \in 1..m : (p \o b)[i] = a[i]
  <2>1. ASSUME NEW i \in 1..m, i <= n PROVE p[i] = a[i]
    BY <1>1, <2>1 DEF IsPrefixOf
  <2>2. ASSUME NEW i \in 1..m, ~(i <= n) PROVE b[i - n] = a[i]
    <3>1. i - n \in 1..(m - n) /\ n + (i - n) = i
      BY <1>1, <2>2
    <3> QED BY <1>5, <3>1
  <2> QED BY <1>6, <2>1, <2>2
<1> QED BY <1>1, <1>3, <1>6, <1>7 DEF IsPrefixOf, b

LEMMA EmptyPrefix == \A a \in Seq(AllTexts) : IsPrefixOf(<<>>, a)
BY DEF IsPrefixOf

\* The texts of a generate call, as Texts has them.
BatchOf(op, past, arg) ==
  LET n == Len(past)
  IN  IF op = "generate" THEN arg
      ELSE SubSeq(arg, n + 1, IF n + BatchSize < Len(arg) THEN n + BatchSize ELSE Len(arg))

LEMMA BatchFits ==
  ASSUME NEW op, NEW arg \in Seq(AllTexts), NEW past, IsPrefixOf(past, arg),
         op = "generate" => past = <<>>
  PROVE  /\ BatchOf(op, past, arg) \in Seq(AllTexts)
         /\ IsPrefixOf(past \o BatchOf(op, past, arg), arg)
         /\ op = "generate" => past \o BatchOf(op, past, arg) = arg
<1> USE RetrievalAssumption
<1>1. CASE op = "generate"
  <2>1. BatchOf(op, past, arg) = arg /\ past = <<>>
    BY <1>1 DEF BatchOf
  <2>2. <<>> \o arg = arg
    BY ConcatEmptySeq
  <2>3. IsPrefixOf(arg, arg)
    BY DEF IsPrefixOf
  <2> QED BY <2>1, <2>2, <2>3
<1>2. CASE op # "generate"
  <2> DEFINE n == Len(past)
             m == IF n + BatchSize < Len(arg) THEN n + BatchSize ELSE Len(arg)
  <2>1. m \in n..Len(arg)
    BY DEF IsPrefixOf
  <2>2. BatchOf(op, past, arg) = SubSeq(arg, n + 1, m)
    BY <1>2 DEF BatchOf
  <2> HIDE DEF m
  <2> QED BY <1>2, <2>1, <2>2, LongerPrefix
<1> QED BY <1>1, <1>2

EmbedFits(t) ==
  call[t].op \in EmbedOps =>
    /\ call[t].pc \in {"generate", "batch", "returned", "raised"}
    /\ call[t].arg \in Seq(AllTexts)
    /\ call[t].pc \in {"generate", "batch"} =>
         /\ IsPrefixOf(call[t].past, call[t].arg)
         /\ call[t].op = "generate" => call[t].past = <<>>
         /\ IsPrefixOf(call[t].got, BatchOf(call[t].op, call[t].past, call[t].arg))
         /\ call[t].tries \in 0..2
    /\ call[t].pc = "returned" => call[t].result = call[t].arg

EmbedInv ==
  /\ FlowInv
  /\ cache = [w \in Workers |-> cache[w]] /\ \A w \in Workers : CacheFits(cache[w])
  /\ \A t \in Tasks : EmbedFits(t)

LEMMA EmptyCache == CacheFits(<<>>)
BY RetrievalAssumption DEF CacheFits

LEMMA NoCallFits ==
  ASSUME NEW t \in Tasks
  PROVE  /\ call[t] = NoCall => EmbedFits(t)
         /\ call'[t] = NoCall => EmbedFits(t)'
<1>1. NoCall.op \notin EmbedOps
  BY DEF NoCall, None, EmbedOps
<1> QED BY <1>1 DEF EmbedFits

LEMMA InitEmbed == Init => EmbedInv
<1> SUFFICES ASSUME Init PROVE EmbedInv
  OBVIOUS
<1>1. /\ \A t \in Tasks : call[t] = NoCall
      /\ cache = [w \in Workers |-> <<>>]
  BY DEF Init, RetrievalInit
<1> QED BY <1>1, InitFlow, EmptyCache, NoCallFits DEF EmbedInv

\* What the steps of an embedding call do to its record.
LEMMA ToKeeps ==
  ASSUME CallsTyped, NEW t \in Tasks, NEW pc, To(t, pc)
  PROVE  /\ call'[t].got = call[t].got /\ call'[t].past = call[t].past
         /\ call'[t].tries = call[t].tries
BY DEF CallsTyped, To, IsCall

LEMMA EmbedBegins ==
  ASSUME CallsTyped, NEW t \in Tasks, NEW op \in EmbedOps, NEW arg, Begins(t, op, arg)
  PROVE  /\ call'[t].pc = "generate" /\ call'[t].got = <<>> /\ call'[t].past = <<>>
         /\ call'[t].tries = 0
<1> DEFINE one == [NoCall EXCEPT !.op = op]
           two == [one EXCEPT !.arg = arg]
           three == [two EXCEPT !.late = collection]
           four == [three EXCEPT !.pc = "generate"]
           pc == CASE op \in VectorOps -> "ensure"
                   [] op = "topology" -> "initialize"
                   [] op \in GraphOps \ {"topology"} -> "query"
                   [] OTHER -> "generate"
<1>1. pc = "generate"
  <2>1. op \notin VectorOps /\ op # "topology" /\ op \notin GraphOps
    BY DEF EmbedOps, VectorOps, GraphOps
  <2> QED BY <2>1
<1>2. call' = [call EXCEPT ![t] = [three EXCEPT !.pc = pc]]
  BY DEF Begins
<1> HIDE DEF pc
<1>3. call'[t] = four
  BY <1>1, <1>2 DEF CallsTyped
<1>4. IsCall(NoCall) /\ NoCall.got = <<>> /\ NoCall.past = <<>> /\ NoCall.tries = 0
  BY DEF NoCall, IsCall
<1>5. IsCall(one) /\ one.got = <<>> /\ one.past = <<>> /\ one.tries = 0
  BY <1>4 DEF IsCall
<1> HIDE DEF one
<1>6. IsCall(two) /\ two.got = <<>> /\ two.past = <<>> /\ two.tries = 0
  BY <1>5 DEF IsCall
<1> HIDE DEF two
<1>7. IsCall(three) /\ three.got = <<>> /\ three.past = <<>> /\ three.tries = 0
  BY <1>6 DEF IsCall
<1> HIDE DEF three
<1>8. four.pc = "generate" /\ four.got = <<>> /\ four.past = <<>> /\ four.tries = 0
  BY <1>7 DEF IsCall
<1> QED BY <1>3, <1>8

LEMMA GeneratedMoves ==
  ASSUME CallsTyped, NEW t \in Tasks, NEW vectors, Generated(t, vectors)
  PROVE  \/ /\ Len(call[t].past \o vectors) >= Len(call[t].arg)
            /\ call'[t].pc = "returned" /\ call'[t].result = call[t].past \o vectors
         \/ /\ ~(Len(call[t].past \o vectors) >= Len(call[t].arg))
            /\ call'[t].pc = "generate" /\ call'[t].past = call[t].past \o vectors
            /\ call'[t].got = <<>> /\ call'[t].tries = 0
<1> DEFINE past == call[t].past \o vectors
           one == [call[t] EXCEPT !.past = past]
           two == [one EXCEPT !.pc = "generate"]
           three == [two EXCEPT !.got = <<>>]
           four == [three EXCEPT !.tries = 0]
<1>1. CASE Len(past) >= Len(call[t].arg)
  <2>1. Returns(t, past)
    BY <1>1 DEF Generated
  <2> HIDE DEF past
  <2>2. call'[t].pc = "returned" /\ call'[t].result = past
    BY <2>1, ReturnsMoves
  <2> QED BY <1>1, <2>2 DEF past
<1>2. CASE ~(Len(past) >= Len(call[t].arg))
  <2>1. call'[t] = four /\ IsCall(call[t])
    BY <1>2 DEF Generated, CallsTyped
  <2> HIDE DEF past
  <2>2. IsCall(one) /\ one.past = past
    BY <2>1 DEF IsCall
  <2> HIDE DEF one
  <2>3. IsCall(two) /\ two.past = past /\ two.pc = "generate"
    BY <2>2 DEF IsCall
  <2> HIDE DEF two
  <2>4. IsCall(three) /\ three.past = past /\ three.pc = "generate" /\ three.got = <<>>
    BY <2>3 DEF IsCall
  <2> HIDE DEF three
  <2>5. four.past = past /\ four.pc = "generate" /\ four.got = <<>> /\ four.tries = 0
    BY <2>4 DEF IsCall
  <2> QED BY <1>2, <2>1, <2>5 DEF past
<1> QED BY <1>1, <1>2

\* A generate call has the vectors of its texts: they are put behind those
\* of the batches before.
LEMMA GeneratedFits ==
  ASSUME CallsTyped, NEW t \in Tasks, EmbedFits(t), call[t].op \in EmbedOps,
         call[t].pc \in {"generate", "batch"}, CallMoves(t), Generated(t, Texts(t))
  PROVE  EmbedFits(t)'
<1> DEFINE op == call[t].op
           arg == call[t].arg
           past == call[t].past
           all == past \o Texts(t)
<1>1. /\ arg \in Seq(AllTexts) /\ IsPrefixOf(past, arg)
      /\ op = "generate" => past = <<>>
      /\ Texts(t) = BatchOf(op, past, arg)
  BY DEF EmbedFits, Texts, BatchOf
<1>2. IsPrefixOf(all, arg) /\ (op = "generate" => all = arg)
  <2> HIDE DEF op, arg, past
  <2> QED BY <1>1, BatchFits
<1>3. call'[t].op = op /\ call'[t].arg = arg
  BY DEF CallMoves
<1>4. CASE Len(all) >= Len(arg) /\ call'[t].pc = "returned" /\ call'[t].result = all
  <2>1. all = arg
    <3> HIDE DEF all, arg
    <3> QED BY <1>1, <1>2, <1>4, WholePrefix
  <2> HIDE DEF all, op
  <2> QED BY <1>1, <1>3, <1>4, <2>1 DEF EmbedFits
<1>5. CASE ~(Len(all) >= Len(arg)) /\ call'[t].pc = "generate" /\ call'[t].past = all
           /\ call'[t].got = <<>> /\ call'[t].tries = 0
  <2>1. op # "generate"
    <3>1. Len(arg) \in Nat
      BY <1>1
    <3>2. all = arg => Len(all) >= Len(arg)
      BY <3>1
    <3> QED BY <1>2, <1>5, <3>2
  <2>2. BatchOf(op, all, arg) \in Seq(AllTexts)
    <3> HIDE DEF all, arg, op
    <3> QED BY <1>1, <1>2, <2>1, BatchFits
  <2>3. IsPrefixOf(<<>>, BatchOf(op, all, arg))
    BY <2>2, EmptyPrefix
  <2> HIDE DEF all, arg
  <2> QED BY <1>1, <1>2, <1>3, <1>5, <2>1, <2>3 DEF EmbedFits
<1> QED BY <1>4, <1>5, GeneratedMoves

\* The texts of a generate call are those that Texts has.
LEMMA TextsFit ==
  ASSUME NEW t \in Tasks, EmbedFits(t), call[t].op \in EmbedOps,
         call[t].pc \in {"generate", "batch"}
  PROVE  /\ Texts(t) \in Seq(AllTexts)
         /\ Texts(t) = BatchOf(call[t].op, call[t].past, call[t].arg)
         /\ IsPrefixOf(call[t].got, Texts(t))
<1>1. Texts(t) = BatchOf(call[t].op, call[t].past, call[t].arg)
  BY DEF Texts, BatchOf
<1> HIDE DEF Texts
<1> QED BY <1>1, BatchFits DEF EmbedFits

\* A full cache answers the vectors of the texts.
LEMMA GenerateGives ==
  ASSUME EmbedInv, NEW t \in Tasks, Generate(t)
  PROVE  To(t, "batch") \/ Generated(t, Texts(t))
<1> USE RetrievalAssumption
<1> DEFINE w == WorkerOf[t]
           texts == Texts(t)
           vectors == [i \in DOMAIN texts |->
                         cache[w][CHOOSE j \in Cached(w, texts[i]) : TRUE].vector]
<1>1. /\ EmbedFits(t) /\ w \in Workers /\ CacheFits(cache[w])
      /\ call[t].op \in EmbedOps /\ call[t].pc = "generate"
  BY DEF EmbedInv, Generate, At
<1>2. texts \in Seq(AllTexts)
  BY <1>1, TextsFit
<1>3. CASE /\ \A i \in DOMAIN texts : Cached(w, texts[i]) # {}
           /\ Generated(t, vectors)
  <2>1. ASSUME NEW i \in DOMAIN texts
        PROVE  cache[w][CHOOSE j \in Cached(w, texts[i]) : TRUE].vector = texts[i]
    <3> DEFINE j == CHOOSE k \in Cached(w, texts[i]) : TRUE
    <3>1. j \in Cached(w, texts[i])
      BY <1>3
    <3>2. j \in DOMAIN cache[w] /\ cache[w][j].text = texts[i]
      BY <3>1 DEF Cached
    <3> HIDE DEF j, texts
    <3>3. cache[w][j].vector = cache[w][j].text
      BY <1>1, <3>2 DEF CacheFits
    <3> QED BY <3>2, <3>3 DEF j
  <2>2. vectors = texts
    <3>1. vectors = [i \in DOMAIN texts |-> texts[i]]
      BY <2>1
    <3> HIDE DEF vectors, texts
    <3> QED BY <1>2, <3>1
  <2> QED BY <1>3, <2>2
<1> QED BY <1>3 DEF Generate

LEMMA GenerateFits ==
  ASSUME EmbedInv, NEW t \in Tasks, Generate(t)
  PROVE  EmbedFits(t)' /\ cache' = cache
<1>1. /\ CallsTyped /\ EmbedFits(t)
      /\ call[t].op \in EmbedOps /\ call[t].pc = "generate" /\ cache' = cache
  BY DEF EmbedInv, FlowInv, Generate, At, flags
<1>2. CallMoves(t)
  BY <1>1, RetrievalMoves DEF RetrievalStep
<1>3. CASE To(t, "batch")
  <2>1. /\ call'[t].pc = "batch" /\ call'[t].got = call[t].got
        /\ call'[t].past = call[t].past /\ call'[t].tries = call[t].tries
    BY <1>1, <1>3, ToMoves, ToKeeps
  <2> QED BY <1>1, <1>2, <2>1 DEF EmbedFits, CallMoves
<1>4. CASE Generated(t, Texts(t))
  BY <1>1, <1>2, <1>4, GeneratedFits
<1> QED BY <1>1, <1>3, <1>4, GenerateGives

\* A batch is answered: it is the last one, or more of the vectors are there.
LEMMA EmbedBatchGives ==
  ASSUME EmbedInv, NEW t \in Tasks, EmbedBatch(t)
  PROVE  \/ /\ Generated(t, Texts(t))
            /\ cache' = [cache EXCEPT ![WorkerOf[t]] = AddToCache(@, Texts(t), Texts(t))]
         \/ /\ \E got : /\ call' = [call EXCEPT ![t].got = got]
                         /\ IsPrefixOf(got, Texts(t)) /\ Len(got) > Len(call[t].got)
            /\ UNCHANGED cache
<1> USE RetrievalAssumption
<1> DEFINE texts == Texts(t)
           n == Len(call[t].got)
           upto == IF n + BatchSize < Len(texts) THEN n + BatchSize ELSE Len(texts)
           got == call[t].got \o SubSeq(texts, n + 1, upto)
<1>1. /\ EmbedFits(t) /\ call[t].op \in EmbedOps /\ call[t].pc = "batch"
  BY DEF EmbedInv, EmbedBatch, At
<1>2. texts \in Seq(AllTexts) /\ IsPrefixOf(call[t].got, texts)
  BY <1>1, TextsFit
<1>3. /\ upto = Len(texts) => cache' = [cache EXCEPT ![WorkerOf[t]] = AddToCache(@, texts, got)]
                              /\ Generated(t, got)
      /\ upto # Len(texts) => call' = [call EXCEPT ![t].got = got] /\ UNCHANGED cache
  BY DEF EmbedBatch
<1> HIDE DEF texts
<1>4. upto \in n..Len(texts) /\ (upto # Len(texts) => upto > n)
  BY <1>2 DEF IsPrefixOf
<1>5. IsPrefixOf(got, texts) /\ Len(got) = upto
  <2> HIDE DEF upto
  <2>1. ASSUME NEW p, IsPrefixOf(p, texts), upto \in Len(p)..Len(texts)
        PROVE  /\ IsPrefixOf(p \o SubSeq(texts, Len(p) + 1, upto), texts)
               /\ Len(p \o SubSeq(texts, Len(p) + 1, upto)) = upto
    BY ONLY <1>2, <2>1, LongerPrefix
  <2> QED BY ONLY <1>2, <1>4, <2>1
<1> HIDE DEF got, upto
<1>6. CASE upto = Len(texts)
  <2>1. got = texts
    BY <1>2, <1>4, <1>5, <1>6, WholePrefix
  <2> QED BY <1>3, <1>6, <2>1 DEF texts
<1>7. CASE upto # Len(texts)
  <2>1. IsPrefixOf(got, Texts(t)) /\ Len(got) > Len(call[t].got)
    BY <1>4, <1>5, <1>7 DEF texts
  <2> QED BY <1>3, <1>7, <2>1
<1> QED BY <1>6, <1>7

LEMMA EmbedBatchFits ==
  ASSUME EmbedInv, NEW t \in Tasks, EmbedBatch(t)
  PROVE  /\ EmbedFits(t)'
         /\ cache' = [w \in Workers |-> cache'[w]] /\ \A w \in Workers : CacheFits(cache'[w])
<1> USE RetrievalAssumption
<1> DEFINE w == WorkerOf[t]
           texts == Texts(t)
<1>1. /\ CallsTyped /\ EmbedFits(t) /\ w \in Workers /\ CacheFits(cache[w])
      /\ call[t].op \in EmbedOps /\ call[t].pc = "batch"
  BY DEF EmbedInv, FlowInv, EmbedBatch, At
<1>2. CallMoves(t)
  BY <1>1, RetrievalMoves DEF RetrievalStep
<1>3. /\ texts \in Seq(AllTexts)
      /\ texts = BatchOf(call[t].op, call[t].past, call[t].arg)
  BY <1>1, TextsFit
<1> HIDE DEF texts
<1>4. CASE /\ Generated(t, Texts(t))
           /\ cache' = [cache EXCEPT ![w] = AddToCache(@, texts, texts)]
  <2>1. EmbedFits(t)'
    BY <1>1, <1>2, <1>4, GeneratedFits
  <2>2. CacheFits(AddToCache(cache[w], texts, texts))
    BY <1>1, <1>3, AddToCacheFits
  <2> HIDE DEF w
  <2>3. /\ cache' = [v \in Workers |-> cache'[v]]
        /\ \A v \in Workers : cache'[v] = IF v = w THEN AddToCache(cache[w], texts, texts)
                                          ELSE cache[v]
    BY <1>4 DEF EmbedInv
  <2> QED BY <2>1, <2>2, <2>3 DEF EmbedInv
<1>5. ASSUME NEW got, call' = [call EXCEPT ![t].got = got], IsPrefixOf(got, texts),
             UNCHANGED cache
      PROVE  EmbedFits(t)' /\ cache' = cache
  <2>1. /\ call'[t].got = got /\ call'[t].past = call[t].past /\ call'[t].pc = "batch"
        /\ call'[t].tries = call[t].tries
    BY <1>1, <1>5 DEF CallsTyped, IsCall
  <2> QED BY <1>1, <1>2, <1>3, <1>5, <2>1 DEF EmbedFits, CallMoves
<1>6. \/ EmbedFits(t)' /\ cache' = cache
      \/ /\ Generated(t, Texts(t))
         /\ cache' = [cache EXCEPT ![w] = AddToCache(@, texts, texts)]
  BY <1>5, EmbedBatchGives DEF texts
<1> QED BY <1>4, <1>6 DEF EmbedInv

\* A rate limit or a timeout that is tried again.
LEMMA RetryMoves ==
  ASSUME CallsTyped, NEW t \in Tasks, EmbedBatchFails(t), ~Raises(t)
  PROVE  /\ call'[t].pc = "generate" /\ call'[t].past = call[t].past
         /\ call'[t].tries = call[t].tries + 1 /\ call'[t].got = <<>>
         /\ call[t].tries < 2
<1> DEFINE one == [call[t] EXCEPT !.pc = "generate"]
           two == [one EXCEPT !.tries = @ + 1]
           three == [two EXCEPT !.got = <<>>]
<1>1. call'[t] = three /\ IsCall(call[t]) /\ call[t].tries < 2
  BY DEF EmbedBatchFails, CallsTyped
<1>2. IsCall(one) /\ one.pc = "generate" /\ one.past = call[t].past /\ one.tries = call[t].tries
  BY <1>1 DEF IsCall
<1> HIDE DEF one
<1>3. /\ IsCall(two) /\ two.pc = "generate" /\ two.past = call[t].past
      /\ two.tries = call[t].tries + 1
  BY <1>2 DEF IsCall
<1> HIDE DEF two
<1>4. /\ three.pc = "generate" /\ three.past = call[t].past
      /\ three.tries = call[t].tries + 1 /\ three.got = <<>>
  BY <1>3 DEF IsCall
<1> QED BY <1>1, <1>4

LEMMA EmbedRetryFits ==
  ASSUME EmbedInv, NEW t \in Tasks, EmbedBatchFails(t)
  PROVE  EmbedFits(t)' /\ cache' = cache
<1>1. /\ CallsTyped /\ EmbedFits(t) /\ cache' = cache
      /\ call[t].op \in EmbedOps /\ call[t].pc = "batch"
  BY DEF EmbedInv, FlowInv, EmbedBatchFails, At, flags
<1>2. CallMoves(t)
  BY <1>1, RetrievalMoves DEF RetrievalStep
<1>3. CASE Raises(t)
  <2>1. call'[t].pc = "raised"
    BY <1>1, <1>3, RaisesMoves
  <2> QED BY <1>1, <1>2, <2>1 DEF EmbedFits, CallMoves
<1>4. CASE ~Raises(t)
  <2>1. /\ call'[t].pc = "generate" /\ call'[t].past = call[t].past
        /\ call'[t].tries \in 0..2 /\ call'[t].got = <<>>
    BY <1>1, <1>4, RetryMoves DEF EmbedFits
  <2>2. IsPrefixOf(<<>>, BatchOf(call[t].op, call[t].past, call[t].arg))
    BY <1>1, BatchFits, EmptyPrefix DEF EmbedFits
  <2> QED BY <1>1, <1>2, <2>1, <2>2 DEF EmbedFits, CallMoves
<1> QED BY <1>3, <1>4

LEMMA OtherEmbedFits ==
  ASSUME NEW u \in Tasks, EmbedFits(u), call'[u] = call[u]
  PROVE  EmbedFits(u)'
BY DEF EmbedFits

LEMMA RetrievalEmbed ==
  ASSUME EmbedInv, NEW t \in Tasks, RetrievalStep(t)
  PROVE  /\ \A u \in Tasks : EmbedFits(u)'
         /\ cache' = [w \in Workers |-> cache'[w]] /\ \A w \in Workers : CacheFits(cache'[w])
<1>1. CallMoves(t)
  BY RetrievalMoves DEF EmbedInv, FlowInv
<1>2. \A u \in Tasks \ {t} : EmbedFits(u)'
  BY <1>1, OtherEmbedFits DEF CallMoves, EmbedInv
<1>3. CASE Generate(t) \/ EmbedBatch(t) \/ EmbedBatchFails(t)
  BY <1>2, <1>3, GenerateFits, EmbedBatchFits, EmbedRetryFits DEF EmbedInv
<1>4. CASE EnsureCollection(t) \/ CreateCollection(t) \/ EnsureRaises(t) \/ UsePoints(t)
           \/ UsePointsFails(t) \/ InitializeGraph(t) \/ Topology(t) \/ Impacted(t)
           \/ AddService(t) \/ AddDependency(t)
  <2>1. call[t].op \notin EmbedOps
    BY <1>4 DEF EnsureCollection, CreateCollection, EnsureRaises, UsePoints, UsePointsFails,
      InitializeGraph, Topology, Impacted, AddService, AddDependency, At, VectorOps, EmbedOps
  <2>2. cache' = cache
    BY <1>4 DEF EnsureCollection, CreateCollection, EnsureRaises, UsePoints, UsePointsFails,
      InitializeGraph, Topology, Impacted, AddService, AddDependency, flags
  <2>3. EmbedFits(t)'
    BY <1>1, <2>1 DEF EmbedFits, CallMoves
  <2> QED BY <1>2, <2>2, <2>3 DEF EmbedInv
<1> QED BY <1>3, <1>4 DEF RetrievalStep

LEMMA EmbedArg ==
  ASSUME scenario \in Scenarios, NEW t \in Tasks, Kind(t) \in EmbedOps
  PROVE  Arg(t) \in Seq(AllTexts)
<1> DEFINE arg == Arg(t)
           S == {arg[i] : i \in DOMAIN arg}
<1>1. arg \in Seq(S)
  BY DiagnosisAssumption DEF Kind, Arg
<1>2. S \subseteq AllTexts
  <2> DEFINE of(s, u) == {s.work[u].arg[i] : i \in DOMAIN s.work[u].arg}
  <2>1. S = of(scenario, t)
    BY DEF Arg
  <2>2. AllTexts = UNION {of(s, u) : s \in Scenarios, u \in Tasks}
    BY DEF AllTexts
  <2> HIDE DEF of, S
  <2> QED BY <2>1, <2>2
<1> HIDE DEF arg, S
<1>3. Seq(S) \subseteq Seq(AllTexts)
  BY <1>2
<1> QED BY <1>1, <1>3 DEF arg

LEMMA StepEmbed ==
  ASSUME EmbedInv, [Next]_vars
  PROVE  EmbedInv'
<1>1. FlowInv' /\ CallsTyped /\ scenario \in Scenarios
  BY StepFlow DEF EmbedInv, FlowInv, FlowsTyped
<1>2. CASE \E t \in Tasks : RetrievalStep(t)
  BY <1>1, <1>2, RetrievalEmbed DEF EmbedInv
<1>3. CASE \E t \in Tasks : Begun(t) /\ UNCHANGED <<stores, flags, faults>>
  <2>1. PICK t \in Tasks : Begun(t) /\ cache' = cache
    BY <1>3 DEF flags
  <2>2. PICK op, arg :
          Begins(t, op, arg) /\ (op \in EmbedOps => op = Kind(t) /\ arg = Arg(t))
    BY <2>1 DEF Begun
  <2>3. /\ \A u \in Tasks \ {t} : call'[u] = call[u]
        /\ call'[t].op = op /\ call'[t].arg = arg
    BY <1>1, <2>2, BeginsCall
  <2>4. EmbedFits(t)'
    <3> SUFFICES ASSUME op \in EmbedOps PROVE EmbedFits(t)'
      BY <2>3 DEF EmbedFits
    <3>1. /\ call'[t].pc = "generate" /\ call'[t].got = <<>> /\ call'[t].past = <<>>
          /\ call'[t].tries = 0
      BY <1>1, <2>2, EmbedBegins
    <3>2. arg \in Seq(AllTexts)
      BY <1>1, <2>2, EmbedArg
    <3>3. IsPrefixOf(<<>>, arg)
      BY <3>2, EmptyPrefix
    <3>4. IsPrefixOf(<<>>, BatchOf(op, <<>>, arg))
      BY <3>2, <3>3, BatchFits, EmptyPrefix
    <3> QED BY <2>3, <3>1, <3>2, <3>3, <3>4 DEF EmbedFits
  <2> QED BY <1>1, <2>1, <2>3, <2>4, OtherEmbedFits DEF EmbedInv
<1>4. CASE \E t \in Tasks : Taken(t) /\ UNCHANGED <<stores, flags>>
  <2>1. PICK t \in Tasks : Taken(t) /\ cache' = cache
    BY <1>4 DEF flags
  <2>2. call'[t] = NoCall /\ \A u \in Tasks \ {t} : call'[u] = call[u]
    BY <1>1, <2>1 DEF Taken, CallsTyped
  <2> QED BY <1>1, <2>1, <2>2, NoCallFits, OtherEmbedFits DEF EmbedInv
<1>5. CASE \E w \in Workers : ForgetRetrieval(w)
  <2>1. PICK w \in Workers : ForgetRetrieval(w)
    BY <1>5
  <2>2. \A t \in Tasks : call'[t] = NoCall \/ call'[t] = call[t]
    BY <2>1 DEF ForgetRetrieval
  <2>3. /\ cache' = [v \in Workers |-> cache'[v]]
        /\ \A v \in Workers : cache'[v] = <<>> \/ cache'[v] = cache[v]
    BY <2>1 DEF ForgetRetrieval, EmbedInv
  <2> QED BY <1>1, <2>2, <2>3, NoCallFits, OtherEmbedFits, EmptyCache DEF EmbedInv
<1>6. CASE UNCHANGED <<stores, flags, call>>
  BY <1>1, <1>6, OtherEmbedFits DEF EmbedInv, flags
<1> QED BY <1>2, <1>3, <1>4, <1>5, <1>6, NextIsClientStep DEF ClientSteps

\* EmbeddingProvider.generate, generate_batch and _add_to_cache, with batches
\* of other tasks between the awaits, rate limits and retries: a call answers
\* the vectors of its texts in their order, and the cache has each key once,
\* with its own vector, and keeps to its size.
THEOREM EmbeddingsFitHolds == Spec => []EmbeddingsFit
<1>1. EmbedInv => EmbeddingsFit
  <2> SUFFICES ASSUME EmbedInv PROVE EmbeddingsFit
    OBVIOUS
  <2>1. \A t \in Tasks :
          call[t].op \in EmbedOps /\ call[t].pc = "returned" => call[t].result = call[t].arg
    BY DEF EmbedInv, EmbedFits
  <2>2. \A w \in Workers : CacheFits(cache[w]) /\ DOMAIN cache[w] = 1..Len(cache[w])
    BY DEF EmbedInv, CacheFits
  <2> QED BY <2>1, <2>2 DEF CacheFits, EmbeddingsFit
<1> QED BY InitEmbed, StepEmbed, <1>1, PTL DEF Spec

-----------------------------------------------------------------------------
(* The locks of the breakers                                               *)

\* Where a task is between __aenter__ and __aexit__ of a breaker's lock.
\* The analyses of a batch and of a stream ask without it.
Inside(b) == CASE b = "qdrant" -> "searching" [] b = "neo4j" -> "relating" [] b = "llm" -> "asking"
HasEntered(t, b) == Kind(t) = "alert" /\ flow[t].pc = Inside(b)
Holds(t, b) == holder[WorkerOf[t]][b] = t

HolderTyped == holder \in [Workers -> [Breakers -> Tasks \cup {Free}]]

\* A lock is held by those who are inside of it, and by nobody else.
LocksAreInUse ==
  /\ \A t \in Tasks, b \in Breakers : Holds(t, b) <=> HasEntered(t, b)
  /\ \A w \in Workers, b \in Breakers :
       holder[w][b] # Free => \E t \in Tasks : WorkerOf[t] = w /\ Holds(t, b)

LockInv == HolderTyped /\ LocksAreInUse

\* A task is inside of one lock at most.
LEMMA OneLock ==
  \A b, c \in Breakers : Inside(b) = Inside(c) => b = c
BY DEF Inside, Breakers

LEMMA InitLocks == Init => LockInv
<1> SUFFICES ASSUME Init PROVE LockInv
  OBVIOUS
<1> USE RetrievalAssumption, DiagnosisAssumption DEF Free
<1>1. /\ \A w \in Workers, b \in Breakers : holder[w][b] = Free
      /\ HolderTyped
      /\ \A t \in Tasks : flow[t].pc = "idle"
  BY DEF Init, HolderTyped, NoFlow
<1>2. \A b \in Breakers : Inside(b) # "idle"
  BY DEF Inside, Breakers
<1> QED BY <1>1, <1>2 DEF LockInv, LocksAreInUse, Holds, HasEntered

\* A step that enters no lock and leaves none.
LEMMA OtherLocks ==
  ASSUME LockInv, holder' = holder, scenario' = scenario,
         \A t \in Tasks, b \in Breakers :
            Kind(t) = "alert" => (flow'[t].pc = Inside(b) <=> flow[t].pc = Inside(b))
  PROVE  LockInv'
<1>1. \A t \in Tasks, b \in Breakers : HasEntered(t, b)' <=> HasEntered(t, b)
  BY DEF HasEntered, Kind
<1> QED BY <1>1 DEF LockInv, HolderTyped, LocksAreInUse, Holds

\* The step of a task that is outside, and stays there.
LEMMA OutsideLocks ==
  ASSUME LockInv, holder' = holder, scenario' = scenario, NEW t \in Tasks, FlowMoves(t),
         Kind(t) = "alert" =>
           \A b \in Breakers : flow[t].pc # Inside(b) /\ flow'[t].pc # Inside(b)
  PROVE  LockInv'
BY OtherLocks DEF FlowMoves

LEMMA EntersLock ==
  ASSUME LockInv, scenario' = scenario, NEW t \in Tasks, FlowMoves(t), Kind(t) = "alert",
         NEW b \in Breakers, Acquire(t, b), flow'[t].pc = Inside(b),
         \A c \in Breakers : flow[t].pc # Inside(c)
  PROVE  LockInv'
<1> USE RetrievalAssumption, DiagnosisAssumption DEF Free
<1> DEFINE w == WorkerOf[t]
<1>1. w \in Workers
  OBVIOUS
<1>2. /\ HolderTyped'
      /\ holder[w][b] = Free /\ holder'[w][b] = t
      /\ \A v \in Workers, c \in Breakers : (v # w \/ c # b) => holder'[v][c] = holder[v][c]
  BY <1>1 DEF LockInv, HolderTyped, Acquire
<1>3. ASSUME NEW u \in Tasks, NEW c \in Breakers
      PROVE  Holds(u, c)' <=> HasEntered(u, c)'
  <2>1. Kind(u)' = Kind(u) /\ (Holds(u, c) <=> HasEntered(u, c)) /\ WorkerOf[u] \in Workers
    BY DEF Kind, LockInv, LocksAreInUse
  <2>2. CASE u = t
    <3>1. HasEntered(t, c)' <=> c = b
      BY <2>1, <2>2, OneLock DEF HasEntered
    <3>2. ~HasEntered(t, c)
      BY DEF HasEntered
    <3>3. Holds(t, c)' <=> c = b
      BY <1>1, <1>2, <2>1, <2>2, <3>2 DEF Holds
    <3> QED BY <2>2, <3>1, <3>3
  <2>3. CASE u # t
    <3>1. HasEntered(u, c)' <=> HasEntered(u, c)
      BY <2>1, <2>3 DEF HasEntered, FlowMoves
    <3>2. Holds(u, c)' <=> Holds(u, c)
      BY <1>2, <2>1, <2>3 DEF Holds
    <3> QED BY <2>1, <3>1, <3>2
  <2> QED BY <2>2, <2>3
<1>4. ASSUME NEW v \in Workers, NEW c \in Breakers, holder'[v][c] # Free
      PROVE  \E u \in Tasks : WorkerOf[u] = v /\ Holds(u, c)'
  BY <1>1, <1>2, <1>4 DEF LockInv, LocksAreInUse, Holds
<1> QED BY <1>2, <1>3, <1>4 DEF LockInv, LocksAreInUse

LEMMA LeavesLock ==
  ASSUME LockInv, scenario' = scenario, NEW t \in Tasks, FlowMoves(t), Kind(t) = "alert",
         NEW b \in Breakers, Release(t, b), flow[t].pc = Inside(b),
         \A c \in Breakers : flow'[t].pc # Inside(c)
  PROVE  LockInv'
<1> USE RetrievalAssumption, DiagnosisAssumption DEF Free
<1> DEFINE w == WorkerOf[t]
<1>1. w \in Workers
  OBVIOUS
<1>2. /\ HolderTyped'
      /\ holder[w][b] = t /\ holder'[w][b] = Free
      /\ \A v \in Workers, c \in Breakers : (v # w \/ c # b) => holder'[v][c] = holder[v][c]
  BY <1>1 DEF LockInv, HolderTyped, Release, LocksAreInUse, Holds, HasEntered
<1>3. ASSUME NEW u \in Tasks, NEW c \in Breakers
      PROVE  Holds(u, c)' <=> HasEntered(u, c)'
  <2>1. Kind(u)' = Kind(u) /\ (Holds(u, c) <=> HasEntered(u, c)) /\ WorkerOf[u] \in Workers
    BY DEF Kind, LockInv, LocksAreInUse
  <2>2. CASE u = t
    <3>1. ~HasEntered(t, c)' /\ (HasEntered(t, c) <=> c = b)
      BY <2>1, <2>2, OneLock DEF HasEntered
    <3>2. ~Holds(t, c)'
      BY <1>1, <1>2, <2>1, <2>2, <3>1 DEF Holds
    <3> QED BY <2>2, <3>1, <3>2
  <2>3. CASE u # t
    <3>1. HasEntered(u, c)' <=> HasEntered(u, c)
      BY <2>1, <2>3 DEF HasEntered, FlowMoves
    <3>2. Holds(u, c)' <=> Holds(u, c)
      BY <1>2, <2>1, <2>3 DEF Holds
    <3> QED BY <2>1, <3>1, <3>2
  <2> QED BY <2>2, <2>3
<1>4. ASSUME NEW v \in Workers, NEW c \in Breakers, holder'[v][c] # Free
      PROVE  \E u \in Tasks : WorkerOf[u] = v /\ Holds(u, c)'
  BY <1>1, <1>2, <1>4 DEF LockInv, LocksAreInUse, Holds
<1> QED BY <1>2, <1>3, <1>4 DEF LockInv, LocksAreInUse

\* The steps of a task.
LEMMA TaskLocks ==
  ASSUME LockInv, FlowInv, NEW t \in Tasks, Starts(t) \/ Step(t)
  PROVE  LockInv'
<1>0. FlowsTyped /\ FlowFits(t)
  BY DEF FlowInv
<1>i. Inside("qdrant") = "searching" /\ Inside("neo4j") = "relating" /\ Inside("llm") = "asking"
  BY DEF Inside
<1>s. Breakers = {"qdrant", "neo4j", "llm"}
  BY DEF Breakers
<1>1. CASE RetrievalStep(t) /\ UNCHANGED dvars
  BY <1>1, OtherLocks DEF dvars
<1>2. CASE CallDirectly(t) \/ CallEnds(t)
  <2>1. PICK pc \in {"call", "done"} : Goto(t, pc) /\ UNCHANGED <<holder, scenario>>
    BY <1>2 DEF CallDirectly, CallEnds
  <2>2. FlowMoves(t) /\ flow'[t].pc = pc
    BY <1>0, <2>1, GotoMoves
  <2>3. flow[t].pc \in {"idle", "call"}
    BY <1>2 DEF CallDirectly, CallEnds, Pc
  <2> QED BY <1>i, <1>s, <2>1, <2>2, <2>3, OutsideLocks
<1>3. CASE StartStream(t)
  <2>1. FlowMoves(t) /\ flow'[t].pc = "qdrant"
    BY <1>0, <1>3, StartMoves
  <2>2. flow[t].pc = "idle" /\ UNCHANGED <<holder, scenario>>
    BY <1>3 DEF StartStream, Pc
  <2> QED BY <1>i, <1>s, <2>1, <2>2, OutsideLocks
<1>4. CASE AnalyzeBatch(t)
  <2>1. PICK asks : flow' = [flow EXCEPT ![t].pc = "asking", ![t].asks = asks]
    BY <1>4 DEF AnalyzeBatch
  <2>2. FlowMoves(t)
    BY <1>0, <2>1, AsksMoves
  <2>3. Kind(t) # "alert" /\ UNCHANGED <<holder, scenario>>
    BY <1>4 DEF AnalyzeBatch
  <2> QED BY <2>2, <2>3, OutsideLocks
<1>5. CASE Search(t)
  <2>1. FlowMoves(t) /\ flow'[t].pc = "searching"
    BY <1>0, <1>5, GotoMoves DEF Search
  <2>2. flow[t].pc = "qdrant" /\ Kind(t) = "alert" /\ Acquire(t, "qdrant") /\ scenario' = scenario
    BY <1>0, <1>5 DEF Search, Pc, FlowFits, Retrieving
  <2> QED BY <1>i, <1>s, <2>1, <2>2, EntersLock
<1>6. CASE AskTopology(t)
  <2>1. FlowMoves(t) /\ flow'[t].pc = "relating"
    BY <1>0, <1>6, GotoMoves DEF AskTopology
  <2>2. flow[t].pc = "neo4j" /\ Kind(t) = "alert" /\ Acquire(t, "neo4j") /\ scenario' = scenario
    BY <1>0, <1>6 DEF AskTopology, Pc, FlowFits, Retrieving
  <2> QED BY <1>i, <1>s, <2>1, <2>2, EntersLock
<1>7. CASE Searched(t)
  <2>1. flow[t].pc = "searching" /\ Kind(t) = "alert" /\ Release(t, "qdrant") /\ scenario' = scenario
    BY <1>0, <1>7 DEF Searched, Pc, FlowFits, Retrieving
  <2>2. FlowMoves(t) /\ flow'[t].pc \in {"neo4j", "diagnose"}
    <3>1. CASE call[t].pc = "returned"
      <4>1. PICK found : flow' = [flow EXCEPT ![t].pc = "neo4j", ![t].found = found]
        BY <1>7, <3>1 DEF Searched
      <4> QED BY <1>0, <4>1, FoundMoves
    <3>2. CASE call[t].pc # "returned"
      BY <1>0, <1>7, <3>2, RetrievedMoves DEF Searched, Unretrieved
    <3> QED BY <3>1, <3>2
  <2> QED BY <1>i, <1>s, <2>1, <2>2, LeavesLock
<1>8. CASE Related(t)
  <2>1. flow[t].pc = "relating" /\ Kind(t) = "alert" /\ Release(t, "neo4j") /\ scenario' = scenario
    BY <1>0, <1>8 DEF Related, Pc, FlowFits, Retrieving
  <2>2. FlowMoves(t) /\ flow'[t].pc = "diagnose"
    BY <1>0, <1>8, RetrievedMoves DEF Related, Unretrieved
  <2> QED BY <1>i, <1>s, <2>1, <2>2, LeavesLock
<1>9. CASE BreakerRefuses(t)
  <2>1. flow[t].pc \in {"qdrant", "neo4j"} /\ UNCHANGED <<holder, scenario>>
    BY <1>9 DEF BreakerRefuses
  <2>2. FlowMoves(t) /\ flow'[t].pc = "diagnose"
    BY <1>0, <1>9, RetrievedMoves DEF BreakerRefuses, Unretrieved
  <2> QED BY <1>i, <1>s, <2>1, <2>2, OutsideLocks
<1>10. CASE Route(t)
  <2>1. PICK v : flow' = [flow EXCEPT ![t].pc = "llm", ![t].version = v]
    BY <1>10 DEF Route
  <2>2. FlowMoves(t) /\ flow'[t].pc = "llm"
    BY <1>0, <2>1, VersionMoves
  <2>3. flow[t].pc = "diagnose" /\ UNCHANGED <<holder, scenario>>
    BY <1>10 DEF Route, Pc
  <2> QED BY <1>i, <1>s, <2>2, <2>3, OutsideLocks
<1>11. CASE Analyze(t)
  <2>1. PICK asks : flow' = [flow EXCEPT ![t].pc = "asking", ![t].asks = asks]
    BY <1>11 DEF Analyze
  <2>2. FlowMoves(t) /\ flow'[t].pc = "asking"
    BY <1>0, <2>1, AsksMoves
  <2>3. flow[t].pc = "llm" /\ Kind(t) = "alert" /\ Acquire(t, "llm") /\ scenario' = scenario
    BY <1>0, <1>11 DEF Analyze, Pc, FlowFits
  <2> QED BY <1>i, <1>s, <2>2, <2>3, EntersLock
<1>12. CASE Analyzing(t)
  <2>1. PICK i, st, plan : AskEnds(t, i, st, plan)
    BY <1>12 DEF Analyzing, Answers, AskRaises, AskUnusable
  <2>2. FlowMoves(t) /\ flow'[t].pc = flow[t].pc
    BY <1>0, <2>1, AskEndsMoves DEF Leaves, FlowFields
  <2>3. UNCHANGED <<holder, scenario>>
    BY <1>12 DEF Analyzing
  <2> QED BY <2>2, <2>3, OtherLocks DEF FlowMoves
<1>13. CASE BatchAnalyzed(t)
  <2>1. PICK results : flow' = [flow EXCEPT ![t].pc = "done", ![t].results = results]
    BY <1>13 DEF BatchAnalyzed
  <2>2. FlowMoves(t)
    BY <1>0, <2>1, ResultsMoves
  <2>3. Kind(t) # "alert" /\ UNCHANGED <<holder, scenario>>
    BY <1>13 DEF BatchAnalyzed
  <2> QED BY <2>2, <2>3, OutsideLocks
<1>14. CASE Diagnose(t)
  <2>1. PICK results : flow' = [flow EXCEPT ![t].pc = "done", ![t].results = results]
    BY <1>14 DEF Diagnose, Diagnosed
  <2>2. FlowMoves(t) /\ flow'[t].pc = "done"
    BY <1>0, <2>1, ResultsMoves
  <2>3. flow[t].pc = "asking" /\ Kind(t) = "alert" /\ Release(t, "llm") /\ scenario' = scenario
    BY <1>14 DEF Diagnose, Analyzed, Pc
  <2> QED BY <1>i, <1>s, <2>2, <2>3, LeavesLock
<1> QED BY <1>1, <1>2, <1>3, <1>4, <1>5, <1>6, <1>7, <1>8, <1>9, <1>10, <1>11, <1>12, <1>13,
           <1>14 DEF Starts, Step

\* The locks of a worker that dies are new ones.
LEMMA DieLocks ==
  ASSUME LockInv, FlowInv, NEW w \in Workers, Die(w)
  PROVE  LockInv'
<1> USE RetrievalAssumption, DiagnosisAssumption DEF Free
<1>1. /\ HolderTyped'
      /\ \A b \in Breakers : holder'[w][b] = Free
      /\ \A v \in Workers \ {w} : holder'[v] = holder[v]
      /\ scenario' = scenario
  BY DEF LockInv, HolderTyped, Die
<1>2. ASSUME NEW t \in Tasks, NEW b \in Breakers
      PROVE  Holds(t, b)' <=> HasEntered(t, b)'
  <2>1. Kind(t)' = Kind(t) /\ WorkerOf[t] \in Workers /\ (Holds(t, b) <=> HasEntered(t, b))
    BY <1>1 DEF Kind, LockInv, LocksAreInUse
  <2>2. CASE WorkerOf[t] = w
    <3>1. flow'[t].pc \in {"idle", "gone"}
      BY <2>2, DieMoves, GoneFlow DEF Pc
    <3>2. Inside(b) \notin {"idle", "gone"}
      BY DEF Inside, Breakers
    <3> QED BY <1>1, <2>2, <3>1, <3>2 DEF Holds, HasEntered
  <2>3. CASE WorkerOf[t] # w
    <3>1. flow'[t] = flow[t]
      BY <2>3, DieMoves
    <3> QED BY <1>1, <2>1, <2>3, <3>1 DEF Holds, HasEntered
  <2> QED BY <2>2, <2>3
<1>3. ASSUME NEW v \in Workers, NEW b \in Breakers, holder'[v][b] # Free
      PROVE  \E t \in Tasks : WorkerOf[t] = v /\ Holds(t, b)'
  <2>1. v # w /\ holder'[v] = holder[v]
    BY <1>1, <1>3
  <2> QED BY <1>3, <2>1 DEF LockInv, LocksAreInUse, Holds
<1> QED BY <1>1, <1>2, <1>3 DEF LockInv, LocksAreInUse

LEMMA StepLocks ==
  ASSUME LockInv, FlowInv, [Next]_vars
  PROVE  LockInv'
<1>1. CASE UNCHANGED vars
  BY <1>1, OtherLocks DEF vars, dvars
<1>2. CASE \E t \in Tasks : Starts(t) \/ Step(t)
  BY <1>2, TaskLocks
<1>3. ASSUME NEW w \in Workers, Boot(w) PROVE LockInv'
  BY <1>3, OtherLocks DEF Boot
<1>4. CASE \E w \in Workers : Die(w)
  BY <1>4, DieLocks
<1> QED BY <1>1, <1>2, <1>3, <1>4 DEF Next

\* The locks of the circuit breakers of a worker, whatever fails and
\* whichever workers die: two alerts are never in one of them, a lock that
\* is taken is held by a task of its worker that is in its call and waits
\* for no other lock, and a call that has raised, or whose worker is gone,
\* has left it.
THEOREM LocksAreInUseHolds == Spec => []LocksAreInUse
<1>1. LockInv => LocksAreInUse
  BY DEF LockInv
<1>2. FlowInv /\ LockInv /\ [Next]_vars => FlowInv' /\ LockInv'
  BY StepFlow, StepLocks
<1>3. Init => FlowInv /\ LockInv
  BY InitFlow, InitLocks
<1> QED BY <1>1, <1>2, <1>3, PTL DEF Spec

-----------------------------------------------------------------------------
(* Every task has an end                                                   *)

\* How many stages a task has before it.
StagesLeft(t) ==
  LET pc == flow[t].pc
  IN  CASE pc = "qdrant" -> 8 [] pc = "searching" -> 7 [] pc = "neo4j" -> 6
        [] pc = "relating" -> 5 [] pc = "diagnose" -> 4 [] pc = "llm" -> 3
        [] pc = "asking" -> 2 [] pc = "call" -> 1
        [] OTHER -> 0

\* How many models may still be asked for an analysis.
ModelsLeft(ask) == CASE ask.st = "primary" -> 2 [] ask.st = "fallback" -> 1 [] OTHER -> 0

\* How many steps a call of a store has left, and where one of the
\* embeddings is: with its texts, or over.
RequestsLeft(c) ==
  CASE c.pc = "ensure" -> 3 [] c.pc \in {"create", "initialize"} -> 2
    [] c.pc \in {"store", "query", "generate", "batch"} -> 1
    [] OTHER -> 0

Embeds(t) == call[t].op \in EmbedOps /\ call[t].pc \in {"generate", "batch"}

\* The texts without a vector, the times that generate may be called anew,
\* and the texts of its call that are not embedded yet, the look at the
\* cache counted with them.
TextsLeft(t) == Len(call[t].arg) - Len(call[t].past)
TriesLeft(t) == 2 - call[t].tries
BatchLeft(t) ==
  Len(Texts(t)) - Len(call[t].got) + (IF call[t].pc = "generate" THEN 1 ELSE 0)

\* A request of a call, a retry among them, brings the call further on.
CallGoesOn(t) ==
  \/ RequestsLeft(call'[t]) < RequestsLeft(call[t])
  \/ /\ Embeds(t) /\ Embeds(t)'
     /\ \/ TextsLeft(t)' < TextsLeft(t)
        \/ TextsLeft(t)' = TextsLeft(t) /\ TriesLeft(t)' < TriesLeft(t)
        \/ /\ TextsLeft(t)' = TextsLeft(t) /\ TriesLeft(t)' = TriesLeft(t)
           /\ BatchLeft(t)' < BatchLeft(t)

\* One of the analyses goes on, and none goes back.
AsksGoOn(t) ==
  /\ DOMAIN flow'[t].asks = DOMAIN flow[t].asks
  /\ \A i \in DOMAIN flow[t].asks : ModelsLeft(flow'[t].asks[i]) <= ModelsLeft(flow[t].asks[i])
  /\ \E i \in DOMAIN flow[t].asks : ModelsLeft(flow'[t].asks[i]) < ModelsLeft(flow[t].asks[i])

Stays(t) == flow'[t] = flow[t] /\ call'[t] = call[t]

\* Every step of a task brings its end nearer: its next stage, or within one
\* a request of its call or the end of an ask.  A task moves by its own
\* steps alone, unless its worker dies, and one that is over stays over.
TasksAdvance ==
  \A t \in Tasks :
    /\ UnderWay(t) => StagesLeft(t) \in 1..8
    /\ Embeds(t) => TextsLeft(t) \in Nat /\ TriesLeft(t) \in Nat /\ BatchLeft(t) \in Nat
    /\ Step(t) => \/ StagesLeft(t)' < StagesLeft(t)
                  \/ flow'[t].pc = flow[t].pc /\ call'[t] = call[t] /\ AsksGoOn(t)
                  \/ flow'[t] = flow[t] /\ CallGoesOn(t)
    /\ Stays(t) \/ Step(t) \/ (Pc(t, "idle") /\ Starts(t)) \/ ~UnderWay(t)'
    /\ flow[t].pc \in {"done", "gone"} => flow'[t].pc \in {"done", "gone"}

LEMMA TextsAreLeft ==
  ASSUME EmbedInv, NEW t \in Tasks, Embeds(t)
  PROVE  TextsLeft(t) \in Nat /\ TriesLeft(t) \in Nat /\ BatchLeft(t) \in Nat
<1>1. EmbedFits(t) /\ call[t].op \in EmbedOps /\ call[t].pc \in {"generate", "batch"}
  BY DEF EmbedInv, Embeds
<1>2. /\ call[t].arg \in Seq(AllTexts) /\ IsPrefixOf(call[t].past, call[t].arg)
      /\ call[t].tries \in 0..2
  BY <1>1 DEF EmbedFits
<1>3. Texts(t) \in Seq(AllTexts) /\ IsPrefixOf(call[t].got, Texts(t))
  BY <1>1, TextsFit
<1> QED BY <1>2, <1>3 DEF TextsLeft, TriesLeft, BatchLeft, IsPrefixOf

\* The texts of the call are the same as long as past is.
LEMMA SameTexts ==
  ASSUME NEW t \in Tasks, CallMoves(t), call'[t].past = call[t].past
  PROVE  TextsLeft(t)' = TextsLeft(t) /\ Texts(t)' = Texts(t)
BY DEF CallMoves, TextsLeft, Texts

\* A generate call of generate_batch that is over leaves fewer texts.
LEMMA GeneratedAdvances ==
  ASSUME EmbedInv, NEW t \in Tasks, Embeds(t), CallMoves(t), Generated(t, Texts(t))
  PROVE  CallGoesOn(t)
<1> USE RetrievalAssumption
<1> DEFINE op == call[t].op
           arg == call[t].arg
           past == call[t].past
           n == Len(past)
           m == IF n + BatchSize < Len(arg) THEN n + BatchSize ELSE Len(arg)
           all == past \o Texts(t)
<1>1. /\ CallsTyped /\ EmbedFits(t) /\ call[t].op \in EmbedOps
      /\ call[t].pc \in {"generate", "batch"}
  BY DEF EmbedInv, FlowInv, Embeds
<1>2. /\ arg \in Seq(AllTexts) /\ IsPrefixOf(past, arg)
      /\ op = "generate" => past = <<>>
  BY <1>1 DEF EmbedFits
<1>3. CASE call'[t].pc = "returned"
  BY <1>1, <1>3 DEF CallGoesOn, RequestsLeft
<1>4. CASE /\ ~(Len(all) >= Len(arg))
           /\ call'[t].pc = "generate" /\ call'[t].past = all
  <2>1. IsPrefixOf(all, arg) /\ (op = "generate" => all = arg)
    <3>1. Texts(t) = BatchOf(op, past, arg)
      BY <1>1, TextsFit
    <3> HIDE DEF op, arg, past
    <3> QED BY <1>2, <3>1, BatchFits
  <2>2. op # "generate"
    <3>1. Len(arg) \in Nat
      BY <1>2
    <3>2. all = arg => Len(all) >= Len(arg)
      BY <3>1
    <3> QED BY <1>4, <2>1, <3>2
  <2>3. Texts(t) = SubSeq(arg, n + 1, m)
    BY <2>2 DEF Texts
  <2>4. m \in n..Len(arg) /\ n \in Nat /\ Len(arg) \in Nat
    BY <1>2 DEF IsPrefixOf
  <2>5. Len(all) = m
    <3> HIDE DEF m, arg, past
    <3> QED BY <1>2, <2>3, <2>4, LongerPrefix
  <2>6. m > n
    BY <1>4, <2>4, <2>5
  <2>7. Embeds(t)' /\ TextsLeft(t)' = Len(arg) - m /\ TextsLeft(t) = Len(arg) - n
    BY <1>1, <1>4, <2>5 DEF Embeds, TextsLeft, CallMoves
  <2>8. TextsLeft(t)' < TextsLeft(t)
    <3> HIDE DEF m, n, arg
    <3> QED BY <2>4, <2>6, <2>7
  <2> QED BY <2>7, <2>8 DEF CallGoesOn
<1> QED BY <1>1, <1>3, <1>4, GeneratedMoves

LEMMA EmbedAdvances ==
  ASSUME EmbedInv, NEW t \in Tasks, Generate(t) \/ EmbedBatch(t) \/ EmbedBatchFails(t)
  PROVE  CallGoesOn(t)
<1>1. /\ CallsTyped /\ EmbedFits(t) /\ Embeds(t) /\ call[t].op \in EmbedOps
  BY DEF EmbedInv, FlowInv, Embeds, At, Generate, EmbedBatch, EmbedBatchFails
<1>2. CallMoves(t)
  BY <1>1, RetrievalMoves DEF RetrievalStep
<1>3. /\ TextsLeft(t) \in Nat /\ TriesLeft(t) \in Nat /\ BatchLeft(t) \in Nat
      /\ call[t].tries \in 0..2
  BY <1>1, TextsAreLeft DEF EmbedFits, Embeds
<1>4. /\ Texts(t) \in Seq(AllTexts) /\ IsPrefixOf(call[t].got, Texts(t))
  BY <1>1, TextsFit DEF Embeds
<1>5. CASE Generated(t, Texts(t))
  BY <1>1, <1>2, <1>5, GeneratedAdvances
<1>6. CASE Generate(t) /\ To(t, "batch")
  <2>1. /\ call'[t].pc = "batch" /\ call'[t].got = call[t].got
        /\ call'[t].past = call[t].past /\ call'[t].tries = call[t].tries
        /\ call[t].pc = "generate"
    BY <1>1, <1>6, ToMoves, ToKeeps DEF Generate, At
  <2>2. TextsLeft(t)' = TextsLeft(t) /\ Texts(t)' = Texts(t)
    BY <1>2, <2>1, SameTexts
  <2>3. TriesLeft(t)' = TriesLeft(t) /\ Embeds(t)'
    BY <1>1, <1>2, <2>1 DEF TriesLeft, Embeds, CallMoves
  <2>4. BatchLeft(t)' < BatchLeft(t)
    <3> DEFINE n == Len(Texts(t)) - Len(call[t].got)
    <3>1. BatchLeft(t) = n + 1 /\ BatchLeft(t)' = n + 0
      BY <2>1, <2>2 DEF BatchLeft
    <3>2. n \in Int
      BY <1>4 DEF IsPrefixOf
    <3> HIDE DEF n
    <3> QED BY <3>1, <3>2
  <2> QED BY <1>1, <2>2, <2>3, <2>4 DEF CallGoesOn
<1>7. ASSUME NEW got, EmbedBatch(t), call' = [call EXCEPT ![t].got = got],
             IsPrefixOf(got, Texts(t)), Len(got) > Len(call[t].got)
      PROVE  CallGoesOn(t)
  <2>1. /\ call'[t].pc = "batch" /\ call'[t].got = got
        /\ call'[t].past = call[t].past /\ call'[t].tries = call[t].tries
        /\ call[t].pc = "batch"
    BY <1>1, <1>7 DEF EmbedBatch, At, CallsTyped, IsCall
  <2>2. TextsLeft(t)' = TextsLeft(t) /\ Texts(t)' = Texts(t)
    BY <1>2, <2>1, SameTexts
  <2>3. TriesLeft(t)' = TriesLeft(t) /\ Embeds(t)'
    BY <1>1, <1>2, <2>1 DEF TriesLeft, Embeds, CallMoves
  <2>4. BatchLeft(t)' < BatchLeft(t)
    <3>1. /\ BatchLeft(t) = Len(Texts(t)) - Len(call[t].got) + 0
          /\ BatchLeft(t)' = Len(Texts(t)) - Len(got) + 0
      BY <2>1, <2>2 DEF BatchLeft
    <3> QED BY <1>4, <1>7, <3>1 DEF IsPrefixOf
  <2> QED BY <1>1, <2>2, <2>3, <2>4 DEF CallGoesOn
<1>8. CASE EmbedBatchFails(t)
  <2>0. call[t].pc = "batch"
    BY <1>8 DEF EmbedBatchFails, At
  <2>1. CASE Raises(t)
    <3>1. call'[t].pc = "raised"
      BY <1>1, <2>1, RaisesMoves
    <3> QED BY <2>0, <3>1 DEF CallGoesOn, RequestsLeft
  <2>2. CASE ~Raises(t)
    <3>1. /\ call'[t].pc = "generate" /\ call'[t].past = call[t].past
          /\ call'[t].tries = call[t].tries + 1
      BY <1>1, <1>8, <2>2, RetryMoves
    <3>2. TextsLeft(t)' = TextsLeft(t)
      BY <1>2, <3>1, SameTexts
    <3>3. TriesLeft(t)' < TriesLeft(t) /\ Embeds(t)'
      BY <1>1, <1>2, <1>3, <3>1 DEF TriesLeft, Embeds, CallMoves
    <3> QED BY <1>1, <3>2, <3>3 DEF CallGoesOn
  <2> QED BY <2>1, <2>2
<1> QED BY <1>5, <1>6, <1>7, <1>8, GenerateGives, EmbedBatchGives

LEMMA RetrievalAdvances ==
  ASSUME EmbedInv, NEW t \in Tasks, RetrievalStep(t)
  PROVE  CallGoesOn(t)
<1>0. CallsTyped
  BY DEF EmbedInv, FlowInv
<1>1. CASE EnsureCollection(t) \/ CreateCollection(t) \/ EnsureRaises(t)
  <2>1. \/ call[t].pc = "ensure" /\ call'[t].pc \in {"store", "create", "raised"}
        \/ call[t].pc = "create" /\ call'[t].pc \in {"store", "raised"}
    <3>1. ASSUME NEW pc, To(t, pc) PROVE call'[t].pc = pc
      BY <1>0, <3>1, ToMoves
    <3>2. CASE EnsureCollection(t)
      BY <3>1, <3>2 DEF EnsureCollection, At
    <3>3. CASE CreateCollection(t)
      BY <3>1, <3>3 DEF CreateCollection, At, Raises
    <3>4. CASE EnsureRaises(t)
      BY <3>1, <3>4 DEF EnsureRaises, Raises
    <3> QED BY <1>1, <3>2, <3>3, <3>4
  <2> QED BY <2>1 DEF CallGoesOn, RequestsLeft
<1>2. CASE InitializeGraph(t)
  <2>1. call[t].pc = "initialize" /\ call'[t].pc \in {"query", "raised"}
    BY <1>0, <1>2, ToMoves, RaisesMoves DEF InitializeGraph, At
  <2> QED BY <2>1 DEF CallGoesOn, RequestsLeft
<1>3. CASE UsePoints(t) \/ UsePointsFails(t) \/ Topology(t) \/ Impacted(t)
           \/ AddService(t) \/ AddDependency(t)
  <2>1. /\ call[t].pc \in {"store", "query"}
        /\ Raises(t) \/ \E result : Returns(t, result)
    BY <1>3 DEF UsePoints, UsePointsFails, Topology, Impacted, AddService, AddDependency, At
  <2>2. call'[t].pc \in {"returned", "raised"}
    BY <1>0, <2>1, ReturnsMoves, RaisesMoves
  <2> QED BY <2>1, <2>2 DEF CallGoesOn, RequestsLeft
<1> QED BY <1>1, <1>2, <1>3, EmbedAdvances DEF RetrievalStep

\* An ask that ends goes to the fallback or is over.
LEMMA AnalyzingAdvances ==
  ASSUME CounterInv, NEW t \in Tasks, Analyzing(t)
  PROVE  flow'[t].pc = flow[t].pc /\ call' = call /\ FlowMoves(t) /\ AsksGoOn(t)
<1>1. FlowsTyped /\ AreAsks(flow[t].asks) /\ call' = call
  BY DEF CounterInv, FlowInv, Analyzing, rvars
<1>2. PICK i \in DOMAIN flow[t].asks : Answers(t, i) \/ AskRaises(t, i) \/ AskUnusable(t, i)
  BY DEF Analyzing
<1>3. PICK st, plan :
        /\ AskEnds(t, i, st, plan)
        /\ st \notin {"primary", "fallback"} \/ (flow[t].asks[i].st = "primary" /\ st = "fallback")
  BY <1>2 DEF Answers, AskRaises, AskUnusable
<1>4. FlowMoves(t) /\ Leaves(t, FlowFields \ {"asks"})
      /\ flow'[t].asks = AsksAfter(flow[t].asks, i, st, plan)
  BY <1>1, <1>3, AskEndsMoves
<1>5. /\ DOMAIN flow'[t].asks = DOMAIN flow[t].asks
      /\ flow'[t].asks[i].st = st
      /\ \A j \in DOMAIN flow[t].asks \ {i} : flow'[t].asks[j] = flow[t].asks[j]
  BY <1>1, <1>4, AskRecord
<1>6. flow[t].asks[i].st \in {"primary", "fallback"}
  BY <1>2 DEF Answers, AskRaises, AskUnusable, Asking
<1>7. ModelsLeft(flow'[t].asks[i]) < ModelsLeft(flow[t].asks[i])
  BY <1>3, <1>5, <1>6 DEF ModelsLeft
<1>8. \A j \in DOMAIN flow[t].asks : ModelsLeft(flow[t].asks[j]) \in Nat
  BY DEF ModelsLeft
<1>9. ASSUME NEW j \in DOMAIN flow[t].asks
      PROVE  ModelsLeft(flow'[t].asks[j]) <= ModelsLeft(flow[t].asks[j])
  <2>1. CASE j = i
    <3>1. ModelsLeft(flow'[t].asks[i]) \in Nat
      BY DEF ModelsLeft
    <3> QED BY <1>7, <1>8, <2>1, <3>1
  <2>2. CASE j # i
    BY <1>5, <1>8, <2>2
  <2> QED BY <2>1, <2>2
<1>10. flow'[t].pc = flow[t].pc
  BY <1>4 DEF Leaves, FlowFields
<1> QED BY <1>1, <1>4, <1>5, <1>7, <1>9, <1>10 DEF AsksGoOn

\* The step of a task: the others stand still.
LEMMA TaskAdvances ==
  ASSUME CounterInv, EmbedInv, NEW t \in Tasks, Starts(t) \/ Step(t)
  PROVE  /\ \A u \in Tasks \ {t} : Stays(u)
         /\ Starts(t) => Pc(t, "idle")
         /\ Step(t) => \/ StagesLeft(t)' < StagesLeft(t)
                       \/ flow'[t].pc = flow[t].pc /\ call'[t] = call[t] /\ AsksGoOn(t)
                       \/ flow'[t] = flow[t] /\ CallGoesOn(t)
         /\ flow[t].pc \in {"done", "gone"} => flow'[t] = flow[t]
<1>0. FlowsTyped /\ CallsTyped /\ FlowFits(t)
  BY DEF EmbedInv, FlowInv
<1> DEFINE Steps ==
      \/ StagesLeft(t)' < StagesLeft(t)
      \/ flow'[t].pc = flow[t].pc /\ call'[t] = call[t] /\ AsksGoOn(t)
      \/ flow'[t] = flow[t] /\ CallGoesOn(t)
           Others == \A u \in Tasks \ {t} : Stays(u)
           IsOver == flow[t].pc \in {"done", "gone"}
<1>1. ASSUME CallDirectly(t) \/ CallEnds(t)
      PROVE  Others /\ (CallEnds(t) => Steps) /\ ~IsOver
  <2>1. PICK pc : Goto(t, pc) /\ (CallEnds(t) => pc = "done" /\ flow[t].pc = "call")
    BY <1>1 DEF CallDirectly, CallEnds, Pc
  <2>2. FlowMoves(t) /\ flow'[t].pc = pc
    BY <1>0, <2>1, GotoMoves
  <2>3. \A u \in Tasks \ {t} : call'[u] = call[u]
    BY <1>0, <1>1, BeginsCall DEF CallDirectly, CallEnds, rvars
  <2>4. CallEnds(t) => StagesLeft(t)' < StagesLeft(t)
    BY <2>1, <2>2 DEF StagesLeft
  <2>5. ~IsOver
    BY <1>1 DEF CallDirectly, CallEnds, Pc
  <2> QED BY <2>2, <2>3, <2>4, <2>5 DEF Stays, FlowMoves
<1>2. ASSUME StartStream(t) \/ AnalyzeBatch(t) PROVE Others /\ ~IsOver
  <2>1. FlowMoves(t)
    <3>1. CASE StartStream(t)
      BY <1>0, <3>1, StartMoves
    <3>2. CASE AnalyzeBatch(t)
      <4>1. PICK asks : flow' = [flow EXCEPT ![t].pc = "asking", ![t].asks = asks]
        BY <3>2 DEF AnalyzeBatch
      <4> QED BY <1>0, <4>1, AsksMoves
    <3> QED BY <1>2, <3>1, <3>2
  <2>2. call' = call /\ ~IsOver
    BY <1>2 DEF StartStream, AnalyzeBatch, rvars, Pc
  <2> QED BY <2>1, <2>2 DEF Stays, FlowMoves
<1>3. ASSUME RetrievalStep(t), UNCHANGED dvars PROVE Others /\ Steps /\ flow' = flow
  <2>1. CallGoesOn(t) /\ CallMoves(t) /\ flow' = flow
    BY <1>0, <1>3, RetrievalAdvances, RetrievalMoves DEF dvars
  <2> QED BY <2>1 DEF Stays, CallMoves
<1>4. ASSUME Search(t) \/ AskTopology(t) PROVE Others /\ Steps /\ ~IsOver
  <2>1. PICK pc : /\ Goto(t, pc) /\ \E op, arg : Begins(t, op, arg)
                  /\ \/ flow[t].pc = "qdrant" /\ pc = "searching"
                     \/ flow[t].pc = "neo4j" /\ pc = "relating"
    BY <1>4 DEF Search, AskTopology, Pc
  <2>2. FlowMoves(t) /\ flow'[t].pc = pc /\ \A u \in Tasks \ {t} : call'[u] = call[u]
    BY <1>0, <2>1, GotoMoves, BeginsCall
  <2>3. StagesLeft(t)' < StagesLeft(t)
    BY <2>1, <2>2 DEF StagesLeft
  <2> QED BY <2>1, <2>2, <2>3 DEF Stays, FlowMoves
<1>5. ASSUME Searched(t) PROVE Others /\ Steps /\ ~IsOver
  <2>1. FlowMoves(t) /\ flow'[t].pc \in {"neo4j", "diagnose"}
    <3>1. CASE call[t].pc = "returned"
      <4>1. PICK found : flow' = [flow EXCEPT ![t].pc = "neo4j", ![t].found = found]
        BY <1>5, <3>1 DEF Searched
      <4> QED BY <1>0, <4>1, FoundMoves
    <3>2. CASE call[t].pc # "returned"
      BY <1>0, <1>5, <3>2, RetrievedMoves DEF Searched, Unretrieved
    <3> QED BY <3>1, <3>2
  <2>2. flow[t].pc = "searching" /\ \A u \in Tasks \ {t} : call'[u] = call[u]
    BY <1>0, <1>5 DEF Searched, Pc, CallsTyped
  <2>3. StagesLeft(t)' < StagesLeft(t)
    BY <2>1, <2>2 DEF StagesLeft
  <2> QED BY <2>1, <2>2, <2>3 DEF Stays, FlowMoves
<1>6. ASSUME Related(t) \/ BreakerRefuses(t) PROVE Others /\ Steps /\ ~IsOver
  <2>1. FlowMoves(t) /\ flow'[t].pc = "diagnose"
    BY <1>0, <1>6, RetrievedMoves DEF Related, BreakerRefuses, Unretrieved
  <2>2. /\ flow[t].pc \in {"relating", "qdrant", "neo4j"}
        /\ \A u \in Tasks \ {t} : call'[u] = call[u]
    BY <1>0, <1>6 DEF Related, BreakerRefuses, Pc, CallsTyped
  <2>3. StagesLeft(t)' < StagesLeft(t)
    BY <2>1, <2>2 DEF StagesLeft
  <2> QED BY <2>1, <2>2, <2>3 DEF Stays, FlowMoves
<1>7. ASSUME Route(t) \/ Analyze(t) PROVE Others /\ Steps /\ ~IsOver
  <2>1. \/ /\ flow[t].pc = "diagnose"
           /\ \E v : flow' = [flow EXCEPT ![t].pc = "llm", ![t].version = v]
        \/ /\ flow[t].pc = "llm"
           /\ \E asks : flow' = [flow EXCEPT ![t].pc = "asking", ![t].asks = asks]
    BY <1>7 DEF Route, Analyze, Pc
  <2>2. /\ FlowMoves(t)
        /\ \/ flow[t].pc = "diagnose" /\ flow'[t].pc = "llm"
           \/ flow[t].pc = "llm" /\ flow'[t].pc = "asking"
    BY <1>0, <2>1, VersionMoves, AsksMoves
  <2>3. StagesLeft(t)' < StagesLeft(t) /\ call' = call
    BY <1>7, <2>2 DEF StagesLeft, Route, Analyze, rvars
  <2> QED BY <2>2, <2>3 DEF Stays, FlowMoves
<1>8. ASSUME Analyzing(t) PROVE Others /\ Steps /\ ~IsOver
  <2>1. flow'[t].pc = flow[t].pc /\ call' = call /\ FlowMoves(t) /\ AsksGoOn(t) /\ ~IsOver
    BY <1>8, AnalyzingAdvances DEF Analyzing, Pc
  <2> QED BY <2>1 DEF Stays, FlowMoves
<1>9. ASSUME BatchAnalyzed(t) \/ Diagnose(t) PROVE Others /\ Steps /\ ~IsOver
  <2>1. PICK results : flow' = [flow EXCEPT ![t].pc = "done", ![t].results = results]
    BY <1>9 DEF BatchAnalyzed, Diagnose, Diagnosed
  <2>2. FlowMoves(t) /\ flow'[t].pc = "done"
    BY <1>0, <2>1, ResultsMoves
  <2>3. flow[t].pc = "asking" /\ call' = call
    BY <1>9 DEF BatchAnalyzed, Diagnose, Analyzed, Pc, rvars
  <2>4. StagesLeft(t)' < StagesLeft(t)
    BY <2>2, <2>3 DEF StagesLeft
  <2> QED BY <2>2, <2>3, <2>4 DEF Stays, FlowMoves
<1>10. Starts(t) => Pc(t, "idle") /\ Others /\ ~IsOver
  BY <1>1, <1>2 DEF Starts, CallDirectly, StartStream, AnalyzeBatch
<1>11. Step(t) => Others /\ Steps /\ (IsOver => flow'[t] = flow[t])
  BY <1>1, <1>3, <1>4, <1>5, <1>6, <1>7, <1>8, <1>9 DEF Step
<1> QED BY <1>10, <1>11

LEMMA StepAdvances == CounterInv /\ EmbedInv /\ [Next]_vars => [TasksAdvance]_vars
<1> SUFFICES ASSUME CounterInv, EmbedInv, Next PROVE TasksAdvance
  BY DEF TasksAdvance
<1> SUFFICES ASSUME NEW t \in Tasks
             PROVE  /\ UnderWay(t) => StagesLeft(t) \in 1..8
                    /\ Embeds(t) => TextsLeft(t) \in Nat /\ TriesLeft(t) \in Nat
                                    /\ BatchLeft(t) \in Nat
                    /\ Step(t) => \/ StagesLeft(t)' < StagesLeft(t)
                                  \/ flow'[t].pc = flow[t].pc /\ call'[t] = call[t] /\ AsksGoOn(t)
                                  \/ flow'[t] = flow[t] /\ CallGoesOn(t)
                    /\ Stays(t) \/ Step(t) \/ (Pc(t, "idle") /\ Starts(t)) \/ ~UnderWay(t)'
                    /\ flow[t].pc \in {"done", "gone"} => flow'[t].pc \in {"done", "gone"}
  BY DEF TasksAdvance
<1>1. UnderWay(t) => StagesLeft(t) \in 1..8
  <2>1. FlowFits(t)
    BY DEF EmbedInv, FlowInv
  <2> QED BY <2>1 DEF FlowFits, UnderWay, StagesLeft, Retrieving, Diagnosing
<1>2. Embeds(t) => TextsLeft(t) \in Nat /\ TriesLeft(t) \in Nat /\ BatchLeft(t) \in Nat
  BY TextsAreLeft
<1>3. Step(t) => \/ StagesLeft(t)' < StagesLeft(t)
                 \/ flow'[t].pc = flow[t].pc /\ call'[t] = call[t] /\ AsksGoOn(t)
                 \/ flow'[t] = flow[t] /\ CallGoesOn(t)
  BY TaskAdvances
<1>4. /\ Stays(t) \/ Step(t) \/ (Pc(t, "idle") /\ Starts(t)) \/ ~UnderWay(t)'
      /\ flow[t].pc \in {"done", "gone"} => flow'[t].pc \in {"done", "gone"}
  <2>1. CASE \E u \in Tasks : Starts(u) \/ Step(u)
    <3>1. PICK u \in Tasks : Starts(u) \/ Step(u)
      BY <2>1
    <3>2. CASE u = t
      BY <3>1, <3>2, TaskAdvances
    <3>3. CASE u # t
      BY <3>1, <3>3, TaskAdvances DEF Stays
    <3> QED BY <3>2, <3>3
  <2>2. ASSUME NEW w \in Workers, Boot(w) PROVE Stays(t)
    BY <2>2 DEF Boot, rvars, Stays
  <2>3. ASSUME NEW w \in Workers, Die(w)
        PROVE  /\ Stays(t) \/ ~UnderWay(t)'
               /\ flow[t].pc \in {"done", "gone"} => flow'[t].pc \in {"done", "gone"}
    <3>1. \/ flow'[t] = Gone
          \/ Pc(t, "idle") /\ flow'[t] = flow[t]
          \/ Stays(t)
      BY <2>3, DieMoves DEF EmbedInv, Stays
    <3> QED BY <3>1, GoneFlow DEF UnderWay, Pc, Stays
  <2>4. Stays(t) => (flow[t].pc \in {"done", "gone"} => flow'[t].pc \in {"done", "gone"})
    BY DEF Stays
  <2> QED BY <2>1, <2>2, <2>3, <2>4 DEF Next
<1> QED BY <1>1, <1>2, <1>3, <1>4

\* What EveryTaskEnds rests on besides fairness: whatever fails, is tried
\* again or comes in between, a retrieval, a diagnosis, a batch of analyses
\* and a direct call have a finite number of steps left, of which each of
\* their own takes one, and nobody else's adds any.
THEOREM TasksAdvanceHolds == Spec => [][TasksAdvance]_vars
BY InitCounters, StepCounters, InitEmbed, StepEmbed, StepAdvances, PTL DEF Spec
=============================================================================
