------------------------ MODULE WorkflowSetup_proofs ------------------------
(***************************************************************************)
(* Proofs about WorkflowSetup.tla, for any number of tasks: the lazy       *)
(* initialisation opens one pool, fills its fields in order, and serves    *)
(* every task that PostgreSQL does not fail.                               *)
(***************************************************************************)
EXTENDS WorkflowSetup, TLAPS

\* What calm stands for.  A pool that is being opened does not fail while a
\* task is calm, because PostgreSQL answers.
NothingAmiss == calm # {} => up /\ tables /\ pool # "closed"

IInv == TypeOK /\ OnePoolWatched /\ SetUpInOrder /\ NothingAmiss

LEMMA InitInv == Init => IInv
BY DEF Init, IInv, TypeOK, OnePoolWatched, SetUpInOrder, NothingAmiss, Pool, Running

\* A task that finds a field moves on and, at most, fills the next field.
LEMMA FindInv ==
  ASSUME IInv, NEW t \in Tasks, FindsApp(t) \/ FindsCheckpointer(t) \/ FindsPool(t)
  PROVE  IInv'
<1> USE DEF IInv, Goto, Running
<1>1. CASE FindsApp(t)
  BY <1>1 DEF FindsApp, TypeOK, OnePoolWatched, SetUpInOrder, NothingAmiss
<1>2. CASE FindsCheckpointer(t)
  BY <1>2 DEF FindsCheckpointer, TypeOK, OnePoolWatched, SetUpInOrder, NothingAmiss
<1>3. CASE FindsPool(t)
  BY <1>3 DEF FindsPool, TypeOK, OnePoolWatched, SetUpInOrder, NothingAmiss
<1> QED BY <1>1, <1>2, <1>3

\* Only the task that misses the pool opens it, and only the task that waits
\* for it decides what becomes of it.
LEMMA PoolInv ==
  ASSUME IInv, NEW t \in Tasks, OpenPool(t) \/ PoolReady(t) \/ PoolFails(t)
  PROVE  IInv'
<1> USE DEF IInv, Goto, Running
<1>1. CASE OpenPool(t)
  <2>1. TypeOK' /\ SetUpInOrder' /\ NothingAmiss'
    BY <1>1 DEF OpenPool, TypeOK, SetUpInOrder, NothingAmiss, Pool
  <2>2. OnePoolWatched'
    BY <1>1 DEF OpenPool, TypeOK, OnePoolWatched
  <2> QED BY <2>1, <2>2
<1>2. CASE PoolReady(t)
  <2>1. TypeOK' /\ SetUpInOrder' /\ NothingAmiss'
    BY <1>2 DEF PoolReady, TypeOK, SetUpInOrder, NothingAmiss, Pool
  <2>2. OnePoolWatched'
    BY <1>2 DEF PoolReady, TypeOK, OnePoolWatched
  <2> QED BY <2>1, <2>2
<1>3. CASE PoolFails(t)
  <2>1. calm = {}
    BY <1>3 DEF PoolFails, NothingAmiss
  <2>2. TypeOK' /\ SetUpInOrder' /\ NothingAmiss'
    BY <1>3, <2>1 DEF PoolFails, End, TypeOK, SetUpInOrder, NothingAmiss, Pool
  <2>3. OnePoolWatched'
    BY <1>3 DEF PoolFails, End, TypeOK, OnePoolWatched
  <2> QED BY <2>2, <2>3
<1> QED BY <1>1, <1>2, <1>3

LEMMA StepInv ==
  ASSUME IInv, [Next]_vars
  PROVE  IInv'
<1> USE DEF IInv
<1>1. ASSUME NEW t \in Tasks, Call(t) PROVE IInv'
  BY <1>1 DEF Call, Goto, Running, TypeOK, OnePoolWatched, SetUpInOrder, NothingAmiss
<1>2. ASSUME NEW t \in Tasks, Step(t) PROVE IInv'
  <2>1. CASE FindsApp(t) \/ FindsCheckpointer(t) \/ FindsPool(t)
    BY <2>1, FindInv
  <2>2. CASE OpenPool(t) \/ PoolReady(t) \/ PoolFails(t)
    BY <2>2, PoolInv
  <2>3. CASE SetupEnds(t)
    BY <2>3 DEF SetupEnds, Usable, Goto, Running, TypeOK, OnePoolWatched, SetUpInOrder, NothingAmiss
  <2>4. CASE SetupFails(t)
    BY <2>4 DEF SetupFails, End, Goto, Running, TypeOK, OnePoolWatched, SetUpInOrder, NothingAmiss
  <2>5. CASE Use(t)
    BY <2>5 DEF Use, End, Goto, Running, TypeOK, OnePoolWatched, SetUpInOrder, NothingAmiss
  <2> QED BY <1>2, <2>1, <2>2, <2>3, <2>4, <2>5 DEF Step
<1>3. CASE Outage
  BY <1>3 DEF Outage, TypeOK, OnePoolWatched, SetUpInOrder, NothingAmiss
<1>4. CASE Restart
  BY <1>4 DEF Restart, Running, Pool, TypeOK, OnePoolWatched, SetUpInOrder, NothingAmiss
<1>5. CASE UNCHANGED vars
  BY <1>5 DEF vars, TypeOK, OnePoolWatched, SetUpInOrder, NothingAmiss
<1> QED BY <1>1, <1>2, <1>3, <1>4, <1>5 DEF Next

LEMMA Invariance == Spec => []IInv
BY InitInv, StepInv, PTL DEF Spec

\* Types of the set-up, for any tasks: only running tasks are calm.
THEOREM TypeCorrect == Spec => []TypeOK
<1>1. IInv => TypeOK
  BY DEF IInv
<1> QED BY <1>1, Invariance, PTL

\* graph.py:60: the check and the assignment have no await between them, so
\* one task opens the pool however many miss it.
THEOREM OnePoolWatchedHolds == Spec => []OnePoolWatched
<1>1. IInv => OnePoolWatched
  BY DEF IInv
<1> QED BY <1>1, Invariance, PTL

\* graph.py:58-146: the fields are filled in the order pool, saver, app.
THEOREM SetUpInOrderHolds == Spec => []SetUpInOrder
<1>1. IInv => SetUpInOrder
  BY DEF IInv
<1> QED BY <1>1, Invariance, PTL

\* A calm task cannot fail: where a step may raise, PostgreSQL, the tables or
\* the pool is missing, and none of them is while a task is calm.
LEMMA CalmStep ==
  ASSUME IInv, [Next]_vars, NEW c \in calm
  PROVE  pc'[c] # "error"
<1> USE DEF IInv, Goto, Running
<1>1. up /\ tables /\ pool # "closed" /\ pc[c] \in Running /\ c \in Tasks
  BY DEF NothingAmiss, TypeOK
<1>2. ASSUME NEW t \in Tasks, Call(t) PROVE pc'[c] # "error"
  BY <1>1, <1>2 DEF Call, TypeOK
<1>3. ASSUME NEW t \in Tasks, Step(t) PROVE pc'[c] # "error"
  <2>1. CASE FindsApp(t) \/ FindsCheckpointer(t) \/ FindsPool(t)
    BY <1>1, <2>1 DEF FindsApp, FindsCheckpointer, FindsPool, TypeOK
  <2>2. CASE OpenPool(t) \/ PoolReady(t) \/ PoolFails(t)
    BY <1>1, <2>2 DEF OpenPool, PoolReady, PoolFails, TypeOK
  <2>3. CASE SetupEnds(t)
    BY <1>1, <2>3 DEF SetupEnds, TypeOK
  <2>4. CASE SetupFails(t)
    BY <1>1, <2>4 DEF SetupFails, Usable, SetUpInOrder, TypeOK, Pool
  <2>5. CASE Use(t)
    <3>1. pool \in {"opening", "open"}
      BY <1>1, <2>5 DEF Use, SetUpInOrder, TypeOK, Pool
    <3> QED BY <1>1, <2>5, <3>1 DEF Use, End, Usable, TypeOK
  <2> QED BY <1>3, <2>1, <2>2, <2>3, <2>4, <2>5 DEF Step
<1>4. CASE Outage
  BY <1>1, <1>4 DEF Outage
<1>5. CASE Restart
  BY <1>1, <1>5 DEF Restart
<1>6. CASE UNCHANGED vars
  BY <1>1, <1>6 DEF vars
<1> QED BY <1>2, <1>3, <1>4, <1>5, <1>6 DEF Next

\* Tasks that race through the set-up do not fail each other.
THEOREM CalmTaskSucceedsHolds == Spec => CalmTaskSucceeds
<1>1. IInv /\ [Next]_vars => [\A t \in calm : pc'[t] # "error"]_vars
  BY CalmStep
<1> QED BY <1>1, Invariance, PTL DEF Spec, CalmTaskSucceeds
-----------------------------------------------------------------------------
(* Every task comes back                                                   *)

\* How many steps a task has left at most.
StepsLeft(t) ==
  CASE pc[t] = "called" -> 4
    [] pc[t] = "wait"   -> 3
    [] pc[t] = "setup"  -> 2
    [] pc[t] = "app"    -> 1
    [] OTHER            -> 0

\* No task is sent back by what the others do to the fields it has read:
\* each step of its own brings it nearer to its end, and nothing else moves
\* it but the end of its process.
TasksDwindle ==
  \A t \in Tasks :
    /\ pc[t] \in Running => StepsLeft(t) \in 1..4
    /\ Step(t) => StepsLeft(t)' < StepsLeft(t)
    /\ pc'[t] # pc[t] => \/ pc[t] \notin Running /\ (Call(t) \/ pc'[t] = "idle")
                         \/ StepsLeft(t)' < StepsLeft(t)

LEMMA StepDwindles == IInv /\ [Next]_vars => [TasksDwindle]_vars
<1> SUFFICES ASSUME IInv, [Next]_vars, NEW t \in Tasks
             PROVE  /\ pc[t] \in Running => StepsLeft(t) \in 1..4
                    /\ Step(t) => StepsLeft(t)' < StepsLeft(t)
                    /\ pc'[t] # pc[t] => \/ pc[t] \notin Running /\ (Call(t) \/ pc'[t] = "idle")
                                         \/ StepsLeft(t)' < StepsLeft(t)
  BY DEF TasksDwindle
<1>0. pc \in [Tasks -> Running \cup {"idle", "ok", "error"}]
  BY DEF IInv, TypeOK
<1>1. pc[t] \in Running => StepsLeft(t) \in 1..4
  BY DEF Running, StepsLeft
<1>2. ASSUME NEW u \in Tasks, NEW to, Goto(u, to)
      PROVE  pc'[u] = to /\ (t # u => pc'[t] = pc[t])
  BY <1>0, <1>2 DEF Goto
<1>3. ASSUME NEW u \in Tasks, Step(u)
      PROVE  /\ t # u => pc'[t] = pc[t]
             /\ t = u => StepsLeft(t)' < StepsLeft(t)
  <2>1. CASE FindsApp(u) \/ FindsCheckpointer(u) \/ SetupEnds(u)
    <3>1. pc[u] \in {"called", "setup"} /\ Goto(u, "app")
      BY <2>1 DEF FindsApp, FindsCheckpointer, SetupEnds
    <3> QED BY <1>2, <3>1 DEF StepsLeft
  <2>2. CASE FindsPool(u) \/ PoolReady(u)
    <3>1. pc[u] \in {"called", "wait"} /\ Goto(u, "setup")
      BY <2>2 DEF FindsPool, PoolReady
    <3> QED BY <1>2, <3>1 DEF StepsLeft
  <2>3. CASE OpenPool(u)
    <3>1. pc[u] = "called" /\ Goto(u, "wait")
      BY <2>3 DEF OpenPool
    <3> QED BY <1>2, <3>1 DEF StepsLeft
  <2>4. CASE PoolFails(u) \/ SetupFails(u) \/ Use(u)
    <3>1. pc[u] \in {"wait", "setup", "app"} /\ \E to \in {"ok", "error"} : Goto(u, to)
      BY <2>4 DEF PoolFails, SetupFails, Use, End
    <3> QED BY <1>2, <3>1 DEF StepsLeft
  <2> QED BY <1>3, <2>1, <2>2, <2>3, <2>4 DEF Step
<1>4. ASSUME pc'[t] # pc[t]
      PROVE  \/ pc[t] \notin Running /\ (Call(t) \/ pc'[t] = "idle")
             \/ StepsLeft(t)' < StepsLeft(t)
  <2>1. ASSUME NEW u \in Tasks, Call(u) PROVE t = u /\ Call(t) /\ pc[t] \notin Running
    <3>1. t = u
      BY <1>2, <1>4, <2>1 DEF Call
    <3> QED BY <2>1, <3>1 DEF Call
  <2>2. CASE Restart
    <3>1. pc'[t] = "idle"
      BY <2>2 DEF Restart
    <3>2. StepsLeft(t)' = 0
      BY <3>1 DEF StepsLeft
    <3> QED BY <1>1, <3>1, <3>2
  <2> QED BY <1>3, <1>4, <2>1, <2>2 DEF Next, Outage, vars
<1> QED BY <1>1, <1>3, <1>4

\* A task of get_app has its app, or its exception, and has used it after
\* at most four steps, whoever opens the pool and fills the fields.
THEOREM TasksDwindleHolds == Spec => [][TasksDwindle]_vars
BY Invariance, StepDwindles, PTL DEF Spec
=============================================================================
