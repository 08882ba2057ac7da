---------------------------- MODULE WorkflowSetup ----------------------------
(***************************************************************************)
(* How a worker process gets its compiled graph (orchestrator/graph.py):   *)
(* get_app, _get_checkpointer and _initialize_pool fill three fields of    *)
(* the shared SREWorkflow, each when it is first missed.  Every webhook    *)
(* and status request calls get_app in a task of its own, and the fields   *)
(* are checked before an await and used after it.                          *)
(*                                                                         *)
(* The pool is psycopg's: it may be waited for once, a wait that times out *)
(* closes it, a closed pool cannot be opened again, and an open one        *)
(* reconnects by itself.                                                   *)
(***************************************************************************)
EXTENDS Naturals, FiniteSets

CONSTANT Tasks   (* slots for the tasks of the process that call get_app *)

ASSUME SetupAssumption == IsFiniteSet(Tasks)

VARIABLES
  up,            (* PostgreSQL answers                                      *)
  tables,        (* the checkpoint tables exist                             *)
  pool,          (* _pool                                                   *)
  checkpointer,  (* _checkpointer is not None                               *)
  app,           (* _app is not None                                        *)
  pc,            (* where each task is                                      *)
  calm           (* history: running tasks for whom nothing was amiss: they *)
                 (* began with tables and a pool not opening or closed, and *)
                 (* PostgreSQL has answered ever since                      *)

vars == <<up, tables, pool, checkpointer, app, pc, calm>>

Pool == {"None", "opening", "open", "closed"}

\* "wait" and "setup" are the awaits of those names; "app" has the app and
\* streams, reads or updates through it.
Running == {"called", "wait", "setup", "app"}

Init ==
  /\ up \in BOOLEAN
  /\ tables \in BOOLEAN
  /\ pool = "None"
  /\ checkpointer = FALSE
  /\ app = FALSE
  /\ pc = [t \in Tasks |-> "idle"]
  /\ calm = {}

-----------------------------------------------------------------------------

Goto(t, step) == pc' = [pc EXCEPT ![t] = step]

\* A task ends: its caller returns a result, or logs the exception.
End(t, result) == Goto(t, result) /\ calm' = calm \ {t}

\* start_workflow, resume_workflow or get_state: it awaits other things first.
Call(t) ==
  /\ pc[t] \notin Running
  /\ Goto(t, "called")
  /\ calm' = IF up /\ tables /\ pool \in {"None", "open"} THEN calm \cup {t} ELSE calm
  /\ UNCHANGED <<up, tables, pool, checkpointer, app>>

\* get_app: the graph is there.
FindsApp(t) ==
  /\ pc[t] = "called"
  /\ app
  /\ Goto(t, "app")
  /\ UNCHANGED <<up, tables, pool, checkpointer, app, calm>>

\* get_app: the saver is there, whether its setup has ended or not.
FindsCheckpointer(t) ==
  /\ pc[t] = "called"
  /\ ~app /\ checkpointer
  /\ app' = TRUE
  /\ Goto(t, "app")
  /\ UNCHANGED <<up, tables, pool, checkpointer, calm>>

\* Mutant: a pool that somebody else is opening counts as not initialized.
FindsPoolImpatient(t) ==
  /\ pc[t] = "called"
  /\ ~checkpointer /\ pool # "None"
  /\ IF pool = "opening" THEN End(t, "error") /\ UNCHANGED checkpointer
     ELSE checkpointer' = TRUE /\ Goto(t, "setup") /\ UNCHANGED calm
  /\ UNCHANGED <<up, tables, pool, app>>

\* get_app: the pool is there, in whatever state.  A saver is made on it and
\* set up.
FindsPool(t) ==
  /\ pc[t] = "called"
  /\ ~checkpointer /\ pool # "None"
  /\ checkpointer' = TRUE
  /\ Goto(t, "setup")
  /\ UNCHANGED <<up, tables, pool, app, calm>>

\* _initialize_pool: the field is set before the first await.
OpenPool(t) ==
  /\ pc[t] = "called"
  /\ ~checkpointer /\ pool = "None"
  /\ pool' = "opening"
  /\ Goto(t, "wait")
  /\ UNCHANGED <<up, tables, checkpointer, app, calm>>

\* The pool is full: a saver is made and set up, also if another task that
\* found the pool in the meantime has made one.
PoolReady(t) ==
  /\ pc[t] = "wait"
  /\ up
  /\ pool' = "open"
  /\ checkpointer' = TRUE
  /\ Goto(t, "setup")
  /\ UNCHANGED <<up, tables, app, calm>>

\* Mutant: the handler forgets the pool, but not a saver made on it.
PoolFailsForgets(t) ==
  /\ pc[t] = "wait"
  /\ ~up
  /\ pool' = "None"
  /\ End(t, "error")
  /\ UNCHANGED <<up, tables, checkpointer, app>>

\* The wait times out; the handler logs it and leaves the field.
PoolFails(t) ==
  /\ pc[t] = "wait"
  /\ ~up
  /\ pool' = "closed"
  /\ End(t, "error")
  /\ UNCHANGED <<up, tables, checkpointer, app>>

Usable == up /\ pool \in {"opening", "open"}

\* setup creates the tables; the graph is compiled without another await.
SetupEnds(t) ==
  /\ pc[t] = "setup"
  /\ Usable
  /\ tables' = TRUE
  /\ app' = TRUE
  /\ Goto(t, "app")
  /\ UNCHANGED <<up, pool, checkpointer, calm>>

\* Mutant: a connection of a closed pool is waited for without end.
SetupFailsLate(t) ==
  /\ pc[t] = "setup"
  /\ pool \in {"opening", "open"} /\ ~up
  /\ End(t, "error")
  /\ UNCHANGED <<up, tables, pool, checkpointer, app>>

\* No connection, a closed pool, or two tasks that create the tables at once.
\* The saver stays.
SetupFails(t) ==
  /\ pc[t] = "setup"
  /\ \/ ~Usable
     \/ ~tables /\ \E other \in Tasks \ {t} : pc[other] = "setup"
  /\ End(t, "error")
  /\ UNCHANGED <<up, tables, pool, checkpointer, app>>

\* The caller uses the app.
Use(t) ==
  /\ pc[t] = "app"
  /\ End(t, IF Usable /\ tables THEN "ok" ELSE "error")
  /\ UNCHANGED <<up, tables, pool, checkpointer, app>>

-----------------------------------------------------------------------------

\* PostgreSQL stops or starts answering.
Outage == up' = ~up /\ calm' = {} /\ UNCHANGED <<tables, pool, checkpointer, app, pc>>

\* The process dies and is started again.
Restart ==
  /\ pool' = "None" /\ checkpointer' = FALSE /\ app' = FALSE
  /\ pc' = [t \in Tasks |-> "idle"]
  /\ calm' = {}
  /\ UNCHANGED <<up, tables>>

Step(t) ==
  \/ FindsApp(t) \/ FindsCheckpointer(t) \/ FindsPool(t) \/ OpenPool(t)
  \/ PoolReady(t) \/ PoolFails(t)
  \/ SetupEnds(t) \/ SetupFails(t)
  \/ Use(t)

Next == (\E t \in Tasks : Call(t) \/ Step(t)) \/ Outage \/ Restart

Spec == Init /\ [][Next]_vars

\* The event loop runs every task, unless a call of Jira holds it, and what is
\* awaited ends: in 30 s for the pool and for one of its connections, and a
\* statement that PostgreSQL has got is assumed to be answered or to fail.
FairSpec == Spec /\ \A t \in Tasks : WF_vars(Step(t))

-----------------------------------------------------------------------------
(* Properties                                                              *)

\* Types; a task has an app only if the process keeps it, and is calm only
\* while it runs.
TypeOK ==
  /\ up \in BOOLEAN /\ tables \in BOOLEAN
  /\ pool \in Pool
  /\ checkpointer \in BOOLEAN /\ app \in BOOLEAN
  /\ pc \in [Tasks -> Running \cup {"idle", "ok", "error"}]
  /\ \A t \in Tasks : pc[t] = "app" => app
  /\ calm \subseteq {t \in Tasks : pc[t] \in Running}

\* However many tasks miss the fields at once, one of them opens the pool,
\* and it is being opened exactly as long as that task waits for it: no
\* second pool takes connections, and none is left opening with nobody to
\* notice.
OnePoolWatched ==
  /\ \A t, u \in Tasks : pc[t] = "wait" /\ pc[u] = "wait" => t = u
  /\ (pool = "opening") <=> (\E t \in Tasks : pc[t] = "wait")

\* The fields are filled in order and nobody takes one away: no task that got
\* past the pool is without pool, or has an app without a saver.
SetUpInOrder ==
  /\ app => checkpointer
  /\ checkpointer => pool # "None"
  /\ \A t \in Tasks : pc[t] = "setup" => checkpointer

\* Tasks that race through the set-up do not harm each other: one that began
\* with the tables there and the pool open or not yet missed, and was never
\* without PostgreSQL, gets its app and succeeds with it.
CalmTaskSucceeds ==
  [][\A t \in calm : pc'[t] # "error"]_vars

\* Every task comes back, with a result or an exception, or dies with the
\* process.
EveryTaskReturns == \A t \in Tasks : pc[t] \in Running ~> pc[t] \notin Running
=============================================================================
