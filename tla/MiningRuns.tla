----------------------------- MODULE MiningRuns -----------------------------
(***************************************************************************)
(* The mining runs of api/mining.py: _run_scheduled_mining, started by the *)
(* MiningScheduler of each worker process and by POST /mining/run, which   *)
(* reads the events, saves the clusters as the snapshot of the current     *)
(* hour, and reads the snapshot before it.                                 *)
(*                                                                         *)
(* All runs of a worker share one MiningPersist and the connection that it *)
(* has at the moment, with one transaction of PostgreSQL: "open", or       *)
(* "aborted" by the error of a statement, when every later one fails and   *)
(* COMMIT rolls back without an error.  A connection that is lost is       *)
(* "closed", and the next _connect makes a new one.  Two runs that both    *)
(* find none make one each: the second takes the place of the first, whose *)
(* cursor keeps it alive until its save is over.                           *)
(*                                                                         *)
(* Writes of an open transaction are seen by its own connection only and   *)
(* lock their rows.  A statement that waits for a row keeps its connection *)
(* busy for every run of the worker; of connections that wait for each     *)
(* other in a circle, PostgreSQL fails the statement of one.               *)
(*                                                                         *)
(* The clusters that a run finds are ranked by size and the rank is their  *)
(* id: here a run finds a number of clusters, and the smallest are noise.  *)
(* A row stands for what its last upsert wrote, the size and is_noise; it  *)
(* keeps the error type of the run that inserted it.  Which clusters are   *)
(* then announced as new is left out, and so are the requests that only    *)
(* read mining_clusters.                                                   *)
(***************************************************************************)
EXTENDS Naturals, FiniteSets

CONSTANTS
  Workers,      (* worker processes                                        *)
  Runs,         (* runs, one slot each                                     *)
  Requested,    (* the runs that POST /mining/run starts                   *)
  WorkerOf,     (* the worker of each run                                  *)
  MaxClusters,  (* bound: clusters that a run finds                        *)
  MaxHour,      (* bound: hours, which are the snapshot periods            *)
  Plans         (* bound: the hours in which each run may start, how many  *)
                (* clusters it finds, and how many statements, connections *)
                (* and workers fail: [starts, finds, faults]               *)

ASSUME MiningAssumption ==
  /\ IsFiniteSet(Runs) /\ Requested \subseteq Runs
  /\ WorkerOf \in [Runs -> Workers]
  /\ "none" \notin Runs
  /\ MaxClusters \in Nat /\ MaxHour \in Nat \ {0}
  /\ Plans \subseteq [starts : [Runs -> SUBSET (1..MaxHour)],
                      finds : [Runs -> 0..MaxClusters], faults : Nat]

VARIABLES
  plan,      (* what happens, chosen at the start                          *)
  hour,      (* the clock                                                  *)
  run,       (* the state of each run                                      *)
  tx,        (* the transaction of each connection                         *)
  persist,   (* per worker, MiningPersist._conn                            *)
  events_ok, (* per worker, MiningEventStore._conn still answers           *)
  rows,      (* mining_clusters: the run that wrote each row, as committed *)
  faults,    (* failures so far                                            *)
  shared,    (* history: workers in which two runs were under way at once  *)
  raced      (* history: workers in which a connection was replaced alive  *)

vars == <<plan, hour, run, tx, persist, events_ok, rows, faults, shared, raced>>

Periods == 1..MaxHour
Keys == Periods \X (1..MaxClusters)
NoRow == "none"

\* A connection is named for the run that opened it and for what the run was
\* about to do.
Conns == Runs \X {"upsert", "load"}
NoConn == <<"none", "none">>

\* pc: "idle", then "fetch", "upsert", perhaps "waiting" for the row, and
\* "events" of cluster number "at", "commit", "latest", "load", "notify", and
\* "done" or "failed".  cur: the connection of its cursor, or none while it
\* awaits one.
RunState ==
  [pc : {"idle", "fetch", "upsert", "waiting", "events", "commit", "latest", "load",
         "notify", "done", "failed"},
   period : Periods, found : 0..MaxClusters, at : 1..(MaxClusters + 1),
   previous : 0..MaxHour, cur : Conns \cup {NoConn}]

Fresh ==
  [pc |-> "idle", period |-> 1, found |-> 0, at |-> 1, previous |-> 0, cur |-> NoConn]

NoTx == [st |-> "open", writes |-> [k \in Keys |-> NoRow]]

Init ==
  /\ plan \in Plans
  /\ hour = 1
  /\ run = [r \in Runs |-> Fresh]
  /\ tx = [c \in Conns |-> NoTx]
  /\ persist = [w \in Workers |-> NoConn]
  /\ events_ok = [w \in Workers |-> TRUE]
  /\ rows = [k \in Keys |-> NoRow]
  /\ faults = 0
  /\ shared = {} /\ raced = {}

-----------------------------------------------------------------------------
(* The database                                                            *)

Pc(r, pc) == run[r].pc = pc
UnderWay(r) == run[r].pc \notin {"idle", "done", "failed"}
\* A run is over; its local state goes with it.
Over(pc) == [Fresh EXCEPT !.pc = pc]
Ends(r, pc) == run' = [run EXCEPT ![r] = Over(pc)]

Conn(r) == persist[WorkerOf[r]]

\* What a connection reads: its own writes over committed rows.
Seen(c) == [k \in Keys |-> IF tx[c].writes[k] # NoRow THEN tx[c].writes[k] ELSE rows[k]]

\* A connection that nobody refers to any more is closed, and its transaction
\* is rolled back.
Live == ({persist[w] : w \in Workers} \cup {run[r].cur : r \in Runs}) \ {NoConn}

\* Another connection holds the row in an open transaction.
Holds(d, c, k) == d \in Live \ {c} /\ tx[d].writes[k] # NoRow
Locked(c, k) == \E d \in Live : Holds(d, c, k)

\* The row that a run saves.
Row(r) == <<run[r].period, run[r].at>>

\* The connections whose statement waits for a row; on the others, the next
\* statement can be sent.
Waiting == {run[s].cur : s \in {r \in Runs : Pc(r, "waiting")}}
Free(c) == c \notin Waiting

\* The waiting connections that hold a row that connection c waits for.
WaitsFor(c) ==
  {d \in Waiting : \E s \in Runs : Pc(s, "waiting") /\ run[s].cur = c /\ Holds(d, c, Row(s))}

\* The connection waits, in the end, for itself.
InCircle(c) ==
  \A S \in SUBSET Waiting :
    WaitsFor(c) \subseteq S /\ (\A d \in S : WaitsFor(d) \subseteq S) => c \in S

Filled(table, p) == {i \in 1..MaxClusters : table[p, i] # NoRow}

Fault == faults < plan.faults /\ faults' = faults + 1

\* An error of a statement aborts the transaction, or the connection is lost;
\* its writes and locks are gone.
Breaks(c) == \E st \in {"aborted", "closed"} : tx' = [tx EXCEPT ![c] = [NoTx EXCEPT !.st = st]]

\* A statement raises: at once if the connection is lost or its transaction
\* aborted.
StatementRaises(c) ==
  \/ tx[c].st # "open" /\ UNCHANGED <<tx, faults>>
  \/ tx[c].st # "closed" /\ Fault /\ Breaks(c)

-----------------------------------------------------------------------------
(* MiningPersist._connect                                                  *)

\* The connection, if there is one; none, if it has to be awaited.
Given(w) == IF persist[w] # NoConn /\ tx[persist[w]].st # "closed" THEN persist[w] ELSE NoConn

Awaits(r) == run[r].pc \in {"upsert", "load"} /\ run[r].cur = NoConn

\* The new connection takes the place of whatever is there by now.
Connect(r) ==
  LET c == <<r, run[r].pc>>
  IN  /\ Awaits(r)
      /\ persist' = [persist EXCEPT ![WorkerOf[r]] = c]
      /\ tx' = [tx EXCEPT ![c] = NoTx]
      /\ run' = [run EXCEPT ![r].cur = c]
      /\ raced' = IF Given(WorkerOf[r]) = NoConn THEN raced ELSE raced \cup {WorkerOf[r]}
      /\ UNCHANGED <<plan, hour, events_ok, rows, faults, shared>>

ConnectRaises(r) ==
  /\ Awaits(r)
  /\ Fault
  /\ Ends(r, "failed")
  /\ UNCHANGED <<plan, hour, tx, persist, events_ok, rows, shared, raced>>

-----------------------------------------------------------------------------
(* _run_scheduled_mining                                                   *)

\* The scheduler of a worker starts a run when its last one is over;
\* nothing delays a requested one.
Start(r) ==
  /\ Pc(r, "idle") /\ hour \in plan.starts[r]
  /\ r \notin Requested =>
       \A s \in Runs \ Requested : WorkerOf[s] = WorkerOf[r] => ~UnderWay(s)
  /\ run' = [run EXCEPT ![r].pc = "fetch", ![r].period = hour]
  /\ shared' = IF \E s \in Runs : WorkerOf[s] = WorkerOf[r] /\ UnderWay(s)
               THEN shared \cup {WorkerOf[r]} ELSE shared
  /\ UNCHANGED <<plan, hour, tx, persist, events_ok, rows, faults, raced>>

\* get_events, cluster_events and analyze_clusters.  No event: the run ends.
FetchEvents(r) ==
  /\ Pc(r, "fetch")
  /\ events_ok[WorkerOf[r]]
  /\ \/ plan.finds[r] = 0 /\ Ends(r, "done")
     \/ /\ plan.finds[r] # 0
        /\ run' = [run EXCEPT ![r].found = plan.finds[r], ![r].pc = "upsert",
                              ![r].cur = Given(WorkerOf[r])]
  /\ UNCHANGED <<plan, hour, tx, persist, events_ok, rows, faults, shared, raced>>

\* MiningEventStore never commits nor rolls back: after an error of its
\* query, unless the connection is lost, every later query of the worker
\* fails.
FetchRaises(r) ==
  /\ Pc(r, "fetch")
  /\ \/ ~events_ok[WorkerOf[r]] /\ UNCHANGED <<events_ok, faults>>
     \/ /\ events_ok[WorkerOf[r]]
        /\ Fault
        /\ events_ok' \in {events_ok, [events_ok EXCEPT ![WorkerOf[r]] = FALSE]}
  /\ Ends(r, "failed")
  /\ UNCHANGED <<plan, hour, tx, persist, rows, shared, raced>>

\* The upsert of the run can be sent, or it has been.
Upserting(r) ==
  \/ Pc(r, "upsert") /\ run[r].cur # NoConn /\ Free(run[r].cur)
  \/ Pc(r, "waiting")

\* INSERT ... ON CONFLICT DO UPDATE of the cluster, ...
Upsert(r) ==
  LET c == run[r].cur
  IN  /\ Upserting(r) /\ tx[c].st = "open"
      /\ ~Locked(c, Row(r))
      /\ tx' = [tx EXCEPT ![c].writes = [@ EXCEPT ![Row(r)] = r]]
      /\ run' = [run EXCEPT ![r].pc = "events"]
      /\ UNCHANGED <<plan, hour, persist, events_ok, rows, faults, shared, raced>>

\* ... which waits for a row that another transaction has written.
WaitForRow(r) ==
  /\ Pc(r, "upsert") /\ Upserting(r) /\ tx[run[r].cur].st = "open"
  /\ Locked(run[r].cur, Row(r))
  /\ run' = [run EXCEPT ![r].pc = "waiting"]
  /\ UNCHANGED <<plan, hour, tx, persist, events_ok, rows, faults, shared, raced>>

\* Mutant: after an error the upsert is tried again.
UpsertRetried(r) ==
  /\ Upserting(r)
  /\ StatementRaises(run[r].cur)
  /\ run' = [run EXCEPT ![r].pc = "upsert"]
  /\ UNCHANGED <<plan, hour, persist, events_ok, rows, shared, raced>>

\* An error of the upsert is not caught: the run fails, and the transaction
\* stays as it is.
UpsertRaises(r) ==
  /\ Upserting(r)
  /\ StatementRaises(run[r].cur)
  /\ Ends(r, "failed")
  /\ UNCHANGED <<plan, hour, persist, events_ok, rows, shared, raced>>

\* PostgreSQL has found a circle, and the statement of the run fails.
DeadlockVictim(r) ==
  /\ Pc(r, "waiting") /\ InCircle(run[r].cur)
  /\ tx' = [tx EXCEPT ![run[r].cur] = [NoTx EXCEPT !.st = "aborted"]]
  /\ faults' = faults + 1
  /\ Ends(r, "failed")
  /\ UNCHANGED <<plan, hour, persist, events_ok, rows, shared, raced>>

NextCluster(r) ==
  run' = [run EXCEPT ![r].at = @ + 1,
            ![r].pc = IF run[r].at < run[r].found THEN "upsert" ELSE "commit"]

\* Mutant: after an error the rest of the save goes on in a new transaction.
InsertEventsAnew(r) ==
  LET c == run[r].cur
  IN  /\ Pc(r, "events") /\ Free(c)
      /\ \/ tx[c].st = "open" /\ UNCHANGED <<tx, faults>>
         \/ tx[c].st = "open" /\ Fault /\ tx' = [tx EXCEPT ![c] = NoTx]
      /\ NextCluster(r)
      /\ UNCHANGED <<plan, hour, persist, events_ok, rows, shared, raced>>

\* The members of the cluster, one INSERT each; an error is swallowed.
InsertEvents(r) ==
  LET c == run[r].cur
  IN  /\ Pc(r, "events") /\ Free(c)
      /\ \/ tx[c].st = "open" /\ UNCHANGED <<tx, faults>>
         \/ StatementRaises(c)
      /\ NextCluster(r)
      /\ UNCHANGED <<plan, hour, persist, events_ok, rows, shared, raced>>

\* Mutant: the transaction is not committed.
CommitForgotten(r) ==
  /\ Pc(r, "commit") /\ Free(Conn(r)) /\ tx[Conn(r)].st # "closed"
  /\ run' = [run EXCEPT ![r].pc = "latest", ![r].cur = Conn(r)]
  /\ UNCHANGED <<plan, hour, tx, persist, events_ok, rows, faults, shared, raced>>

\* COMMIT of whatever the connection that the worker has by now has written;
\* of an aborted transaction it is a ROLLBACK, and save_cluster_snapshot
\* reports success.
Commit(r) ==
  /\ Pc(r, "commit") /\ Free(Conn(r)) /\ tx[Conn(r)].st # "closed"
  /\ rows' = Seen(Conn(r))
  /\ tx' = [tx EXCEPT ![Conn(r)] = NoTx]
  /\ run' = [run EXCEPT ![r].pc = "latest", ![r].cur = Conn(r)]
  /\ UNCHANGED <<plan, hour, persist, events_ok, faults, shared, raced>>

\* The connection is lost before the COMMIT, under it or after it.
CommitRaises(r) ==
  /\ Pc(r, "commit") /\ Free(Conn(r))
  /\ \/ tx[Conn(r)].st = "closed" /\ UNCHANGED <<tx, rows, faults>>
     \/ /\ tx[Conn(r)].st # "closed" /\ Fault
        /\ rows' \in {rows, Seen(Conn(r))}
        /\ tx' = [tx EXCEPT ![Conn(r)] = [NoTx EXCEPT !.st = "closed"]]
  /\ Ends(r, "failed")
  /\ UNCHANGED <<plan, hour, persist, events_ok, shared, raced>>

\* A query of the run can be sent.
Reading(r, pc) == Pc(r, pc) /\ run[r].cur # NoConn /\ Free(run[r].cur)

\* get_latest_snapshot_period: after the save, so that it is at least the
\* run's own period unless nothing was stored.
LatestPeriod(r) ==
  LET stored == {p \in Periods : Filled(Seen(run[r].cur), p) # {}}
  IN  /\ Reading(r, "latest") /\ tx[run[r].cur].st = "open"
      /\ \E latest \in stored \cup {0} :
           /\ \A p \in stored : p <= latest
           /\ run' = [run EXCEPT ![r].previous = latest,
                        ![r].pc = IF latest \in {0, run[r].period} THEN "notify" ELSE "load",
                        ![r].cur = IF latest \in {0, run[r].period}
                                   THEN NoConn ELSE Given(WorkerOf[r])]
      /\ UNCHANGED <<plan, hour, tx, persist, events_ok, rows, faults, shared, raced>>

LoadClusters(r) ==
  /\ Reading(r, "load") /\ tx[run[r].cur].st = "open"
  /\ run' = [run EXCEPT ![r].pc = "notify", ![r].cur = NoConn]
  /\ UNCHANGED <<plan, hour, tx, persist, events_ok, rows, faults, shared, raced>>

ReadRaises(r) ==
  /\ Reading(r, "latest") \/ Reading(r, "load")
  /\ StatementRaises(run[r].cur)
  /\ Ends(r, "failed")
  /\ UNCHANGED <<plan, hour, persist, events_ok, rows, shared, raced>>

\* The three notifiers, which swallow every error; the run has completed.
Notify(r) ==
  /\ Pc(r, "notify")
  /\ Ends(r, "done")
  /\ UNCHANGED <<plan, hour, tx, persist, events_ok, rows, faults, shared, raced>>

\* A worker dies with its runs and its connections.
Die(w) ==
  /\ Fault
  /\ run' = [r \in Runs |->
               IF WorkerOf[r] = w /\ UnderWay(r) THEN Over("failed") ELSE run[r]]
  /\ tx' = [c \in Conns |-> IF WorkerOf[c[1]] = w THEN NoTx ELSE tx[c]]
  /\ persist' = [persist EXCEPT ![w] = NoConn]
  /\ events_ok' = [events_ok EXCEPT ![w] = TRUE]
  /\ UNCHANGED <<plan, hour, rows, shared, raced>>

Tick ==
  /\ hour < MaxHour
  /\ hour' = hour + 1
  /\ UNCHANGED <<plan, run, tx, persist, events_ok, rows, faults, shared, raced>>

Step(r) ==
  \/ FetchEvents(r) \/ FetchRaises(r)
  \/ Connect(r) \/ ConnectRaises(r)
  \/ Upsert(r) \/ WaitForRow(r) \/ UpsertRaises(r) \/ DeadlockVictim(r)
  \/ InsertEvents(r) \/ Commit(r) \/ CommitRaises(r)
  \/ LatestPeriod(r) \/ LoadClusters(r) \/ ReadRaises(r)
  \/ Notify(r)

Next ==
  \/ \E r \in Runs : Start(r) \/ Step(r)
  \/ \E w \in Workers : Die(w)
  \/ Tick

\* While runs can go on, one of them does: PostgreSQL is assumed to answer or to
\* fail and finds the circles, and no call of Jira to hold the loop of a worker
\* for ever.  Nothing has to start, fail or die.
GoesOn(r) == DeadlockVictim(r) \/ (Step(r) /\ faults' = faults)

Spec == Init /\ [][Next]_vars /\ WF_vars(\E r \in Runs : GoesOn(r))

-----------------------------------------------------------------------------
(* Properties                                                              *)

\* Types; a transaction that is not open writes nothing, and only the rows of
\* hours that have come are written.
TypeOK ==
  /\ plan \in Plans
  /\ hour \in Periods
  /\ run \in [Runs -> RunState]
  /\ tx \in [Conns -> [st : {"open", "aborted", "closed"}, writes : [Keys -> Runs \cup {NoRow}]]]
  /\ \A c \in Conns :
       /\ \A k \in Keys : tx[c].writes[k] # NoRow => k[1] <= hour
       /\ tx[c].st # "open" => tx[c].writes = NoTx.writes
  /\ persist \in [Workers -> Conns \cup {NoConn}]
  /\ events_ok \in [Workers -> BOOLEAN]
  /\ rows \in [Keys -> Runs \cup {NoRow}]
  /\ faults \in Nat
  /\ shared \subseteq Workers /\ raced \subseteq Workers

\* The rows of the clusters that run r has found.
RowsOf(r) == {run[r].period} \X (1..run[r].found)

\* As long as no worker has had two runs at once, a snapshot changes at
\* once and in the rows of one run: whatever fails, waits or dies between
\* its statements, a reader finds all the clusters of a run or none, and
\* each row that changes is then that run's.
SnapshotAtOnce ==
  [][(rows' # rows /\ shared' = {}) =>
       \E r \in Runs :
         /\ \A k \in RowsOf(r) : rows'[k] = r
         /\ \A k \in Keys \ RowsOf(r) : rows'[k] = rows[k]]_vars

\* When nothing fails, a run that reports its clusters as saved has all of
\* them stored, even where runs of a worker commit each other's halves, and
\* its hour is found as the latest or a later one is; unless two runs of the
\* worker have each made a connection, when one commits that of the other.
SavedIsStored ==
  faults = 0 =>
    \A r \in Runs :
      /\ run[r].pc \in {"latest", "load", "notify"}
      /\ WorkerOf[r] \notin raced
      =>
        /\ \A k \in RowsOf(r) : rows[k] # NoRow
        /\ run[r].pc # "latest" => run[r].previous >= run[r].period

\* The runs that have started come to an end, although they wait for rows
\* that other transactions hold, for the statements of their worker's other
\* runs, and in circles of both; unless a connection was replaced alive: its
\* rows may then wait for a COMMIT that waits for them.
EveryRunEnds ==
  (\E r \in Runs : UnderWay(r)) ~> (\A r \in Runs : ~UnderWay(r)) \/ raced # {}
=============================================================================
