---------------------------- MODULE Mining_proofs ----------------------------
(***************************************************************************)
(* Proofs about MiningRuns.tla, for any workers, runs, clusters, hours and *)
(* faults, however many runs overlap and share a connection, or replace    *)
(* it; and about MiningQueries.tla, for any threads, words and times, and  *)
(* however long the store grows.                                           *)
(***************************************************************************)
EXTENDS MiningRuns, MiningQueries, Integers, FiniteSetTheorems, FunctionTheorems,
        SequenceTheorems, WellFoundedInduction, TLAPS

\* How many rows of its snapshot a run has written to its transaction.
Wrote(r) ==
  CASE run[r].pc \in {"upsert", "waiting"} -> run[r].at - 1
    [] run[r].pc = "events" -> run[r].at
    [] run[r].pc = "commit" -> run[r].found
    [] OTHER -> 0

RowsWritten(r) == {run[r].period} \X (1..Wrote(r))

\* The clusters of a run are saved in their order, over a connection.
RunFits(r) ==
  /\ run[r].period <= hour
  /\ run[r].pc \in {"idle", "fetch"} => run[r].at = 1
  /\ run[r].pc \in {"upsert", "waiting", "events"} => run[r].at <= run[r].found
  /\ run[r].pc = "commit" => run[r].at = run[r].found + 1
  /\ run[r].pc = "upsert" /\ run[r].cur = NoConn => run[r].at = 1
  /\ run[r].pc \in {"idle", "fetch", "notify", "done", "failed"} => run[r].cur = NoConn
  /\ run[r].pc \in {"waiting", "events", "commit", "latest"} => run[r].cur # NoConn

\* The connection of a run is one of its worker; unless one was replaced
\* alive, it is the one that the worker has or it is lost; and where runs
\* never meet, it is the one that the worker has.
Connected(r) ==
  /\ run[r].cur # NoConn =>
       /\ WorkerOf[run[r].cur[1]] = WorkerOf[r]
       /\ Conn(r) # NoConn
  /\ Pc(r, "waiting") => tx[run[r].cur].st = "open"
  /\ WorkerOf[r] \notin raced =>
       run[r].cur \in {Conn(r), NoConn} \/ tx[run[r].cur].st = "closed"
  /\ WorkerOf[r] \notin shared =>
       /\ run[r].cur \in {Conn(r), NoConn}
       /\ Awaits(r) => Given(WorkerOf[r]) = NoConn

Connections ==
  /\ \A w \in Workers : persist[w] # NoConn => WorkerOf[persist[w][1]] = w
  /\ \A r, s \in Runs :
       Pc(r, "waiting") /\ Pc(s, "waiting") /\ run[r].cur = run[s].cur => r = s
  /\ raced \subseteq shared

\* What the history variable stands for.
OneAtATime ==
  \A r, s \in Runs :
    UnderWay(r) /\ UnderWay(s) /\ WorkerOf[r] = WorkerOf[s] /\ WorkerOf[r] \notin shared
      => r = s

\* What an open transaction holds was written over it by runs that are still
\* saving, unless a connection was replaced alive.
WritersSave ==
  \A c \in Conns, k \in Keys, s \in Runs :
    WorkerOf[c[1]] \notin raced /\ tx[c].writes[k] = s =>
      run[s].cur = c /\ k \in RowsWritten(s)

\* The open transaction of a worker whose runs have never met holds all that
\* the run under way has written.
OwnWrites ==
  \A r \in Runs :
    WorkerOf[r] \notin shared /\ Conn(r) # NoConn /\ tx[Conn(r)].st = "open" =>
      \A k \in RowsWritten(r) : tx[Conn(r)].writes[k] = r

IInv ==
  /\ TypeOK
  /\ \A r \in Runs : RunFits(r) /\ Connected(r)
  /\ Connections /\ OneAtATime /\ WritersSave /\ OwnWrites

TxState == [st : {"open", "aborted", "closed"}, writes : [Keys -> Runs \cup {NoRow}]]

-----------------------------------------------------------------------------
\* Names that stand for nothing are no runs and no connections.
LEMMA Nothings ==
  /\ NoConn \notin Conns
  /\ NoRow \notin Runs
  /\ NoTx \in TxState /\ NoTx.st = "open"
  /\ NoTx.writes \in [Keys -> Runs \cup {NoRow}]
  /\ \A k \in Keys : NoTx.writes[k] = NoRow
  /\ \A c \in Conns : c[1] \in Runs /\ WorkerOf[c[1]] \in Workers
BY MiningAssumption DEF NoConn, Conns, NoRow, NoTx, TxState

\* The types of what a run holds.
LEMMA RunType ==
  ASSUME TypeOK, NEW r \in Runs
  PROVE  /\ run[r] \in RunState
         /\ run[r].pc \in {"idle", "fetch", "upsert", "waiting", "events", "commit", "latest",
                           "load", "notify", "done", "failed"}
         /\ run[r].period \in Periods /\ run[r].period \in Nat
         /\ run[r].found \in Nat /\ run[r].found <= MaxClusters
         /\ run[r].at \in Nat /\ run[r].at >= 1 /\ run[r].at <= MaxClusters + 1
         /\ run[r].previous \in 0..MaxHour
         /\ run[r].cur \in Conns \cup {NoConn}
         /\ Wrote(r) \in Int
         /\ WorkerOf[r] \in Workers /\ Conn(r) \in Conns \cup {NoConn}
         /\ hour \in Nat /\ 1 <= hour /\ MaxClusters \in Nat /\ MaxHour \in Nat
BY MiningAssumption DEF TypeOK, RunState, Periods, Wrote, Conn

\* The type of a transaction.
LEMMA TxType ==
  ASSUME TypeOK, NEW c \in Conns
  PROVE  /\ tx[c] \in TxState
         /\ tx[c].st \in {"open", "aborted", "closed"}
         /\ tx[c].writes \in [Keys -> Runs \cup {NoRow}]
         /\ tx[c].st # "open" => tx[c].writes = NoTx.writes
BY DEF TypeOK, TxState

\* A run that is not saving has written nothing.
LEMMA NothingWritten ==
  ASSUME NEW r \in Runs, run[r].pc \notin {"upsert", "waiting", "events", "commit"}
  PROVE  RowsWritten(r) = {}
BY DEF RowsWritten, Wrote

\* The end of a run.
LEMMA OverFits ==
  ASSUME NEW pc \in {"done", "failed"}
  PROVE  /\ Over(pc) \in RunState
         /\ Over(pc).pc = pc /\ Over(pc).period = 1 /\ Over(pc).cur = NoConn
BY MiningAssumption DEF Over, Fresh, RunState, Periods

\* The rows of a run are rows of the table, those it has written are its own.
LEMMA RowsInKeys ==
  ASSUME IInv, NEW r \in Runs
  PROVE  RowsWritten(r) \subseteq RowsOf(r) /\ RowsOf(r) \subseteq Keys
<1>1. /\ run[r].found \in Nat /\ run[r].at \in Nat /\ MaxClusters \in Nat
      /\ run[r].found <= MaxClusters /\ run[r].period \in Periods /\ RunFits(r)
      /\ Wrote(r) \in Int
  BY RunType DEF IInv
<1>2. Wrote(r) <= run[r].found
  BY <1>1 DEF Wrote, RunFits
<1>3. 1..Wrote(r) \subseteq 1..run[r].found /\ 1..run[r].found \subseteq 1..MaxClusters
  BY <1>1, <1>2
<1> QED BY <1>1, <1>3 DEF RowsWritten, RowsOf, Keys

LEMMA InitInv == Init => IInv
<1> SUFFICES ASSUME Init PROVE IInv
  OBVIOUS
<1> USE MiningAssumption
<1>1. 1 \in Periods /\ 0 \in 0..MaxClusters /\ 1 \in 1..(MaxClusters + 1) /\ 0 \in 0..MaxHour
  BY DEF Periods
<1>2. Fresh \in RunState
  BY <1>1 DEF Fresh, RunState
<1>3. \A r \in Runs : run[r] = Fresh /\ run[r].pc = "idle" /\ run[r].cur = NoConn /\ run[r].at = 1
                      /\ run[r].period = 1
  BY DEF Init, Fresh
<1>4. /\ \A c \in Conns : tx[c] = NoTx /\ tx \in [Conns -> TxState]
      /\ \A w \in Workers : persist[w] = NoConn
  BY Nothings DEF Init
<1>5. TypeOK
  BY <1>1, <1>2, <1>4, Nothings DEF Init, TypeOK, TxState
<1>6. \A r \in Runs : RunFits(r) /\ Connected(r)
  <2> TAKE r \in Runs
  <2>1. RunFits(r)
    BY <1>3 DEF Init, RunFits
  <2>2. Connected(r)
    BY <1>3 DEF Connected, Pc, Awaits
  <2> QED BY <2>1, <2>2
<1>7. Connections /\ OneAtATime
  BY <1>3, <1>4 DEF Connections, OneAtATime, UnderWay, Pc, Init
<1>8. WritersSave
  BY <1>4, Nothings DEF WritersSave
<1>9. OwnWrites
  BY <1>3, NothingWritten DEF OwnWrites
<1> QED BY <1>5, <1>6, <1>7, <1>8, <1>9 DEF IInv

-----------------------------------------------------------------------------
(* A step of one run                                                       *)

\* The connections that a step changes, those of the run, lose what was
\* written over them; no other run's statement waits on them.
TxMoves(r) ==
  /\ tx' \in [Conns -> TxState]
  /\ \A c \in Conns : tx'[c] # tx[c] =>
       /\ c \in {run[r].cur, Conn(r)}
       /\ tx'[c].writes = NoTx.writes
       /\ tx[c].st # "closed"
       /\ \A s \in Runs \ {r} : Pc(s, "waiting") => run[s].cur # c

\* A run goes on as "new", and writes nothing.
RunMoves(r, new) ==
  /\ run' = [run EXCEPT ![r] = new]
  /\ UNCHANGED <<plan, hour, persist, shared, raced>>
  /\ events_ok' \in [Workers -> BOOLEAN]
  /\ rows' \in [Keys -> Runs \cup {NoRow}]
  /\ faults' \in Nat
  /\ TxMoves(r)

\* What a run has written stays its own, or it is gone.
KeepsOrDrops(r, new) ==
  \/ RowsWritten(r) \subseteq RowsWritten(r)' /\ new.cur = run[r].cur
  \/ RowsWritten(r) = {}
  \/ run[r].cur = NoConn
  \/ tx'[run[r].cur].writes = NoTx.writes

LEMMA MovesInv ==
  ASSUME IInv, NEW r \in Runs, NEW new \in RunState, UnderWay(r), RunMoves(r, new),
         RunFits(r)', Connected(r)',
         new.pc = "waiting" => \A s \in Runs \ {r} : Pc(s, "waiting") => run[s].cur # new.cur,
         WorkerOf[r] \notin raced => KeepsOrDrops(r, new),
         \/ RowsWritten(r)' \subseteq RowsWritten(r) /\ tx'[Conn(r)] = tx[Conn(r)]
         \/ tx'[Conn(r)].st # "open"
         \/ RowsWritten(r)' = {}
  PROVE  IInv'
<1> USE Nothings
<1>1. /\ run'[r] = new
      /\ \A s \in Runs \ {r} : run'[s] = run[s]
  BY DEF RunMoves, IInv, TypeOK
<1>2. \A s \in Runs \ {r} : RowsWritten(s)' = RowsWritten(s)
  BY <1>1 DEF RowsWritten, Wrote
<1>3. UNCHANGED <<plan, hour, persist, shared, raced>>
  BY DEF RunMoves
<1>4. \A c \in Conns : tx'[c] # tx[c] =>
        /\ c \in {run[r].cur, Conn(r)}
        /\ tx'[c].writes = NoTx.writes
        /\ tx[c].st # "closed"
        /\ \A s \in Runs \ {r} : Pc(s, "waiting") => run[s].cur # c
  BY DEF RunMoves, TxMoves
<1>5. \A s \in Runs : Conn(s)' = Conn(s) /\ Conn(s) \in Conns \cup {NoConn}
                      /\ run[s].cur \in Conns \cup {NoConn}
  BY <1>3, RunType DEF Conn, IInv
<1>6. TypeOK'
  <2>1. ASSUME NEW c \in Conns
        PROVE  /\ \A k \in Keys : tx'[c].writes[k] # NoRow => k[1] <= hour
               /\ tx'[c].st # "open" => tx'[c].writes = NoTx.writes
    BY <1>4 DEF IInv, TypeOK
  <2>2. run' \in [Runs -> RunState]
    BY DEF RunMoves, IInv, TypeOK
  <2>3. tx' \in [Conns -> TxState]
    BY DEF RunMoves, TxMoves
  <2> QED BY <1>3, <2>1, <2>2, <2>3 DEF RunMoves, IInv, TypeOK, TxState
<1>7. ASSUME NEW s \in Runs \ {r} PROVE RunFits(s)' /\ Connected(s)'
  <2>1. RunFits(s)'
    BY <1>1, <1>3 DEF IInv, RunFits
  <2>2. Connected(s) /\ Conn(s)' = Conn(s) /\ run'[s] = run[s]
    BY <1>1, <1>5 DEF IInv
  <2>3. Pc(s, "waiting")' => tx'[run[s].cur].st = "open"
    <3> SUFFICES ASSUME Pc(s, "waiting") PROVE tx'[run[s].cur].st = "open"
      BY <2>2 DEF Pc
    <3>1. run[s].cur \in Conns
      BY <1>5 DEF IInv, RunFits, Pc
    <3>2. tx'[run[s].cur] = tx[run[s].cur]
      BY <1>4, <3>1
    <3> QED BY <2>2, <3>2 DEF Connected
  <2>4. run[s].cur # NoConn /\ tx[run[s].cur].st = "closed" => tx'[run[s].cur].st = "closed"
    BY <1>4, <1>5
  <2>5. Given(WorkerOf[s]) = NoConn => Given(WorkerOf[s])' = NoConn
    <3>1. Conn(s) \in Conns /\ tx[Conn(s)].st = "closed" => tx'[Conn(s)].st = "closed"
      BY <1>4
    <3>2. Conn(s) = persist[WorkerOf[s]] /\ persist' = persist
      BY <1>3 DEF Conn
    <3> QED BY <1>5, <3>1, <3>2 DEF Given
  <2>6. Awaits(s)' => Awaits(s)
    BY <2>2 DEF Awaits
  <2> QED BY <1>3, <2>1, <2>2, <2>3, <2>4, <2>5, <2>6 DEF Connected
<1>8. Connections'
  BY <1>1, <1>3 DEF IInv, Connections, Pc
<1>9. OneAtATime'
  BY <1>1, <1>3 DEF IInv, OneAtATime, UnderWay
<1>10. WritersSave'
  <2> SUFFICES ASSUME NEW c \in Conns, NEW k \in Keys, NEW s \in Runs,
                      WorkerOf[c[1]] \notin raced, tx'[c].writes[k] = s
               PROVE  run'[s].cur = c /\ k \in RowsWritten(s)'
    BY <1>3 DEF WritersSave
  <2>1. tx'[c].writes # NoTx.writes
    OBVIOUS
  <2>2. tx'[c] = tx[c]
    BY <1>4, <2>1
  <2>3. run[s].cur = c /\ k \in RowsWritten(s)
    BY <2>2 DEF IInv, WritersSave
  <2>4. CASE s # r
    BY <1>1, <1>2, <2>3, <2>4
  <2>5. CASE s = r
    <3>1. WorkerOf[r] = WorkerOf[c[1]]
      BY <2>3, <2>5 DEF IInv, Connected
    <3>2. KeepsOrDrops(r, new)
      BY <3>1
    <3> QED BY <1>1, <2>1, <2>3, <2>5, <3>2 DEF KeepsOrDrops
  <2> QED BY <2>4, <2>5
<1>11. OwnWrites'
  <2> SUFFICES ASSUME NEW s \in Runs, WorkerOf[s] \notin shared, Conn(s) \in Conns,
                      tx'[Conn(s)].st = "open", NEW k \in RowsWritten(s)'
               PROVE  tx'[Conn(s)].writes[k] = s
    BY <1>3, <1>5 DEF OwnWrites
  <2>1. CASE s = r
    BY <2>1 DEF IInv, OwnWrites
  <2>2. CASE s # r
    <3>1. k \in RowsWritten(s)
      BY <1>2, <2>2
    <3>2. UnderWay(s)
      BY <3>1, NothingWritten DEF UnderWay
    <3>3. WorkerOf[s] # WorkerOf[r]
      BY <2>2, <3>2 DEF IInv, OneAtATime
    <3>4. Conn(s) \notin {run[r].cur, Conn(r)}
      <4>1. WorkerOf[Conn(s)[1]] = WorkerOf[s]
        BY RunType DEF IInv, Connections, Conn
      <4>2. Conn(r) # NoConn => WorkerOf[Conn(r)[1]] = WorkerOf[r]
        BY RunType DEF IInv, Connections, Conn
      <4>3. run[r].cur # NoConn => WorkerOf[run[r].cur[1]] = WorkerOf[r]
        BY DEF IInv, Connected
      <4> QED BY <3>3, <4>1, <4>2, <4>3
    <3>5. tx'[Conn(s)] = tx[Conn(s)]
      BY <1>4, <3>4
    <3> QED BY <3>1, <3>5 DEF IInv, OwnWrites
  <2> QED BY <2>1, <2>2
<1> QED BY <1>6, <1>7, <1>8, <1>9, <1>10, <1>11 DEF IInv

\* No statement of another run waits on a connection on which the run can send
\* its own, or on which its own waits.
LEMMA NobodyElse ==
  ASSUME IInv, NEW r \in Runs, NEW c,
         Free(c) \/ (Pc(r, "waiting") /\ run[r].cur = c)
  PROVE  \A s \in Runs \ {r} : Pc(s, "waiting") => run[s].cur # c
BY DEF IInv, Connections, Free, Waiting

\* A statement that raises leaves its connection with nothing written over it.
LEMMA RaisesIs ==
  ASSUME IInv, NEW r \in Runs, NEW c \in Conns, c \in {run[r].cur, Conn(r)},
         \A s \in Runs \ {r} : Pc(s, "waiting") => run[s].cur # c,
         StatementRaises(c)
  PROVE  /\ TxMoves(r) /\ faults' \in Nat
         /\ tx'[c].writes = NoTx.writes /\ tx'[c].st # "open"
         /\ \A d \in Conns \ {c} : tx'[d] = tx[d]
         /\ faults' = faults => UNCHANGED tx
<1>1. faults \in Nat /\ tx \in [Conns -> TxState]
  BY DEF IInv, TypeOK, TxState
<1>2. CASE tx[c].st # "open" /\ UNCHANGED <<tx, faults>>
  BY <1>1, <1>2, TxType DEF TxMoves, IInv
<1>3. CASE tx[c].st # "closed" /\ Fault /\ Breaks(c)
  <2>1. PICK st \in {"aborted", "closed"} : tx' = [tx EXCEPT ![c] = [NoTx EXCEPT !.st = st]]
    BY <1>3 DEF Breaks
  <2> DEFINE broken == [NoTx EXCEPT !.st = st]
  <2>2. broken \in TxState /\ broken.writes = NoTx.writes /\ broken.st = st
    BY Nothings DEF NoTx, TxState
  <2>3. tx' = [tx EXCEPT ![c] = broken]
    BY <2>1
  <2> HIDE DEF broken
  <2>4. tx' \in [Conns -> TxState] /\ tx'[c] = broken /\ \A d \in Conns \ {c} : tx'[d] = tx[d]
    BY <1>1, <2>2, <2>3
  <2>5. faults' = faults + 1
    BY <1>3 DEF Fault
  <2> QED BY <1>1, <1>3, <2>2, <2>4, <2>5 DEF TxMoves
<1> QED BY <1>2, <1>3 DEF StatementRaises

\* The connection of a run that has one or that is at its COMMIT.
LEMMA HasConn ==
  ASSUME IInv, NEW r \in Runs, run[r].cur # NoConn
  PROVE  run[r].cur \in Conns /\ Conn(r) \in Conns
BY RunType DEF IInv, Connected

\* A run ends, and the connections of the run lose what it has written.
LEMMA EndInv ==
  ASSUME IInv, NEW r \in Runs, NEW pc \in {"done", "failed"}, Ends(r, pc), UnderWay(r),
         UNCHANGED <<plan, hour, persist, shared, raced>>,
         events_ok' \in [Workers -> BOOLEAN], rows' \in [Keys -> Runs \cup {NoRow}],
         faults' \in Nat, TxMoves(r),
         \/ RowsWritten(r) = {}
         \/ run[r].cur = NoConn
         \/ tx'[run[r].cur].writes = NoTx.writes
         \/ WorkerOf[r] \in raced
  PROVE  /\ IInv' /\ run'[r] = Over(pc)
         /\ \A s \in Runs \ {r} : run'[s] = run[s]
<1>1. /\ run' = [run EXCEPT ![r] = Over(pc)] /\ run'[r] = Over(pc)
      /\ \A s \in Runs \ {r} : run'[s] = run[s]
  BY DEF Ends, IInv, TypeOK
<1>2. run'[r].pc = pc /\ run'[r].period = 1 /\ run'[r].cur = NoConn
  BY <1>1, OverFits
<1>3. RunFits(r)'
  BY <1>2, RunType DEF RunFits, IInv
<1>4. Connected(r)'
  BY <1>2 DEF Connected, Pc, Awaits
<1>5. RowsWritten(r)' = {}
  BY <1>2 DEF RowsWritten, Wrote
<1>6. RunMoves(r, Over(pc)) /\ (WorkerOf[r] \notin raced => KeepsOrDrops(r, Over(pc)))
  BY <1>1 DEF RunMoves, KeepsOrDrops
<1> QED BY <1>1, <1>2, <1>3, <1>4, <1>5, <1>6, OverFits, MovesInv

\* The ends of a run: what they do, in one lemma.
LEMMA EndsInv ==
  ASSUME IInv, NEW r \in Runs,
         \/ FetchEvents(r) /\ plan.finds[r] = 0
         \/ FetchRaises(r) \/ ConnectRaises(r) \/ UpsertRaises(r) \/ DeadlockVictim(r)
         \/ CommitRaises(r) \/ ReadRaises(r) \/ Notify(r)
  PROVE  /\ IInv' /\ UnderWay(r)
         /\ \E pc \in {"done", "failed"} : run'[r] = Over(pc)
         /\ \A s \in Runs \ {r} : run'[s] = run[s]
         /\ faults' \in Nat /\ (faults' = faults => UNCHANGED <<tx, rows>>)
         /\ TxMoves(r) /\ UNCHANGED <<plan, persist, raced>>
<1> DEFINE Goal == /\ IInv' /\ UnderWay(r)
                   /\ \E pc \in {"done", "failed"} : run'[r] = Over(pc)
                   /\ \A s \in Runs \ {r} : run'[s] = run[s]
                   /\ faults' \in Nat /\ (faults' = faults => UNCHANGED <<tx, rows>>)
                   /\ TxMoves(r) /\ UNCHANGED <<plan, persist, raced>>
<1>0. /\ faults \in Nat /\ events_ok \in [Workers -> BOOLEAN]
      /\ rows \in [Keys -> Runs \cup {NoRow}] /\ tx \in [Conns -> TxState]
  BY DEF IInv, TypeOK, TxState
<1>1. UNCHANGED tx => TxMoves(r)
  BY <1>0 DEF TxMoves
<1>2. Fault => faults' \in Nat /\ faults' # faults
  BY <1>0 DEF Fault
<1>3. CASE FetchEvents(r) /\ plan.finds[r] = 0
  <2>1. /\ run[r].pc = "fetch" /\ Ends(r, "done") /\ RowsWritten(r) = {} /\ UnderWay(r)
        /\ UNCHANGED <<plan, hour, tx, persist, events_ok, rows, faults, shared, raced>>
    BY <1>3, NothingWritten DEF FetchEvents, Pc, UnderWay
  <2> QED BY <1>0, <1>1, <2>1, EndInv
<1>4. CASE FetchRaises(r)
  <2>1. /\ run[r].pc = "fetch" /\ Ends(r, "failed") /\ RowsWritten(r) = {} /\ UnderWay(r)
        /\ UNCHANGED <<plan, hour, tx, persist, rows, shared, raced>>
    BY <1>4, NothingWritten DEF FetchRaises, Pc, UnderWay
  <2>2. events_ok' \in [Workers -> BOOLEAN] /\ faults' \in Nat
    BY <1>0, <1>2, <1>4 DEF FetchRaises
  <2> QED BY <1>0, <1>1, <2>1, <2>2, EndInv
<1>5. CASE ConnectRaises(r)
  <2>1. /\ run[r].cur = NoConn /\ Ends(r, "failed") /\ UnderWay(r) /\ Fault
        /\ UNCHANGED <<plan, hour, tx, persist, events_ok, rows, shared, raced>>
    BY <1>5 DEF ConnectRaises, Awaits, UnderWay
  <2> QED BY <1>0, <1>1, <1>2, <2>1, EndInv
<1>6. CASE UpsertRaises(r) \/ ReadRaises(r)
  <2>1. /\ Ends(r, "failed") /\ UnderWay(r) /\ StatementRaises(run[r].cur)
        /\ UNCHANGED <<plan, hour, persist, events_ok, rows, shared, raced>>
        /\ Free(run[r].cur) \/ Pc(r, "waiting")
        /\ run[r].cur # NoConn
    BY <1>6 DEF UpsertRaises, ReadRaises, Upserting, Reading, Pc, UnderWay, IInv, RunFits
  <2>2. run[r].cur \in Conns
    BY <2>1, HasConn
  <2>3. \A s \in Runs \ {r} : Pc(s, "waiting") => run[s].cur # run[r].cur
    BY <2>1, NobodyElse
  <2>4. /\ TxMoves(r) /\ faults' \in Nat /\ tx'[run[r].cur].writes = NoTx.writes
        /\ faults' = faults => UNCHANGED tx
    BY <2>1, <2>2, <2>3, RaisesIs
  <2> QED BY <1>0, <2>1, <2>4, EndInv
<1>7. CASE DeadlockVictim(r)
  <2> DEFINE c == run[r].cur
             aborted == [NoTx EXCEPT !.st = "aborted"]
  <2>1. /\ Pc(r, "waiting") /\ Ends(r, "failed") /\ UnderWay(r) /\ c # NoConn
        /\ tx' = [tx EXCEPT ![c] = aborted] /\ faults' = faults + 1
        /\ UNCHANGED <<plan, hour, persist, events_ok, rows, shared, raced>>
    BY <1>7 DEF DeadlockVictim, Pc, UnderWay, IInv, RunFits
  <2>2. aborted \in TxState /\ aborted.writes = NoTx.writes
    BY Nothings DEF NoTx, TxState
  <2>3. c \in Conns /\ tx[c].st = "open"
    BY <2>1, HasConn DEF IInv, Connected
  <2>4. \A s \in Runs \ {r} : Pc(s, "waiting") => run[s].cur # c
    BY <2>1, NobodyElse
  <2> HIDE DEF aborted
  <2>5. tx' \in [Conns -> TxState] /\ tx'[c] = aborted /\ \A d \in Conns \ {c} : tx'[d] = tx[d]
    BY <1>0, <2>1, <2>2, <2>3
  <2>6. TxMoves(r) /\ tx'[c].writes = NoTx.writes
    BY <2>2, <2>3, <2>4, <2>5 DEF TxMoves
  <2> QED BY <1>0, <2>1, <2>6, EndInv
<1>8. CASE CommitRaises(r)
  <2> DEFINE c == Conn(r)
             closed == [NoTx EXCEPT !.st = "closed"]
  <2>1. /\ run[r].pc = "commit" /\ Free(c) /\ Ends(r, "failed") /\ UnderWay(r)
        /\ run[r].cur # NoConn
        /\ UNCHANGED <<plan, hour, persist, events_ok, shared, raced>>
    BY <1>8 DEF CommitRaises, Pc, UnderWay, IInv, RunFits
  <2>2. c \in Conns /\ run[r].cur \in Conns
    BY <2>1, HasConn
  <2>3. \A s \in Runs \ {r} : Pc(s, "waiting") => run[s].cur # c
    BY <2>1, NobodyElse
  <2>4. closed \in TxState /\ closed.writes = NoTx.writes
    BY Nothings DEF NoTx, TxState
  <2>5. /\ tx[c].st = "closed" /\ UNCHANGED <<tx, rows, faults>>
        \/ /\ tx[c].st # "closed" /\ Fault
           /\ rows' \in {rows, Seen(c)}
           /\ tx' = [tx EXCEPT ![c] = closed]
    BY <1>8 DEF CommitRaises
  <2> HIDE DEF closed
  <2>6. /\ tx' \in [Conns -> TxState] /\ tx'[c].writes = NoTx.writes
        /\ tx'[c] # tx[c] => tx[c].st # "closed"
        /\ \A d \in Conns \ {c} : tx'[d] = tx[d]
    BY <1>0, <2>2, <2>4, <2>5, TxType DEF IInv
  <2>7. TxMoves(r)
    BY <2>2, <2>3, <2>6 DEF TxMoves
  <2>8. rows' \in [Keys -> Runs \cup {NoRow}] /\ faults' \in Nat
        /\ (faults' = faults => UNCHANGED <<tx, rows>>)
    <3>1. Seen(c) \in [Keys -> Runs \cup {NoRow}]
      BY <1>0, <2>2, TxType DEF Seen, IInv
    <3> QED BY <1>0, <1>2, <2>5, <3>1
  <2>9. WorkerOf[r] \in raced \/ tx'[run[r].cur].writes = NoTx.writes
    <3> SUFFICES ASSUME WorkerOf[r] \notin raced PROVE tx'[run[r].cur].writes = NoTx.writes
      OBVIOUS
    <3>1. run[r].cur = c \/ tx[run[r].cur].st = "closed"
      BY <2>1 DEF IInv, Connected
    <3>2. tx[run[r].cur].st = "closed" => tx[run[r].cur].writes = NoTx.writes
      BY <2>2, TxType DEF IInv
    <3> QED BY <2>2, <2>6, <3>1, <3>2
  <2> QED BY <1>0, <2>1, <2>7, <2>8, <2>9, EndInv
<1>9. CASE Notify(r)
  <2>1. /\ run[r].pc = "notify" /\ Ends(r, "done") /\ RowsWritten(r) = {} /\ UnderWay(r)
        /\ UNCHANGED <<plan, hour, tx, persist, events_ok, rows, faults, shared, raced>>
    BY <1>9, NothingWritten DEF Notify, Pc, UnderWay
  <2> QED BY <1>0, <1>1, <2>1, EndInv
<1> QED BY <1>3, <1>4, <1>5, <1>6, <1>7, <1>8, <1>9

\* What _connect finds.
LEMMA GivenIs ==
  ASSUME IInv, NEW r \in Runs
  PROVE  LET g == Given(WorkerOf[r])
         IN  /\ g \in Conns \cup {NoConn} /\ g \in {Conn(r), NoConn}
             /\ g # NoConn => tx[Conn(r)].st # "closed" /\ WorkerOf[g[1]] = WorkerOf[r]
BY RunType DEF Given, Conn, IInv, Connections

\* Where a step of one run leads that writes nothing and ends nothing.
LEMMA GoesOnInv ==
  ASSUME IInv, NEW r \in Runs, NEW new \in RunState, UnderWay(r), RunMoves(r, new),
         RunFits(r)', new.pc # "waiting", new.cur \in {run[r].cur, Conn(r), NoConn},
         new.cur # NoConn => Conn(r) # NoConn /\ WorkerOf[new.cur[1]] = WorkerOf[r],
         new.cur = NoConn /\ new.pc \in {"upsert", "load"} => Given(WorkerOf[r])' = NoConn,
         WorkerOf[r] \notin raced => KeepsOrDrops(r, new),
         \/ RowsWritten(r)' \subseteq RowsWritten(r) /\ tx'[Conn(r)] = tx[Conn(r)]
         \/ tx'[Conn(r)].st # "open"
         \/ RowsWritten(r)' = {}
  PROVE  IInv'
<1>1. run'[r] = new /\ UNCHANGED <<persist, shared, raced>> /\ Conn(r)' = Conn(r)
  BY DEF RunMoves, IInv, TypeOK, Conn
<1>2. run[r].cur \in Conns /\ tx[run[r].cur].st = "closed" => tx'[run[r].cur].st = "closed"
  BY DEF RunMoves, TxMoves
<1>3. run[r].cur \in Conns \cup {NoConn} /\ Connected(r)
  BY RunType DEF IInv
<1>4. Connected(r)'
  BY <1>1, <1>2, <1>3 DEF Connected, Pc, Awaits
<1> QED BY <1>4, MovesInv

LEMMA FetchEventsIs ==
  ASSUME IInv, NEW r \in Runs, FetchEvents(r), plan.finds[r] # 0
  PROVE  /\ IInv'
         /\ run[r].pc = "fetch"
         /\ run'[r].pc = "upsert" /\ run'[r].at = 1 /\ run'[r].period = run[r].period
         /\ run'[r].found \in 1..MaxClusters /\ run'[r].cur = Given(WorkerOf[r])
         /\ \A s \in Runs \ {r} : run'[s] = run[s]
         /\ UNCHANGED <<tx, rows, persist, raced, faults>>
<1> DEFINE found == plan.finds[r]
           cur == Given(WorkerOf[r])
           new == [run[r] EXCEPT !.found = found, !.pc = "upsert", !.cur = cur]
<1>0. found \in 0..MaxClusters
  BY MiningAssumption DEF IInv, TypeOK
<1>1. found \in 1..MaxClusters /\ MaxClusters \in Nat
  BY <1>0, MiningAssumption
<1>2. /\ run[r].pc = "fetch" /\ run[r].at = 1 /\ run[r].period <= hour /\ run[r] \in RunState
      /\ UNCHANGED <<plan, hour, tx, persist, events_ok, rows, faults, shared, raced>>
      /\ UnderWay(r) /\ RowsWritten(r) = {}
  BY RunType, NothingWritten DEF FetchEvents, Pc, IInv, RunFits, UnderWay
<1>3. cur \in Conns \cup {NoConn}
  BY GivenIs
<1>4. run' = [run EXCEPT ![r] = new]
  BY <1>2 DEF FetchEvents, IInv, TypeOK
<1> HIDE DEF found, cur
<1>5. /\ new \in RunState /\ new.found = found /\ new.pc = "upsert" /\ new.cur = cur
      /\ new.at = 1 /\ new.period = run[r].period
  BY <1>0, <1>2, <1>3 DEF RunState
<1> HIDE DEF new
<1>6. run'[r] = new /\ \A s \in Runs \ {r} : run'[s] = run[s]
  BY <1>4 DEF IInv, TypeOK
<1>7. RunMoves(r, new)
  BY <1>2, <1>4 DEF RunMoves, TxMoves, IInv, TypeOK, TxState
<1>8. RunFits(r)' /\ RowsWritten(r)' = {}
  BY <1>1, <1>2, <1>5, <1>6 DEF RunFits, RowsWritten, Wrote
<1>9. Given(WorkerOf[r])' = Given(WorkerOf[r])
  BY <1>2 DEF Given
<1>10. /\ cur \in {Conn(r), NoConn}
       /\ cur # NoConn => Conn(r) # NoConn /\ WorkerOf[cur[1]] = WorkerOf[r]
  BY GivenIs DEF cur
<1>11. IInv'
  BY <1>2, <1>5, <1>7, <1>8, <1>9, <1>10, GoesOnInv DEF KeepsOrDrops, cur
<1> QED BY <1>1, <1>2, <1>5, <1>6, <1>11 DEF cur

LEMMA WaitForRowIs ==
  ASSUME IInv, NEW r \in Runs, WaitForRow(r)
  PROVE  /\ IInv'
         /\ run[r].pc = "upsert" /\ run[r].cur # NoConn
         /\ run'[r].pc = "waiting" /\ run'[r].at = run[r].at /\ run'[r].period = run[r].period
         /\ run'[r].found = run[r].found /\ run'[r].cur = run[r].cur
         /\ \A s \in Runs \ {r} : run'[s] = run[s]
         /\ UNCHANGED <<tx, rows, persist, raced, faults>>
<1> DEFINE new == [run[r] EXCEPT !.pc = "waiting"]
<1>1. /\ run[r].pc = "upsert" /\ run[r].cur # NoConn /\ Free(run[r].cur) /\ run[r] \in RunState
      /\ tx[run[r].cur].st = "open" /\ UnderWay(r)
      /\ UNCHANGED <<plan, hour, tx, persist, events_ok, rows, faults, shared, raced>>
  BY RunType DEF WaitForRow, Upserting, Pc, IInv, UnderWay
<1>2. run' = [run EXCEPT ![r] = new] /\ run'[r] = new /\ \A s \in Runs \ {r} : run'[s] = run[s]
  BY DEF WaitForRow, IInv, TypeOK
<1>3. /\ new \in RunState /\ new.found = run[r].found /\ new.pc = "waiting"
      /\ new.cur = run[r].cur /\ new.at = run[r].at /\ new.period = run[r].period
  BY <1>1 DEF RunState
<1> HIDE DEF new
<1>4. RunMoves(r, new)
  BY <1>1, <1>2 DEF RunMoves, TxMoves, IInv, TypeOK, TxState
<1>5. RunFits(r)' /\ RowsWritten(r)' = RowsWritten(r)
  BY <1>1, <1>2, <1>3 DEF RunFits, RowsWritten, Wrote, IInv
<1>6. Connected(r)'
  BY <1>1, <1>2, <1>3 DEF Connected, Pc, Awaits, Conn, IInv
<1>7. \A s \in Runs \ {r} : Pc(s, "waiting") => run[s].cur # new.cur
  BY <1>1, <1>3, NobodyElse
<1>8. IInv'
  BY <1>1, <1>3, <1>4, <1>5, <1>6, <1>7, MovesInv DEF KeepsOrDrops
<1> QED BY <1>1, <1>2, <1>3, <1>8

LEMMA InsertEventsIs ==
  ASSUME IInv, NEW r \in Runs, InsertEvents(r)
  PROVE  /\ IInv'
         /\ run[r].pc = "events" /\ run[r].cur # NoConn
         /\ run'[r].pc = (IF run[r].at < run[r].found THEN "upsert" ELSE "commit")
         /\ run'[r].at = run[r].at + 1 /\ run'[r].period = run[r].period
         /\ run'[r].found = run[r].found /\ run'[r].cur = run[r].cur
         /\ RowsWritten(r)' = RowsWritten(r)
         /\ \A s \in Runs \ {r} : run'[s] = run[s]
         /\ UNCHANGED <<plan, rows, persist, raced>> /\ TxMoves(r)
         /\ faults' \in Nat /\ (faults' = faults => UNCHANGED tx)
<1> DEFINE next == IF run[r].at < run[r].found THEN "upsert" ELSE "commit"
           after == run[r].at + 1
           new == [run[r] EXCEPT !.at = after, !.pc = next]
<1>1. /\ run[r].pc = "events" /\ run[r].cur # NoConn /\ Free(run[r].cur) /\ UnderWay(r)
      /\ run[r].at <= run[r].found
      /\ UNCHANGED <<plan, hour, persist, events_ok, rows, shared, raced>>
  BY DEF InsertEvents, Pc, IInv, UnderWay, RunFits
<1>2. /\ run[r] \in RunState /\ run[r].at \in Nat /\ run[r].found \in Nat
      /\ run[r].found <= MaxClusters /\ MaxClusters \in Nat /\ run[r].period <= hour
  BY RunType DEF IInv, RunFits
<1>3. next \in {"upsert", "commit"} /\ after \in 1..(MaxClusters + 1)
  BY <1>1, <1>2
<1>4. run' = [run EXCEPT ![r] = new]
  BY <1>2 DEF InsertEvents, NextCluster, IInv, TypeOK
<1>5. run[r].cur \in Conns /\ Conn(r) \in Conns
  BY <1>1, HasConn
<1>6. \A s \in Runs \ {r} : Pc(s, "waiting") => run[s].cur # run[r].cur
  BY <1>1, NobodyElse
<1>7. /\ TxMoves(r) /\ faults' \in Nat /\ (faults' = faults => UNCHANGED tx)
      /\ UNCHANGED tx \/ (/\ tx'[run[r].cur].st # "open"
                          /\ \A d \in Conns \ {run[r].cur} : tx'[d] = tx[d])
  <2>1. CASE UNCHANGED <<tx, faults>>
    BY <2>1 DEF TxMoves, IInv, TypeOK, TxState
  <2>2. CASE StatementRaises(run[r].cur)
    BY <1>5, <1>6, <2>2, RaisesIs
  <2> QED BY <2>1, <2>2 DEF InsertEvents
<1> HIDE DEF next, after
<1>8. /\ new \in RunState /\ new.found = run[r].found /\ new.pc = next
      /\ new.cur = run[r].cur /\ new.at = after /\ new.period = run[r].period
  BY <1>2, <1>3 DEF RunState
<1> HIDE DEF new
<1>9. run'[r] = new /\ \A s \in Runs \ {r} : run'[s] = run[s]
  BY <1>4 DEF IInv, TypeOK
<1>10. RunMoves(r, new)
  BY <1>1, <1>4, <1>7 DEF RunMoves, IInv, TypeOK
<1>11. RunFits(r)' /\ RowsWritten(r)' = RowsWritten(r)
  BY <1>1, <1>2, <1>3, <1>8, <1>9 DEF RunFits, RowsWritten, Wrote, next, after
<1>12. tx'[Conn(r)] = tx[Conn(r)] \/ tx'[Conn(r)].st # "open"
  BY <1>5, <1>7
<1>13. WorkerOf[run[r].cur[1]] = WorkerOf[r] /\ Conn(r) # NoConn
  BY <1>1 DEF IInv, Connected
<1>14. KeepsOrDrops(r, new)
  BY <1>8, <1>11 DEF KeepsOrDrops
<1>15. IInv'
  BY <1>1, <1>3, <1>8, <1>10, <1>11, <1>12, <1>13, <1>14, GoesOnInv
<1> QED BY <1>1, <1>7, <1>8, <1>9, <1>11, <1>15 DEF next, after

LEMMA CommitIs ==
  ASSUME IInv, NEW r \in Runs, Commit(r)
  PROVE  /\ IInv'
         /\ run[r].pc = "commit" /\ run[r].cur \in Conns /\ Conn(r) \in Conns
         /\ run'[r].pc = "latest" /\ run'[r].period = run[r].period
         /\ run'[r].found = run[r].found /\ run'[r].cur = Conn(r)
         /\ \A s \in Runs \ {r} : run'[s] = run[s]
         /\ UNCHANGED <<plan, faults, persist, raced>>
         /\ rows' = Seen(Conn(r))
         /\ tx'[Conn(r)] = NoTx /\ \A d \in Conns \ {Conn(r)} : tx'[d] = tx[d]
<1> DEFINE c == Conn(r)
           new == [run[r] EXCEPT !.pc = "latest", !.cur = c]
<1>1. /\ run[r].pc = "commit" /\ run[r].cur # NoConn /\ Free(c) /\ UnderWay(r)
      /\ run[r].period <= hour /\ tx[c].st # "closed" /\ rows' = Seen(c)
      /\ tx' = [tx EXCEPT ![c] = NoTx]
      /\ UNCHANGED <<plan, hour, persist, events_ok, faults, shared, raced>>
  BY DEF Commit, Pc, IInv, UnderWay, RunFits
<1>2. c \in Conns /\ run[r].cur \in Conns
  BY <1>1, HasConn
<1>3. run' = [run EXCEPT ![r] = new] /\ run'[r] = new /\ \A s \in Runs \ {r} : run'[s] = run[s]
  BY DEF Commit, IInv, TypeOK
<1> HIDE DEF c
<1>4. /\ new \in RunState /\ new.found = run[r].found /\ new.pc = "latest"
      /\ new.cur = c /\ new.period = run[r].period
  BY <1>2, RunType DEF RunState, IInv
<1> HIDE DEF new
<1>5. /\ tx' \in [Conns -> TxState] /\ tx'[c] = NoTx /\ \A d \in Conns \ {c} : tx'[d] = tx[d]
  BY <1>1, <1>2, Nothings DEF IInv, TypeOK, TxState
<1>6. \A s \in Runs \ {r} : Pc(s, "waiting") => run[s].cur # c
  BY <1>1, NobodyElse
<1>7. TxMoves(r)
  BY <1>1, <1>2, <1>5, <1>6, Nothings DEF TxMoves, c
<1>8. rows' \in [Keys -> Runs \cup {NoRow}]
  BY <1>1, <1>2, TxType DEF Seen, IInv, TypeOK
<1>9. RunMoves(r, new)
  BY <1>1, <1>3, <1>7, <1>8 DEF RunMoves, IInv, TypeOK
<1>10. RunFits(r)' /\ RowsWritten(r)' = {}
  BY <1>1, <1>2, <1>3, <1>4, Nothings DEF RunFits, RowsWritten, Wrote
<1>11. WorkerOf[c[1]] = WorkerOf[r]
  BY <1>2, RunType, Nothings DEF IInv, Connections, Conn, c
<1>12. WorkerOf[r] \notin raced => KeepsOrDrops(r, new)
  <2> SUFFICES ASSUME WorkerOf[r] \notin raced PROVE tx'[run[r].cur].writes = NoTx.writes
    BY DEF KeepsOrDrops
  <2>1. run[r].cur = c \/ tx[run[r].cur].st = "closed"
    BY <1>1 DEF IInv, Connected, c
  <2>2. tx[run[r].cur].st = "closed" => tx[run[r].cur].writes = NoTx.writes
    BY <1>2, TxType DEF IInv
  <2> QED BY <1>2, <1>5, <2>1, <2>2
<1>13. IInv'
  BY <1>1, <1>2, <1>4, <1>9, <1>10, <1>11, <1>12, Nothings, GoesOnInv DEF c
<1> QED BY <1>1, <1>2, <1>3, <1>4, <1>5, <1>13 DEF c

\* The two reads of a run, which write nothing.
LEMMA ReadsIs ==
  ASSUME IInv, NEW r \in Runs, LatestPeriod(r) \/ LoadClusters(r)
  PROVE  /\ IInv'
         /\ run[r].pc \in {"latest", "load"} /\ run[r].cur \in Conns
         /\ run'[r].pc \in {"load", "notify"} /\ run'[r].period = run[r].period
         /\ run'[r].found = run[r].found
         /\ run[r].pc = "load" => run'[r].pc = "notify" /\ run'[r].previous = run[r].previous
         /\ run[r].pc = "latest" =>
              LET stored == {p \in Periods : Filled(Seen(run[r].cur), p) # {}}
              IN  /\ \A p \in stored : p <= run'[r].previous
                  /\ run'[r].previous \in stored \cup {0}
                  /\ run'[r].pc = "load" => run'[r].cur = Given(WorkerOf[r])
         /\ \A s \in Runs \ {r} : run'[s] = run[s]
         /\ UNCHANGED <<tx, rows, persist, raced, faults>>
<1> DEFINE stored == {p \in Periods : Filled(Seen(run[r].cur), p) # {}}
<1>1. /\ run[r].pc \in {"latest", "load"} /\ run[r].cur # NoConn /\ UnderWay(r)
      /\ run[r].period <= hour /\ RowsWritten(r) = {} /\ run[r] \in RunState
      /\ UNCHANGED <<plan, hour, tx, persist, events_ok, rows, faults, shared, raced>>
  BY NothingWritten, RunType DEF LatestPeriod, LoadClusters, Reading, Pc, IInv, UnderWay, RunFits
<1>2. run[r].cur \in Conns
  BY <1>1, HasConn
<1>3. PICK new \in RunState :
        /\ run' = [run EXCEPT ![r] = new]
        /\ new.pc \in {"load", "notify"} /\ new.period = run[r].period
        /\ new.found = run[r].found
        /\ run[r].pc = "load" => new.pc = "notify" /\ new.previous = run[r].previous
        /\ run[r].pc = "latest" =>
             (\A p \in stored : p <= new.previous) /\ new.previous \in stored \cup {0}
        /\ new.cur = IF new.pc = "load" THEN Given(WorkerOf[r]) ELSE NoConn
  <2>1. CASE LatestPeriod(r)
    <3>1. run[r].pc = "latest"
      BY <2>1 DEF LatestPeriod, Reading, Pc
    <3>2. PICK latest \in stored \cup {0} :
            /\ \A p \in stored : p <= latest
            /\ run' = [run EXCEPT ![r].previous = latest,
                        ![r].pc = IF latest \in {0, run[r].period} THEN "notify" ELSE "load",
                        ![r].cur = IF latest \in {0, run[r].period}
                                   THEN NoConn ELSE Given(WorkerOf[r])]
      BY <2>1 DEF LatestPeriod
    <3> DEFINE next == IF latest \in {0, run[r].period} THEN "notify" ELSE "load"
               cur == IF latest \in {0, run[r].period} THEN NoConn ELSE Given(WorkerOf[r])
               new == [run[r] EXCEPT !.previous = latest, !.pc = next, !.cur = cur]
    <3>3. run' = [run EXCEPT ![r] = new]
      BY <3>2 DEF IInv, TypeOK
    <3>4. latest \in 0..MaxHour
      BY MiningAssumption DEF Periods
    <3>5. /\ next \in {"load", "notify"} /\ cur \in Conns \cup {NoConn}
          /\ cur = IF next = "load" THEN Given(WorkerOf[r]) ELSE NoConn
      BY GivenIs
    <3> HIDE DEF next, cur, stored
    <3>6. /\ new \in RunState /\ new.pc = next /\ new.period = run[r].period
          /\ new.previous = latest /\ new.cur = cur /\ new.found = run[r].found
      BY <1>1, <3>4, <3>5 DEF RunState
    <3> HIDE DEF new
    <3> QED BY <3>1, <3>2, <3>3, <3>5, <3>6
  <2>2. CASE LoadClusters(r)
    <3> DEFINE new == [run[r] EXCEPT !.pc = "notify", !.cur = NoConn]
    <3>1. run' = [run EXCEPT ![r] = new] /\ run[r].pc = "load"
      BY <2>2 DEF LoadClusters, Reading, Pc, IInv, TypeOK
    <3>2. /\ new \in RunState /\ new.pc = "notify" /\ new.period = run[r].period
          /\ new.cur = NoConn /\ new.found = run[r].found /\ new.previous = run[r].previous
      BY <1>1 DEF RunState
    <3> HIDE DEF new
    <3> QED BY <3>1, <3>2
  <2> QED BY <2>1, <2>2
<1> HIDE DEF stored
<1>4. run'[r] = new /\ \A s \in Runs \ {r} : run'[s] = run[s]
  BY <1>3 DEF IInv, TypeOK
<1>5. RunFits(r)' /\ RowsWritten(r)' = {}
  BY <1>1, <1>3, <1>4 DEF RunFits, RowsWritten, Wrote
<1>6. RunMoves(r, new)
  BY <1>1, <1>3 DEF RunMoves, TxMoves, IInv, TypeOK, TxState
<1>7. /\ new.cur \in {Conn(r), NoConn}
      /\ new.cur # NoConn => Conn(r) # NoConn /\ WorkerOf[new.cur[1]] = WorkerOf[r]
  BY <1>3, GivenIs
<1>8. Given(WorkerOf[r])' = Given(WorkerOf[r])
  BY <1>1 DEF Given
<1>9. IInv'
  BY <1>1, <1>3, <1>5, <1>6, <1>7, <1>8, GoesOnInv DEF KeepsOrDrops
<1> QED BY <1>1, <1>2, <1>3, <1>4, <1>9 DEF stored

-----------------------------------------------------------------------------
(* The steps that write, connect, start and die                            *)

\* Where no two runs meet, a run under way keeps the others out.
LEMMA OthersWroteNothing ==
  ASSUME IInv, NEW r \in Runs, UnderWay(r), WorkerOf[r] \notin shared,
         NEW s \in Runs \ {r}, WorkerOf[s] = WorkerOf[r]
  PROVE  /\ ~UnderWay(s) /\ RowsWritten(s) = {}
         /\ run[s].cur = NoConn /\ ~Awaits(s)
<1>1. ~UnderWay(s)
  BY DEF IInv, OneAtATime
<1>2. run[s].pc \in {"idle", "done", "failed"}
  BY <1>1 DEF UnderWay
<1> QED BY <1>1, <1>2, NothingWritten DEF IInv, RunFits, Awaits

\* Connections of different workers are different.
LEMMA OtherConn ==
  ASSUME IInv, NEW r \in Runs, NEW s \in Runs, WorkerOf[r] # WorkerOf[s],
         NEW c \in Conns, WorkerOf[c[1]] = WorkerOf[r]
  PROVE  Conn(s) # c /\ run[s].cur # c
BY RunType, Nothings DEF IInv, Connections, Connected, Conn

LEMMA UpsertIs ==
  ASSUME IInv, NEW r \in Runs, Upsert(r)
  PROVE  /\ IInv'
         /\ run[r].pc \in {"upsert", "waiting"} /\ run[r].cur \in Conns /\ Row(r) \in Keys
         /\ run'[r].pc = "events" /\ run'[r].at = run[r].at /\ run'[r].period = run[r].period
         /\ run'[r].found = run[r].found /\ run'[r].cur = run[r].cur
         /\ RowsWritten(r)' = RowsWritten(r) \cup {Row(r)}
         /\ \A s \in Runs \ {r} : run'[s] = run[s]
         /\ UNCHANGED <<plan, rows, persist, raced, faults>>
         /\ tx'[run[r].cur].st = tx[run[r].cur].st
         /\ tx'[run[r].cur].writes = [tx[run[r].cur].writes EXCEPT ![Row(r)] = r]
         /\ \A d \in Conns \ {run[r].cur} : tx'[d] = tx[d]
<1> USE Nothings
<1> DEFINE c == run[r].cur
           key == Row(r)
           writes == [tx[c].writes EXCEPT ![key] = r]
           new == [run[r] EXCEPT !.pc = "events"]
           sent == [tx[c] EXCEPT !.writes = writes]
<1>1. /\ run[r].pc \in {"upsert", "waiting"} /\ c # NoConn /\ tx[c].st = "open"
      /\ run[r].at <= run[r].found /\ UnderWay(r) /\ run[r].period <= hour
      /\ UNCHANGED <<plan, hour, persist, events_ok, rows, faults, shared, raced>>
  BY DEF Upsert, Upserting, Pc, IInv, RunFits, UnderWay
<1>2. c \in Conns /\ Conn(r) \in Conns /\ run[r] \in RunState
  BY <1>1, HasConn, RunType DEF IInv
<1>3. run[r].period \in Periods /\ run[r].at \in 1..MaxClusters
  BY <1>1, RunType DEF IInv
<1>4. key \in Keys /\ key[1] = run[r].period
  BY <1>3 DEF Keys, Row
<1>5. /\ run' = [run EXCEPT ![r] = new] /\ run'[r] = new
      /\ \A s \in Runs \ {r} : run'[s] = run[s]
  BY DEF Upsert, IInv, TypeOK
<1>6. /\ new \in RunState /\ new.pc = "events" /\ new.at = run[r].at
      /\ new.period = run[r].period /\ new.found = run[r].found /\ new.cur = c
  BY <1>2 DEF RunState
<1>7. tx[c] \in TxState /\ tx' = [tx EXCEPT ![c] = sent]
  BY <1>2, TxType DEF Upsert, IInv, TypeOK, TxState
<1>8. /\ writes \in [Keys -> Runs \cup {NoRow}] /\ writes[key] = r
      /\ \A k \in Keys \ {key} : writes[k] = tx[c].writes[k]
  BY <1>4, <1>7 DEF TxState
<1> HIDE DEF key, new, writes
<1>9. sent \in TxState /\ sent.st = "open" /\ sent.writes = writes
  BY <1>1, <1>7, <1>8 DEF TxState
<1> HIDE DEF sent
<1>10. /\ tx' \in [Conns -> TxState] /\ tx'[c] = sent
       /\ \A d \in Conns \ {c} : tx'[d] = tx[d]
  BY <1>2, <1>7, <1>9 DEF IInv, TypeOK, TxState
<1> HIDE DEF c
<1>11. TypeOK'
  <2>1. run' \in [Runs -> RunState]
    BY <1>5, <1>6 DEF IInv, TypeOK
  <2>2. ASSUME NEW d \in Conns
        PROVE  /\ \A k \in Keys : tx'[d].writes[k] # NoRow => k[1] <= hour
               /\ tx'[d].st # "open" => tx'[d].writes = NoTx.writes
    <3>1. CASE d = c
      BY <3>1, <1>1, <1>2, <1>4, <1>8, <1>9, <1>10 DEF IInv, TypeOK
    <3>2. CASE d # c
      BY <3>2, <1>10 DEF IInv, TypeOK
    <3> QED BY <3>1, <3>2
  <2> QED BY <1>1, <1>10, <2>1, <2>2 DEF IInv, TypeOK, TxState
<1>12. RowsWritten(r)' = RowsWritten(r) \cup {key}
  <2>1. run[r].at \in Nat /\ run[r].at >= 1
    BY <1>3
  <2>2. 1..run[r].at = (1..(run[r].at - 1)) \cup {run[r].at}
    BY <2>1
  <2>3. RowsWritten(r) = {run[r].period} \X (1..(run[r].at - 1))
    BY <1>1 DEF RowsWritten, Wrote
  <2>4. RowsWritten(r)' = {run[r].period} \X (1..run[r].at)
    BY <1>5, <1>6 DEF RowsWritten, Wrote
  <2> QED BY <2>2, <2>3, <2>4 DEF key, Row
<1>13. \A s \in Runs \ {r} : RowsWritten(s)' = RowsWritten(s)
  BY <1>5 DEF RowsWritten, Wrote
<1>14. ASSUME NEW s \in Runs PROVE RunFits(s)' /\ Connected(s)'
  <2>1. CASE s = r
    <3>1. RunFits(r)'
      BY <1>1, <1>5, <1>6 DEF RunFits, c
    <3>2. Conn(r)' = Conn(r) /\ tx'[c].st = tx[c].st
      BY <1>1, <1>9, <1>10 DEF Conn
    <3>3. Connected(r)'
      BY <1>1, <1>5, <1>6, <3>2 DEF IInv, Connected, Pc, Awaits, c
    <3> QED BY <2>1, <3>1, <3>3
  <2>2. CASE s # r
    <3>1. RunFits(s)'
      BY <2>2, <1>1, <1>5 DEF IInv, RunFits
    <3>2. \A d \in Conns : tx'[d].st = tx[d].st
      BY <1>1, <1>9, <1>10
    <3>3. Given(WorkerOf[s])' = Given(WorkerOf[s])
      BY <1>1, <3>2, RunType DEF Given, IInv, Conn
    <3>4. run'[s] = run[s] /\ run[s].cur \in Conns \cup {NoConn} /\ Conn(s)' = Conn(s)
      BY <2>2, <1>1, <1>5, RunType DEF IInv, Conn
    <3>5. Pc(s, "waiting") => run[s].cur \in Conns
      BY <3>4 DEF IInv, RunFits, Pc
    <3>6. run[s].cur \in Conns => tx'[run[s].cur].st = tx[run[s].cur].st
      BY <3>2
    <3>7. Connected(s)
      BY DEF IInv
    <3>8. Connected(s)'
      BY <1>1, <3>3, <3>4, <3>5, <3>6, <3>7 DEF Connected, Pc, Awaits
    <3> QED BY <3>1, <3>8
  <2> QED BY <2>1, <2>2
<1>15. Connections' /\ OneAtATime'
  BY <1>1, <1>5, <1>6 DEF IInv, Connections, OneAtATime, UnderWay, Pc
<1>16. WritersSave'
  <2> SUFFICES ASSUME NEW d \in Conns, NEW k \in Keys, NEW s \in Runs,
                      WorkerOf[d[1]] \notin raced, tx'[d].writes[k] = s
               PROVE  run'[s].cur = d /\ k \in RowsWritten(s)'
    BY <1>1 DEF WritersSave
  <2>1. CASE d = c /\ k = key
    BY <2>1, <1>5, <1>6, <1>8, <1>9, <1>10, <1>12
  <2>2. CASE ~(d = c /\ k = key)
    <3>1. tx[d].writes[k] = s
      BY <2>2, <1>8, <1>9, <1>10
    <3>2. run[s].cur = d /\ k \in RowsWritten(s)
      BY <3>1 DEF IInv, WritersSave
    <3> QED BY <3>2, <1>5, <1>6, <1>12, <1>13 DEF c
  <2> QED BY <2>1, <2>2
<1>17. OwnWrites'
  <2> SUFFICES ASSUME NEW s \in Runs, WorkerOf[s] \notin shared, Conn(s) \in Conns,
                      tx'[Conn(s)].st = "open", NEW k \in RowsWritten(s)'
               PROVE  tx'[Conn(s)].writes[k] = s
    <3>1. \A s \in Runs : Conn(s)' = Conn(s) /\ Conn(s) \in Conns \cup {NoConn}
      BY <1>1, RunType DEF Conn, IInv
    <3> QED BY <1>1, <3>1 DEF OwnWrites
  <2>1. CASE s = r
    <3>1. c = Conn(r)
      BY <1>1, <2>1 DEF IInv, Connected, c
    <3>2. CASE k = key
      BY <1>8, <1>9, <1>10, <2>1, <3>1, <3>2
    <3>3. CASE k # key
      <4>1. k \in RowsWritten(r)
        BY <1>12, <2>1, <3>3
      <4>2. k \in Keys
        BY <4>1, RowsInKeys
      <4>3. tx[c].writes[k] = r
        BY <1>1, <2>1, <3>1, <4>1 DEF IInv, OwnWrites
      <4> QED BY <1>8, <1>9, <1>10, <2>1, <3>1, <3>3, <4>2, <4>3
    <3> QED BY <3>2, <3>3
  <2>2. CASE s # r
    <3>1. k \in RowsWritten(s)
      BY <1>13, <2>2
    <3>2. WorkerOf[s] # WorkerOf[r]
      BY <1>1, <2>2, <3>1, OthersWroteNothing
    <3>3. WorkerOf[c[1]] = WorkerOf[r]
      BY <1>1 DEF IInv, Connected, c
    <3>4. Conn(s) # c
      BY <1>2, <3>2, <3>3, OtherConn
    <3> QED BY <1>10, <3>1, <3>4 DEF IInv, OwnWrites
  <2> QED BY <2>1, <2>2
<1>18. IInv'
  BY <1>11, <1>14, <1>15, <1>16, <1>17 DEF IInv
<1> QED BY <1>1, <1>2, <1>4, <1>5, <1>6, <1>9, <1>10, <1>12, <1>18 DEF c, key, writes

LEMMA ConnectIs ==
  ASSUME IInv, NEW r \in Runs, Connect(r)
  PROVE  /\ IInv'
         /\ run[r].pc \in {"upsert", "load"} /\ run[r].cur = NoConn
         /\ run'[r].pc = run[r].pc /\ run'[r].at = run[r].at /\ run'[r].period = run[r].period
         /\ run'[r].found = run[r].found /\ run'[r].previous = run[r].previous
         /\ run'[r].cur = <<r, run[r].pc>> /\ run'[r].cur \in Conns
         /\ RowsWritten(r) = {} /\ RowsWritten(r)' = {}
         /\ \A s \in Runs \ {r} : run'[s] = run[s]
         /\ UNCHANGED <<plan, rows, faults>>
         /\ tx'[<<r, run[r].pc>>] = NoTx
         /\ \A d \in Conns \ {<<r, run[r].pc>>} : tx'[d] = tx[d]
         /\ persist'[WorkerOf[r]] = <<r, run[r].pc>>
         /\ \A w \in Workers \ {WorkerOf[r]} : persist'[w] = persist[w]
         /\ raced \subseteq raced'
         /\ Given(WorkerOf[r]) # NoConn => WorkerOf[r] \in raced'
<1> USE Nothings
<1> DEFINE c == <<r, run[r].pc>>
           w == WorkerOf[r]
           new == [run[r] EXCEPT !.cur = c]
<1>1. /\ run[r].pc \in {"upsert", "load"} /\ run[r].cur = NoConn /\ Awaits(r) /\ UnderWay(r)
      /\ persist' = [persist EXCEPT ![w] = c]
      /\ tx' = [tx EXCEPT ![c] = NoTx]
      /\ raced' = IF Given(w) = NoConn THEN raced ELSE raced \cup {w}
      /\ UNCHANGED <<plan, hour, events_ok, rows, faults, shared>>
  BY DEF Connect, Awaits, UnderWay
<1>2. c \in Conns /\ c[1] = r /\ w \in Workers /\ run[r] \in RunState
  BY <1>1, RunType DEF Conns, IInv
<1>3. /\ run' = [run EXCEPT ![r] = new] /\ run'[r] = new
      /\ \A s \in Runs \ {r} : run'[s] = run[s]
  BY DEF Connect, IInv, TypeOK
<1> HIDE DEF c
<1>4. /\ new \in RunState /\ new.pc = run[r].pc /\ new.at = run[r].at /\ new.cur = c
      /\ new.period = run[r].period /\ new.found = run[r].found
      /\ new.previous = run[r].previous
  BY <1>2 DEF RunState
<1> HIDE DEF new
<1>5. /\ tx' \in [Conns -> TxState] /\ tx'[c] = NoTx /\ \A d \in Conns \ {c} : tx'[d] = tx[d]
      /\ persist' \in [Workers -> Conns \cup {NoConn}] /\ persist'[w] = c
      /\ \A v \in Workers \ {w} : persist'[v] = persist[v]
  BY <1>1, <1>2 DEF IInv, TypeOK, TxState
<1> HIDE DEF w
<1>6. RowsWritten(r) = {}
  <2>1. CASE run[r].pc = "upsert"
    <3>1. run[r].at = 1
      BY <1>1, <2>1 DEF IInv, RunFits
    <3> QED BY <2>1, <3>1 DEF RowsWritten, Wrote
  <2>2. CASE run[r].pc = "load"
    BY <2>2, NothingWritten
  <2> QED BY <1>1, <2>1, <2>2
<1>7. /\ RowsWritten(r)' = {}
      /\ \A s \in Runs \ {r} : RowsWritten(s)' = RowsWritten(s)
  BY <1>3, <1>4, <1>6 DEF RowsWritten, Wrote
<1>8. raced \subseteq raced' /\ raced' \subseteq shared /\ shared' = shared
  <2>1. Given(w) # NoConn => w \in shared
    BY <1>1 DEF IInv, Connected, w
  <2> QED BY <1>1, <2>1 DEF IInv, Connections
<1>9. TypeOK'
  <2>1. run' \in [Runs -> RunState]
    BY <1>3, <1>4 DEF IInv, TypeOK
  <2>2. ASSUME NEW d \in Conns
        PROVE  /\ \A k \in Keys : tx'[d].writes[k] # NoRow => k[1] <= hour
               /\ tx'[d].st # "open" => tx'[d].writes = NoTx.writes
    BY <1>5 DEF IInv, TypeOK
  <2> QED BY <1>1, <1>5, <1>8, <2>1, <2>2 DEF IInv, TypeOK, TxState
<1>10. \A s \in Runs : Conn(s)' = IF WorkerOf[s] = w THEN c ELSE Conn(s)
  BY <1>5, RunType DEF Conn, IInv
<1>11. ASSUME NEW s \in Runs PROVE RunFits(s)' /\ Connected(s)'
  <2>1. CASE s = r
    <3>1. RunFits(r)'
      BY <1>1, <1>2, <1>3, <1>4 DEF RunFits, IInv
    <3>2. Conn(r)' = c
      BY <1>10 DEF w
    <3>3. Connected(r)'
      BY <1>1, <1>2, <1>3, <1>4, <3>2 DEF Connected, Pc, Awaits
    <3> QED BY <2>1, <3>1, <3>3
  <2>2. CASE s # r
    <3>1. RunFits(s)'
      BY <2>2, <1>1, <1>3 DEF IInv, RunFits
    <3>2. run'[s] = run[s] /\ run[s].cur \in Conns \cup {NoConn} /\ Connected(s) /\ RunFits(s)
          /\ Conn(s) \in Conns \cup {NoConn} /\ WorkerOf[s] \in Workers
      BY <2>2, <1>3, RunType DEF IInv
    <3>3. Pc(s, "waiting") => tx'[run[s].cur].st = "open"
      BY <1>5, <3>2 DEF Connected, RunFits, Pc
    <3>4. CASE WorkerOf[s] = w
      <4>1. WorkerOf[s] \notin raced' =>
              run[s].cur \in {Conn(s)', NoConn} \/ tx'[run[s].cur].st = "closed"
        <5> SUFFICES ASSUME w \notin raced', run[s].cur # NoConn, run[s].cur # c
                     PROVE  tx'[run[s].cur].st = "closed"
          BY <1>10, <3>4
        <5>1. Given(w) = NoConn /\ w \notin raced
          BY <1>1
        <5>2. tx[run[s].cur].st = "closed"
          BY <3>2, <3>4, <5>1 DEF Connected, Given, Conn
        <5> QED BY <1>5, <3>2, <5>2
      <4>2. WorkerOf[s] \notin shared => run[s].cur = NoConn /\ ~Awaits(s)
        BY <1>1, <2>2, <3>4, OthersWroteNothing DEF w
      <4>3. Awaits(s)' = Awaits(s)
        BY <3>2 DEF Awaits
      <4>4. run[s].cur # NoConn => WorkerOf[run[s].cur[1]] = WorkerOf[s] /\ Conn(s)' # NoConn
        BY <1>2, <1>10, <3>2, <3>4 DEF Connected
      <4>5. Connected(s)'
        BY <1>8, <3>2, <3>3, <4>1, <4>2, <4>3, <4>4 DEF Connected, Pc
      <4> QED BY <3>1, <4>5
    <3>5. CASE WorkerOf[s] # w
      <4>1. Conn(s)' = Conn(s) /\ Conn(s) # c /\ run[s].cur # c
        BY <1>2, <1>10, <3>5, OtherConn DEF w
      <4>2. run[s].cur \in Conns => tx'[run[s].cur] = tx[run[s].cur]
        BY <1>5, <4>1
      <4>3. Given(WorkerOf[s])' = Given(WorkerOf[s])
        <5>1. Conn(s) \in Conns => tx'[Conn(s)] = tx[Conn(s)]
          BY <1>5, <4>1
        <5>2. persist'[WorkerOf[s]] = Conn(s) /\ persist[WorkerOf[s]] = Conn(s)
          BY <4>1 DEF Conn
        <5> QED BY <3>2, <5>1, <5>2 DEF Given
      <4>4. Connected(s)'
        BY <1>8, <3>2, <3>3, <4>1, <4>2, <4>3 DEF Connected, Pc, Awaits
      <4> QED BY <3>1, <4>4
    <3> QED BY <3>4, <3>5
  <2> QED BY <2>1, <2>2
<1>12. Connections'
  <2>1. \A v \in Workers : persist'[v] # NoConn => WorkerOf[persist'[v][1]] = v
    BY <1>2, <1>5 DEF IInv, Connections, w
  <2> QED BY <1>1, <1>3, <1>4, <1>8, <2>1 DEF IInv, Connections, Pc
<1>13. OneAtATime'
  BY <1>1, <1>3, <1>4 DEF IInv, OneAtATime, UnderWay
<1>14. WritersSave'
  <2> SUFFICES ASSUME NEW d \in Conns, NEW k \in Keys, NEW s \in Runs,
                      WorkerOf[d[1]] \notin raced', tx'[d].writes[k] = s
               PROVE  run'[s].cur = d /\ k \in RowsWritten(s)'
    BY DEF WritersSave
  <2>1. d # c /\ tx'[d] = tx[d]
    BY <1>5
  <2>2. run[s].cur = d /\ k \in RowsWritten(s)
    BY <1>8, <2>1 DEF IInv, WritersSave
  <2> QED BY <1>1, <1>3, <1>7, <2>2
<1>15. OwnWrites'
  <2> SUFFICES ASSUME NEW s \in Runs, WorkerOf[s] \notin shared, Conn(s)' \in Conns,
                      tx'[Conn(s)'].st = "open", NEW k \in RowsWritten(s)'
               PROVE  tx'[Conn(s)'].writes[k] = s
    <3>1. \A s \in Runs : Conn(s)' \in Conns \cup {NoConn}
      BY <1>2, <1>10, RunType DEF IInv
    <3> QED BY <1>1, <3>1 DEF OwnWrites
  <2>1. s # r /\ k \in RowsWritten(s)
    BY <1>7
  <2>2. WorkerOf[s] # w
    BY <1>1, <2>1, OthersWroteNothing DEF w
  <2>3. Conn(s)' = Conn(s) /\ Conn(s) # c
    BY <1>2, <1>10, <2>2, OtherConn DEF w
  <2> QED BY <1>5, <2>1, <2>3 DEF IInv, OwnWrites
<1>16. IInv'
  BY <1>9, <1>11, <1>12, <1>13, <1>14, <1>15 DEF IInv
<1> QED BY <1>1, <1>2, <1>3, <1>4, <1>5, <1>6, <1>7, <1>8, <1>16 DEF c, w

LEMMA StartIs ==
  ASSUME IInv, NEW r \in Runs, Start(r)
  PROVE  /\ IInv'
         /\ run[r].pc = "idle" /\ run'[r].pc = "fetch"
         /\ \A s \in Runs \ {r} : run'[s] = run[s]
         /\ UNCHANGED <<plan, tx, rows, persist, raced, faults>>
<1> DEFINE new == [run[r] EXCEPT !.pc = "fetch", !.period = hour]
<1>1. /\ run[r] \in RunState /\ run[r].pc = "idle" /\ run[r].at = 1 /\ run[r].cur = NoConn
      /\ hour \in Periods /\ hour \in Nat /\ WorkerOf[r] \in Workers
      /\ UNCHANGED <<plan, hour, tx, persist, events_ok, rows, faults, raced>>
  BY RunType DEF Start, Pc, IInv, TypeOK, RunFits
<1>2. /\ new \in RunState /\ new.pc = "fetch" /\ new.at = 1 /\ new.period = hour
      /\ new.cur = NoConn
  BY <1>1 DEF RunState
<1>3. /\ run' = [run EXCEPT ![r] = new] /\ run'[r] = new
      /\ \A s \in Runs \ {r} : run'[s] = run[s]
  BY DEF Start, IInv, TypeOK
<1> HIDE DEF new
<1>4. /\ shared \subseteq shared' /\ shared' \subseteq Workers
      /\ \A s \in Runs : WorkerOf[s] = WorkerOf[r] /\ UnderWay(s) => WorkerOf[r] \in shared'
  BY <1>1 DEF Start, IInv, TypeOK
<1>5. TypeOK'
  BY <1>1, <1>2, <1>3, <1>4 DEF IInv, TypeOK
<1>6. (\A s \in Runs : RunFits(s))'
  <2>1. RunFits(r)'
    BY <1>1, <1>2, <1>3 DEF RunFits
  <2>2. \A s \in Runs \ {r} : RunFits(s)'
    BY <1>1, <1>3 DEF IInv, RunFits
  <2> QED BY <2>1, <2>2
<1>7. (\A s \in Runs : Connected(s))'
  <2>1. Connected(r)'
    BY <1>2, <1>3 DEF Connected, Pc, Awaits
  <2>2. ASSUME NEW s \in Runs \ {r} PROVE Connected(s)'
    <3>1. Connected(s) /\ run'[s] = run[s] /\ Conn(s)' = Conn(s)
          /\ Given(WorkerOf[s])' = Given(WorkerOf[s])
      BY <1>1, <1>3 DEF IInv, Conn, Given
    <3> QED BY <1>1, <1>4, <3>1 DEF Connected, Pc, Awaits
  <2> QED BY <2>1, <2>2
<1>8. Connections' /\ OneAtATime'
  BY <1>1, <1>2, <1>3, <1>4 DEF IInv, Connections, OneAtATime, UnderWay, Pc
<1>9. \A s \in Runs : RowsWritten(s)' = RowsWritten(s)
  BY <1>1, <1>2, <1>3 DEF RowsWritten, Wrote
<1>10. WritersSave'
  <2> SUFFICES ASSUME NEW c \in Conns, NEW k \in Keys, NEW s \in Runs,
                      WorkerOf[c[1]] \notin raced, tx[c].writes[k] = s
               PROVE  run'[s].cur = c /\ k \in RowsWritten(s)'
    BY <1>1 DEF WritersSave
  <2>1. run[s].cur = c /\ k \in RowsWritten(s)
    BY DEF IInv, WritersSave
  <2> QED BY <1>1, <1>3, <1>9, <2>1, Nothings
<1>11. OwnWrites'
  <2> SUFFICES ASSUME NEW s \in Runs, WorkerOf[s] \notin shared', Conn(s) # NoConn,
                      tx[Conn(s)].st = "open", NEW k \in RowsWritten(s)
               PROVE  tx[Conn(s)].writes[k] = s
    BY <1>1, <1>9 DEF OwnWrites, Conn
  <2> QED BY <1>4 DEF IInv, OwnWrites
<1>12. IInv'
  BY <1>5, <1>6, <1>7, <1>8, <1>10, <1>11 DEF IInv
<1> QED BY <1>1, <1>2, <1>3, <1>12

LEMMA DieIs ==
  ASSUME IInv, NEW w \in Workers, Die(w)
  PROVE  /\ IInv'
         /\ \A s \in Runs : run'[s] = IF WorkerOf[s] = w /\ UnderWay(s) THEN Over("failed")
                                                                       ELSE run[s]
         /\ Fault
<1> USE Nothings
<1>1. /\ Fault /\ UNCHANGED <<plan, hour, rows, shared, raced>>
      /\ tx' \in [Conns -> TxState]
      /\ \A c \in Conns : tx'[c] = IF WorkerOf[c[1]] = w THEN NoTx ELSE tx[c]
      /\ persist' \in [Workers -> Conns \cup {NoConn}] /\ persist'[w] = NoConn
      /\ \A v \in Workers \ {w} : persist'[v] = persist[v]
  BY TxType DEF Die, IInv, TypeOK
<1>2. /\ run' \in [Runs -> RunState]
      /\ \A s \in Runs : run'[s] = IF WorkerOf[s] = w /\ UnderWay(s) THEN Over("failed")
                                                                     ELSE run[s]
  BY OverFits DEF Die, IInv, TypeOK
<1>3. \A s \in Runs : run'[s] = run[s] \/ (/\ run'[s].pc = "failed" /\ run'[s].period = 1
                                           /\ run'[s].cur = NoConn)
  BY <1>2, OverFits
<1>4. \A s \in Runs : WorkerOf[s] = w => /\ run'[s].pc \in {"idle", "done", "failed"}
                                         /\ run'[s].cur = NoConn
  BY <1>2, OverFits DEF UnderWay, IInv, RunFits
<1>5. \A s \in Runs : WorkerOf[s] # w => run'[s] = run[s]
  BY <1>2
<1>6. TypeOK'
  <2>1. faults' \in Nat
    BY <1>1 DEF Fault, IInv, TypeOK
  <2>2. events_ok' \in [Workers -> BOOLEAN]
    BY DEF Die, IInv, TypeOK
  <2>3. ASSUME NEW c \in Conns
        PROVE  /\ \A k \in Keys : tx'[c].writes[k] # NoRow => k[1] <= hour
               /\ tx'[c].st # "open" => tx'[c].writes = NoTx.writes
    BY <1>1 DEF IInv, TypeOK
  <2> QED BY <1>1, <1>2, <2>1, <2>2, <2>3 DEF IInv, TypeOK, TxState
<1>7. (\A s \in Runs : RunFits(s))'
  <2>1. hour \in Nat /\ 1 <= hour /\ hour' = hour
    BY <1>1 DEF IInv, TypeOK, Periods
  <2> QED BY <1>3, <2>1 DEF IInv, RunFits
<1>8. (\A s \in Runs : Connected(s))'
  <2> SUFFICES ASSUME NEW s \in Runs PROVE Connected(s)'
    OBVIOUS
  <2>1. CASE WorkerOf[s] = w
    BY <1>4, <2>1 DEF Connected, Pc, Awaits
  <2>2. CASE WorkerOf[s] # w
    <3>1. /\ run'[s] = run[s] /\ Connected(s) /\ RunFits(s)
          /\ Conn(s) \in Conns \cup {NoConn} /\ run[s].cur \in Conns \cup {NoConn}
          /\ WorkerOf[s] \in Workers
      BY <1>5, <2>2, RunType DEF IInv
    <3>2. /\ persist'[WorkerOf[s]] = persist[WorkerOf[s]] /\ Conn(s) = persist[WorkerOf[s]]
          /\ Conn(s)' = Conn(s)
      BY <1>1, <2>2, <3>1 DEF Conn
    <3>3. Conn(s) # NoConn => WorkerOf[Conn(s)[1]] = WorkerOf[s] /\ tx'[Conn(s)] = tx[Conn(s)]
      BY <1>1, <2>2, <3>1, <3>2 DEF IInv, Connections
    <3>4. run[s].cur # NoConn => tx'[run[s].cur] = tx[run[s].cur]
      BY <1>1, <2>2, <3>1 DEF Connected
    <3>5. Given(WorkerOf[s])' = Given(WorkerOf[s])
      BY <3>1, <3>2, <3>3 DEF Given
    <3>6. Pc(s, "waiting") => run[s].cur # NoConn
      BY <3>1 DEF RunFits, Pc
    <3>7. /\ tx[run[s].cur].st = "closed" /\ run[s].cur # NoConn => tx'[run[s].cur].st = "closed"
      BY <3>4
    <3> QED BY <1>1, <3>1, <3>2, <3>4, <3>5, <3>6, <3>7 DEF Connected, Pc, Awaits
  <2> QED BY <2>1, <2>2
<1>9. Connections'
  <2>1. \A v \in Workers : persist'[v] # NoConn => WorkerOf[persist'[v][1]] = v
    BY <1>1 DEF IInv, Connections
  <2>2. \A s \in Runs : Pc(s, "waiting")' => Pc(s, "waiting") /\ run'[s] = run[s]
    BY <1>3 DEF Pc
  <2> QED BY <1>1, <2>1, <2>2 DEF IInv, Connections
<1>10. OneAtATime'
  <2>1. \A s \in Runs : UnderWay(s)' => UnderWay(s)
    BY <1>3 DEF UnderWay
  <2> QED BY <1>1, <2>1 DEF IInv, OneAtATime
<1>11. \A s \in Runs : RowsWritten(s)' = IF WorkerOf[s] = w THEN {} ELSE RowsWritten(s)
  <2> TAKE s \in Runs
  <2>1. CASE WorkerOf[s] = w
    BY <1>4, <2>1 DEF RowsWritten, Wrote
  <2>2. CASE WorkerOf[s] # w
    BY <1>5, <2>2 DEF RowsWritten, Wrote
  <2> QED BY <2>1, <2>2
<1>12. WritersSave'
  <2> SUFFICES ASSUME NEW c \in Conns, NEW k \in Keys, NEW s \in Runs,
                      WorkerOf[c[1]] \notin raced, tx'[c].writes[k] = s
               PROVE  run'[s].cur = c /\ k \in RowsWritten(s)'
    BY <1>1 DEF WritersSave
  <2>1. WorkerOf[c[1]] # w /\ tx'[c] = tx[c]
    BY <1>1
  <2>2. run[s].cur = c /\ k \in RowsWritten(s)
    BY <2>1 DEF IInv, WritersSave
  <2>3. WorkerOf[s] # w
    BY <2>1, <2>2 DEF IInv, Connected
  <2> QED BY <1>5, <1>11, <2>2, <2>3
<1>13. OwnWrites'
  <2> SUFFICES ASSUME NEW s \in Runs, WorkerOf[s] \notin shared, Conn(s)' # NoConn,
                      tx'[Conn(s)'].st = "open", NEW k \in RowsWritten(s)'
               PROVE  tx'[Conn(s)'].writes[k] = s
    BY <1>1 DEF OwnWrites
  <2>1. WorkerOf[s] # w /\ k \in RowsWritten(s)
    BY <1>11
  <2>2. Conn(s)' = Conn(s) /\ Conn(s) \in Conns /\ WorkerOf[Conn(s)[1]] = WorkerOf[s]
    BY <1>1, <2>1, RunType DEF Conn, IInv, Connections
  <2>3. tx'[Conn(s)] = tx[Conn(s)]
    BY <1>1, <2>1, <2>2
  <2> QED BY <2>1, <2>2, <2>3 DEF IInv, OwnWrites
<1>14. IInv'
  BY <1>6, <1>7, <1>8, <1>9, <1>10, <1>12, <1>13 DEF IInv
<1> QED BY <1>1, <1>2, <1>14

LEMMA TickInv ==
  ASSUME IInv, Tick
  PROVE  IInv'
<1>1. /\ UNCHANGED <<plan, run, tx, persist, events_ok, rows, faults, shared, raced>>
      /\ hour \in Nat /\ hour' = hour + 1 /\ hour' \in Periods
  BY MiningAssumption DEF Tick, IInv, TypeOK, Periods
<1>2. TypeOK'
  <2>1. \A c \in Conns : \A k \in Keys : tx[c].writes[k] # NoRow => k[1] <= hour /\ k[1] \in Nat
    BY DEF IInv, TypeOK, Keys, Periods
  <2>2. \A c \in Conns : \A k \in Keys : tx[c].writes[k] # NoRow => k[1] <= hour'
    BY <1>1, <2>1
  <2> QED BY <1>1, <2>2 DEF IInv, TypeOK
<1>3. (\A r \in Runs : RunFits(r))'
  <2>1. \A r \in Runs : run[r].period \in Nat /\ RunFits(r)
    BY RunType DEF IInv
  <2>2. \A r \in Runs : run[r].period <= hour'
    BY <1>1, <2>1 DEF RunFits
  <2> QED BY <1>1, <2>1, <2>2 DEF RunFits
<1>4. (\A r \in Runs : Connected(r))' /\ Connections' /\ OneAtATime' /\ WritersSave' /\ OwnWrites'
  BY <1>1 DEF IInv, Connected, Connections, OneAtATime, WritersSave, OwnWrites, UnderWay,
              RowsWritten, Wrote, Conn, Pc, Awaits, Given
<1> QED BY <1>2, <1>3, <1>4 DEF IInv

-----------------------------------------------------------------------------

LEMMA StepInv == IInv /\ [Next]_vars => IInv'
<1> SUFFICES ASSUME IInv, [Next]_vars PROVE IInv'
  OBVIOUS
<1>1. ASSUME NEW r \in Runs, Start(r) PROVE IInv'
  BY <1>1, StartIs
<1>2. ASSUME NEW r \in Runs, Step(r) PROVE IInv'
  BY <1>2, FetchEventsIs, EndsInv, ConnectIs, UpsertIs, WaitForRowIs, InsertEventsIs, CommitIs,
     ReadsIs DEF Step
<1>3. ASSUME NEW w \in Workers, Die(w) PROVE IInv'
  BY <1>3, DieIs
<1>4. CASE Tick
  BY <1>4, TickInv
<1>5. CASE UNCHANGED vars
  BY <1>5 DEF vars, IInv, TypeOK, RunFits, Connected, Connections, OneAtATime, WritersSave,
              OwnWrites, UnderWay, RowsWritten, Wrote, Conn, Pc, Awaits, Given
<1> QED BY <1>1, <1>2, <1>3, <1>4, <1>5 DEF Next

\* The state has its types, a transaction that is not open holds no writes,
\* and no row is written for an hour that has not come: save_cluster_snapshot
\* and the runs around it, however many share a connection and whatever
\* fails.
THEOREM TypeCorrect == Spec => []TypeOK
<1>1. IInv => TypeOK
  BY DEF IInv
<1> QED BY InitInv, StepInv, <1>1, PTL DEF Spec

\* A commit where no worker has had two runs at once.
LEMMA CommitAtOnce ==
  ASSUME IInv, NEW r \in Runs, run[r].pc = "commit", rows' = Seen(Conn(r)),
         shared = {}, rows' # rows
  PROVE  /\ \A k \in RowsOf(r) : rows'[k] = r
         /\ \A k \in Keys \ RowsOf(r) : rows'[k] = rows[k]
<1> USE Nothings
<1> DEFINE c == Conn(r)
           writes == tx[c].writes
<1>1. /\ WorkerOf[r] \in Workers \ shared /\ run[r] \in RunState /\ UnderWay(r)
      /\ c = run[r].cur /\ c \in Conns /\ raced = {}
  BY HasConn, RunType DEF UnderWay, IInv, RunFits, Connected, Connections
<1>2. /\ rows \in [Keys -> Runs \cup {NoRow}]
      /\ rows' = [k \in Keys |-> IF writes[k] # NoRow THEN writes[k] ELSE rows[k]]
  BY DEF Seen, IInv, TypeOK
<1>3. tx[c].st = "open"
  <2> SUFFICES ASSUME tx[c].st # "open" PROVE FALSE
    OBVIOUS
  <2>1. writes = NoTx.writes
    BY <1>1, TxType DEF IInv
  <2>2. rows' = [k \in Keys |-> rows[k]]
    BY <1>2, <2>1
  <2> QED BY <1>2, <2>2
<1>4. RowsWritten(r) = RowsOf(r) /\ RowsOf(r) \subseteq Keys
  BY RowsInKeys DEF RowsWritten, RowsOf, Wrote
<1>5. \A k \in RowsOf(r) : writes[k] = r
  BY <1>1, <1>3, <1>4 DEF IInv, OwnWrites
<1>6. \A k \in Keys \ RowsOf(r) : writes[k] = NoRow
  <2> SUFFICES ASSUME NEW k \in Keys \ RowsOf(r), writes[k] # NoRow PROVE FALSE
    OBVIOUS
  <2>1. writes[k] \in Runs
    BY <1>1, TxType DEF IInv
  <2>2. PICK s \in Runs : writes[k] = s
    BY <2>1
  <2>3. run[s].cur = c /\ k \in RowsWritten(s)
    BY <1>1, <2>2 DEF IInv, WritersSave
  <2>4. s # r /\ WorkerOf[s] = WorkerOf[r]
    BY <1>1, <1>4, <2>3 DEF IInv, Connected
  <2> QED BY <2>3, <2>4, <1>1, OthersWroteNothing
<1> HIDE DEF writes
<1> QED BY <1>2, <1>4, <1>5, <1>6

\* save_cluster_snapshot and the COMMIT of its connection: as long as no
\* worker has had two runs under way at once, what a reader of
\* mining_clusters sees change is the whole snapshot of one run, for any
\* number of workers, clusters, failed statements, lost connections and
\* deaths.
THEOREM SnapshotAtOnceHolds == Spec => SnapshotAtOnce
<1> DEFINE AtOnce ==
      (rows' # rows /\ shared' = {}) =>
        \E r \in Runs : /\ \A k \in RowsOf(r) : rows'[k] = r
                        /\ \A k \in Keys \ RowsOf(r) : rows'[k] = rows[k]
<1>1. IInv /\ [Next]_vars => [AtOnce]_vars
  <2> SUFFICES ASSUME IInv, [Next]_vars, rows' # rows, shared' = {}
               PROVE  \E r \in Runs : /\ \A k \in RowsOf(r) : rows'[k] = r
                                      /\ \A k \in Keys \ RowsOf(r) : rows'[k] = rows[k]
    OBVIOUS
  <2>1. PICK r \in Runs : Commit(r) \/ CommitRaises(r)
    BY DEF Next, vars, Step, Start, FetchEvents, FetchRaises, Connect, ConnectRaises, Upsert,
           WaitForRow, UpsertRaises, DeadlockVictim, InsertEvents, LatestPeriod, LoadClusters,
           ReadRaises, Notify, Die, Tick
  <2>2. shared = {} /\ run[r].pc = "commit" /\ rows' = Seen(Conn(r))
    BY <2>1 DEF Commit, CommitRaises, Pc
  <2> QED BY <2>2, CommitAtOnce
<1> QED BY InitInv, StepInv, <1>1, PTL DEF Spec, SnapshotAtOnce

-----------------------------------------------------------------------------
(* Nothing fails: what a run has upserted stays, whoever commits it        *)

\* The row is stored, or it is written over the connection that the run's
\* worker has.
Has(r, k) ==
  \/ Conn(r) # NoConn /\ tx[Conn(r)].writes[k] # NoRow
  \/ rows[k] # NoRow

\* What a run has upserted is there, be it that another run of its worker
\* has committed it; past its own commit all of it is stored.
KeptOf(r) ==
  /\ \A k \in RowsWritten(r) : Has(r, k)
  /\ run[r].pc \in {"upsert", "waiting", "events", "commit", "latest", "load", "notify"}
       => run[r].found >= 1
  /\ run[r].pc \in {"latest", "load", "notify"} => \A k \in RowsOf(r) : rows[k] # NoRow
  /\ run[r].pc \in {"load", "notify"} => run[r].previous >= run[r].period

Kept ==
  faults = 0 =>
    /\ \A c \in Conns : tx[c].st = "open"
    /\ \A r \in Runs : WorkerOf[r] \notin raced => KeptOf(r)

LEMMA InitKept == Init => Kept
BY DEF Init, Kept, KeptOf, RowsWritten, Wrote, Fresh, NoTx

\* A run moves, and no row is lost.
LEMMA KeptGoesOn ==
  ASSUME IInv, Kept, faults = 0, NEW r \in Runs, \A s \in Runs \ {r} : run'[s] = run[s],
         \A c \in Conns : tx'[c].st = "open",
         raced \subseteq raced',
         \A s \in Runs, k \in Keys : WorkerOf[s] \notin raced' /\ Has(s, k) => Has(s, k)',
         \A k \in Keys : rows[k] # NoRow => rows'[k] # NoRow,
         WorkerOf[r] \notin raced' => KeptOf(r)'
  PROVE  Kept'
<1>1. ASSUME NEW s \in Runs \ {r}, WorkerOf[s] \notin raced' PROVE KeptOf(s)'
  <2>1. /\ RowsWritten(s)' = RowsWritten(s) /\ RowsOf(s)' = RowsOf(s)
        /\ run'[s] = run[s]
    BY DEF RowsWritten, Wrote, RowsOf
  <2>2. RowsWritten(s) \subseteq Keys /\ RowsOf(s) \subseteq Keys
    BY RowsInKeys
  <2>3. KeptOf(s)
    BY <1>1 DEF Kept
  <2>4. \A k \in RowsWritten(s)' : Has(s, k)'
    BY <1>1, <2>1, <2>2, <2>3 DEF KeptOf
  <2>5. run[s].pc \in {"latest", "load", "notify"} => \A k \in RowsOf(s)' : rows'[k] # NoRow
    BY <2>1, <2>2, <2>3 DEF KeptOf
  <2> QED BY <2>1, <2>3, <2>4, <2>5 DEF KeptOf
<1> QED BY <1>1 DEF Kept

\* The steps that leave the database as it is.
LEMMA QuietKept ==
  ASSUME IInv, Kept, faults = 0, UNCHANGED <<tx, rows, persist, raced>>, NEW r \in Runs,
         \A s \in Runs \ {r} : run'[s] = run[s],
         WorkerOf[r] \notin raced => KeptOf(r)'
  PROVE  Kept'
<1>1. \A c \in Conns : tx'[c].st = "open"
  BY DEF Kept
<1>2. \A s \in Runs, k \in Keys : Has(s, k) => Has(s, k)'
  BY DEF Has, Conn
<1> QED BY <1>1, <1>2, KeptGoesOn

LEMMA EndsKept ==
  ASSUME IInv, Kept, faults = 0, faults' = 0, NEW r \in Runs,
         \/ FetchEvents(r) /\ plan.finds[r] = 0
         \/ FetchRaises(r) \/ ConnectRaises(r) \/ UpsertRaises(r) \/ DeadlockVictim(r)
         \/ CommitRaises(r) \/ ReadRaises(r) \/ Notify(r)
  PROVE  Kept'
<1>1. PICK pc \in {"done", "failed"} : run'[r] = Over(pc)
  BY EndsInv
<1>2. run'[r].pc = pc
  BY <1>1, OverFits
<1>3. RowsWritten(r)' = {}
  BY <1>2 DEF RowsWritten, Wrote
<1>4. KeptOf(r)'
  BY <1>2, <1>3 DEF KeptOf
<1> QED BY <1>4, EndsInv, QuietKept

LEMMA FetchEventsKept ==
  ASSUME IInv, Kept, faults = 0, NEW r \in Runs, FetchEvents(r), plan.finds[r] # 0
  PROVE  Kept'
<1>1. run'[r].pc = "upsert" /\ run'[r].at = 1 /\ run'[r].found \in 1..MaxClusters
  BY FetchEventsIs
<1>2. RowsWritten(r)' = {}
  BY <1>1 DEF RowsWritten, Wrote
<1>3. KeptOf(r)'
  BY <1>1, <1>2, MiningAssumption DEF KeptOf
<1> QED BY <1>3, FetchEventsIs, QuietKept

LEMMA SaveKept ==
  ASSUME IInv, Kept, faults = 0, faults' = 0, NEW r \in Runs, WaitForRow(r) \/ InsertEvents(r)
  PROVE  Kept'
<1>1. /\ UNCHANGED <<tx, rows, persist, raced>>
      /\ \A s \in Runs \ {r} : run'[s] = run[s]
      /\ run[r].pc \in {"upsert", "events"} /\ run'[r].pc \in {"waiting", "upsert", "commit"}
      /\ run'[r].found = run[r].found
  BY WaitForRowIs, InsertEventsIs
<1>2. RowsWritten(r)' = RowsWritten(r)
  <2>1. CASE WaitForRow(r)
    BY <2>1, WaitForRowIs DEF RowsWritten, Wrote
  <2>2. CASE InsertEvents(r)
    BY <2>2, InsertEventsIs
  <2> QED BY <2>1, <2>2
<1>3. WorkerOf[r] \notin raced => KeptOf(r)'
  BY <1>1, <1>2 DEF Kept, KeptOf, Has, Conn
<1> QED BY <1>1, <1>3, QuietKept

LEMMA ReadsKept ==
  ASSUME IInv, Kept, faults = 0, NEW r \in Runs, LatestPeriod(r) \/ LoadClusters(r)
  PROVE  Kept'
<1> DEFINE stored == {p \in Periods : Filled(Seen(run[r].cur), p) # {}}
<1>1. /\ UNCHANGED <<tx, rows, persist, raced>>
      /\ \A s \in Runs \ {r} : run'[s] = run[s]
      /\ run[r].pc \in {"latest", "load"} /\ run'[r].pc \in {"load", "notify"}
      /\ run'[r].found = run[r].found /\ run'[r].period = run[r].period
      /\ run[r].pc = "load" => run'[r].previous = run[r].previous
      /\ run[r].pc = "latest" => \A p \in stored : p <= run'[r].previous
      /\ run[r].pc = "latest" => run'[r].previous \in stored \cup {0}
  BY ReadsIs
<1>2. RowsWritten(r)' = {} /\ RowsOf(r)' = RowsOf(r)
  BY <1>1 DEF RowsWritten, Wrote, RowsOf
<1>3. ASSUME WorkerOf[r] \notin raced PROVE KeptOf(r)'
  <2>1. KeptOf(r)
    BY <1>3 DEF Kept
  <2>2. run[r].period \in Periods /\ run[r].period \in Nat /\ run[r].found \in Nat
        /\ run[r].found <= MaxClusters /\ MaxClusters \in Nat
    BY RunType DEF IInv
  <2>3. run[r].found >= 1 /\ \A k \in RowsOf(r) : rows[k] # NoRow
    BY <1>1, <2>1 DEF KeptOf
  <2>4. run[r].period \in stored
    <3>1. 1 \in 1..run[r].found /\ 1 \in 1..MaxClusters
      BY <2>2, <2>3
    <3>2. <<run[r].period, 1>> \in RowsOf(r) /\ <<run[r].period, 1>> \in Keys
      BY <2>2, <3>1 DEF RowsOf, Keys
    <3>3. Seen(run[r].cur)[<<run[r].period, 1>>] # NoRow
      BY <2>3, <3>2 DEF Seen
    <3>4. 1 \in Filled(Seen(run[r].cur), run[r].period)
      BY <3>1, <3>3 DEF Filled
    <3> QED BY <2>2, <3>4
  <2>5. run'[r].previous >= run[r].period
    <3>1. CASE run[r].pc = "latest"
      BY <1>1, <2>2, <2>4, <3>1, MiningAssumption DEF Periods
    <3>2. CASE run[r].pc = "load"
      BY <1>1, <2>1, <3>2 DEF KeptOf
    <3> QED BY <1>1, <3>1, <3>2
  <2> QED BY <1>1, <1>2, <2>3, <2>5 DEF KeptOf
<1> QED BY <1>1, <1>3, QuietKept

LEMMA UpsertKept ==
  ASSUME IInv, Kept, faults = 0, NEW r \in Runs, Upsert(r)
  PROVE  Kept'
<1> USE Nothings
<1> DEFINE c == run[r].cur
           key == Row(r)
<1>1. /\ run[r].pc \in {"upsert", "waiting"} /\ c \in Conns /\ key \in Keys
      /\ run'[r].pc = "events" /\ run'[r].found = run[r].found
      /\ RowsWritten(r)' = RowsWritten(r) \cup {key}
      /\ \A s \in Runs \ {r} : run'[s] = run[s]
      /\ UNCHANGED <<rows, persist, raced>>
      /\ tx'[c].st = tx[c].st /\ tx'[c].writes = [tx[c].writes EXCEPT ![key] = r]
      /\ \A d \in Conns \ {c} : tx'[d] = tx[d]
  BY UpsertIs
<1>2. tx[c].writes \in [Keys -> Runs \cup {NoRow}] /\ r # NoRow
  BY <1>1, TxType DEF IInv
<1> HIDE DEF key, c
<1>3. \A d \in Conns : tx'[d].st = "open"
  BY <1>1 DEF Kept
<1>4. \A d \in Conns, k \in Keys : tx[d].writes[k] # NoRow => tx'[d].writes[k] # NoRow
  BY <1>1, <1>2
<1>5. \A s \in Runs : Conn(s)' = Conn(s) /\ Conn(s) \in Conns \cup {NoConn}
  BY <1>1, RunType DEF Conn, IInv
<1>6. \A s \in Runs, k \in Keys : Has(s, k) => Has(s, k)'
  BY <1>1, <1>4, <1>5 DEF Has
<1>7. ASSUME WorkerOf[r] \notin raced PROVE KeptOf(r)'
  <2>1. KeptOf(r) /\ tx[c].st = "open"
    BY <1>1, <1>7 DEF Kept
  <2>2. c = Conn(r)
    BY <1>1, <1>7, <2>1 DEF IInv, Connected, c
  <2>3. ASSUME NEW k \in Keys, k = key PROVE Has(r, k)'
    BY <1>1, <1>2, <1>5, <2>2, <2>3 DEF Has
  <2>4. \A k \in RowsWritten(r)' : Has(r, k)'
    BY <1>1, <1>6, <2>1, <2>3, RowsInKeys DEF KeptOf
  <2> QED BY <1>1, <2>1, <2>4 DEF KeptOf
<1> QED BY <1>1, <1>3, <1>6, <1>7, KeptGoesOn

LEMMA ConnectKept ==
  ASSUME IInv, Kept, faults = 0, NEW r \in Runs, Connect(r)
  PROVE  Kept'
<1> USE Nothings
<1> DEFINE c == <<r, run[r].pc>>
           w == WorkerOf[r]
<1>1. /\ run[r].pc \in {"upsert", "load"} /\ run'[r].pc = run[r].pc /\ c \in Conns
      /\ run'[r].period = run[r].period /\ run'[r].found = run[r].found
      /\ run'[r].previous = run[r].previous /\ RowsWritten(r)' = {}
      /\ \A s \in Runs \ {r} : run'[s] = run[s]
      /\ rows' = rows /\ tx'[c] = NoTx /\ \A d \in Conns \ {c} : tx'[d] = tx[d]
      /\ persist'[w] = c /\ \A v \in Workers \ {w} : persist'[v] = persist[v]
      /\ raced \subseteq raced' /\ (Given(w) # NoConn => w \in raced')
  BY ConnectIs
<1>2. WorkerOf[c[1]] = w
  OBVIOUS
<1> HIDE DEF c
<1>3. \A d \in Conns : tx'[d].st = "open" /\ tx[d].st = "open"
  BY <1>1 DEF Kept
<1>4. ASSUME NEW s \in Runs, NEW k \in Keys, WorkerOf[s] \notin raced', Has(s, k)
      PROVE  Has(s, k)'
  <2>1. Conn(s) \in Conns \cup {NoConn} /\ WorkerOf[s] \in Workers
    BY RunType DEF IInv
  <2>2. CASE WorkerOf[s] = w
    <3>1. Conn(s) = NoConn
      BY <1>1, <1>3, <1>4, <2>1, <2>2 DEF Given, Conn
    <3> QED BY <1>1, <1>4, <3>1 DEF Has
  <2>3. CASE WorkerOf[s] # w
    <3>1. Conn(s)' = Conn(s) /\ Conn(s) # c
      BY <1>1, <1>2, <2>1, <2>3, OtherConn DEF Conn
    <3> QED BY <1>1, <1>4, <2>1, <3>1 DEF Has
  <2> QED BY <2>2, <2>3
<1>5. ASSUME w \notin raced' PROVE KeptOf(r)'
  <2>1. KeptOf(r) /\ RowsOf(r)' = RowsOf(r)
    BY <1>1, <1>5 DEF Kept, RowsOf
  <2> QED BY <1>1, <2>1 DEF KeptOf
<1> QED BY <1>1, <1>3, <1>4, <1>5, KeptGoesOn

LEMMA CommitKept ==
  ASSUME IInv, Kept, faults = 0, NEW r \in Runs, Commit(r)
  PROVE  Kept'
<1> USE Nothings
<1> DEFINE c == Conn(r)
<1>1. /\ run[r].pc = "commit" /\ c \in Conns /\ run'[r].pc = "latest"
      /\ run'[r].period = run[r].period /\ run'[r].found = run[r].found
      /\ \A s \in Runs \ {r} : run'[s] = run[s]
      /\ UNCHANGED <<persist, raced>>
      /\ rows' = Seen(c) /\ tx'[c] = NoTx /\ \A d \in Conns \ {c} : tx'[d] = tx[d]
  BY CommitIs
<1>2. \A k \in Keys : rows'[k] = IF tx[c].writes[k] # NoRow THEN tx[c].writes[k] ELSE rows[k]
  BY <1>1 DEF Seen
<1>3. \A d \in Conns : tx'[d].st = "open"
  BY <1>1 DEF Kept
<1>4. \A s \in Runs : Conn(s)' = Conn(s) /\ Conn(s) \in Conns \cup {NoConn}
  BY <1>1, RunType DEF Conn, IInv
<1> HIDE DEF c
<1>5. \A k \in Keys : rows[k] # NoRow => rows'[k] # NoRow
  BY <1>2
<1>6. ASSUME NEW s \in Runs, NEW k \in Keys, Has(s, k) PROVE Has(s, k)'
  <2>1. CASE Conn(s) = c
    BY <1>2, <1>6, <2>1 DEF Has
  <2>2. CASE Conn(s) # c
    BY <1>1, <1>4, <1>5, <1>6, <2>2 DEF Has
  <2> QED BY <2>1, <2>2
<1>7. ASSUME WorkerOf[r] \notin raced PROVE KeptOf(r)'
  <2>1. KeptOf(r)
    BY <1>7 DEF Kept
  <2>2. /\ RowsWritten(r) = RowsOf(r) /\ RowsOf(r)' = RowsOf(r) /\ RowsWritten(r)' = {}
        /\ RowsOf(r) \subseteq Keys
    BY <1>1, RowsInKeys DEF RowsWritten, RowsOf, Wrote
  <2>3. \A k \in RowsOf(r) : rows'[k] # NoRow
    BY <1>2, <2>1, <2>2 DEF KeptOf, Has, c
  <2> QED BY <1>1, <2>1, <2>2, <2>3 DEF KeptOf
<1> QED BY <1>1, <1>3, <1>5, <1>6, <1>7, KeptGoesOn

LEMMA StepKept == IInv /\ Kept /\ [Next]_vars => Kept'
<1> SUFFICES ASSUME IInv, Kept, [Next]_vars, faults' = 0 PROVE Kept'
  BY DEF Kept
<1>1. faults \in Nat
  BY DEF IInv, TypeOK
<1>2. faults = 0
  <2>1. ASSUME NEW r \in Runs, Step(r) PROVE faults' = faults \/ faults' = faults + 1
    BY <2>1 DEF Step, FetchEvents, FetchRaises, Connect, ConnectRaises, Upsert, WaitForRow,
      UpsertRaises, DeadlockVictim, InsertEvents, Commit, CommitRaises, LatestPeriod,
      LoadClusters, ReadRaises, Notify, StatementRaises, Fault
  <2>2. faults' = faults \/ faults' = faults + 1
    BY <2>1 DEF Next, vars, Start, Die, Tick, Fault
  <2> QED BY <1>1, <2>2
<1>3. ASSUME NEW r \in Runs, Start(r) PROVE Kept'
  <2>1. KeptOf(r)'
    BY <1>3, StartIs DEF KeptOf, RowsWritten, Wrote
  <2> QED BY <1>2, <1>3, <2>1, StartIs, QuietKept
<1>4. ASSUME NEW r \in Runs, Step(r) PROVE Kept'
  BY <1>2, <1>4, EndsKept, FetchEventsKept, SaveKept, ReadsKept, UpsertKept, ConnectKept,
     CommitKept DEF Step
<1>5. ASSUME NEW w \in Workers, Die(w) PROVE Kept'
  BY <1>1, <1>2, <1>5 DEF Die, Fault
<1>6. CASE Tick \/ UNCHANGED vars
  BY <1>2, <1>6 DEF Tick, vars, Kept, KeptOf, Has, RowsWritten, Wrote, RowsOf, Conn
<1> QED BY <1>3, <1>4, <1>5, <1>6 DEF Next

\* save_cluster_snapshot reports success only of what is stored, as long as
\* nothing fails: however many runs of a worker share its connection and
\* commit each other's halves, and whoever waits for whom, a run that is past
\* its COMMIT finds each of its clusters in mining_clusters, and
\* get_latest_snapshot_period answers its hour or a later one; unless two runs
\* of the worker have each made a connection.
THEOREM SavedIsStoredHolds == Spec => []SavedIsStored
<1>1. Kept => SavedIsStored
  BY DEF Kept, KeptOf, SavedIsStored
<1> QED BY InitInv, StepInv, InitKept, StepKept, <1>1, PTL DEF Spec

-----------------------------------------------------------------------------
(* No run is stuck, and every run has an end                               *)

\* Induction on a set of numbers.
LEMMA SetInduction ==
  ASSUME NEW T, 0 \in T, \A n \in Nat : n \in T => n + 1 \in T
  PROVE  Nat \subseteq T
<1> DEFINE R == OpToRel(<, Nat)
           U == Nat \ T
<1>1. IsWellFoundedOn(R, Nat)
  BY NatLessThanWellFounded
<1>2. \A x, y \in Nat : x < y => <<x, y>> \in R
  BY DEF OpToRel
<1> SUFFICES ASSUME U # {} PROVE FALSE
  OBVIOUS
<1>3. U \subseteq Nat
  OBVIOUS
<1> HIDE DEF R, U
<1>4. PICK x \in U : \A y \in U : ~(<<y, x>> \in R)
  BY <1>1, <1>3, WFMin
<1> USE DEF U
<1>5. x \in Nat /\ x # 0 /\ x - 1 \in Nat /\ x - 1 + 1 = x /\ x - 1 < x
  OBVIOUS
<1>6. x - 1 \in U
  BY <1>5
<1> QED BY <1>2, <1>4, <1>5, <1>6

\* The guards of the steps of a run in which nothing new fails: it awaits its
\* connection, or its statement can be sent, or its row is free, or it waits in
\* a circle.
CanGoOn(r) ==
  \/ run[r].pc \in {"fetch", "notify"} \/ Awaits(r)
  \/ run[r].pc \in {"upsert", "events", "load"} /\ Free(run[r].cur)
  \/ run[r].pc = "commit" /\ Free(Conn(r))
  \/ Pc(r, "waiting") /\ (~Locked(run[r].cur, Row(r)) \/ InCircle(run[r].cur))
  \/ /\ run[r].pc = "latest" /\ Free(run[r].cur)
     /\ \/ tx[run[r].cur].st # "open"
        \/ LET stored == {p \in Periods : Filled(Seen(run[r].cur), p) # {}}
           IN  \E latest \in stored \cup {0} : \A p \in stored : p <= latest

\* While runs are under way, one of them can go on; unless a connection was
\* replaced alive.
NoRunStuck ==
  raced = {} /\ (\E r \in Runs : UnderWay(r)) => \E r \in Runs : CanGoOn(r)

\* A set of hours has a last one, or it is empty.
LEMMA LastHour ==
  ASSUME NEW n \in Nat, NEW S \in SUBSET (1..n)
  PROVE  \E m \in S \cup {0} : \A p \in S : p <= m
<1> DEFINE T == {k \in Nat : \A U \in SUBSET (1..k) : \E m \in U \cup {0} : \A p \in U : p <= m}
<1>1. 0 \in T
  OBVIOUS
<1>2. ASSUME NEW k \in Nat, k \in T PROVE k + 1 \in T
  <2> SUFFICES ASSUME NEW U \in SUBSET (1..(k + 1))
               PROVE  \E m \in U \cup {0} : \A p \in U : p <= m
    OBVIOUS
  <2>1. CASE k + 1 \in U
    BY <2>1
  <2>2. CASE k + 1 \notin U
    <3>1. U \in SUBSET (1..k)
      BY <2>2
    <3> QED BY <1>2, <3>1
  <2> QED BY <2>1, <2>2
<1>3. Nat \subseteq T
  <2> HIDE DEF T
  <2> QED BY <1>1, <1>2, SetInduction
<1> QED BY <1>3


\* Where everyone follows someone, someone follows himself in the end.
LEMMA SomeCircle ==
  ASSUME NEW W, IsFiniteSet(W), W # {}, NEW F \in [W -> SUBSET W], \A c \in W : F[c] # {}
  PROVE  \E c \in W : \A S \in SUBSET W :
           F[c] \subseteq S /\ (\A d \in S : F[d] \subseteq S) => c \in S
<1> DEFINE Closed(S) == S # {} /\ \A d \in S : F[d] \subseteq S
           T == {n \in Nat : \A S \in SUBSET W : Cardinality(S) <= n => ~Closed(S)}
<1> SUFFICES ASSUME \A c \in W : \E S \in SUBSET W :
                      /\ F[c] \subseteq S /\ (\A d \in S : F[d] \subseteq S)
                      /\ c \notin S
             PROVE  FALSE
  OBVIOUS
<1>1. \A S \in SUBSET W : IsFiniteSet(S) /\ Cardinality(S) \in Nat
  BY FS_Subset, FS_CardinalityType
<1>2. 0 \in T
  <2> SUFFICES ASSUME NEW S \in SUBSET W, Cardinality(S) <= 0 PROVE S = {}
    OBVIOUS
  <2>1. Cardinality(S) = 0
    BY <1>1
  <2> QED BY <1>1, <2>1, FS_EmptySet
<1>3. ASSUME NEW n \in Nat, n \in T PROVE n + 1 \in T
  <2> SUFFICES ASSUME NEW S \in SUBSET W, Cardinality(S) <= n + 1, Closed(S) PROVE FALSE
    OBVIOUS
  <2>1. PICK c \in S : TRUE
    OBVIOUS
  <2>2. PICK U \in SUBSET W : /\ F[c] \subseteq U /\ (\A d \in U : F[d] \subseteq U)
                              /\ c \notin U
    BY <2>1
  <2> DEFINE V == S \cap U
  <2>3. Closed(V) /\ V \in SUBSET (S \ {c}) /\ V \in SUBSET W
    BY <2>1, <2>2
  <2> HIDE DEF V, Closed
  <2>4. IsFiniteSet(S) /\ IsFiniteSet(S \ {c}) /\ Cardinality(S \ {c}) = Cardinality(S) - 1
    BY <1>1, <2>1, FS_RemoveElement
  <2>5. Cardinality(V) <= Cardinality(S \ {c})
    BY <2>3, <2>4, FS_Subset
  <2>6. Cardinality(V) <= n
    BY <1>1, <2>3, <2>4, <2>5
  <2> QED BY <1>3, <2>3, <2>6
<1>4. Nat \subseteq T
  <2> HIDE DEF T
  <2> QED BY <1>2, <1>3, SetInduction
<1>5. Closed(W)
  OBVIOUS
<1> QED BY <1>1, <1>4, <1>5

LEMMA WaitingFinite ==
  ASSUME IInv
  PROVE  IsFiniteSet(Waiting) /\ Waiting \subseteq Conns
<1>1. Waiting \subseteq Conns
  BY HasConn DEF Waiting, Pc, IInv, RunFits
<1>2. IsFiniteSet({"upsert", "load"})
  <2>1. {"upsert", "load"} = {"upsert"} \cup {"load"}
    OBVIOUS
  <2>2. IsFiniteSet({"upsert"})
    BY FS_Singleton
  <2>3. IsFiniteSet({"upsert"} \cup {"load"})
    BY ONLY <2>2, FS_AddElement
  <2> QED BY ONLY <2>1, <2>3
<1>3. IsFiniteSet(Conns)
  BY <1>2, FS_Product, MiningAssumption DEF Conns
<1> QED BY <1>1, <1>3, FS_Subset

\* What a run under way that cannot go on waits for: for its connection, where
\* another statement waits, or for a row.
LEMMA StuckRun ==
  ASSUME IInv, NEW r \in Runs, UnderWay(r), ~CanGoOn(r)
  PROVE  \/ run[r].pc \in {"upsert", "events", "latest", "load"} /\ run[r].cur \in Waiting
         \/ run[r].pc = "commit" /\ Conn(r) \in Waiting
         \/ /\ Pc(r, "waiting") /\ run[r].cur \in Waiting
            /\ Locked(run[r].cur, Row(r)) /\ ~InCircle(run[r].cur)
<1>1. run[r].pc \in {"upsert", "waiting", "events", "commit", "latest", "load"}
  BY RunType DEF CanGoOn, UnderWay, IInv
<1>2. ASSUME run[r].pc = "latest", Free(run[r].cur) PROVE FALSE
  <2> DEFINE stored == {p \in Periods : Filled(Seen(run[r].cur), p) # {}}
  <2>1. stored \in SUBSET (1..MaxHour) /\ MaxHour \in Nat
    BY MiningAssumption DEF Periods
  <2> HIDE DEF stored
  <2>2. \E latest \in stored \cup {0} : \A p \in stored : p <= latest
    BY <2>1, LastHour
  <2> QED BY <1>2, <2>2 DEF CanGoOn, stored
<1>3. Pc(r, "waiting") => run[r].cur \in Waiting
  BY DEF Waiting
<1> QED BY <1>1, <1>2, <1>3 DEF CanGoOn, Free, Pc

\* Where all runs are stuck, each waiting connection waits for another waiting
\* one: the row's writer is still saving over it, and is stuck as well.
LEMMA NobodyStuck == IInv => NoRunStuck
<1> SUFFICES ASSUME IInv, raced = {}, NEW r \in Runs, UnderWay(r), \A s \in Runs : ~CanGoOn(s)
             PROVE  FALSE
  BY DEF NoRunStuck
<1>1. Waiting # {}
  BY StuckRun
<1>2. ASSUME NEW c \in Waiting PROVE WaitsFor(c) # {}
  <2>1. PICK s \in Runs : Pc(s, "waiting") /\ run[s].cur = c
    BY DEF Waiting
  <2>2. UnderWay(s)
    BY <2>1 DEF Pc, UnderWay
  <2>3. Locked(c, Row(s))
    BY <2>1, <2>2, StuckRun DEF Pc
  <2>4. PICK d \in Live : Holds(d, c, Row(s))
    BY <2>3 DEF Locked
  <2>5. d \in Conns
    BY RunType DEF Live, IInv, TypeOK
  <2>6. Row(s) \in Keys
    <3>1. run[s].period \in Periods /\ run[s].at \in 1..MaxClusters
      BY <2>1, RunType DEF IInv, RunFits, Pc
    <3> QED BY <3>1 DEF Row, Keys
  <2>7. tx[d].writes[Row(s)] \in Runs /\ tx[d].st = "open"
    <3>1. tx[d].writes[Row(s)] # NoRow
      BY <2>4 DEF Holds
    <3>2. tx[d].writes[Row(s)] \in Runs
      BY <2>5, <2>6, <3>1, TxType DEF IInv
    <3>3. tx[d].st = "open"
      BY <2>5, <2>6, <3>1, TxType, Nothings DEF IInv
    <3> QED BY <3>2, <3>3
  <2>8. PICK t \in Runs : tx[d].writes[Row(s)] = t
    BY <2>7
  <2>9. run[t].cur = d /\ Row(s) \in RowsWritten(t)
    BY <2>5, <2>6, <2>8 DEF IInv, WritersSave
  <2>10. run[t].pc \in {"upsert", "waiting", "events", "commit"}
    BY <2>9, NothingWritten
  <2>11. d = Conn(t)
    BY <2>5, <2>7, <2>9, Nothings DEF IInv, Connected
  <2>12. UnderWay(t)
    BY <2>10 DEF UnderWay
  <2>13. d \in Waiting
    BY <2>9, <2>11, <2>12, <2>10, StuckRun DEF Pc
  <2> QED BY <2>1, <2>4, <2>13 DEF WaitsFor
<1> DEFINE F == [c \in Waiting |-> WaitsFor(c)]
<1>3. F \in [Waiting -> SUBSET Waiting] /\ \A c \in Waiting : F[c] # {}
  BY <1>2 DEF WaitsFor
<1>4. \A c \in Waiting : F[c] = WaitsFor(c)
  OBVIOUS
<1> HIDE DEF F
<1>5. PICK c \in Waiting : \A S \in SUBSET Waiting :
        F[c] \subseteq S /\ (\A d \in S : F[d] \subseteq S) => c \in S
  BY <1>1, <1>3, WaitingFinite, SomeCircle
<1>6. InCircle(c)
  BY <1>4, <1>5 DEF InCircle
<1>7. PICK s \in Runs : Pc(s, "waiting") /\ run[s].cur = c
  BY DEF Waiting
<1> QED BY <1>6, <1>7 DEF CanGoOn

\* The runs never all wait: neither for their connections, which a statement of
\* another run of the worker keeps busy, nor for rows.  Where no other run can
\* go on, those that wait for rows wait in a circle, of which PostgreSQL fails
\* one.
THEOREM NoRunStuckHolds == Spec => []NoRunStuck
BY InitInv, StepInv, NobodyStuck, PTL DEF Spec

\* How many steps a run has left at most.
StepsToEnd(r) ==
  CASE run[r].pc = "fetch"   -> 3 * MaxClusters + 7
    [] run[r].pc = "upsert"  -> 3 * (run[r].found - run[r].at)
                                  + (IF run[r].cur = NoConn THEN 9 ELSE 8)
    [] run[r].pc = "waiting" -> 3 * (run[r].found - run[r].at) + 7
    [] run[r].pc = "events"  -> 3 * (run[r].found - run[r].at) + 6
    [] run[r].pc = "commit"  -> 5
    [] run[r].pc = "latest"  -> 4
    [] run[r].pc = "load"    -> IF run[r].cur = NoConn THEN 3 ELSE 2
    [] run[r].pc = "notify"  -> 1
    [] OTHER                 -> 0

\* Every step of a run brings its end nearer, and nothing that the other
\* runs, the clock or the death of a worker do puts it off.
RunsDwindle ==
  \A r \in Runs :
    /\ Step(r) => StepsToEnd(r)' < StepsToEnd(r)
    /\ ~Step(r) /\ UnderWay(r) => StepsToEnd(r)' = StepsToEnd(r) \/ run'[r].pc = "failed"
    /\ UnderWay(r) => StepsToEnd(r) \in 1..(3 * MaxClusters + 7)

LEMMA StepsLeft ==
  ASSUME IInv, NEW r \in Runs, UnderWay(r)
  PROVE  StepsToEnd(r) \in 1..(3 * MaxClusters + 7)
<1>1. /\ run[r].found \in Nat /\ run[r].at \in Nat /\ MaxClusters \in Nat
      /\ run[r].at >= 1 /\ run[r].found <= MaxClusters
      /\ run[r].pc \in {"idle", "fetch", "upsert", "waiting", "events", "commit", "latest",
                        "load", "notify", "done", "failed"}
      /\ run[r].pc \in {"upsert", "waiting", "events"} => run[r].at <= run[r].found
  BY RunType DEF IInv, RunFits
<1> QED BY <1>1 DEF StepsToEnd, UnderWay

\* One step of a run, seen by it and by the others.
LEMMA StepMoves ==
  ASSUME IInv, NEW r \in Runs, Step(r)
  PROVE  /\ \A s \in Runs \ {r} : run'[s] = run[s]
         /\ StepsToEnd(r)' < StepsToEnd(r)
<1>1. /\ run[r].found \in Nat /\ run[r].at \in Nat /\ MaxClusters \in Nat
      /\ run[r].found <= MaxClusters
  BY RunType DEF IInv
<1>2. CASE \/ FetchEvents(r) /\ plan.finds[r] = 0
           \/ FetchRaises(r) \/ ConnectRaises(r) \/ UpsertRaises(r) \/ DeadlockVictim(r)
           \/ CommitRaises(r) \/ ReadRaises(r) \/ Notify(r)
  <2>1. UnderWay(r) /\ \A s \in Runs \ {r} : run'[s] = run[s]
    BY <1>2, EndsInv
  <2>2. PICK pc \in {"done", "failed"} : run'[r] = Over(pc)
    BY <1>2, EndsInv
  <2>3. StepsToEnd(r)' = 0
    BY <2>2, OverFits DEF StepsToEnd
  <2> QED BY <1>1, <2>1, <2>3, StepsLeft
<1>3. CASE FetchEvents(r) /\ plan.finds[r] # 0
  <2>1. /\ run[r].pc = "fetch" /\ run'[r].pc = "upsert" /\ run'[r].at = 1
        /\ run'[r].found \in 1..MaxClusters /\ \A s \in Runs \ {r} : run'[s] = run[s]
    BY <1>3, FetchEventsIs
  <2> QED BY <1>1, <2>1 DEF StepsToEnd
<1>4. CASE Connect(r)
  <2>1. /\ run[r].pc \in {"upsert", "load"} /\ run[r].cur = NoConn /\ run'[r].pc = run[r].pc
        /\ run'[r].at = run[r].at /\ run'[r].found = run[r].found
        /\ run'[r].cur \in Conns /\ \A s \in Runs \ {r} : run'[s] = run[s]
    BY <1>4, ConnectIs
  <2> QED BY <1>1, <2>1, Nothings DEF StepsToEnd
<1>5. CASE Upsert(r)
  <2>1. /\ run[r].pc \in {"upsert", "waiting"} /\ run[r].cur \in Conns
        /\ run'[r].pc = "events" /\ run'[r].at = run[r].at /\ run'[r].found = run[r].found
        /\ \A s \in Runs \ {r} : run'[s] = run[s]
    BY <1>5, UpsertIs
  <2> QED BY <1>1, <2>1 DEF StepsToEnd
<1>6. CASE WaitForRow(r)
  <2>1. /\ run[r].pc = "upsert" /\ run[r].cur # NoConn
        /\ run'[r].pc = "waiting" /\ run'[r].at = run[r].at /\ run'[r].found = run[r].found
        /\ \A s \in Runs \ {r} : run'[s] = run[s]
    BY <1>6, WaitForRowIs
  <2> QED BY <1>1, <2>1 DEF StepsToEnd
<1>7. CASE InsertEvents(r)
  <2>1. /\ run[r].pc = "events" /\ run[r].cur # NoConn /\ run'[r].cur = run[r].cur
        /\ run'[r].pc = (IF run[r].at < run[r].found THEN "upsert" ELSE "commit")
        /\ run'[r].at = run[r].at + 1 /\ run'[r].found = run[r].found
        /\ \A s \in Runs \ {r} : run'[s] = run[s]
    BY <1>7, InsertEventsIs
  <2>2. run[r].at <= run[r].found
    BY <2>1 DEF IInv, RunFits
  <2> QED BY <1>1, <2>1, <2>2 DEF StepsToEnd
<1>8. CASE Commit(r)
  BY <1>8, CommitIs DEF StepsToEnd
<1>9. CASE LatestPeriod(r) \/ LoadClusters(r)
  <2>1. /\ run[r].pc \in {"latest", "load"} /\ run[r].cur \in Conns
        /\ run'[r].pc \in {"load", "notify"}
        /\ run[r].pc = "load" => run'[r].pc = "notify"
        /\ \A s \in Runs \ {r} : run'[s] = run[s]
    BY <1>9, ReadsIs
  <2> QED BY <2>1, Nothings DEF StepsToEnd
<1> QED BY <1>2, <1>3, <1>4, <1>5, <1>6, <1>7, <1>8, <1>9 DEF Step

\* Every run under way has an end, which only its own steps bring nearer.
LEMMA StepDwindles == IInv /\ [Next]_vars => [RunsDwindle]_vars
<1> SUFFICES ASSUME IInv, [Next]_vars, NEW r \in Runs
             PROVE  /\ Step(r) => StepsToEnd(r)' < StepsToEnd(r)
                    /\ ~Step(r) /\ UnderWay(r) =>
                         StepsToEnd(r)' = StepsToEnd(r) \/ run'[r].pc = "failed"
                    /\ UnderWay(r) => StepsToEnd(r) \in 1..(3 * MaxClusters + 7)
  BY DEF RunsDwindle
<1>1. Step(r) => StepsToEnd(r)' < StepsToEnd(r)
  BY StepMoves
<1>2. run'[r] = run[r] => StepsToEnd(r)' = StepsToEnd(r)
  BY DEF StepsToEnd
<1>3. ASSUME ~Step(r), UnderWay(r) PROVE run'[r] = run[r] \/ run'[r].pc = "failed"
  <2>1. ASSUME NEW s \in Runs, Step(s) PROVE run'[r] = run[r]
    BY <1>3, <2>1, StepMoves
  <2>2. ASSUME NEW s \in Runs, Start(s) PROVE run'[r] = run[r]
    BY <1>3, <2>2, StartIs DEF UnderWay
  <2>3. ASSUME NEW w \in Workers, Die(w) PROVE run'[r] = run[r] \/ run'[r].pc = "failed"
    BY <2>3, DieIs, OverFits
  <2>4. CASE Tick \/ UNCHANGED vars
    BY <2>4 DEF Tick, vars
  <2> QED BY <2>1, <2>2, <2>3, <2>4 DEF Next
<1> QED BY <1>1, <1>2, <1>3, StepsLeft

\* However many runs share rows and connections, and whatever fails, the
\* steps that a run has left are bounded and shrink with each it takes.
THEOREM RunsDwindleHolds == Spec => [][RunsDwindle]_vars
BY InitInv, StepInv, StepDwindles, PTL DEF Spec

-----------------------------------------------------------------------------
(* MiningQueries: orders, places and induction                             *)

\* The elements of S that come before x in the order R.
Below(S, R, x) == {z \in S : <<z, x>> \in R}

\* R puts the elements of S one after the other.
StrictOrder(R, S) ==
  /\ \A x \in S : <<x, x>> \notin R
  /\ \A x, y, z \in S : <<x, y>> \in R /\ <<y, z>> \in R => <<x, z>> \in R
  /\ \A x, y \in S : x # y => <<x, y>> \in R \/ <<y, x>> \in R

\* An element has more below it than any that comes before it.
LEMMA RankRises ==
  ASSUME NEW S, IsFiniteSet(S), NEW R, StrictOrder(R, S),
         NEW x \in S, NEW y \in S, <<x, y>> \in R
  PROVE  Cardinality(Below(S, R, x)) < Cardinality(Below(S, R, y))
<1> DEFINE A == Below(S, R, x)
           B == Below(S, R, y)
<1>1. A \in SUBSET S /\ B \in SUBSET S
  BY DEF Below
<1>2. IsFiniteSet(A) /\ IsFiniteSet(B)
  BY <1>1, FS_Subset
<1>3. A \in SUBSET B /\ x \in B /\ x \notin A
  BY DEF Below, StrictOrder
<1>4. Cardinality(A) <= Cardinality(B) /\ (Cardinality(B) = Cardinality(A) => A = B)
  BY <1>2, <1>3, FS_Subset
<1>5. Cardinality(A) \in Nat /\ Cardinality(B) \in Nat
  BY <1>2, FS_CardinalityType
<1> QED BY <1>3, <1>4, <1>5

\* Every place of an ordered finite set is taken.
LEMMA PlacesTaken ==
  ASSUME NEW S, IsFiniteSet(S), NEW R, StrictOrder(R, S),
         NEW i \in 1..Cardinality(S)
  PROVE  \E x \in S : Cardinality(Below(S, R, x)) = i - 1
<1> DEFINE n == Cardinality(S)
           rank == [x \in S |-> Cardinality(Below(S, R, x)) + 1]
<1>1. n \in Nat
  BY FS_CardinalityType
<1>2. \A x \in S : /\ Cardinality(Below(S, R, x)) \in Nat
                   /\ Cardinality(Below(S, R, x)) < n
  <2> SUFFICES ASSUME NEW x \in S
               PROVE  /\ Cardinality(Below(S, R, x)) \in Nat
                      /\ Cardinality(Below(S, R, x)) < n
    OBVIOUS
  <2>1. Below(S, R, x) \in SUBSET S /\ x \notin Below(S, R, x)
    BY DEF Below, StrictOrder
  <2>2. IsFiniteSet(Below(S, R, x)) /\ Cardinality(Below(S, R, x)) <= n
        /\ (n = Cardinality(Below(S, R, x)) => S = Below(S, R, x))
    BY <2>1, FS_Subset
  <2>3. Cardinality(Below(S, R, x)) \in Nat
    BY <2>2, FS_CardinalityType
  <2> QED BY <1>1, <2>1, <2>2, <2>3
<1>3. rank \in [S -> 1..n]
  BY <1>1, <1>2
<1>4. \A x, y \in S : x # y => rank[x] # rank[y]
  <2> SUFFICES ASSUME NEW x \in S, NEW y \in S, x # y
               PROVE  rank[x] # rank[y]
    OBVIOUS
  <2>1. <<x, y>> \in R \/ <<y, x>> \in R
    BY DEF StrictOrder
  <2>2. \/ Cardinality(Below(S, R, x)) < Cardinality(Below(S, R, y))
        \/ Cardinality(Below(S, R, y)) < Cardinality(Below(S, R, x))
    BY <2>1, RankRises
  <2> QED BY <1>2, <2>2
<1>5. rank \in Injection(S, 1..n)
  BY <1>3, <1>4, Fun_IsInj
<1>6. IsFiniteSet(1..n) /\ Cardinality(1..n) = n
  BY <1>1, FS_Interval
<1>7. rank \in Surjection(S, 1..n)
  BY <1>5, <1>6, FS_Injection
<1>8. \A k \in 1..n : \E x \in S : rank[x] = k
  <2> HIDE DEF rank
  <2> QED BY <1>7, Fun_SurjectionProperties
<1>9. PICK x \in S : rank[x] = i
  BY <1>8
<1> QED BY <1>2, <1>9

\* The store of checkpoints is a list, whose times are numbers.
LEMMA EventTimes ==
  ASSUME NEW events \in Seq(Event)
  PROVE  /\ DOMAIN events = 1..Len(events) /\ Len(events) \in Nat
         /\ \A i \in DOMAIN events : events[i].timestamp \in Nat
         /\ IsFiniteSet(DOMAIN events) /\ Cardinality(DOMAIN events) = Len(events)
<1>1. DOMAIN events = 1..Len(events) /\ Len(events) \in Nat
  OBVIOUS
<1>2. \A i \in DOMAIN events : events[i].timestamp \in Nat
  <2> TAKE i \in DOMAIN events
  <2>1. events[i] \in Event
    OBVIOUS
  <2> QED BY <2>1 DEF Event
<1>3. IsFiniteSet(1..Len(events)) /\ Cardinality(1..Len(events)) = Len(events)
  BY <1>1, FS_Interval
<1> QED BY <1>1, <1>2, <1>3

\* What the store holds stays a list of events.
LEMMA StoreGrows ==
  ASSUME store \in Seq(Event), QueriesNext
  PROVE  store' \in Seq(Event)
<1>1. ASSUME NEW thread \in Threads, NEW t \in 0..MaxTime, StoreCheckpoint(thread, t)
      PROVE  store' \in Seq(Event)
  <2>1. [thread |-> thread, timestamp |-> t] \in Event
    BY QueriesAssumption DEF Event
  <2>2. <<[thread |-> thread, timestamp |-> t]>> \in Seq(Event)
    BY <2>1
  <2> QED BY <1>1, <2>2 DEF StoreCheckpoint
<1>2. CASE GetPatterns \/ GetPredictions \/ \E words \in SUBSET Words, k \in TopK : SuggestRunbook(words, k)
  BY <1>2 DEF GetPatterns, GetPredictions, SuggestRunbook
<1> QED BY <1>1, <1>2 DEF QueriesNext

\* Only one query answers with patterns.
LEMMA OnlyPatterns == QueriesNext => GetPatterns \/ answer'.kind # "patterns"
<1>1. ASSUME NEW thread \in Threads, NEW t \in 0..MaxTime, StoreCheckpoint(thread, t)
      PROVE  answer'.kind # "patterns"
  BY <1>1 DEF StoreCheckpoint, NoAnswer
<1>2. GetPredictions => answer'.kind # "patterns"
  BY DEF GetPredictions
<1>3. ASSUME NEW words \in SUBSET Words, NEW k \in TopK, SuggestRunbook(words, k)
      PROVE  answer'.kind # "patterns"
  BY <1>3 DEF SuggestRunbook
<1> QED BY <1>1, <1>2, <1>3 DEF QueriesNext

-----------------------------------------------------------------------------
(* The cascades: every pair counted is a pair that happened                *)

\* The events that ByTime puts before event x: the earlier ones, and at one
\* time those before it in the list.
Earlier(events, x) ==
  {y \in DOMAIN events :
     \/ events[y].timestamp < events[x].timestamp
     \/ events[y].timestamp = events[x].timestamp /\ y < x}

\* The place in the list of the event that ByTime puts at i.
Ordering(events) ==
  [i \in 1..Cardinality(DOMAIN events) |->
     CHOOSE x \in DOMAIN events : Cardinality(Earlier(events, x)) = i - 1]

\* ByTime by the name of its order.
LEMMA ByTimeIs ==
  ASSUME NEW events
  PROVE  ByTime(events) = [i \in DOMAIN events |-> events[Ordering(events)[i]]]
BY DEF ByTime, Sorted, Ordering, Earlier

\* ByTime is a permutation of its events in the order of time.
LEMMA TimeOrders ==
  ASSUME NEW events \in Seq(Event)
  PROVE  /\ \A i \in DOMAIN events : Ordering(events)[i] \in DOMAIN events
         /\ \A i, j \in DOMAIN events :
              i < j => /\ Ordering(events)[i] # Ordering(events)[j]
                       /\ events[Ordering(events)[i]].timestamp
                            <= events[Ordering(events)[j]].timestamp
<1> DEFINE D == DOMAIN events
           R == {p \in D \X D : p[1] \in Earlier(events, p[2])}
           order == Ordering(events)
<1>1. /\ D = 1..Len(events) /\ Len(events) \in Nat /\ IsFiniteSet(D)
      /\ Cardinality(D) = Len(events) /\ \A i \in D : events[i].timestamp \in Nat
  BY EventTimes
<1>2. \A x \in D : Below(D, R, x) = Earlier(events, x)
  <2> SUFFICES ASSUME NEW x \in D PROVE Below(D, R, x) = Earlier(events, x)
    OBVIOUS
  <2>1. \A y \in D : <<y, x>> \in R <=> y \in Earlier(events, x)
    OBVIOUS
  <2>2. Earlier(events, x) \subseteq D
    BY DEF Earlier
  <2> HIDE DEF R, D
  <2>3. \A y : y \in Below(D, R, x) <=> y \in Earlier(events, x)
    BY <2>1, <2>2 DEF Below
  <2> QED BY <2>3
<1>3. \A x, y \in D : <<x, y>> \in R <=> \/ events[x].timestamp < events[y].timestamp
                                         \/ events[x].timestamp = events[y].timestamp /\ x < y
  BY DEF Earlier
<1> HIDE DEF R, D
<1>4. StrictOrder(R, D)
  <2> DEFINE time == [x \in D |-> events[x].timestamp]
  <2>1. D \subseteq Int /\ \A x \in D : time[x] \in Int
    BY <1>1
  <2>2. \A x, y \in D : <<x, y>> \in R <=> \/ time[x] < time[y]
                                           \/ time[x] = time[y] /\ x < y
    BY <1>3
  <2> HIDE DEF time
  <2>3. \A x \in D : <<x, x>> \notin R
    BY <2>1, <2>2
  <2>4. \A x, y, z \in D : <<x, y>> \in R /\ <<y, z>> \in R => <<x, z>> \in R
    BY <2>1, <2>2
  <2>5. \A x, y \in D : x # y => <<x, y>> \in R \/ <<y, x>> \in R
    BY <2>1, <2>2
  <2> QED BY <2>3, <2>4, <2>5 DEF StrictOrder
<1>5. \A i \in D : \E x \in D : Cardinality(Earlier(events, x)) = i - 1
  <2> TAKE i \in D
  <2>1. \E x \in D : Cardinality(Below(D, R, x)) = i - 1
    BY <1>1, <1>4, PlacesTaken
  <2> QED BY <1>2, <2>1
<1>6. \A i \in D : order[i] \in D /\ Cardinality(Earlier(events, order[i])) = i - 1
  BY <1>1, <1>5 DEF Ordering, D
<1>7. ASSUME NEW i \in D, NEW j \in D, i < j
      PROVE  /\ order[i] # order[j]
             /\ events[order[i]].timestamp <= events[order[j]].timestamp
  <2>1. order[i] # order[j]
    BY <1>1, <1>6, <1>7
  <2>2. <<order[j], order[i]>> \notin R
    <3> SUFFICES ASSUME <<order[j], order[i]>> \in R PROVE FALSE
      OBVIOUS
    <3>1. Cardinality(Below(D, R, order[j])) < Cardinality(Below(D, R, order[i]))
      BY <1>1, <1>4, <1>6, RankRises
    <3> QED BY <1>1, <1>2, <1>6, <1>7, <3>1
  <2> QED BY <1>1, <1>3, <1>6, <2>1, <2>2
<1> QED BY <1>6, <1>7 DEF D

\* The pairs of the sorted events that are counted for two clusters.
Counted(clusters, events, up, down) ==
  {p \in Followers(ByTime(events)) :
     /\ ByTime(events)[p[1]].thread \in MappedTo(clusters, up)
     /\ ByTime(events)[p[2]].thread \in MappedTo(clusters, down)}

\* The place of an event in time is its alone, so no pair of stored events
\* is counted twice.
LEMMA CountedHappened ==
  ASSUME NEW events \in Seq(Event), NEW clusters,
         NEW up \in DOMAIN clusters, NEW down \in DOMAIN clusters
  PROVE  /\ Cardinality(Counted(clusters, events, up, down)) \in Nat
         /\ Cardinality(Happened(clusters, events, up, down)) \in Nat
         /\ Cardinality(Counted(clusters, events, up, down))
              <= Cardinality(Happened(clusters, events, up, down))
<1> DEFINE D == DOMAIN events
           sorted == ByTime(events)
           order == Ordering(events)
           C == Counted(clusters, events, up, down)
           H == Happened(clusters, events, up, down)
           stored == [p \in C |-> <<order[p[1]], order[p[2]]>>]
<1>1. /\ D = 1..Len(events) /\ Len(events) \in Nat /\ IsFiniteSet(D)
      /\ \A i \in D : events[i].timestamp \in Nat
  BY EventTimes
<1>2. /\ DOMAIN sorted = D
      /\ \A i \in D : sorted[i] = events[order[i]] /\ order[i] \in D
  BY ByTimeIs, TimeOrders
<1>3. \A i, j \in D : i < j => /\ order[i] # order[j]
                               /\ events[order[i]].timestamp <= events[order[j]].timestamp
  BY TimeOrders
<1>4. \A i, j \in D : i # j => order[i] # order[j]
  BY <1>1, <1>3
<1>5. \A id \in DOMAIN clusters : MappedTo(clusters, id) \subseteq ThreadsOf(clusters[id])
  BY DEF MappedTo
<1>6. IsFiniteSet(H) /\ Cardinality(H) \in Nat
  <2>1. IsFiniteSet(D \X D)
    BY <1>1, FS_Product
  <2>2. H \in SUBSET (D \X D)
    BY DEF Happened
  <2> QED BY <2>1, <2>2, FS_Subset, FS_CardinalityType
<1>7. ASSUME NEW p \in C
      PROVE  /\ p = <<p[1], p[2]>> /\ p[1] \in D /\ p[2] \in D
             /\ stored[p] \in H
  <2>1. p \in D \X D /\ p[1] < p[2] /\ sorted[p[2]].timestamp - sorted[p[1]].timestamp <= CascadeWindow
    BY <1>2 DEF Counted, Followers
  <2>2. p = <<p[1], p[2]>> /\ p[1] \in D /\ p[2] \in D
    BY <2>1
  <2>3. events[order[p[2]]].timestamp - events[order[p[1]]].timestamp \in 0..CascadeWindow
    <3> DEFINE a == events[order[p[1]]].timestamp
               b == events[order[p[2]]].timestamp
    <3>1. a \in Nat /\ b \in Nat /\ a <= b /\ b - a <= CascadeWindow
      BY <1>1, <1>2, <1>3, <2>1, <2>2
    <3> HIDE DEF a, b
    <3>2. b - a \in 0..CascadeWindow
      BY <3>1, QueriesAssumption
    <3> QED BY <3>2 DEF a, b
  <2>4. /\ events[order[p[1]]].thread \in ThreadsOf(clusters[up])
        /\ events[order[p[2]]].thread \in ThreadsOf(clusters[down])
    BY <1>2, <1>5, <2>2 DEF Counted
  <2>5. <<order[p[1]], order[p[2]]>> \in H
    BY <1>2, <2>2, <2>3, <2>4 DEF Happened
  <2> QED BY <2>2, <2>5
<1>8. stored \in [C -> H]
  BY <1>7
<1>9. \A p, q \in C : stored[p] = stored[q] => p = q
  <2> SUFFICES ASSUME NEW p \in C, NEW q \in C, stored[p] = stored[q]
               PROVE  p = q
    OBVIOUS
  <2>1. order[p[1]] = order[q[1]] /\ order[p[2]] = order[q[2]]
    OBVIOUS
  <2>2. p[1] = q[1] /\ p[2] = q[2]
    BY <1>4, <1>7, <2>1
  <2> QED BY <1>7, <2>2
<1>10. IsFiniteSet(C) /\ Cardinality(C) <= Cardinality(H)
  <2>1. stored \in Injection(C, H)
    BY <1>8, <1>9, Fun_IsInj
  <2> HIDE DEF stored, C, H
  <2> QED BY <1>6, <2>1, FS_Injection
<1> QED BY <1>6, <1>10, FS_CardinalityType

\* What is counted for two clusters, in one order and in either.
LEMMA CascadesHappened ==
  ASSUME NEW events \in Seq(Event), NEW clusters,
         NEW up \in DOMAIN clusters, NEW down \in DOMAIN clusters
  PROVE  LET there == Cardinality(Happened(clusters, events, up, down))
             back  == Cardinality(Happened(clusters, events, down, up))
         IN  /\ CascadePairs(clusters, events)[<<up, down>>] <= there
             /\ CoOccurrence(clusters, events)[<<up, down>>] <= there + back
<1> DEFINE n == Cascades(clusters, events)
           there == Cardinality(Happened(clusters, events, up, down))
           back  == Cardinality(Happened(clusters, events, down, up))
<1>1. /\ DOMAIN n = (DOMAIN clusters) \X (DOMAIN clusters)
      /\ <<up, down>> \in DOMAIN n
  BY DEF Cascades
<1>2. /\ n[<<up, down>>] = Cardinality(Counted(clusters, events, up, down))
      /\ n[<<down, up>>] = Cardinality(Counted(clusters, events, down, up))
  BY DEF Cascades, Counted
<1>3. /\ n[<<up, down>>] \in Nat /\ n[<<down, up>>] \in Nat /\ there \in Nat /\ back \in Nat
      /\ n[<<up, down>>] <= there /\ n[<<down, up>>] <= back
  BY <1>2, CountedHappened
<1>4. CascadePairs(clusters, events)[<<up, down>>] \in {0, n[<<up, down>>]}
  BY <1>1 DEF CascadePairs
<1>5. CoOccurrence(clusters, events)[<<up, down>>] \in {0, n[<<up, down>>] + n[<<down, up>>]}
  BY <1>1 DEF CoOccurrence
<1> DEFINE pairs == CascadePairs(clusters, events)[<<up, down>>]
           both  == CoOccurrence(clusters, events)[<<up, down>>]
           down_n == n[<<up, down>>]
           up_n   == n[<<down, up>>]
<1> HIDE DEF there, back, pairs, both, down_n, up_n
<1>6. pairs <= there /\ both <= there + back
  BY <1>3, <1>4, <1>5 DEF pairs, both, down_n, up_n
<1> QED BY <1>6 DEF there, back, pairs, both

\* The invariant behind CascadesAreReal.
CascadeInv == store \in Seq(Event) /\ CascadesAreReal

\* The one query that answers with cascades.
LEMMA PatternsKeep == store \in Seq(Event) /\ GetPatterns => CascadesAreReal'
<1> SUFFICES ASSUME store \in Seq(Event), GetPatterns PROVE CascadesAreReal'
  OBVIOUS
<1>1. /\ answer'.clusters = ClusterEvents(store)
      /\ answer'.pairs = CascadePairs(ClusterEvents(store), store)
      /\ answer'.co_occurrence = CoOccurrence(ClusterEvents(store), store)
      /\ store' = store
  BY DEF GetPatterns
<1>2. ASSUME NEW up \in DOMAIN answer'.clusters, NEW down \in DOMAIN answer'.clusters
      PROVE  LET there == Cardinality(Happened(answer'.clusters, store', up, down))
                 back  == Cardinality(Happened(answer'.clusters, store', down, up))
             IN  /\ answer'.pairs[<<up, down>>] <= there
                 /\ answer'.co_occurrence[<<up, down>>] <= there + back
  BY <1>1, CascadesHappened
<1> QED BY <1>2 DEF CascadesAreReal, Happened

\* Every step keeps it.
LEMMA StepCascades == CascadeInv /\ [QueriesNext]_queryVars => CascadeInv'
<1> SUFFICES ASSUME CascadeInv, [QueriesNext]_queryVars PROVE CascadeInv'
  OBVIOUS
<1>1. CASE UNCHANGED queryVars
  BY <1>1 DEF CascadeInv, queryVars, CascadesAreReal
<1>2. CASE QueriesNext
  <2>1. store' \in Seq(Event)
    BY <1>2, StoreGrows DEF CascadeInv
  <2>2. CASE GetPatterns
    BY <2>1, <2>2, PatternsKeep DEF CascadeInv
  <2>3. CASE answer'.kind # "patterns"
    BY <2>1, <2>3 DEF CascadeInv, CascadesAreReal
  <2>4. GetPatterns \/ answer'.kind # "patterns"
    BY <1>2, OnlyPatterns
  <2> QED BY <2>2, <2>3, <2>4
<1> QED BY <1>1, <1>2

\* The PatternDetector, for any clusters, words, times and window: no two
\* clusters are credited with more cascades than there are pairs of stored
\* checkpoints of their threads, the one no later than the other and within
\* the window, nor with more co-occurrences than there are in both orders.
THEOREM CascadesAreRealHolds == QueriesSpec => []CascadesAreReal
<1>1. QueriesInit => CascadeInv
  BY DEF QueriesInit, CascadeInv, CascadesAreReal, NoAnswer
<1>2. CascadeInv => CascadesAreReal
  BY DEF CascadeInv
<1> QED BY <1>1, <1>2, StepCascades, PTL DEF QueriesSpec

-----------------------------------------------------------------------------
(* The suggested runbooks                                                  *)

\* The head of a list that is not empty is not empty.
LEMMA HeadOfList ==
  ASSUME NEW n \in Nat \ {0}, NEW T, NEW list \in [1..n -> T], NEW k \in Nat \ {0}
  PROVE  SubSeq(list, 1, IF Len(list) < k THEN Len(list) ELSE k) # <<>>
<1>1. list \in Seq(T) /\ Len(list) = n
  OBVIOUS
<1> DEFINE m == IF Len(list) < k THEN Len(list) ELSE k
<1>2. m \in Nat /\ 1 <= m /\ m <= n /\ 1 \in Int
  BY <1>1
<1>3. \A i \in 1..m : list[i] \in T
  BY <1>1, <1>2
<1> HIDE DEF m
<1>4. Len(SubSeq(list, 1, m)) = m
  BY <1>2, <1>3, SubSeqProperties
<1>5. SubSeq(list, 1, m) # <<>>
  BY <1>2, <1>4
<1> QED BY <1>5 DEF m

\* Words that name a known error are given a runbook, whatever else they name.
LEMMA KnownIsSuggested ==
  ASSUME NEW words, NEW top_k \in Nat \ {0}, ExtractErrorType(words) # 0
  PROVE  Suggest(words, top_k) # <<>>
<1> DEFINE tokens == words \ Insignificant
           own == ExtractErrorType(words)
           similar == {i \in DOMAIN ErrorTypes :
                         Above(Similarity(tokens, ErrorTypes[i].tokens),
                               [num |-> 1, den |-> 100 * 100])}
           scored == similar \cup ({own} \ {0})
           Score(i) == IF i \in similar THEN Similarity(tokens, ErrorTypes[i].tokens)
                       ELSE [num |-> 1, den |-> 4]
           Place(i) == IF i \in similar THEN ErrorTypes[i].place ELSE Len(ErrorTypes) + 1
           ranked == Sorted(scored, LAMBDA i, j :
                       \/ Above(Score(i), Score(j))
                       \/ AtLeast(Score(i), Score(j)) /\ AtLeast(Score(j), Score(i))
                          /\ Place(i) < Place(j))
<1>1. words # {}
  BY DEF ExtractErrorType
<1>2. DOMAIN ErrorTypes = 1..10
  BY DEF ErrorTypes
<1>3. Cardinality(scored) \in Nat \ {0}
  <2>1. IsFiniteSet(1..10)
    <3>1. 1 \in Int /\ 10 \in Int
      OBVIOUS
    <3> QED BY <3>1, FS_Interval
  <2>2. IsFiniteSet(similar) /\ IsFiniteSet({own} \ {0})
    <3>1. similar \in SUBSET (1..10)
      BY <1>2
    <3>2. IsFiniteSet({own}) /\ ({own} \ {0}) \in SUBSET {own}
      BY FS_Singleton
    <3> QED BY <2>1, <3>1, <3>2, FS_Subset
  <2>3. IsFiniteSet(scored)
    BY <2>2, FS_Union
  <2>4. scored # {}
    OBVIOUS
  <2> HIDE DEF scored
  <2> QED BY <2>3, <2>4, FS_CardinalityType, FS_EmptySet
<1>4. \E T : ranked \in [1..Cardinality(scored) -> T]
  <2> DEFINE at(i) == CHOOSE x \in scored : Cardinality({y \in scored :
                        \/ Above(Score(y), Score(x))
                        \/ AtLeast(Score(y), Score(x)) /\ AtLeast(Score(x), Score(y))
                           /\ Place(y) < Place(x)}) = i - 1
  <2>1. ranked = [i \in 1..Cardinality(scored) |-> at(i)]
    BY DEF Sorted
  <2> HIDE DEF ranked, at, scored
  <2>2. ranked \in [1..Cardinality(scored) -> {at(i) : i \in 1..Cardinality(scored)}]
    BY <2>1
  <2> QED BY <2>2
<1>5. SubSeq(ranked, 1, IF Len(ranked) < top_k THEN Len(ranked) ELSE top_k) # <<>>
  <2> HIDE DEF ranked, scored
  <2> QED BY <1>3, <1>4, HeadOfList
<1>6. <<own>> # <<>>
  OBVIOUS
<1>7. Suggest(words, top_k) =
        IF words = {} THEN <<>>
        ELSE IF tokens = {} THEN IF own = 0 THEN <<>> ELSE <<own>>
        ELSE SubSeq(ranked, 1, IF Len(ranked) < top_k THEN Len(ranked) ELSE top_k)
  BY DEF Suggest
<1> QED
  <2> HIDE DEF ranked, tokens
  <2> QED BY <1>1, <1>5, <1>6, <1>7

\* suggest_runbook never leaves a known error without a runbook: the type
\* that extract_error_type finds is scored even where it similar no token with
\* the query, and the cut at top_k keeps the first.
THEOREM KnownErrorGetsRunbookHolds == QueriesSpec => []KnownErrorGetsRunbook
<1>1. QueriesInit => KnownErrorGetsRunbook
  BY DEF QueriesInit, KnownErrorGetsRunbook, NoAnswer
<1>2. KnownErrorGetsRunbook /\ [QueriesNext]_queryVars => KnownErrorGetsRunbook'
  <2> SUFFICES ASSUME KnownErrorGetsRunbook, [QueriesNext]_queryVars
               PROVE  KnownErrorGetsRunbook'
    OBVIOUS
  <2>1. ASSUME NEW thread \in Threads, NEW t \in 0..MaxTime, StoreCheckpoint(thread, t)
        PROVE  answer'.kind # "runbook"
    BY <2>1 DEF StoreCheckpoint, NoAnswer
  <2>2. GetPatterns => answer'.kind # "runbook"
    BY DEF GetPatterns
  <2>3. GetPredictions => answer'.kind # "runbook"
    BY DEF GetPredictions
  <2>4. ASSUME NEW words \in SUBSET Words, NEW k \in TopK, SuggestRunbook(words, k)
        PROVE  KnownErrorGetsRunbook'
    <3>1. answer'.words = words /\ answer'.types = Suggest(words, k)
      BY <2>4 DEF SuggestRunbook
    <3>2. ExtractErrorType(words) # 0 => Suggest(words, k) # <<>>
      BY KnownIsSuggested, QueriesAssumption
    <3> QED BY <3>1, <3>2 DEF KnownErrorGetsRunbook
  <2>5. CASE UNCHANGED queryVars
    BY <2>5 DEF KnownErrorGetsRunbook, queryVars
  <2>6. CASE answer'.kind # "runbook"
    BY <2>6 DEF KnownErrorGetsRunbook
  <2> QED BY <2>1, <2>2, <2>3, <2>4, <2>5, <2>6 DEF QueriesNext
<1> QED BY <1>1, <1>2, PTL DEF QueriesSpec

-----------------------------------------------------------------------------
(* The slope: counts that never fall have none that is negative            *)

\* The element that a sum over a set takes next.
Chosen(s) == CHOOSE x \in s : TRUE

\* The sums of a function over the subsets of its domain, added one value
\* after the other in the order in which they are chosen.
AddsUp(g, f, D) ==
  /\ Total(f) = g[D] /\ g[{}] = 0
  /\ \A s \in SUBSET D : s # {} => g[s] = f[Chosen(s)] + g[s \ {Chosen(s)}]

\* Total is such a sum, for any finite domain.
LEMMA TotalUnfolds ==
  ASSUME NEW D0, IsFiniteSet(D0), NEW f \in [D0 -> Int]
  PROVE  \E g : AddsUp(g, f, D0)
<1>0. DOMAIN f = D0
  OBVIOUS
<1> DEFINE D == DOMAIN f
           Small(m) == {s \in SUBSET D : Cardinality(s) <= m}
           Sums(g, M) == g = [s \in M |-> IF s = {} THEN 0 ELSE f[Chosen(s)] + g[s \ {Chosen(s)}]]
           T == {m \in Nat : \E g : Sums(g, Small(m))}
<1>1. \A s \in SUBSET D : IsFiniteSet(s) /\ Cardinality(s) \in Nat
  BY FS_Subset, FS_CardinalityType
<1>2. ASSUME NEW s \in SUBSET D, s # {}
      PROVE  /\ s \ {Chosen(s)} \in SUBSET D
             /\ Cardinality(s \ {Chosen(s)}) = Cardinality(s) - 1
  <2>1. Chosen(s) \in s
    BY <1>2 DEF Chosen
  <2> QED BY <1>1, <2>1, FS_RemoveElement
<1>3. 0 \in T
  <2> DEFINE g == [s \in Small(0) |-> 0]
  <2>1. \A s \in Small(0) : s = {}
    BY <1>1, FS_EmptySet
  <2>2. Sums(g, Small(0))
    BY <2>1
  <2> HIDE DEF Sums, g
  <2> QED BY <2>2
<1>4. ASSUME NEW m \in Nat, m \in T PROVE m + 1 \in T
  <2>1. PICK g : Sums(g, Small(m))
    BY <1>4
  <2> DEFINE h == [s \in Small(m + 1) |-> IF s = {} THEN 0 ELSE f[Chosen(s)] + g[s \ {Chosen(s)}]]
  <2>2. Small(m) \subseteq Small(m + 1)
    BY <1>1
  <2>3. \A s \in Small(m) : h[s] = g[s]
    BY <2>1, <2>2
  <2>4. \A s \in Small(m + 1) : s # {} => h[s \ {Chosen(s)}] = g[s \ {Chosen(s)}]
    <3>1. \A s \in Small(m + 1) : s # {} => s \ {Chosen(s)} \in Small(m)
      <4> SUFFICES ASSUME NEW s \in Small(m + 1), s # {} PROVE s \ {Chosen(s)} \in Small(m)
        OBVIOUS
      <4>1. s \in SUBSET D /\ Cardinality(s) \in Nat /\ Cardinality(s) <= m + 1
        BY <1>1
      <4> HIDE DEF D
      <4>2. s \ {Chosen(s)} \in SUBSET D /\ Cardinality(s \ {Chosen(s)}) = Cardinality(s) - 1
        BY <1>2, <4>1
      <4> QED BY <4>1, <4>2
    <3> HIDE DEF h, Small
    <3> QED BY <2>3, <3>1
  <2>5. Sums(h, Small(m + 1))
    <3> HIDE DEF Small
    <3> QED BY <2>4
  <2> HIDE DEF h, Sums, Small
  <2>6. \E k : Sums(k, Small(m + 1))
    BY <2>5
  <2> QED BY <2>6
<1>5. Cardinality(D) \in Nat /\ Small(Cardinality(D)) = SUBSET D
  <2>1. \A s \in SUBSET D : Cardinality(s) <= Cardinality(D)
    BY FS_Subset
  <2> QED BY <1>1, <2>1, FS_CardinalityType
<1>6. Cardinality(D) \in T
  <2> HIDE DEF T
  <2> QED BY <1>3, <1>4, <1>5, SetInduction
<1>7. \E g : Sums(g, SUBSET D)
  <2> HIDE DEF Small, Sums
  <2> QED BY <1>5, <1>6
<1> DEFINE g == CHOOSE g : Sums(g, SUBSET D)
<1>8. Sums(g, SUBSET D)
  <2> HIDE DEF Sums
  <2> QED BY <1>7
<1>9. Total(f) = g[D]
  BY DEF Total, FoldFunction, FoldFunctionOnSet, MapThenFoldSet, Chosen
<1>10. /\ g[{}] = 0
       /\ \A s \in SUBSET D : s # {} => g[s] = f[Chosen(s)] + g[s \ {Chosen(s)}]
  <2> HIDE DEF g
  <2> QED BY <1>8
<1> HIDE DEF g
<1>11. AddsUp(g, f, D0)
  BY <1>0, <1>9, <1>10 DEF AddsUp
<1> QED BY <1>11

\* The product, and two differences of sums of products.
Times(a, b) == a * b
Gap(p, k, X, Y, a, b) == p + k * (a * b) - X * b - a * Y
Spread(p, k, X, Y) == k * p - X * Y

\* Products of numbers are numbers.
LEMMA TimesType == \A a, b \in Int : Times(a, b) \in Int
BY DEF Times

\* A pair of values that lies on the same side of (a, b) in both adds to it.
LEMMA GapGrows ==
  ASSUME NEW p \in Int, NEW k \in Int, NEW X \in Int, NEW Y \in Int,
         NEW a \in Int, NEW b \in Int, NEW c \in Int, NEW d \in Int,
         Gap(p, k, X, Y, a, b) >= 0,
         (a >= c /\ b >= d) \/ (a <= c /\ b <= d)
  PROVE  Gap(Times(c, d) + p, k + 1, c + X, d + Y, a, b) >= 0
<1> DEFINE more == (a - c) * (b - d)
<1>1. more >= 0 /\ more \in Int
  <2>1. \A u, v \in Int : (u >= 0 /\ v >= 0) \/ (u <= 0 /\ v <= 0) => u * v >= 0 /\ u * v \in Int
    OBVIOUS
  <2>2. a - c \in Int /\ b - d \in Int
        /\ ((a - c >= 0 /\ b - d >= 0) \/ (a - c <= 0 /\ b - d <= 0))
    OBVIOUS
  <2> QED BY <2>1, <2>2
<1>2. Gap(p, k, X, Y, a, b) \in Int
  BY DEF Gap
<1>3. Gap(Times(c, d) + p, k + 1, c + X, d + Y, a, b) = Gap(p, k, X, Y, a, b) + more
  BY DEF Gap, Times
<1> HIDE DEF more
<1> QED BY <1>1, <1>2, <1>3

\* And a pair adds its own gap to the spread.
LEMMA SpreadGrows ==
  ASSUME NEW p \in Int, NEW k \in Int, NEW X \in Int, NEW Y \in Int,
         NEW c \in Int, NEW d \in Int,
         Gap(p, k, X, Y, c, d) >= 0, Spread(p, k, X, Y) >= 0
  PROVE  Spread(Times(c, d) + p, k + 1, c + X, d + Y) >= 0
<1>1. Gap(p, k, X, Y, c, d) \in Int /\ Spread(p, k, X, Y) \in Int
  BY DEF Gap, Spread
<1>2. Spread(Times(c, d) + p, k + 1, c + X, d + Y) = Spread(p, k, X, Y) + Gap(p, k, X, Y, c, d)
  BY DEF Gap, Spread, Times
<1> QED BY <1>1, <1>2

\* Of no values there is none.
LEMMA ZeroGaps ==
  /\ \A a, b \in Int : Gap(0, 0, 0, 0, a, b) >= 0
  /\ Spread(0, 0, 0, 0) >= 0
BY DEF Gap, Spread

\* Two sequences that rise together: the sum of their products is at least
\* what their averages give (Chebyshev).
LEMMA RisingTogether ==
  ASSUME NEW n \in Nat, NEW x \in [1..n -> Int], NEW y \in [1..n -> Int],
         \A i, j \in 1..n : i < j => x[i] <= x[j] /\ y[i] <= y[j]
  PROVE  /\ Total(x) \in Int /\ Total(y) \in Int
         /\ Total([d \in 1..n |-> x[d] * y[d]]) \in Int
         /\ n * Total([d \in 1..n |-> x[d] * y[d]]) - Total(x) * Total(y) >= 0
<1> DEFINE D == 1..n
           xy == [d \in D |-> Times(x[d], y[d])]
<1>1. IsFiniteSet(D) /\ Cardinality(D) = n
  BY FS_Interval
<1>2. x \in [D -> Int] /\ y \in [D -> Int] /\ xy \in [D -> Int]
  BY TimesType
<1>2a. /\ \A a \in D : x[a] \in Int /\ y[a] \in Int /\ xy[a] = Times(x[a], y[a])
      /\ \A a, b \in D : (x[a] >= x[b] /\ y[a] >= y[b]) \/ (x[a] <= x[b] /\ y[a] <= y[b])
  <2>1. \A a \in D : x[a] \in Int /\ y[a] \in Int /\ xy[a] = Times(x[a], y[a])
    OBVIOUS
  <2>2. \A a, b \in D : a < b \/ b < a \/ a = b
    OBVIOUS
  <2> HIDE DEF xy
  <2>3. \A a, b \in D : (x[a] >= x[b] /\ y[a] >= y[b]) \/ (x[a] <= x[b] /\ y[a] <= y[b])
    <3> TAKE a, b \in D
    <3>1. x[a] \in Int /\ y[a] \in Int /\ x[b] \in Int /\ y[b] \in Int
      BY <2>1
    <3> QED BY <2>2, <3>1
  <2> QED BY <2>1, <2>3
<1>2b. xy = [d \in 1..n |-> x[d] * y[d]]
  BY DEF Times
<1> HIDE DEF xy, D
<1>3. PICK X : AddsUp(X, x, D)
  BY <1>1, <1>2, TotalUnfolds
<1>4. PICK Y : AddsUp(Y, y, D)
  BY <1>1, <1>2, TotalUnfolds
<1>5. PICK P : AddsUp(P, xy, D)
  BY <1>1, <1>2, TotalUnfolds
<1> DEFINE Good(s) == /\ X[s] \in Int /\ Y[s] \in Int /\ P[s] \in Int
                      /\ \A a \in D : Gap(P[s], Cardinality(s), X[s], Y[s], x[a], y[a]) >= 0
                      /\ Spread(P[s], Cardinality(s), X[s], Y[s]) >= 0
           T == {m \in Nat : \A s \in SUBSET D : Cardinality(s) <= m => Good(s)}
<1>6. \A s \in SUBSET D : IsFiniteSet(s) /\ Cardinality(s) \in Nat
  BY <1>1, FS_Subset, FS_CardinalityType
<1>7. Good({})
  <2>1. Cardinality({}) = 0
    BY FS_EmptySet
  <2> QED BY <1>2a, <1>3, <1>4, <1>5, <2>1, ZeroGaps DEF AddsUp
<1>8. ASSUME NEW s \in SUBSET D, s # {}, Good(s \ {Chosen(s)})
      PROVE  Good(s)
  <2> DEFINE b == Chosen(s)
             r == s \ {b}
             k == Cardinality(r)
  <2>1. b \in s /\ b \in D
    BY <1>8 DEF Chosen
  <2>2. k \in Nat /\ Cardinality(s) = k + 1
    BY <1>6, <2>1, FS_RemoveElement
  <2>3. X[s] = x[b] + X[r] /\ Y[s] = y[b] + Y[r] /\ P[s] = Times(x[b], y[b]) + P[r]
    BY <1>2a, <1>3, <1>4, <1>5, <1>8, <2>1 DEF AddsUp
  <2>4. x[b] \in Int /\ y[b] \in Int /\ Times(x[b], y[b]) \in Int
    BY <1>2a, <2>1, TimesType
  <2>5. /\ X[r] \in Int /\ Y[r] \in Int /\ P[r] \in Int
        /\ Spread(P[r], k, X[r], Y[r]) >= 0
        /\ \A a \in D : Gap(P[r], k, X[r], Y[r], x[a], y[a]) >= 0
    BY <1>8
  <2> HIDE DEF b, r, k
  <2>6. X[s] \in Int /\ Y[s] \in Int /\ P[s] \in Int
    BY <2>3, <2>4, <2>5
  <2>7. ASSUME NEW a \in D PROVE Gap(P[s], k + 1, X[s], Y[s], x[a], y[a]) >= 0
    <3>1. Gap(Times(x[b], y[b]) + P[r], k + 1, x[b] + X[r], y[b] + Y[r], x[a], y[a]) >= 0
      <4>1. x[a] \in Int /\ y[a] \in Int /\ k \in Int
            /\ ((x[a] >= x[b] /\ y[a] >= y[b]) \/ (x[a] <= x[b] /\ y[a] <= y[b]))
        BY <1>2a, <2>1, <2>2
      <4> QED BY <2>4, <2>5, <4>1, GapGrows
    <3> QED BY <2>3, <3>1
  <2>8. Spread(P[s], k + 1, X[s], Y[s]) >= 0
    <3>1. Spread(Times(x[b], y[b]) + P[r], k + 1, x[b] + X[r], y[b] + Y[r]) >= 0
      <4>1. k \in Int /\ Gap(P[r], k, X[r], Y[r], x[b], y[b]) >= 0
        BY <2>1, <2>2, <2>5
      <4> QED BY <2>4, <2>5, <4>1, SpreadGrows
    <3> QED BY <2>3, <3>1
  <2> QED BY <2>2, <2>6, <2>7, <2>8
<1> HIDE DEF Good
<1>10. 0 \in T
  <2>1. \A s \in SUBSET D : Cardinality(s) <= 0 => s = {}
    BY <1>6, FS_EmptySet
  <2> QED BY <1>7, <2>1
<1>11. ASSUME NEW m \in Nat, m \in T PROVE m + 1 \in T
  <2>1. ASSUME NEW s \in SUBSET D, Cardinality(s) <= m + 1, s # {}
        PROVE  Good(s)
    <3>1. Chosen(s) \in s
      BY <2>1 DEF Chosen
    <3>2. /\ s \ {Chosen(s)} \in SUBSET D
          /\ Cardinality(s) \in Nat
          /\ Cardinality(s \ {Chosen(s)}) = Cardinality(s) - 1
      BY <1>6, <3>1, FS_RemoveElement
    <3>3. Cardinality(s \ {Chosen(s)}) <= m
      BY <2>1, <3>2
    <3> QED BY <1>8, <1>11, <2>1, <3>2, <3>3
  <2>2. \A s \in SUBSET D : Cardinality(s) <= m + 1 => Good(s)
    BY <1>7, <2>1
  <2> QED BY <2>2
<1>12. n \in T
  <2> HIDE DEF T
  <2> QED BY <1>10, <1>11, SetInduction
<1>13. Good(D)
  BY <1>1, <1>12
<1>14. X[D] \in Int /\ Y[D] \in Int /\ P[D] \in Int /\ Spread(P[D], n, X[D], Y[D]) >= 0
  BY <1>1, <1>13 DEF Good
<1>15. n * P[D] - X[D] * Y[D] >= 0
  BY <1>14 DEF Spread
<1> QED BY <1>3, <1>4, <1>5, <1>14, <1>15, <1>2b DEF AddsUp

\* The slope through counts that never fall is not negative.
LEMMA RisingSlope ==
  ASSUME NEW y \in Seq(Int), \A i, j \in 1..Len(y) : i < j => y[i] <= y[j]
  PROVE  ~(2 * Velocity(y).num < -Velocity(y).den)
<1> DEFINE n == Len(y)
           x == [d \in 1..n |-> d - 1]
           num == n * Total([d \in 1..n |-> x[d] * y[d]]) - Total(x) * Total(y)
           den == n * Total([d \in 1..n |-> x[d] * x[d]]) - Total(x) * Total(x)
<1>1. n \in Nat /\ x \in [1..n -> Int] /\ y \in [1..n -> Int]
  OBVIOUS
<1>2. \A i, j \in 1..n : i < j => x[i] <= x[j] /\ y[i] <= y[j]
  OBVIOUS
<1>3. Velocity(y) = IF n < 3 THEN [num |-> 0, den |-> 1] ELSE [num |-> num, den |-> den]
  BY DEF Velocity
<1>4. num >= 0 /\ num \in Int
  <2> HIDE DEF x, n
  <2>1. Total(x) \in Int /\ Total(y) \in Int /\ Total([d \in 1..n |-> x[d] * y[d]]) \in Int /\ num >= 0
    BY <1>1, <1>2, RisingTogether
  <2> QED BY <1>1, <2>1
<1>5. den >= 0 /\ den \in Int
  <2> HIDE DEF x, n
  <2>1. Total(x) \in Int /\ Total([d \in 1..n |-> x[d] * x[d]]) \in Int /\ den >= 0
    BY <1>1, <1>2, RisingTogether
  <2> QED BY <1>1, <2>1
<1> HIDE DEF num, den, n
<1> QED BY <1>3, <1>4, <1>5

-----------------------------------------------------------------------------
(* The days, and the cut at the newest events                              *)

\* Numbers in their order.
LEMMA SortedNumbers ==
  ASSUME NEW S \in SUBSET Int, IsFiniteSet(S)
  PROVE  /\ Cardinality(S) \in Nat
         /\ Sorted(S, <) \in [1..Cardinality(S) -> S]
         /\ \A i, j \in 1..Cardinality(S) : i < j => Sorted(S, <)[i] < Sorted(S, <)[j]
         /\ \A x \in S : \E i \in 1..Cardinality(S) : Sorted(S, <)[i] = x
<1> DEFINE n == Cardinality(S)
           R == {p \in S \X S : p[1] < p[2]}
           order == Sorted(S, <)
           Lower(x) == {y \in S : y < x}
<1>1. n \in Nat
  BY FS_CardinalityType
<1>2. \A x, y \in S : <<x, y>> \in R <=> x < y
  OBVIOUS
<1> HIDE DEF R
<1>3. StrictOrder(R, S)
  <2>1. \A x \in S : <<x, x>> \notin R
    BY <1>2
  <2>2. \A x, y, z \in S : <<x, y>> \in R /\ <<y, z>> \in R => <<x, z>> \in R
    BY <1>2
  <2>3. \A x, y \in S : x # y => <<x, y>> \in R \/ <<y, x>> \in R
    BY <1>2
  <2> QED BY <2>1, <2>2, <2>3 DEF StrictOrder
<1>4. \A x \in S : Lower(x) = Below(S, R, x)
  BY <1>2 DEF Below
<1>5. \A i \in 1..n : \E x \in S : Cardinality(Lower(x)) = i - 1
  <2> TAKE i \in 1..n
  <2>1. \E x \in S : Cardinality(Below(S, R, x)) = i - 1
    BY <1>1, <1>3, PlacesTaken
  <2> QED BY <1>4, <2>1
<1>6. order = [i \in 1..n |-> CHOOSE x \in S : Cardinality(Lower(x)) = i - 1]
  BY DEF Sorted
<1> HIDE DEF order, Lower
<1>7. \A i \in 1..n : order[i] \in S /\ Cardinality(Lower(order[i])) = i - 1
  BY <1>5, <1>6
<1>8. order \in [1..n -> S]
  BY <1>6, <1>7
<1>9. ASSUME NEW i \in 1..n, NEW j \in 1..n, i < j
      PROVE  order[i] < order[j]
  <2>1. order[i] # order[j]
    BY <1>1, <1>7, <1>9
  <2>2. ~(order[j] < order[i])
    <3> SUFFICES ASSUME order[j] < order[i] PROVE FALSE
      OBVIOUS
    <3>1. <<order[j], order[i]>> \in R
      BY <1>2, <1>7
    <3>2. Cardinality(Below(S, R, order[j])) < Cardinality(Below(S, R, order[i]))
      BY <1>3, <1>7, <3>1, RankRises
    <3>3. j - 1 < i - 1
      BY <1>4, <1>7, <3>2
    <3> QED BY <1>1, <1>9, <3>3
  <2>3. order[i] \in Int /\ order[j] \in Int
    BY <1>7
  <2> QED BY <2>1, <2>2, <2>3
<1>10. \A i, j \in 1..n : order[i] = order[j] => i = j
  <2> TAKE i, j \in 1..n
  <2>1. order[i] \in Int /\ order[j] \in Int
    BY <1>7
  <2>3. i < j \/ j < i \/ i = j
    BY <1>1
  <2>2. (i < j => order[i] < order[j]) /\ (j < i => order[j] < order[i])
    BY <1>9
  <2> QED BY <2>1, <2>2, <2>3
<1>11. order \in Injection(1..n, S)
  BY <1>8, <1>10, Fun_IsInj
<1>12. IsFiniteSet(1..n) /\ Cardinality(1..n) = n
  BY <1>1, FS_Interval
<1>13. order \in Surjection(1..n, S)
  BY <1>11, <1>12, FS_Injection
<1>14. \A x \in S : \E i \in 1..n : order[i] = x
  BY <1>13 DEF Surjection
<1> QED BY <1>1, <1>8, <1>9, <1>14 DEF order

\* The days of the events, and the events of a day.
Days(events) == {DayOf(events[i]) : i \in DOMAIN events}
OnDay(events, day) == {i \in DOMAIN events : DayOf(events[i]) = day}

\* The daily counts run over the days in their order.
LEMMA CountsOfDays ==
  ASSUME NEW events \in Seq(Event)
  PROVE  /\ DailyCounts(events) \in Seq(Int)
         /\ \E day : /\ day \in [DOMAIN DailyCounts(events) -> Days(events)]
                     /\ \A d, e \in DOMAIN DailyCounts(events) : d < e => day[d] < day[e]
                     /\ \A x \in Days(events) : \E d \in DOMAIN DailyCounts(events) : day[d] = x
                     /\ \A d \in DOMAIN DailyCounts(events) :
                          DailyCounts(events)[d] = Cardinality(OnDay(events, day[d]))
<1> DEFINE S == Days(events)
           n == Cardinality(S)
           day == Sorted(S, <)
           y == DailyCounts(events)
<1>1. /\ DOMAIN events = 1..Len(events) /\ Len(events) \in Nat
      /\ IsFiniteSet(DOMAIN events) /\ \A i \in DOMAIN events : events[i].timestamp \in Nat
  BY EventTimes
<1>2. \A i \in DOMAIN events : DayOf(events[i]) \in Int
  BY <1>1, QueriesAssumption DEF DayOf
<1>3. S \in SUBSET Int
  BY <1>2 DEF Days
<1>4. IsFiniteSet(S)
  <2> DEFINE f == [i \in DOMAIN events |-> DayOf(events[i])]
  <2>1. f \in Surjection(DOMAIN events, S)
    <3>1. f \in [DOMAIN events -> S]
      BY DEF Days
    <3>2. \A x \in S : \E i \in DOMAIN events : f[i] = x
      BY DEF Days
    <3> HIDE DEF f, S
    <3> QED BY <3>1, <3>2, Fun_IsSurj
  <2> HIDE DEF f, S
  <2> QED BY <1>1, <2>1, FS_Surjection
<1>5. y = [d \in 1..n |-> Cardinality(OnDay(events, day[d]))]
  BY DEF DailyCounts, OnDay, Days
<1> HIDE DEF y, day, S
<1>6. n \in Nat /\ day \in [1..n -> S]
      /\ (\A i, j \in 1..n : i < j => day[i] < day[j])
      /\ \A x \in S : \E i \in 1..n : day[i] = x
  BY <1>3, <1>4, SortedNumbers DEF day
<1>7. \A x : Cardinality(OnDay(events, x)) \in Nat
  <2> TAKE x
  <2>1. OnDay(events, x) \in SUBSET DOMAIN events
    BY DEF OnDay
  <2> QED BY <1>1, <2>1, FS_Subset, FS_CardinalityType
<1>8. DOMAIN y = 1..n /\ y \in Seq(Int)
  BY <1>5, <1>6, <1>7
<1>9. \A d \in 1..n : y[d] = Cardinality(OnDay(events, day[d]))
  BY <1>5
<1> QED BY <1>6, <1>8, <1>9 DEF y, S

\* A later count is below an earlier one.
Fall(y) == \E d, e \in DOMAIN y : d < e /\ y[e] < y[d]

\* The counts fall where a day has fewer events than an earlier one.
LEMMA FallOfDays ==
  ASSUME NEW events \in Seq(Event)
  PROVE  Fall(DailyCounts(events)) <=>
           \E a, b \in Days(events) :
             a < b /\ Cardinality(OnDay(events, b)) < Cardinality(OnDay(events, a))
<1> DEFINE y == DailyCounts(events)
           S == Days(events)
           Count(x) == Cardinality(OnDay(events, x))
<1>1. PICK day : /\ day \in [DOMAIN y -> S]
                 /\ \A d, e \in DOMAIN y : d < e => day[d] < day[e]
                 /\ \A x \in S : \E d \in DOMAIN y : day[d] = x
                 /\ \A d \in DOMAIN y : y[d] = Count(day[d])
  BY CountsOfDays
<1>2. DOMAIN y \subseteq Int
  <2>1. y \in Seq(Int)
    BY CountsOfDays
  <2> HIDE DEF y
  <2> QED BY <2>1
<1>3. S \subseteq Int
  <2>1. \A i \in DOMAIN events : DayOf(events[i]) \in Int
    BY EventTimes, QueriesAssumption DEF DayOf
  <2> QED BY <2>1 DEF Days
<1> HIDE DEF y, S, Count
<1>4. ASSUME Fall(y) PROVE \E a, b \in S : a < b /\ Count(b) < Count(a)
  <2>1. PICK d \in DOMAIN y, e \in DOMAIN y : d < e /\ y[e] < y[d]
    BY <1>4 DEF Fall
  <2> QED BY <1>1, <2>1
<1>5. ASSUME NEW a \in S, NEW b \in S, a < b, Count(b) < Count(a) PROVE Fall(y)
  <2>1. PICK d \in DOMAIN y : day[d] = a
    BY <1>1
  <2>2. PICK e \in DOMAIN y : day[e] = b
    BY <1>1
  <2>3. d < e
    <3>1. ~(e < d) /\ e # d
      BY <1>1, <1>3, <1>5, <2>1, <2>2
    <3> QED BY <1>2, <3>1
  <2>4. y[e] < y[d]
    BY <1>1, <1>5, <2>1, <2>2
  <2> QED BY <2>3, <2>4 DEF Fall
<1> QED BY <1>4, <1>5 DEF y, S, Count

\* The order in which the store is read.
NewestFirst(events) ==
  \A i, j \in DOMAIN events : i < j => events[i].timestamp >= events[j].timestamp

\* What the cut at the newest events takes away cannot make the counts fall:
\* it takes only from the oldest day left.
LEMMA CutAddsNoFall ==
  ASSUME NEW events \in Seq(Event), NewestFirst(events), NEW k \in 0..Len(events),
         Fall(DailyCounts(SubSeq(events, 1, k)))
  PROVE  Fall(DailyCounts(events))
<1> DEFINE members == SubSeq(events, 1, k)
<1>1. /\ DOMAIN events = 1..Len(events) /\ Len(events) \in Nat
      /\ IsFiniteSet(DOMAIN events) /\ \A i \in DOMAIN events : events[i].timestamp \in Nat
  BY EventTimes
<1>2. k \in Nat /\ k <= Len(events)
  BY <1>1
<1>3. /\ members \in Seq(Event) /\ DOMAIN members = 1..k
      /\ \A i \in 1..k : members[i] = events[i] /\ i \in DOMAIN events
  <2>1. 1 \in Int /\ k \in Int /\ \A i \in 1..k : events[i] \in Event
    BY <1>1, <1>2
  <2>2. /\ members \in Seq(Event)
        /\ Len(members) = IF 1 <= k THEN k - 1 + 1 ELSE 0
        /\ \A i \in 1..(k - 1 + 1) : members[i] = events[1 + i - 1]
    BY <2>1, SubSeqProperties
  <2> HIDE DEF members
  <2>3. Len(members) = k /\ DOMAIN members = 1..k
    BY <1>2, <2>2
  <2>4. \A i \in 1..k : members[i] = events[i]
    BY <1>2, <2>2
  <2> QED BY <1>1, <1>2, <2>2, <2>3, <2>4
<1> HIDE DEF members
<1>4. PICK a \in Days(members), b \in Days(members) :
        a < b /\ Cardinality(OnDay(members, b)) < Cardinality(OnDay(members, a))
  BY <1>3, FallOfDays DEF members
<1>5. a \in Days(events) /\ b \in Days(events)
  BY <1>3 DEF Days
<1>6. OnDay(members, a) \subseteq OnDay(events, a)
  BY <1>3 DEF OnDay
<1>7. PICK j \in 1..k : DayOf(events[j]) = a
  BY <1>3 DEF Days
<1>8. ASSUME NEW i \in OnDay(events, b) PROVE i \in OnDay(members, b)
  <2>1. i \in DOMAIN events /\ DayOf(events[i]) = b /\ i \in Nat
    BY <1>1 DEF OnDay
  <2>2. i <= k
    <3> SUFFICES ASSUME ~(i <= k) PROVE FALSE
      OBVIOUS
    <3>1. j < i /\ j \in DOMAIN events
      BY <1>2, <1>3, <2>1
    <3>2. events[j].timestamp >= events[i].timestamp
      BY <2>1, <3>1 DEF NewestFirst
    <3>3. DayOf(events[j]) >= DayOf(events[i])
      <4> DEFINE s == events[j].timestamp
                 t == events[i].timestamp
      <4>1. s \in Nat /\ t \in Nat /\ s >= t /\ DayLen \in Nat \ {0}
        BY <1>1, <2>1, <3>1, <3>2, QueriesAssumption
      <4> HIDE DEF s, t
      <4>2. s \div DayLen >= t \div DayLen
        BY <4>1
      <4> QED BY <4>2 DEF DayOf, s, t
    <3>4. DayOf(events[j]) \in Int /\ DayOf(events[i]) \in Int
      BY <1>1, <2>1, <3>1, QueriesAssumption DEF DayOf
    <3> QED BY <1>4, <1>7, <2>1, <3>3, <3>4
  <2> QED BY <1>1, <1>3, <2>1, <2>2 DEF OnDay
<1>9. \A x : /\ IsFiniteSet(OnDay(events, x)) /\ Cardinality(OnDay(events, x)) \in Nat
             /\ IsFiniteSet(OnDay(members, x)) /\ Cardinality(OnDay(members, x)) \in Nat
  <2> TAKE x
  <2>1. OnDay(events, x) \in SUBSET DOMAIN events /\ OnDay(members, x) \in SUBSET DOMAIN events
    BY <1>3 DEF OnDay
  <2> QED BY <1>1, <2>1, FS_Subset, FS_CardinalityType
<1>10. Cardinality(OnDay(members, a)) <= Cardinality(OnDay(events, a))
  BY <1>6, <1>9, FS_Subset
<1>11. Cardinality(OnDay(events, b)) <= Cardinality(OnDay(members, b))
  <2>1. OnDay(events, b) \subseteq OnDay(members, b)
    BY <1>8
  <2> QED BY <1>9, <2>1, FS_Subset
<1>12. Cardinality(OnDay(events, b)) < Cardinality(OnDay(events, a))
  BY <1>4, <1>9, <1>10, <1>11
<1> QED BY <1>4, <1>5, <1>12, FallOfDays

-----------------------------------------------------------------------------
(* The clusters                                                            *)

\* The last place of a set of places.
Newest(s) == CHOOSE x \in s : \A y \in s : x >= y

\* A set of numbers from 1..n has a largest.
LEMMA HasNewest ==
  ASSUME NEW n \in Nat
  PROVE  \A s \in SUBSET (1..n) : s # {} => Newest(s) \in s /\ \A y \in s : Newest(s) >= y
<1> DEFINE Top(s) == \E x \in s : \A y \in s : x >= y
           T == {m \in Nat : \A s \in SUBSET (1..m) : s # {} => Top(s)}
<1>1. 0 \in T
  <2>1. 1..0 = {}
    OBVIOUS
  <2>2. \A s \in SUBSET (1..0) : s = {}
    BY <2>1
  <2> QED BY <2>2
<1>2. ASSUME NEW m \in Nat, m \in T PROVE m + 1 \in T
  <2>1. ASSUME NEW s \in SUBSET (1..(m + 1)), s # {} PROVE Top(s)
    <3>1. CASE m + 1 \in s
      <4>1. \A y \in s : m + 1 >= y
        OBVIOUS
      <4> QED BY <3>1, <4>1
    <3>2. CASE m + 1 \notin s
      <4>1. s \in SUBSET (1..m)
        BY <3>2
      <4> HIDE DEF Has
      <4> QED BY <1>2, <2>1, <4>1
    <3> QED BY <3>1, <3>2
  <2> HIDE DEF Has
  <2>2. \A s \in SUBSET (1..(m + 1)) : s # {} => Top(s)
    BY <2>1
  <2> QED BY <2>2
<1>3. n \in T
  <2> HIDE DEF T
  <2> QED BY <1>1, <1>2, SetInduction
<1>4. \A s \in SUBSET (1..n) : s # {} => Top(s)
  <2> HIDE DEF Has
  <2> QED BY <1>3
<1> QED BY <1>4 DEF Newest

\* What has been founded when the events up to some place have been placed.
Founds(g, events) ==
  /\ FoldLeft(PlaceEvent, <<>>, events) = g[1..Len(events)]
  /\ g[{}] = <<>>
  /\ \A m \in 1..Len(events) : g[1..m] = PlaceEvent(g[1..(m - 1)], events[m])

\* The fold that places the events is such a function.
LEMMA FoldUnfolds ==
  ASSUME NEW events \in Seq(Event)
  PROVE  \E g : Founds(g, events)
<1> DEFINE n == Len(events)
           D == DOMAIN events
           Small(m) == {s \in SUBSET D : Cardinality(s) <= m}
           Places(g, M) == g = [s \in M |-> IF s = {} THEN <<>>
                                            ELSE PlaceEvent(g[s \ {Newest(s)}], events[Newest(s)])]
           T == {m \in Nat : \E g : Places(g, Small(m))}
<1>0. n \in Nat /\ D = 1..n /\ IsFiniteSet(D)
  BY EventTimes
<1>1. \A s \in SUBSET D : IsFiniteSet(s) /\ Cardinality(s) \in Nat
  BY <1>0, FS_Subset, FS_CardinalityType
<1>2. ASSUME NEW s \in SUBSET D, s # {}
      PROVE  /\ s \ {Newest(s)} \in SUBSET D
             /\ Cardinality(s \ {Newest(s)}) = Cardinality(s) - 1
  <2>1. Newest(s) \in s
    BY <1>0, <1>2, HasNewest
  <2> QED BY <1>1, <2>1, FS_RemoveElement
<1>3. 0 \in T
  <2> DEFINE g == [s \in Small(0) |-> <<>>]
  <2>1. \A s \in Small(0) : s = {}
    BY <1>1, FS_EmptySet
  <2>2. Places(g, Small(0))
    BY <2>1
  <2> HIDE DEF Places, g
  <2> QED BY <2>2
<1>4. ASSUME NEW m \in Nat, m \in T PROVE m + 1 \in T
  <2>1. PICK g : Places(g, Small(m))
    BY <1>4
  <2> DEFINE h == [s \in Small(m + 1) |-> IF s = {} THEN <<>>
                                          ELSE PlaceEvent(g[s \ {Newest(s)}], events[Newest(s)])]
  <2>2. Small(m) \subseteq Small(m + 1)
    BY <1>1
  <2>3. \A s \in Small(m) : h[s] = g[s]
    BY <2>1, <2>2
  <2>4. \A s \in Small(m + 1) : s # {} => h[s \ {Newest(s)}] = g[s \ {Newest(s)}]
    <3>1. \A s \in Small(m + 1) : s # {} => s \ {Newest(s)} \in Small(m)
      <4> SUFFICES ASSUME NEW s \in Small(m + 1), s # {} PROVE s \ {Newest(s)} \in Small(m)
        OBVIOUS
      <4>1. s \in SUBSET D /\ Cardinality(s) \in Nat /\ Cardinality(s) <= m + 1
        BY <1>1
      <4> HIDE DEF D
      <4>2. s \ {Newest(s)} \in SUBSET D /\ Cardinality(s \ {Newest(s)}) = Cardinality(s) - 1
        BY <1>2, <4>1
      <4> QED BY <4>1, <4>2
    <3> HIDE DEF h, Small
    <3> QED BY <2>3, <3>1
  <2>5. Places(h, Small(m + 1))
    <3> HIDE DEF Small
    <3> QED BY <2>4
  <2> HIDE DEF h, Places, Small
  <2>6. \E k : Places(k, Small(m + 1))
    BY <2>5
  <2> QED BY <2>6
<1>5. Cardinality(D) \in Nat /\ Small(Cardinality(D)) = SUBSET D
  <2>1. \A s \in SUBSET D : Cardinality(s) <= Cardinality(D)
    BY <1>0, FS_Subset
  <2> QED BY <1>0, <1>1, <2>1, FS_CardinalityType
<1>6. Cardinality(D) \in T
  <2> HIDE DEF T
  <2> QED BY <1>3, <1>4, <1>5, SetInduction
<1>7. \E g : Places(g, SUBSET D)
  <2> HIDE DEF Small, Places
  <2> QED BY <1>5, <1>6
<1> DEFINE g == CHOOSE g : Places(g, SUBSET D)
<1>8. Places(g, SUBSET D)
  <2> HIDE DEF Places
  <2> QED BY <1>7
<1>9. FoldLeft(PlaceEvent, <<>>, events) = g[D]
  BY DEF FoldLeft, MapThenFoldSet, Max, Newest
<1>10. g[{}] = <<>>
  <2> HIDE DEF g, D
  <2> QED BY <1>8
<1>11. ASSUME NEW m \in 1..n
       PROVE  g[1..m] = PlaceEvent(g[1..(m - 1)], events[m])
  <2>1. (1..m) \in SUBSET D /\ (1..m) # {}
    BY <1>0
  <2>2. Newest(1..m) = m
    <3>1. Newest(1..m) \in 1..m /\ \A y \in 1..m : Newest(1..m) >= y
      BY <1>0, <2>1, HasNewest
    <3> QED BY <3>1
  <2>3. (1..m) \ {m} = 1..(m - 1)
    BY <1>0
  <2>4. g[1..m] = PlaceEvent(g[(1..m) \ {Newest(1..m)}], events[Newest(1..m)])
    <3> HIDE DEF g, D
    <3> QED BY <1>8, <2>1
  <2> QED BY <2>2, <2>3, <2>4
<1> HIDE DEF g
<1>12. Founds(g, events)
  BY <1>0, <1>9, <1>10, <1>11 DEF Founds
<1> QED BY <1>12

-----------------------------------------------------------------------------
\* The clusters that are founded.
Cluster == [tokens : SUBSET STRING, events : Seq(Event)]

\* A cluster holds its events newest first, and none older than those to come.
Ordered(clusters, events, m) ==
  \A c \in DOMAIN clusters :
    /\ NewestFirst(clusters[c].events)
    /\ \A i \in DOMAIN clusters[c].events : \A j \in (m + 1)..Len(events) :
         clusters[c].events[i].timestamp >= events[j].timestamp

\* An event that is not newer than those of a cluster goes to its end.
LEMMA AppendOlder ==
  ASSUME NEW list \in Seq(Event), NewestFirst(list), NEW e \in Event,
         \A i \in DOMAIN list : list[i].timestamp >= e.timestamp
  PROVE  /\ Append(list, e) \in Seq(Event) /\ NewestFirst(Append(list, e))
         /\ \A i \in DOMAIN Append(list, e) : (i \in DOMAIN list /\ Append(list, e)[i] = list[i])
                                              \/ Append(list, e)[i] = e
<1> DEFINE longer == Append(list, e)
<1>1. /\ longer \in Seq(Event) /\ Len(list) \in Nat
      /\ DOMAIN list = 1..Len(list) /\ DOMAIN longer = 1..(Len(list) + 1)
      /\ \A i \in 1..Len(list) : longer[i] = list[i]
      /\ longer[Len(list) + 1] = e
  OBVIOUS
<1> HIDE DEF longer
<1>2. \A i \in DOMAIN longer : (i \in DOMAIN list /\ longer[i] = list[i])
                               \/ (i = Len(list) + 1 /\ longer[i] = e)
  BY <1>1
<1>3. e.timestamp >= e.timestamp
  BY DEF Event
<1>4. NewestFirst(longer)
  <2> SUFFICES ASSUME NEW i \in DOMAIN longer, NEW j \in DOMAIN longer, i < j
               PROVE  longer[i].timestamp >= longer[j].timestamp
    BY DEF NewestFirst
  <2>1. i \in DOMAIN list /\ longer[i] = list[i]
    BY <1>1
  <2>2. CASE j \in DOMAIN list
    BY <1>1, <2>1, <2>2 DEF NewestFirst
  <2>3. CASE j = Len(list) + 1
    BY <1>1, <2>1, <2>3
  <2> QED BY <1>2, <2>2, <2>3
<1> QED BY <1>1, <1>2, <1>4 DEF longer

\* Placing an event, in a cluster that fits or one of its own, keeps the order.
LEMMA PlaceKeepsOrder ==
  ASSUME NEW events \in Seq(Event), NewestFirst(events), NEW m \in 1..Len(events),
         NEW clusters \in Seq(Cluster), Ordered(clusters, events, m - 1)
  PROVE  /\ PlaceEvent(clusters, events[m]) \in Seq(Cluster)
         /\ Ordered(PlaceEvent(clusters, events[m]), events, m)
<1> DEFINE e == events[m]
           words == WordsOf[e.thread]
           best == BestCluster(clusters, words)
           more == [tokens |-> clusters[best].tokens \cup words,
                    events |-> Append(clusters[best].events, e)]
           joined == [clusters EXCEPT ![best] = more]
           new == [tokens |-> words, events |-> <<e>>]
           founded == Append(clusters, new)
<1>1. e \in Event /\ m \in Nat /\ m - 1 + 1 = m /\ Len(events) \in Nat
      /\ DOMAIN events = 1..Len(events)
  OBVIOUS
<1>2. \A j \in (m + 1)..Len(events) : e.timestamp >= events[j].timestamp
  BY <1>1 DEF NewestFirst
<1>3. PlaceEvent(clusters, e) \in {joined, founded}
  BY DEF PlaceEvent
<1>4. \A c \in DOMAIN clusters : \A i \in DOMAIN clusters[c].events :
        clusters[c].events[i].timestamp >= e.timestamp
  BY <1>1 DEF Ordered
<1> HIDE DEF e
<1>7. /\ DOMAIN clusters = 1..Len(clusters) /\ Len(clusters) \in Nat
      /\ \A c \in DOMAIN clusters : clusters[c].events \in Seq(Event) /\ clusters[c].tokens \in SUBSET STRING
  <2>1. \A c \in DOMAIN clusters : clusters[c] \in Cluster
    OBVIOUS
  <2> QED BY <2>1 DEF Cluster
<1>8. words \in SUBSET STRING
  BY <1>1, QueriesAssumption DEF Event
<1>9. new \in Cluster
  <2>1. <<e>> \in Seq(Event)
    BY <1>1
  <2> HIDE DEF words
  <2> QED BY <1>8, <2>1 DEF Cluster
<1>10. founded \in Seq(Cluster)
  <2> HIDE DEF new
  <2> QED BY <1>9
<1>11. joined \in Seq(Cluster)
  <2> HIDE DEF words, best
  <2>1. CASE best \in DOMAIN clusters
    <3>1. more \in Cluster
      <4>1. Append(clusters[best].events, e) \in Seq(Event)
        BY <1>1, <1>7, <2>1
      <4> QED BY <1>7, <1>8, <2>1, <4>1 DEF Cluster
    <3> HIDE DEF more
    <3> QED BY <2>1, <3>1
  <2>2. CASE best \notin DOMAIN clusters
    <3>1. joined = clusters
      BY <2>2
    <3> QED BY <3>1
  <2> QED BY <2>1, <2>2
<1>5. Ordered(joined, events, m)
  <2> SUFFICES ASSUME NEW c \in DOMAIN joined
               PROVE  /\ NewestFirst(joined[c].events)
                      /\ \A i \in DOMAIN joined[c].events : \A j \in (m + 1)..Len(events) :
                           joined[c].events[i].timestamp >= events[j].timestamp
    BY DEF Ordered
  <2> HIDE DEF best, words
  <2>1. c \in DOMAIN clusters
    OBVIOUS
  <2>2. CASE c = best
    <3> DEFINE list == clusters[c].events
    <3>1. joined[c].events = Append(list, e)
      BY <2>1, <2>2
    <3>2. /\ list \in Seq(Event) /\ NewestFirst(list)
          /\ \A i \in DOMAIN list : list[i].timestamp >= e.timestamp
          /\ \A i \in DOMAIN list : \A j \in (m + 1)..Len(events) : list[i].timestamp >= events[j].timestamp
      BY <1>1, <1>4, <1>7, <2>1 DEF Ordered
    <3> HIDE DEF list, joined
    <3>3. /\ Append(list, e) \in Seq(Event) /\ NewestFirst(Append(list, e))
          /\ \A i \in DOMAIN Append(list, e) : (i \in DOMAIN list /\ Append(list, e)[i] = list[i])
                                               \/ Append(list, e)[i] = e
      BY <1>1, <3>2, AppendOlder
    <3> QED BY <1>2, <3>1, <3>2, <3>3
  <2>3. CASE c # best
    <3>1. joined[c] = clusters[c]
      BY <2>1, <2>3
    <3> QED BY <1>1, <2>1, <3>1 DEF Ordered
  <2> QED BY <2>2, <2>3
<1>6. Ordered(founded, events, m)
  <2> SUFFICES ASSUME NEW c \in DOMAIN founded
               PROVE  /\ NewestFirst(founded[c].events)
                      /\ \A i \in DOMAIN founded[c].events : \A j \in (m + 1)..Len(events) :
                           founded[c].events[i].timestamp >= events[j].timestamp
    BY DEF Ordered
  <2> HIDE DEF words
  <2>1. CASE c \in DOMAIN clusters
    <3>1. founded[c] = clusters[c]
      BY <2>1
    <3> QED BY <1>1, <2>1, <3>1 DEF Ordered
  <2>2. CASE c \notin DOMAIN clusters
    <3>1. founded[c] = new
      BY <2>2
    <3>2. founded[c].events = <<e>>
      BY <3>1
    <3> DEFINE one == <<e>>
    <3>3. one \in Seq(Event) /\ \A i \in DOMAIN one : i = 1 /\ one[i] = e
      BY <1>1
    <3> HIDE DEF one
    <3>4. NewestFirst(one)
      BY <3>3 DEF NewestFirst
    <3> QED BY <1>2, <3>2, <3>3, <3>4 DEF one
  <2> QED BY <2>1, <2>2
<1> QED BY <1>3, <1>5, <1>6, <1>10, <1>11 DEF e

\* What is founded from events that are newest first.
LEMMA FoundedOrdered ==
  ASSUME NEW events \in Seq(Event), NewestFirst(events)
  PROVE  /\ FoldLeft(PlaceEvent, <<>>, events) \in Seq(Cluster)
         /\ Ordered(FoldLeft(PlaceEvent, <<>>, events), events, Len(events))
<1> DEFINE n == Len(events)
<1>1. PICK g : Founds(g, events)
  BY FoldUnfolds
<1> DEFINE T == {m \in Nat : m <= n => g[1..m] \in Seq(Cluster) /\ Ordered(g[1..m], events, m)}
<1>2. n \in Nat
  OBVIOUS
<1>3. 0 \in T
  <2>1. g[1..0] = <<>>
    <3>1. 1..0 = {}
      OBVIOUS
    <3> QED BY <1>1, <3>1 DEF Founds
  <2>2. <<>> \in Seq(Cluster) /\ Ordered(<<>>, events, 0)
    BY DEF Ordered
  <2> QED BY <2>1, <2>2
<1>4. ASSUME NEW m \in Nat, m \in T PROVE m + 1 \in T
  <2>1. ASSUME m + 1 <= n
        PROVE  g[1..(m + 1)] \in Seq(Cluster) /\ Ordered(g[1..(m + 1)], events, m + 1)
    <3>1. m + 1 \in 1..Len(events) /\ m + 1 - 1 = m /\ m <= n
      BY <1>2, <2>1
    <3>2. g[1..m] \in Seq(Cluster) /\ Ordered(g[1..m], events, m)
      BY <1>4, <3>1
    <3>3. g[1..(m + 1)] = PlaceEvent(g[1..m], events[m + 1])
      BY <1>1, <3>1 DEF Founds
    <3> QED BY <3>1, <3>2, <3>3, PlaceKeepsOrder
  <2> QED BY <2>1
<1>5. n \in T
  <2> HIDE DEF T
  <2> QED BY <1>2, <1>3, <1>4, SetInduction
<1> QED BY <1>1, <1>2, <1>5 DEF Founds

\* The events of a cluster, and its members, the newest of them.
LEMMA ClusterFits ==
  ASSUME NEW events \in Seq(Event), NewestFirst(events),
         NEW id \in DOMAIN ClusterEvents(events)
  PROVE  LET c == ClusterEvents(events)[id]
         IN  /\ c.events \in Seq(Event) /\ NewestFirst(c.events)
             /\ \E k \in 0..Len(c.events) :
                  c.members = SubSeq(c.events, 1, k) /\ k <= MaxMembers
<1> DEFINE founded == FoldLeft(PlaceEvent, <<>>, events)
           D == DOMAIN founded
           size(i) == Len(founded[i].events)
           Before(i, j) == \/ Len(founded[i].events) > Len(founded[j].events)
                           \/ Len(founded[i].events) = Len(founded[j].events) /\ i < j
           order == Sorted(DOMAIN founded, Before)
           R == {p \in D \X D : Before(p[1], p[2])}
           Larger(x) == {y \in D : Before(y, x)}
           all == founded[order[id]].events
<1>1. founded \in Seq(Cluster) /\ Ordered(founded, events, Len(events))
  BY FoundedOrdered
<1> HIDE DEF founded
<1>2. /\ D = 1..Len(founded) /\ Len(founded) \in Nat
      /\ \A i \in D : founded[i].events \in Seq(Event) /\ NewestFirst(founded[i].events)
  <2>1. \A i \in D : founded[i] \in Cluster
    BY <1>1
  <2> QED BY <1>1, <2>1 DEF Cluster, Ordered
<1>3. IsFiniteSet(D) /\ Cardinality(D) = Len(founded)
  <2>1. IsFiniteSet(1..Len(founded)) /\ Cardinality(1..Len(founded)) = Len(founded)
    <3> DEFINE n == Len(founded)
    <3>1. 1 \in Int /\ n \in Nat
      BY <1>2
    <3> HIDE DEF n
    <3>2. IsFiniteSet(1..n) /\ Cardinality(1..n) = n
      BY <3>1, FS_Interval
    <3> QED BY <3>2 DEF n
  <2> QED BY <1>2, <2>1
<1>4. \A i, j \in D : <<i, j>> \in R <=> \/ size(i) > size(j)
                                         \/ size(i) = size(j) /\ i < j
  OBVIOUS
<1>5. \A i \in D : size(i) \in Nat /\ i \in Nat
  BY <1>2
<1>6. \A x \in D : Larger(x) = Below(D, R, x)
  BY DEF Below
<1> HIDE DEF R, size
<1>7. StrictOrder(R, D)
  <2> HIDE DEF D
  <2>1. \A x \in D : <<x, x>> \notin R
    BY <1>4, <1>5
  <2>2. \A x, y, z \in D : <<x, y>> \in R /\ <<y, z>> \in R => <<x, z>> \in R
    BY <1>4, <1>5
  <2>3. \A x, y \in D : x # y => <<x, y>> \in R \/ <<y, x>> \in R
    BY <1>4, <1>5
  <2> QED BY <2>1, <2>2, <2>3 DEF StrictOrder
<1>8. \A i \in D : \E x \in D : Cardinality(Larger(x)) = i - 1
  <2> HIDE DEF Larger
  <2> TAKE i \in D
  <2>1. \E x \in D : Cardinality(Below(D, R, x)) = i - 1
    BY <1>2, <1>3, <1>7, PlacesTaken
  <2> QED BY <1>6, <2>1
<1>9. order = [i \in 1..Cardinality(D) |-> CHOOSE x \in D : Cardinality(Larger(x)) = i - 1]
  BY DEF Sorted
<1>10. \A i \in D : order[i] \in D
  <2> HIDE DEF order, Larger
  <2> QED BY <1>2, <1>3, <1>8, <1>9
<1>11. /\ DOMAIN ClusterEvents(events) = D
       /\ ClusterEvents(events)[id].events = all
       /\ ClusterEvents(events)[id].members
            = SubSeq(all, 1, IF Len(all) < MaxMembers THEN Len(all) ELSE MaxMembers)
  BY DEF ClusterEvents, founded
<1> HIDE DEF order
<1>12. all \in Seq(Event) /\ NewestFirst(all)
  BY <1>2, <1>10, <1>11
<1> HIDE DEF all
<1>13. /\ (IF Len(all) < MaxMembers THEN Len(all) ELSE MaxMembers) \in 0..Len(all)
       /\ (IF Len(all) < MaxMembers THEN Len(all) ELSE MaxMembers) <= MaxMembers
  BY <1>12, QueriesAssumption
<1> QED BY <1>11, <1>12, <1>13

-----------------------------------------------------------------------------
(* A decline is real                                                       *)

\* A decline is reported of counts that fall.
LEMMA DeclineFalls ==
  ASSUME NEW c, c.members \in Seq(Event), Trend(c) = "declining"
  PROVE  Fall(DailyCounts(c.members))
<1> DEFINE y == DailyCounts(c.members)
<1>1. y \in Seq(Int)
  BY CountsOfDays
<1>2. 2 * Velocity(y).num < -Velocity(y).den
  <2> DEFINE v == Velocity(y)
  <2>1. Trend(c) = CASE 2 * v.num > v.den -> "accelerating"
                     [] 2 * v.num < -v.den -> "declining"
                     [] OTHER -> "stable"
    BY DEF Trend
  <2> HIDE DEF v, y
  <2>2. "declining" # "accelerating" /\ "declining" # "stable"
    OBVIOUS
  <2> QED BY <2>1, <2>2 DEF v
<1> HIDE DEF y
<1>3. \E i, j \in 1..Len(y) : i < j /\ ~(y[i] <= y[j])
  BY <1>1, <1>2, RisingSlope
<1> QED BY <1>1, <1>3 DEF Fall, y

\* The invariant behind DeclineIsReal: the store is read newest first.
DeclineInv == store \in Seq(Event) /\ NewestFirst(store) /\ DeclineIsReal

\* Checkpoints are stored in the order of time.
LEMMA StoreOrdered ==
  ASSUME store \in Seq(Event), NewestFirst(store), QueriesNext
  PROVE  NewestFirst(store')
<1>1. ASSUME NEW thread \in Threads, NEW t \in 0..MaxTime, StoreCheckpoint(thread, t)
      PROVE  NewestFirst(store')
  <2> DEFINE e == [thread |-> thread, timestamp |-> t]
             longer == <<e>> \o store
  <2>1. t \in Nat /\ e.timestamp = t
    BY QueriesAssumption
  <2>2. /\ DOMAIN store = 1..Len(store) /\ Len(store) \in Nat
        /\ \A i \in DOMAIN store : store[i].timestamp \in Nat
    BY EventTimes
  <2>3. /\ DOMAIN longer = 1..(Len(store) + 1) /\ longer[1] = e
        /\ \A i \in 2..(Len(store) + 1) : longer[i] = store[i - 1]
    BY <2>2
  <2>4. \A i \in DOMAIN store : t >= store[i].timestamp
    <3> SUFFICES ASSUME NEW i \in DOMAIN store PROVE t >= store[i].timestamp
      OBVIOUS
    <3>1. store # <<>> /\ 1 \in DOMAIN store /\ Head(store) = store[1]
      BY <2>2
    <3>2. store[1].timestamp <= t
      BY <1>1, <3>1 DEF StoreCheckpoint
    <3>3. i = 1 \/ 1 < i
      BY <2>2
    <3>4. store[1].timestamp >= store[i].timestamp
      BY <2>2, <3>1, <3>3 DEF NewestFirst
    <3> QED BY <2>1, <2>2, <3>1, <3>2, <3>4
  <2>5. NewestFirst(longer)
    <3> HIDE DEF longer, e
    <3> SUFFICES ASSUME NEW i \in DOMAIN longer, NEW j \in DOMAIN longer, i < j
                 PROVE  longer[i].timestamp >= longer[j].timestamp
      BY DEF NewestFirst
    <3>1. j \in 2..(Len(store) + 1) /\ j - 1 \in DOMAIN store /\ longer[j] = store[j - 1]
      BY <2>2, <2>3
    <3>2. CASE i = 1
      BY <2>1, <2>3, <2>4, <3>1, <3>2
    <3>3. CASE i # 1
      <4>1. i - 1 \in DOMAIN store /\ longer[i] = store[i - 1] /\ i - 1 < j - 1
        BY <2>2, <2>3, <3>3
      <4> QED BY <3>1, <4>1 DEF NewestFirst
    <3> QED BY <3>2, <3>3
  <2> QED BY <1>1, <2>5 DEF StoreCheckpoint
<1>2. CASE GetPatterns \/ GetPredictions \/ \E words \in SUBSET Words, k \in TopK : SuggestRunbook(words, k)
  BY <1>2 DEF GetPatterns, GetPredictions, SuggestRunbook, NewestFirst
<1> QED BY <1>1, <1>2 DEF QueriesNext

\* The one query that answers with trends.
LEMMA PatternsDecline == store \in Seq(Event) /\ NewestFirst(store) /\ GetPatterns => DeclineIsReal'
<1> SUFFICES ASSUME store \in Seq(Event), NewestFirst(store), GetPatterns PROVE DeclineIsReal'
  OBVIOUS
<1>1. /\ answer'.clusters = ClusterEvents(store)
      /\ answer'.trends = [id \in DOMAIN ClusterEvents(store) |-> Trend(ClusterEvents(store)[id])]
  BY DEF GetPatterns
<1>2. ASSUME NEW id \in DOMAIN answer'.clusters, answer'.trends[id] = "declining"
      PROVE  Fall(DailyCounts(answer'.clusters[id].events))
  <2> DEFINE c == ClusterEvents(store)[id]
  <2>1. id \in DOMAIN ClusterEvents(store) /\ Trend(c) = "declining"
    BY <1>1, <1>2
  <2>2. /\ c.events \in Seq(Event) /\ NewestFirst(c.events)
        /\ \E k \in 0..Len(c.events) : c.members = SubSeq(c.events, 1, k)
    BY <2>1, ClusterFits
  <2> HIDE DEF c
  <2>3. PICK k \in 0..Len(c.events) : c.members = SubSeq(c.events, 1, k)
    BY <2>2
  <2>4. c.members \in Seq(Event)
    BY <2>2, <2>3
  <2>5. Fall(DailyCounts(c.events))
    BY <2>1, <2>2, <2>3, <2>4, DeclineFalls, CutAddsNoFall
  <2> QED BY <1>1, <2>5 DEF c
<1> QED BY <1>2 DEF DeclineIsReal, Fall

\* Every step keeps it.
LEMMA StepDeclines == DeclineInv /\ [QueriesNext]_queryVars => DeclineInv'
<1> SUFFICES ASSUME DeclineInv, [QueriesNext]_queryVars PROVE DeclineInv'
  OBVIOUS
<1>1. CASE UNCHANGED queryVars
  BY <1>1 DEF DeclineInv, queryVars, DeclineIsReal, NewestFirst
<1>2. CASE QueriesNext
  <2>1. store' \in Seq(Event) /\ NewestFirst(store')
    BY <1>2, StoreGrows, StoreOrdered DEF DeclineInv
  <2>2. CASE GetPatterns
    BY <2>1, <2>2, PatternsDecline DEF DeclineInv, NewestFirst
  <2>3. CASE answer'.kind # "patterns"
    BY <2>1, <2>3 DEF DeclineInv, DeclineIsReal, NewestFirst
  <2>4. GetPatterns \/ answer'.kind # "patterns"
    BY <1>2, OnlyPatterns
  <2> QED BY <2>2, <2>3, <2>4
<1> QED BY <1>1, <1>2

\* get_patterns never reports a decline that is not there, for any counts,
\* members and days: where a cluster of the answer is "declining", some day
\* that it was seen on has fewer of its checkpoints than an earlier one, and
\* that of all of them, not of the members kept.
THEOREM DeclineIsRealHolds == QueriesSpec => []DeclineIsReal
<1>1. QueriesInit => DeclineInv
  BY DEF QueriesInit, DeclineInv, DeclineIsReal, NoAnswer, NewestFirst
<1>2. DeclineInv => DeclineIsReal
  BY DEF DeclineInv
<1> QED BY <1>1, <1>2, StepDeclines, PTL DEF QueriesSpec

-----------------------------------------------------------------------------
(* Sums and smoothing, unfolded                                            *)

\* Any element of a set can be taken out of its sum.
Splits(g, f, D) ==
  \A s \in SUBSET D : g[s] \in Int /\ \A x \in s : g[s] = f[x] + g[s \ {x}]

\* A sum does not depend on the order in which the elements are chosen.
LEMMA AnyOrder ==
  ASSUME NEW D, IsFiniteSet(D), NEW f \in [D -> Int], NEW g, AddsUp(g, f, D)
  PROVE  Splits(g, f, D)
<1> DEFINE Fits(s) == g[s] \in Int /\ \A x \in s : g[s] = f[x] + g[s \ {x}]
           T == {m \in Nat : \A s \in SUBSET D : Cardinality(s) <= m => Fits(s)}
<1>1. \A s \in SUBSET D : IsFiniteSet(s) /\ Cardinality(s) \in Nat
  BY FS_Subset, FS_CardinalityType
<1>2. ASSUME NEW s \in SUBSET D, NEW x \in s
      PROVE  s \ {x} \in SUBSET D /\ Cardinality(s \ {x}) = Cardinality(s) - 1
  BY <1>1, FS_RemoveElement
<1>3. 0 \in T
  <2> SUFFICES ASSUME NEW s \in SUBSET D, Cardinality(s) <= 0 PROVE Fits(s)
    OBVIOUS
  <2>1. s = {}
    BY <1>1, FS_EmptySet
  <2> QED BY <2>1 DEF AddsUp
<1>4. ASSUME NEW m \in Nat, m \in T PROVE m + 1 \in T
  <2> SUFFICES ASSUME NEW s \in SUBSET D, Cardinality(s) <= m + 1 PROVE Fits(s)
    OBVIOUS
  <2>1. \A x \in s : Fits(s \ {x})
    <3> TAKE x \in s
    <3>1. s \ {x} \in SUBSET D /\ Cardinality(s \ {x}) <= m
      BY <1>1, <1>2
    <3> HIDE DEF Fits
    <3> QED BY <1>4, <3>1
  <2>2. CASE s = {}
    BY <2>2 DEF AddsUp
  <2>3. CASE s # {}
    <3> DEFINE c == Chosen(s)
    <3>1. c \in s /\ g[s] = f[c] + g[s \ {c}]
      BY <2>3 DEF AddsUp, Chosen
    <3> HIDE DEF c
    <3>2. g[s] \in Int
      BY <2>1, <3>1
    <3>3. ASSUME NEW x \in s, x # c PROVE g[s] = f[x] + g[s \ {x}]
      <4> DEFINE both == (s \ {c}) \ {x}
      <4>1. g[s \ {c}] = f[x] + g[both]
        BY <2>1, <3>1, <3>3
      <4>2. both = (s \ {x}) \ {c}
        OBVIOUS
      <4>3. g[s \ {x}] = f[c] + g[(s \ {x}) \ {c}]
        BY <2>1, <3>1, <3>3
      <4>4. g[both] \in Int
        <5>1. Fits(s \ {c}) /\ Fits(s \ {x})
          BY <2>1, <3>1
        <5>2. both \in SUBSET D /\ Cardinality(both) <= m
          <6>1. s \ {c} \in SUBSET D /\ Cardinality(s \ {c}) <= m /\ Cardinality(s \ {c}) \in Nat
            BY <1>1, <1>2, <3>1
          <6>2. both \in SUBSET D /\ Cardinality(both) = Cardinality(s \ {c}) - 1
            BY <1>2, <3>3, <6>1
          <6> QED BY <6>1, <6>2
        <5> HIDE DEF both
        <5> QED BY <1>4, <5>2
      <4>5. f[x] \in Int /\ f[c] \in Int
        BY <3>1
      <4> HIDE DEF both
      <4> QED BY <3>1, <4>1, <4>2, <4>3, <4>4, <4>5
    <3> QED BY <3>1, <3>2, <3>3
  <2> QED BY <2>2, <2>3
<1>5. Cardinality(D) \in T
  <2>1. Cardinality(D) \in Nat
    BY FS_CardinalityType
  <2> HIDE DEF T
  <2> QED BY <1>3, <1>4, <2>1, SetInduction
<1>6. \A s \in SUBSET D : Cardinality(s) <= Cardinality(D)
  BY FS_Subset
<1> HIDE DEF Fits
<1>7. \A s \in SUBSET D : Fits(s)
  BY <1>5, <1>6
<1> QED BY <1>7 DEF Fits, Splits

\* The sum of eight numbers.
LEMMA TotalOfEight ==
  ASSUME NEW f \in [1..8 -> Int]
  PROVE  Total(f) = f[1] + f[2] + f[3] + f[4] + f[5] + f[6] + f[7] + f[8]
<1> DEFINE n == 8
           D == 1..n
<1>1. IsFiniteSet(D) /\ f \in [D -> Int]
  <2>1. n \in Nat /\ 1 \in Int
    OBVIOUS
  <2> HIDE DEF n
  <2>2. IsFiniteSet(D)
    BY <2>1, FS_Interval
  <2> QED BY <2>2 DEF n
<1> HIDE DEF D
<1>2. PICK g : AddsUp(g, f, D)
  BY <1>1, TotalUnfolds
<1>3. Splits(g, f, D)
  BY <1>1, <1>2, AnyOrder
<1> USE DEF D
<1>4. \A k \in 1..8 : g[1..k] = f[k] + g[1..(k - 1)]
  <2> TAKE k \in 1..8
  <2>1. 1..k \in SUBSET (1..8) /\ k \in 1..k /\ (1..k) \ {k} = 1..(k - 1)
    OBVIOUS
  <2> QED BY <1>3, <2>1 DEF Splits
<1>5. 1..0 = {}
  OBVIOUS
<1>6. g[1..0] = 0 /\ Total(f) = g[1..8]
  BY <1>2, <1>5 DEF AddsUp
<1>7. /\ g[1..1] = f[1] + g[1..0] /\ g[1..2] = f[2] + g[1..1]
      /\ g[1..3] = f[3] + g[1..2] /\ g[1..4] = f[4] + g[1..3]
      /\ g[1..5] = f[5] + g[1..4] /\ g[1..6] = f[6] + g[1..5]
      /\ g[1..7] = f[7] + g[1..6] /\ g[1..8] = f[8] + g[1..7]
  <2>1. 1 - 1 = 0 /\ 2 - 1 = 1 /\ 3 - 1 = 2 /\ 4 - 1 = 3 /\ 5 - 1 = 4 /\ 6 - 1 = 5
        /\ 7 - 1 = 6 /\ 8 - 1 = 7
    OBVIOUS
  <2> QED BY <1>4, <2>1
<1>8. \A i \in 1..8 : f[i] \in Int
  OBVIOUS
<1> QED BY <1>6, <1>7, <1>8

\* What starts from a base and takes the newest element of a set last.
TakesNewest(g, n, base, step) ==
  g = [s \in SUBSET (1..n) |-> IF s = {} THEN base
                               ELSE step[<<Newest(s), g[s \ {Newest(s)}]>>]]

\* There is such a function, for any set of values that the step stays in.
LEMMA SetRecursion ==
  ASSUME NEW n \in Nat, NEW A, NEW base \in A, NEW step \in [(1..n) \X A -> A]
  PROVE  \E g \in [SUBSET (1..n) -> A] : TakesNewest(g, n, base, step)
<1> DEFINE D == 1..n
           Small(m) == {s \in SUBSET D : Cardinality(s) <= m}
           NextValue(g, s) == IF s = {} THEN base ELSE step[<<Newest(s), g[s \ {Newest(s)}]>>]
           Takes(g, M) == g \in [M -> A] /\ g = [s \in M |-> NextValue(g, s)]
           T == {m \in Nat : \E g : Takes(g, Small(m))}
<1>0. IsFiniteSet(D) /\ Cardinality(D) = n
  BY FS_Interval
<1>1. \A s \in SUBSET D : IsFiniteSet(s) /\ Cardinality(s) \in Nat /\ Cardinality(s) <= n
  <2> HIDE DEF D
  <2> QED BY <1>0, FS_Subset, FS_CardinalityType
<1>2. ASSUME NEW s \in SUBSET D, s # {}
      PROVE  /\ Newest(s) \in D /\ s \ {Newest(s)} \in SUBSET D
             /\ Cardinality(s \ {Newest(s)}) = Cardinality(s) - 1
  <2>1. Newest(s) \in s
    BY <1>2, HasNewest
  <2> QED BY <1>1, <2>1, FS_RemoveElement
<1>3. 0 \in T
  <2> DEFINE g == [s \in Small(0) |-> base]
  <2>1. \A s \in Small(0) : s = {}
    BY <1>1, FS_EmptySet
  <2>2. Takes(g, Small(0))
    BY <2>1
  <2> HIDE DEF Takes, g
  <2> QED BY <2>2
<1>4. ASSUME NEW m \in Nat, m \in T PROVE m + 1 \in T
  <2>1. PICK g : Takes(g, Small(m))
    BY <1>4
  <2> DEFINE h == [s \in Small(m + 1) |-> NextValue(g, s)]
  <2>2. Small(m) \subseteq Small(m + 1)
    BY <1>1
  <2>3. \A s \in Small(m + 1) : s # {} => Newest(s) \in D /\ s \ {Newest(s)} \in Small(m)
    <3> SUFFICES ASSUME NEW s \in Small(m + 1), s # {}
                 PROVE  Newest(s) \in D /\ s \ {Newest(s)} \in Small(m)
      OBVIOUS
    <3>1. s \in SUBSET D /\ Cardinality(s) \in Nat /\ Cardinality(s) <= m + 1
      BY <1>1
    <3> HIDE DEF D
    <3>2. Newest(s) \in D /\ s \ {Newest(s)} \in SUBSET D
          /\ Cardinality(s \ {Newest(s)}) = Cardinality(s) - 1
      BY <1>2, <3>1
    <3> QED BY <3>1, <3>2
  <2>4. \A s \in Small(m) : h[s] = g[s]
    BY <2>1, <2>2
  <2>5. \A s \in Small(m + 1) : NextValue(g, s) \in A
    <3> HIDE DEF Small
    <3> QED BY <2>1, <2>3
  <2>6. \A s \in Small(m + 1) : NextValue(h, s) = NextValue(g, s)
    <3> HIDE DEF Small, h
    <3> QED BY <2>3, <2>4
  <2>7. Takes(h, Small(m + 1))
    <3> HIDE DEF Small, NextValue
    <3> QED BY <2>5, <2>6
  <2> HIDE DEF h, Takes, Small
  <2>8. \E k : Takes(k, Small(m + 1))
    BY <2>7
  <2> QED BY <2>8
<1>5. Small(n) = SUBSET D
  BY <1>1
<1>6. n \in T
  <2> HIDE DEF T
  <2> QED BY <1>3, <1>4, SetInduction
<1>7. \E g : Takes(g, SUBSET D)
  <2> HIDE DEF Small, Takes
  <2> QED BY <1>5, <1>6
<1> QED BY <1>7 DEF TakesNewest

\* One step of the smoother: from a level and a trend over den, and the next
\* value, to a level and a trend over 100 times den.
Moves(level, trend, den, value, level2, trend2) ==
  LET gain == 3 * value * den + 7 * (level + trend) - 10 * level
  IN  10 * gain + 100 * level - level2 = 0 /\ gain + 90 * trend - trend2 = 0

\* The levels l, trends t and denominators d that the smoother goes through
\* for n values.
Smoothing(n, y, l, t, d) ==
  /\ l[1] = y[1] /\ t[1] = y[2] - y[1] /\ d[1] = 1
  /\ \A m \in 2..n :
       Moves(l[m - 1], t[m - 1], d[m - 1], y[m], l[m], t[m]) /\ d[m] = 100 * d[m - 1]

\* The last of them is what Smooth returns.
LEMMA SmoothUnfolds ==
  ASSUME NEW y \in Seq(Int), Len(y) >= 2
  PROVE  \E l, t, d \in [1..Len(y) -> Int] :
           /\ Smoothing(Len(y), y, l, t, d)
           /\ Smooth(y) = [level |-> l[Len(y)], trend |-> t[Len(y)], den |-> d[Len(y)]]
<1> DEFINE n == Len(y) - 1
           rest == Tail(y)
           A == [level : Int, trend : Int, den : Int]
           Gain(s, v) == 3 * v * s.den + 7 * (s.level + s.trend) - 10 * s.level
           Move(s, v) == [level |-> 10 * Gain(s, v) + 100 * s.level,
                          trend |-> Gain(s, v) + 90 * s.trend, den |-> 100 * s.den]
           base == [level |-> y[1], trend |-> y[2] - y[1], den |-> 1]
           step == [p \in (1..n) \X A |-> Move(p[2], rest[p[1]])]
           D == DOMAIN rest
           Folds(g) == g = [s \in SUBSET D |->
                              IF s = {} THEN base ELSE Move(g[s \ {Newest(s)}], rest[Newest(s)])]
<1>1. /\ n \in Nat /\ n >= 1 /\ D = 1..n
      /\ \A m \in 1..n : rest[m] = y[m + 1] /\ rest[m] \in Int
      /\ y[1] \in Int /\ y[2] \in Int
  <2>1. Len(y) \in Nat /\ y # <<>>
    OBVIOUS
  <2>2. Len(rest) = n /\ rest \in Seq(Int)
    BY <2>1
  <2>3. \A m \in 1..n : rest[m] = y[m + 1]
    BY <2>1
  <2> HIDE DEF rest
  <2> QED BY <2>1, <2>2, <2>3
<1>0. ASSUME NEW v \in Int, NEW e \in Int PROVE 3 * v * e \in Int
  <2> DEFINE w == 3 * v
  <2>1. w \in Int
    OBVIOUS
  <2> HIDE DEF w
  <2>2. w * e \in Int
    BY <2>1
  <2> QED BY <2>2 DEF w
<1>12. Len(y) = n + 1
  OBVIOUS
<1> HIDE DEF n
<1>2. base \in A
  BY <1>1
<1> HIDE DEF rest, base
<1>3. ASSUME NEW s \in A, NEW v \in Int PROVE Move(s, v) \in A /\ Gain(s, v) \in Int
  <2>1. s.level \in Int /\ s.trend \in Int /\ s.den \in Int
    OBVIOUS
  <2> DEFINE product == 3 * v * s.den
  <2>2. product \in Int
    BY <1>0, <2>1
  <2> HIDE DEF product
  <2>3. Gain(s, v) \in Int
    BY <2>1, <2>2 DEF product
  <2> DEFINE gain == Gain(s, v)
  <2>4. gain \in Int
    BY <2>3
  <2> HIDE DEF gain
  <2>5. /\ 10 * gain + 100 * s.level \in Int /\ gain + 90 * s.trend \in Int /\ 100 * s.den \in Int
    BY <2>1, <2>4
  <2>6. Move(s, v) = [level |-> 10 * gain + 100 * s.level, trend |-> gain + 90 * s.trend,
                      den |-> 100 * s.den]
    BY DEF gain
  <2> QED BY <2>3, <2>5, <2>6
<1> HIDE DEF A, Move
<1>4. step \in [(1..n) \X A -> A]
  BY <1>1, <1>3
<1>5. \E g : Folds(g)
  <2>1. PICK g \in [SUBSET (1..n) -> A] : TakesNewest(g, n, base, step)
    <3> HIDE DEF step
    <3> QED BY <1>1, <1>2, <1>4, SetRecursion
  <2>2. \A s \in SUBSET (1..n) : s # {} => Newest(s) \in 1..n /\ s \ {Newest(s)} \in SUBSET (1..n)
    BY <1>1, HasNewest
  <2>3. \A s \in SUBSET (1..n) : s # {} =>
          step[<<Newest(s), g[s \ {Newest(s)}]>>] = Move(g[s \ {Newest(s)}], rest[Newest(s)])
    BY <2>2
  <2> HIDE DEF step
  <2>4. Folds(g)
    BY <1>1, <2>1, <2>3 DEF TakesNewest
  <2> QED BY <2>4
<1> DEFINE g == CHOOSE g : Folds(g)
<1>6. Folds(g)
  <2> HIDE DEF Folds
  <2> QED BY <1>5
<1>7. Smooth(y) = g[D]
  <2>1. Smooth(y) = IF Len(y) < 2 THEN [level |-> y[1], trend |-> 0, den |-> 1] ELSE g[D]
    BY DEF Smooth, FoldLeft, MapThenFoldSet, Max, Newest, Move, base, rest
  <2>2. ~(Len(y) < 2)
    BY <1>12, <1>1
  <2> HIDE DEF g, D
  <2> QED BY <2>1, <2>2
<1> HIDE DEF g
<1>9. g[1..0] = base
  <2>1. 1..0 = {} /\ {} \in SUBSET D
    OBVIOUS
  <2> QED BY <1>6, <2>1
<1>10. ASSUME NEW m \in 1..n
       PROVE  g[1..m] = Move(g[1..(m - 1)], y[m + 1])
  <2>0. m \in Nat /\ m >= 1 /\ m <= n
    BY <1>1
  <2>1. (1..m) \in SUBSET (1..n) /\ (1..m) # {}
    <3>1. m \in 1..m /\ \A x \in 1..m : x \in 1..n
      BY <1>1, <2>0
    <3> QED BY <3>1
  <2>2. Newest(1..m) = m
    <3> DEFINE places == 1..m
    <3>1. places \in SUBSET (1..n) /\ places # {}
      BY <2>1
    <3> HIDE DEF places
    <3>2. Newest(places) \in places /\ \A x \in places : Newest(places) >= x
      BY <1>1, <3>1, HasNewest
    <3> QED BY <2>0, <3>2 DEF places
  <2>3. (1..m) \ {m} = 1..(m - 1)
      BY SMTT(40), <1>1, <2>0
  <2>4. g[1..m] = Move(g[(1..m) \ {Newest(1..m)}], rest[Newest(1..m)])
    BY <1>1, <1>6, <2>1
  <2> QED BY <1>1, <2>2, <2>3, <2>4
<1> HIDE DEF Folds
<1> DEFINE G(m) == g[1..(m - 1)]
           T == {m \in Nat : m <= n => g[1..m] \in A}
<1>11. \A m \in 0..n : g[1..m] \in A
  <2>1. 0 \in T
    BY <1>2, <1>9
  <2>2. ASSUME NEW m \in Nat, m \in T PROVE m + 1 \in T
    <3>1. ASSUME m + 1 <= n PROVE g[1..(m + 1)] \in A
      <4>1. m + 1 \in 1..n /\ m + 1 - 1 = m /\ g[1..m] \in A
        BY <1>1, <2>2, <3>1
      <4>2. y[m + 2] \in Int /\ m + 1 + 1 = m + 2
        BY <1>1, <4>1 DEF n
      <4>3. g[1..(m + 1)] = Move(g[1..m], y[m + 2])
        BY <1>10, <4>1, <4>2
      <4> QED BY <1>3, <4>1, <4>2, <4>3
    <3> QED BY <3>1
  <2> HIDE DEF T
  <2>3. \A m \in 0..n : m \in T
    <3> TAKE m \in 0..n
    <3>1. m \in Nat
      BY <1>1
    <3> QED BY <2>1, <2>2, <3>1, SetInduction
  <2> QED BY <2>3, <1>1 DEF T
<1> DEFINE l == [m \in 1..Len(y) |-> G(m).level]
           t == [m \in 1..Len(y) |-> G(m).trend]
           d == [m \in 1..Len(y) |-> G(m).den]
<1>13. \A m \in 1..Len(y) : G(m) \in A
  BY <1>1, <1>11, <1>12
<1>14. l \in [1..Len(y) -> Int] /\ t \in [1..Len(y) -> Int] /\ d \in [1..Len(y) -> Int]
  <2> HIDE DEF G
  <2> QED BY <1>13 DEF A
<1>15. ASSUME NEW m \in 2..Len(y)
       PROVE  Moves(l[m - 1], t[m - 1], d[m - 1], y[m], l[m], t[m]) /\ d[m] = 100 * d[m - 1]
  <2>1. m - 1 \in 1..n /\ m - 1 + 1 = m /\ m \in 1..Len(y) /\ m - 1 \in 1..Len(y) /\ y[m] \in Int
    BY <1>1, <1>12
  <2>2. G(m) = Move(G(m - 1), y[m])
    BY <1>10, <2>1
  <2>3. G(m - 1) \in A
    BY <1>13, <2>1
  <2> HIDE DEF G
  <2> DEFINE s == G(m - 1)
             v == y[m]
  <2>4. /\ l[m] = Move(s, v).level /\ t[m] = Move(s, v).trend /\ d[m] = Move(s, v).den
        /\ l[m - 1] = s.level /\ t[m - 1] = s.trend /\ d[m - 1] = s.den
    BY <2>1, <2>2
  <2>5. s.level \in Int /\ s.trend \in Int /\ s.den \in Int /\ v \in Int
    BY <2>1, <2>3 DEF A
  <2> HIDE DEF s, v
  <2>6. /\ Move(s, v).level = 10 * Gain(s, v) + 100 * s.level
        /\ Move(s, v).trend = Gain(s, v) + 90 * s.trend /\ Move(s, v).den = 100 * s.den
    BY DEF Move
  <2>8. Gain(s, v) \in Int
    BY <1>3, <2>1, <2>3 DEF s, v
  <2> DEFINE k == Gain(s, v)
  <2>9. Moves(s.level, s.trend, s.den, v, Move(s, v).level, Move(s, v).trend)
    <3>1. /\ 10 * k + 100 * s.level - Move(s, v).level = 0
          /\ k + 90 * s.trend - Move(s, v).trend = 0
      <4> DEFINE level2 == Move(s, v).level
                 trend2 == Move(s, v).trend
      <4>1. k \in Int /\ level2 = 10 * k + 100 * s.level /\ trend2 = k + 90 * s.trend
        BY <2>6, <2>8
      <4> HIDE DEF k, level2, trend2
      <4>2. 10 * k + 100 * s.level - level2 = 0 /\ k + 90 * s.trend - trend2 = 0
        <5>1. s.level \in Int /\ s.trend \in Int
          BY <2>5
        <5> DEFINE a == s.level
                   b == s.trend
        <5> HIDE DEF a, b
        <5>2. a \in Int /\ b \in Int /\ level2 = 10 * k + 100 * a /\ trend2 = k + 90 * b
          BY <4>1, <5>1 DEF a, b
        <5>3. level2 \in Int /\ trend2 \in Int
          BY <4>1, <5>2
        <5>4. 10 * k + 100 * a - level2 = 0 /\ k + 90 * b - trend2 = 0
          BY <4>1, <5>2, <5>3
        <5> QED BY <5>4 DEF a, b
      <4> QED BY <4>2 DEF level2, trend2
    <3> QED BY <3>1 DEF Moves
  <2> HIDE DEF l, t, d
  <2> QED BY <2>4, <2>6, <2>9 DEF v
<1>16. l[1] = y[1] /\ t[1] = y[2] - y[1] /\ d[1] = 1
  <2>1. 1 \in 1..Len(y) /\ 1 - 1 = 0
    BY <1>1, <1>12
  <2> QED BY <1>9, <2>1 DEF base
<1>17. Smooth(y) = [level |-> l[Len(y)], trend |-> t[Len(y)], den |-> d[Len(y)]]
  <2>1. Len(y) \in 1..Len(y) /\ Len(y) - 1 = n /\ G(Len(y)) \in A
    <3>1. Len(y) \in 1..Len(y) /\ Len(y) - 1 = n
      BY <1>1, <1>12
    <3> HIDE DEF G, A
    <3> QED BY <1>13, <3>1
  <2>2. Smooth(y) = G(Len(y))
    BY <1>1, <1>7, <2>1
  <2> HIDE DEF G
  <2> QED BY <2>1, <2>2 DEF A
<1> HIDE DEF l, t, d
<1> QED BY <1>14, <1>15, <1>16, <1>17 DEF Smoothing

\* The forecast for one step, and the sum of the first eight.
Clipped(level, trend, i) ==
  IF trend # 0 /\ level + i * trend < 0 THEN 0 ELSE level + i * trend
EightSteps(level, trend, sum) ==
  Clipped(level, trend, 1) + Clipped(level, trend, 2) + Clipped(level, trend, 3)
    + Clipped(level, trend, 4) + Clipped(level, trend, 5) + Clipped(level, trend, 6)
    + Clipped(level, trend, 7) + Clipped(level, trend, 8) - sum = 0

\* The counts on so many days, and what the smoother and the forecast make
\* of them, as a question about integers.
LEMMA ThreeDays ==
  ASSUME NEW y1 \in Int, NEW y2 \in Int, NEW y3 \in Int, NEW l1 \in Int,
         NEW l2 \in Int, NEW l3 \in Int, NEW t1 \in Int, NEW t2 \in Int,
         NEW t3 \in Int, NEW sum \in Int,
         y1 >= 1, y2 >= 1, y3 >= 1, y1 + y2 + y3 <= 10, l1 = y1,
         t1 = y2 - y1, Moves(l1, t1, 1, y2, l2, t2),
         Moves(l2, t2, 100, y3, l3, t3), EightSteps(l3, t3, sum)
  PROVE  /\ (y1 <= y2 /\ y2 <= y3)
              => 15 * sum >= 32 * (y3 + y2 + y1) * 10000
         /\ (y1 >= y2 /\ y2 >= y3)
              => 15 * sum <= 48 * (y3 + y2 + y1) * 10000
BY SMT DEF Moves, EightSteps, Clipped

\* Counts on four days in a row.
LEMMA FourDays ==
  ASSUME NEW y1 \in Int, NEW y2 \in Int, NEW y3 \in Int, NEW y4 \in Int,
         NEW l1 \in Int, NEW l2 \in Int, NEW l3 \in Int, NEW l4 \in Int,
         NEW t1 \in Int, NEW t2 \in Int, NEW t3 \in Int, NEW t4 \in Int,
         NEW sum \in Int,
         y1 >= 1, y2 >= 1, y3 >= 1, y4 >= 1, y1 + y2 + y3 + y4 <= 10,
         l1 = y1, t1 = y2 - y1, Moves(l1, t1, 1, y2, l2, t2),
         Moves(l2, t2, 100, y3, l3, t3), Moves(l3, t3, 10000, y4, l4, t4),
         EightSteps(l4, t4, sum)
  PROVE  /\ (y1 <= y2 /\ y2 <= y3 /\ y3 <= y4)
              => 15 * sum >= 32 * (y4 + y3 + y2) * 1000000
         /\ (y1 >= y2 /\ y2 >= y3 /\ y3 >= y4)
              => 15 * sum <= 48 * (y4 + y3 + y2) * 1000000
BY SMT DEF Moves, EightSteps, Clipped

\* Counts on five days in a row.
LEMMA FiveDays ==
  ASSUME NEW y1 \in Int, NEW y2 \in Int, NEW y3 \in Int, NEW y4 \in Int,
         NEW y5 \in Int, NEW l1 \in Int, NEW l2 \in Int, NEW l3 \in Int,
         NEW l4 \in Int, NEW l5 \in Int, NEW t1 \in Int, NEW t2 \in Int,
         NEW t3 \in Int, NEW t4 \in Int, NEW t5 \in Int, NEW sum \in Int,
         y1 >= 1, y2 >= 1, y3 >= 1, y4 >= 1, y5 >= 1,
         y1 + y2 + y3 + y4 + y5 <= 10, l1 = y1, t1 = y2 - y1,
         Moves(l1, t1, 1, y2, l2, t2), Moves(l2, t2, 100, y3, l3, t3),
         Moves(l3, t3, 10000, y4, l4, t4),
         Moves(l4, t4, 1000000, y5, l5, t5), EightSteps(l5, t5, sum)
  PROVE  /\ (y1 <= y2 /\ y2 <= y3 /\ y3 <= y4 /\ y4 <= y5)
              => 15 * sum >= 32 * (y5 + y4 + y3) * 100000000
         /\ (y1 >= y2 /\ y2 >= y3 /\ y3 >= y4 /\ y4 >= y5)
              => 15 * sum <= 48 * (y5 + y4 + y3) * 100000000
BY SMT DEF Moves, EightSteps, Clipped

\* Counts on six days in a row.
LEMMA SixDays ==
  ASSUME NEW y1 \in Int, NEW y2 \in Int, NEW y3 \in Int, NEW y4 \in Int,
         NEW y5 \in Int, NEW y6 \in Int, NEW l1 \in Int, NEW l2 \in Int,
         NEW l3 \in Int, NEW l4 \in Int, NEW l5 \in Int, NEW l6 \in Int,
         NEW t1 \in Int, NEW t2 \in Int, NEW t3 \in Int, NEW t4 \in Int,
         NEW t5 \in Int, NEW t6 \in Int, NEW sum \in Int,
         y1 >= 1, y2 >= 1, y3 >= 1, y4 >= 1, y5 >= 1, y6 >= 1,
         y1 + y2 + y3 + y4 + y5 + y6 <= 10, l1 = y1, t1 = y2 - y1,
         Moves(l1, t1, 1, y2, l2, t2), Moves(l2, t2, 100, y3, l3, t3),
         Moves(l3, t3, 10000, y4, l4, t4),
         Moves(l4, t4, 1000000, y5, l5, t5),
         Moves(l5, t5, 100000000, y6, l6, t6), EightSteps(l6, t6, sum)
  PROVE  /\ (y1 <= y2 /\ y2 <= y3 /\ y3 <= y4 /\ y4 <= y5 /\ y5 <= y6)
              => 15 * sum >= 32 * (y6 + y5 + y4) * 10000000000
         /\ (y1 >= y2 /\ y2 >= y3 /\ y3 >= y4 /\ y4 >= y5 /\ y5 >= y6)
              => 15 * sum <= 48 * (y6 + y5 + y4) * 10000000000
BY SMT DEF Moves, EightSteps, Clipped

\* Counts on seven days in a row.
LEMMA SevenDays ==
  ASSUME NEW y1 \in Int, NEW y2 \in Int, NEW y3 \in Int, NEW y4 \in Int,
         NEW y5 \in Int, NEW y6 \in Int, NEW y7 \in Int, NEW l1 \in Int,
         NEW l2 \in Int, NEW l3 \in Int, NEW l4 \in Int, NEW l5 \in Int,
         NEW l6 \in Int, NEW l7 \in Int, NEW t1 \in Int, NEW t2 \in Int,
         NEW t3 \in Int, NEW t4 \in Int, NEW t5 \in Int, NEW t6 \in Int,
         NEW t7 \in Int, NEW sum \in Int,
         y1 >= 1, y2 >= 1, y3 >= 1, y4 >= 1, y5 >= 1, y6 >= 1, y7 >= 1,
         y1 + y2 + y3 + y4 + y5 + y6 + y7 <= 10, l1 = y1, t1 = y2 - y1,
         Moves(l1, t1, 1, y2, l2, t2), Moves(l2, t2, 100, y3, l3, t3),
         Moves(l3, t3, 10000, y4, l4, t4),
         Moves(l4, t4, 1000000, y5, l5, t5),
         Moves(l5, t5, 100000000, y6, l6, t6),
         Moves(l6, t6, 10000000000, y7, l7, t7), EightSteps(l7, t7, sum)
  PROVE  /\ (y1 <= y2 /\ y2 <= y3 /\ y3 <= y4 /\ y4 <= y5 /\ y5 <= y6 /\ y6 <= y7)
              => 15 * sum >= 32 * (y7 + y6 + y5) * 1000000000000
         /\ (y1 >= y2 /\ y2 >= y3 /\ y3 >= y4 /\ y4 >= y5 /\ y5 >= y6 /\ y6 >= y7)
              => 15 * sum <= 48 * (y7 + y6 + y5) * 1000000000000
BY SMT DEF Moves, EightSteps, Clipped

\* Counts on eight days in a row.
LEMMA EightDays ==
  ASSUME NEW y1 \in Int, NEW y2 \in Int, NEW y3 \in Int, NEW y4 \in Int,
         NEW y5 \in Int, NEW y6 \in Int, NEW y7 \in Int, NEW y8 \in Int,
         NEW l1 \in Int, NEW l2 \in Int, NEW l3 \in Int, NEW l4 \in Int,
         NEW l5 \in Int, NEW l6 \in Int, NEW l7 \in Int, NEW l8 \in Int,
         NEW t1 \in Int, NEW t2 \in Int, NEW t3 \in Int, NEW t4 \in Int,
         NEW t5 \in Int, NEW t6 \in Int, NEW t7 \in Int, NEW t8 \in Int,
         NEW sum \in Int,
         y1 >= 1, y2 >= 1, y3 >= 1, y4 >= 1, y5 >= 1, y6 >= 1, y7 >= 1,
         y8 >= 1, y1 + y2 + y3 + y4 + y5 + y6 + y7 + y8 <= 10, l1 = y1,
         t1 = y2 - y1, Moves(l1, t1, 1, y2, l2, t2),
         Moves(l2, t2, 100, y3, l3, t3), Moves(l3, t3, 10000, y4, l4, t4),
         Moves(l4, t4, 1000000, y5, l5, t5),
         Moves(l5, t5, 100000000, y6, l6, t6),
         Moves(l6, t6, 10000000000, y7, l7, t7),
         Moves(l7, t7, 1000000000000, y8, l8, t8), EightSteps(l8, t8, sum)
  PROVE  /\ (y1 <= y2 /\ y2 <= y3 /\ y3 <= y4 /\ y4 <= y5 /\ y5 <= y6 /\ y6 <= y7 /\ y7 <= y8)
              => 15 * sum >= 32 * (y8 + y7 + y6) * 100000000000000
         /\ (y1 >= y2 /\ y2 >= y3 /\ y3 >= y4 /\ y4 >= y5 /\ y5 >= y6 /\ y6 >= y7 /\ y7 >= y8)
              => 15 * sum <= 48 * (y8 + y7 + y6) * 100000000000000
BY SMT DEF Moves, EightSteps, Clipped

\* Counts on nine days in a row.
LEMMA NineDays ==
  ASSUME NEW y1 \in Int, NEW y2 \in Int, NEW y3 \in Int, NEW y4 \in Int,
         NEW y5 \in Int, NEW y6 \in Int, NEW y7 \in Int, NEW y8 \in Int,
         NEW y9 \in Int, NEW l1 \in Int, NEW l2 \in Int, NEW l3 \in Int,
         NEW l4 \in Int, NEW l5 \in Int, NEW l6 \in Int, NEW l7 \in Int,
         NEW l8 \in Int, NEW l9 \in Int, NEW t1 \in Int, NEW t2 \in Int,
         NEW t3 \in Int, NEW t4 \in Int, NEW t5 \in Int, NEW t6 \in Int,
         NEW t7 \in Int, NEW t8 \in Int, NEW t9 \in Int, NEW sum \in Int,
         y1 >= 1, y2 >= 1, y3 >= 1, y4 >= 1, y5 >= 1, y6 >= 1, y7 >= 1,
         y8 >= 1, y9 >= 1, y1 + y2 + y3 + y4 + y5 + y6 + y7 + y8 + y9 <= 10,
         l1 = y1, t1 = y2 - y1, Moves(l1, t1, 1, y2, l2, t2),
         Moves(l2, t2, 100, y3, l3, t3), Moves(l3, t3, 10000, y4, l4, t4),
         Moves(l4, t4, 1000000, y5, l5, t5),
         Moves(l5, t5, 100000000, y6, l6, t6),
         Moves(l6, t6, 10000000000, y7, l7, t7),
         Moves(l7, t7, 1000000000000, y8, l8, t8),
         Moves(l8, t8, 100000000000000, y9, l9, t9), EightSteps(l9, t9, sum)
  PROVE  /\ (y1 <= y2 /\ y2 <= y3 /\ y3 <= y4 /\ y4 <= y5 /\ y5 <= y6 /\ y6 <= y7 /\ y7 <= y8 /\ y8 <= y9)
              => 15 * sum >= 32 * (y9 + y8 + y7) * 10000000000000000
         /\ (y1 >= y2 /\ y2 >= y3 /\ y3 >= y4 /\ y4 >= y5 /\ y5 >= y6 /\ y6 >= y7 /\ y7 >= y8 /\ y8 >= y9)
              => 15 * sum <= 48 * (y9 + y8 + y7) * 10000000000000000
BY SMT DEF Moves, EightSteps, Clipped

\* Counts on ten days in a row.
LEMMA TenDays ==
  ASSUME NEW y1 \in Int, NEW y2 \in Int, NEW y3 \in Int, NEW y4 \in Int,
         NEW y5 \in Int, NEW y6 \in Int, NEW y7 \in Int, NEW y8 \in Int,
         NEW y9 \in Int, NEW y10 \in Int, NEW l1 \in Int, NEW l2 \in Int,
         NEW l3 \in Int, NEW l4 \in Int, NEW l5 \in Int, NEW l6 \in Int,
         NEW l7 \in Int, NEW l8 \in Int, NEW l9 \in Int, NEW l10 \in Int,
         NEW t1 \in Int, NEW t2 \in Int, NEW t3 \in Int, NEW t4 \in Int,
         NEW t5 \in Int, NEW t6 \in Int, NEW t7 \in Int, NEW t8 \in Int,
         NEW t9 \in Int, NEW t10 \in Int, NEW sum \in Int,
         y1 >= 1, y2 >= 1, y3 >= 1, y4 >= 1, y5 >= 1, y6 >= 1, y7 >= 1,
         y8 >= 1, y9 >= 1, y10 >= 1,
         y1 + y2 + y3 + y4 + y5 + y6 + y7 + y8 + y9 + y10 <= 10, l1 = y1,
         t1 = y2 - y1, Moves(l1, t1, 1, y2, l2, t2),
         Moves(l2, t2, 100, y3, l3, t3), Moves(l3, t3, 10000, y4, l4, t4),
         Moves(l4, t4, 1000000, y5, l5, t5),
         Moves(l5, t5, 100000000, y6, l6, t6),
         Moves(l6, t6, 10000000000, y7, l7, t7),
         Moves(l7, t7, 1000000000000, y8, l8, t8),
         Moves(l8, t8, 100000000000000, y9, l9, t9),
         Moves(l9, t9, 10000000000000000, y10, l10, t10),
         EightSteps(l10, t10, sum)
  PROVE  /\ (y1 <= y2 /\ y2 <= y3 /\ y3 <= y4 /\ y4 <= y5 /\ y5 <= y6 /\ y6 <= y7 /\ y7 <= y8 /\ y8 <= y9 /\ y9 <= y10)
              => 15 * sum >= 32 * (y10 + y9 + y8) * 1000000000000000000
         /\ (y1 >= y2 /\ y2 >= y3 /\ y3 >= y4 /\ y4 >= y5 /\ y5 >= y6 /\ y6 >= y7 /\ y7 >= y8 /\ y8 >= y9 /\ y9 >= y10)
              => 15 * sum <= 48 * (y10 + y9 + y8) * 1000000000000000000
BY SMT DEF Moves, EightSteps, Clipped


\* The events counted up to each of n days, none of them empty.
Counting(n, y, c) ==
  /\ c[0] = 0
  /\ \A i \in 1..n : y[i] >= 1 /\ c[i] = c[i - 1] + y[i]

\* Counts of at most ten events on three to ten days, none of them empty: if
\* they never fall, the forecast is not below four fifths of the recent mean,
\* and if they never rise, it is not above six fifths of it.  Each number of
\* days is a question about finitely many sums of integers.  For more events
\* it is not true: 10, 10, 1, 1, 1 never rises, and is forecast to rise.
LEMMA FollowsUpToTen ==
  ASSUME NEW n \in 3..10, NEW y \in [1..n -> Int], NEW c \in [0..n -> Int],
         NEW l \in [1..n -> Int], NEW t \in [1..n -> Int], NEW d \in [1..n -> Int],
         NEW sum \in Int,
         Counting(n, y, c), c[n] <= 10, Smoothing(n, y, l, t, d), EightSteps(l[n], t[n], sum)
  PROVE  /\ (\A i \in 2..n : y[i - 1] <= y[i])
              => 15 * sum >= 32 * (y[n] + y[n - 1] + y[n - 2]) * d[n]
         /\ (\A i \in 2..n : y[i - 1] >= y[i])
              => 15 * sum <= 48 * (y[n] + y[n - 1] + y[n - 2]) * d[n]
<1>1. \A i \in 1..n : /\ i - 1 \in 0..n /\ y[i] \in Int /\ y[i] >= 1
                      /\ c[i] = c[i - 1] + y[i] /\ c[i] \in Int
                      /\ l[i] \in Int /\ t[i] \in Int /\ d[i] \in Int
  <2>1. n \in Nat /\ n >= 3
    OBVIOUS
  <2> TAKE i \in 1..n
  <2>2. i \in 0..n /\ i - 1 \in 0..n
    BY <2>1
  <2> QED BY <2>2 DEF Counting
<1>3. CASE n = 3
  <2>1. /\ y[1] \in Int /\ y[2] \in Int /\ y[3] \in Int /\ l[1] \in Int
        /\ l[2] \in Int /\ l[3] \in Int /\ t[1] \in Int /\ t[2] \in Int
        /\ t[3] \in Int
    BY <1>1, <1>3
  <2>2. /\ y[1] >= 1 /\ y[2] >= 1 /\ y[3] >= 1 /\ y[1] + y[2] + y[3] <= 10
    <3>1. /\ c[1] = c[0] + y[1] /\ c[2] = c[1] + y[2] /\ c[3] = c[2] + y[3]
          /\ y[1] >= 1 /\ y[2] >= 1 /\ y[3] >= 1 /\ c[1] \in Int /\ c[2] \in Int
          /\ c[3] \in Int
      BY <1>1, <1>3
    <3>2. c[0] = 0 /\ c[3] <= 10
      BY <1>3 DEF Counting
    <3> QED BY <2>1, <3>1, <3>2
  <2>3. /\ Moves(l[1], t[1], 1, y[2], l[2], t[2])
        /\ Moves(l[2], t[2], 100, y[3], l[3], t[3]) /\ d[3] = 10000
    <3>1. /\ d[1] = 1 /\ d[2] = 100 * d[1] /\ d[3] = 100 * d[2]
          /\ Moves(l[1], t[1], d[1], y[2], l[2], t[2])
          /\ Moves(l[2], t[2], d[2], y[3], l[3], t[3])
      BY <1>3 DEF Smoothing
    <3>2. /\ d[1] = 1 /\ d[2] = 100 /\ d[3] = 10000
      BY SMT, <3>1
    <3> QED BY SMT, <3>1, <3>2
  <2>6. l[1] = y[1] /\ t[1] = y[2] - y[1]
    BY DEF Smoothing
  <2>7. EightSteps(l[3], t[3], sum)
    BY <1>3
  <2>4. (\A i \in 2..n : y[i - 1] <= y[i]) => 15 * sum >= 32 * (y[3] + y[2] + y[1]) * 10000
    <3> HAVE \A i \in 2..n : y[i - 1] <= y[i]
    <3>1. /\ y[1] <= y[2] /\ y[2] <= y[3]
      BY <1>3
    <3> QED BY SMT, <1>3, <2>1, <2>2, <2>3, <2>6, <2>7, <3>1, ThreeDays
  <2>5. (\A i \in 2..n : y[i - 1] >= y[i]) => 15 * sum <= 48 * (y[3] + y[2] + y[1]) * 10000
    <3> HAVE \A i \in 2..n : y[i - 1] >= y[i]
    <3>1. /\ y[1] >= y[2] /\ y[2] >= y[3]
      BY <1>3
    <3> QED BY SMT, <1>3, <2>1, <2>2, <2>3, <2>6, <2>7, <3>1, ThreeDays
  <2> QED BY SMT, <1>3, <2>3, <2>4, <2>5
<1>4. CASE n = 4
  <2>1. /\ y[1] \in Int /\ y[2] \in Int /\ y[3] \in Int /\ y[4] \in Int
        /\ l[1] \in Int /\ l[2] \in Int /\ l[3] \in Int /\ l[4] \in Int
        /\ t[1] \in Int /\ t[2] \in Int /\ t[3] \in Int /\ t[4] \in Int
    BY <1>1, <1>4
  <2>2. /\ y[1] >= 1 /\ y[2] >= 1 /\ y[3] >= 1 /\ y[4] >= 1
        /\ y[1] + y[2] + y[3] + y[4] <= 10
    <3>1. /\ c[1] = c[0] + y[1] /\ c[2] = c[1] + y[2] /\ c[3] = c[2] + y[3]
          /\ c[4] = c[3] + y[4] /\ y[1] >= 1 /\ y[2] >= 1 /\ y[3] >= 1 /\ y[4] >= 1
          /\ c[1] \in Int /\ c[2] \in Int /\ c[3] \in Int /\ c[4] \in Int
      BY <1>1, <1>4
    <3>2. c[0] = 0 /\ c[4] <= 10
      BY <1>4 DEF Counting
    <3> QED BY <2>1, <3>1, <3>2
  <2>3. /\ Moves(l[1], t[1], 1, y[2], l[2], t[2])
        /\ Moves(l[2], t[2], 100, y[3], l[3], t[3])
        /\ Moves(l[3], t[3], 10000, y[4], l[4], t[4]) /\ d[4] = 1000000
    <3>1. /\ d[1] = 1 /\ d[2] = 100 * d[1] /\ d[3] = 100 * d[2] /\ d[4] = 100 * d[3]
          /\ Moves(l[1], t[1], d[1], y[2], l[2], t[2])
          /\ Moves(l[2], t[2], d[2], y[3], l[3], t[3])
          /\ Moves(l[3], t[3], d[3], y[4], l[4], t[4])
      BY <1>4 DEF Smoothing
    <3>2. /\ d[1] = 1 /\ d[2] = 100 /\ d[3] = 10000 /\ d[4] = 1000000
      BY SMT, <3>1
    <3> QED BY SMT, <3>1, <3>2
  <2>6. l[1] = y[1] /\ t[1] = y[2] - y[1]
    BY DEF Smoothing
  <2>7. EightSteps(l[4], t[4], sum)
    BY <1>4
  <2>4. (\A i \in 2..n : y[i - 1] <= y[i]) => 15 * sum >= 32 * (y[4] + y[3] + y[2]) * 1000000
    <3> HAVE \A i \in 2..n : y[i - 1] <= y[i]
    <3>1. /\ y[1] <= y[2] /\ y[2] <= y[3] /\ y[3] <= y[4]
      BY <1>4
    <3> QED BY SMT, <1>4, <2>1, <2>2, <2>3, <2>6, <2>7, <3>1, FourDays
  <2>5. (\A i \in 2..n : y[i - 1] >= y[i]) => 15 * sum <= 48 * (y[4] + y[3] + y[2]) * 1000000
    <3> HAVE \A i \in 2..n : y[i - 1] >= y[i]
    <3>1. /\ y[1] >= y[2] /\ y[2] >= y[3] /\ y[3] >= y[4]
      BY <1>4
    <3> QED BY SMT, <1>4, <2>1, <2>2, <2>3, <2>6, <2>7, <3>1, FourDays
  <2> QED BY SMT, <1>4, <2>3, <2>4, <2>5
<1>5. CASE n = 5
  <2>1. /\ y[1] \in Int /\ y[2] \in Int /\ y[3] \in Int /\ y[4] \in Int
        /\ y[5] \in Int /\ l[1] \in Int /\ l[2] \in Int /\ l[3] \in Int
        /\ l[4] \in Int /\ l[5] \in Int /\ t[1] \in Int /\ t[2] \in Int
        /\ t[3] \in Int /\ t[4] \in Int /\ t[5] \in Int
    BY <1>1, <1>5
  <2>2. /\ y[1] >= 1 /\ y[2] >= 1 /\ y[3] >= 1 /\ y[4] >= 1 /\ y[5] >= 1
        /\ y[1] + y[2] + y[3] + y[4] + y[5] <= 10
    <3>1. /\ c[1] = c[0] + y[1] /\ c[2] = c[1] + y[2] /\ c[3] = c[2] + y[3]
          /\ c[4] = c[3] + y[4] /\ c[5] = c[4] + y[5] /\ y[1] >= 1 /\ y[2] >= 1
          /\ y[3] >= 1 /\ y[4] >= 1 /\ y[5] >= 1 /\ c[1] \in Int /\ c[2] \in Int
          /\ c[3] \in Int /\ c[4] \in Int /\ c[5] \in Int
      BY <1>1, <1>5
    <3>2. c[0] = 0 /\ c[5] <= 10
      BY <1>5 DEF Counting
    <3> QED BY <2>1, <3>1, <3>2
  <2>3. /\ Moves(l[1], t[1], 1, y[2], l[2], t[2])
        /\ Moves(l[2], t[2], 100, y[3], l[3], t[3])
        /\ Moves(l[3], t[3], 10000, y[4], l[4], t[4])
        /\ Moves(l[4], t[4], 1000000, y[5], l[5], t[5]) /\ d[5] = 100000000
    <3>1. /\ d[1] = 1 /\ d[2] = 100 * d[1] /\ d[3] = 100 * d[2] /\ d[4] = 100 * d[3]
          /\ d[5] = 100 * d[4] /\ Moves(l[1], t[1], d[1], y[2], l[2], t[2])
          /\ Moves(l[2], t[2], d[2], y[3], l[3], t[3])
          /\ Moves(l[3], t[3], d[3], y[4], l[4], t[4])
          /\ Moves(l[4], t[4], d[4], y[5], l[5], t[5])
      BY <1>5 DEF Smoothing
    <3>2. /\ d[1] = 1 /\ d[2] = 100 /\ d[3] = 10000 /\ d[4] = 1000000
          /\ d[5] = 100000000
      BY SMT, <3>1
    <3> QED BY SMT, <3>1, <3>2
  <2>6. l[1] = y[1] /\ t[1] = y[2] - y[1]
    BY DEF Smoothing
  <2>7. EightSteps(l[5], t[5], sum)
    BY <1>5
  <2>4. (\A i \in 2..n : y[i - 1] <= y[i]) => 15 * sum >= 32 * (y[5] + y[4] + y[3]) * 100000000
    <3> HAVE \A i \in 2..n : y[i - 1] <= y[i]
    <3>1. /\ y[1] <= y[2] /\ y[2] <= y[3] /\ y[3] <= y[4] /\ y[4] <= y[5]
      BY <1>5
    <3> QED BY SMT, <1>5, <2>1, <2>2, <2>3, <2>6, <2>7, <3>1, FiveDays
  <2>5. (\A i \in 2..n : y[i - 1] >= y[i]) => 15 * sum <= 48 * (y[5] + y[4] + y[3]) * 100000000
    <3> HAVE \A i \in 2..n : y[i - 1] >= y[i]
    <3>1. /\ y[1] >= y[2] /\ y[2] >= y[3] /\ y[3] >= y[4] /\ y[4] >= y[5]
      BY <1>5
    <3> QED BY SMT, <1>5, <2>1, <2>2, <2>3, <2>6, <2>7, <3>1, FiveDays
  <2> QED BY SMT, <1>5, <2>3, <2>4, <2>5
<1>6. CASE n = 6
  <2>1. /\ y[1] \in Int /\ y[2] \in Int /\ y[3] \in Int /\ y[4] \in Int
        /\ y[5] \in Int /\ y[6] \in Int /\ l[1] \in Int /\ l[2] \in Int
        /\ l[3] \in Int /\ l[4] \in Int /\ l[5] \in Int /\ l[6] \in Int
        /\ t[1] \in Int /\ t[2] \in Int /\ t[3] \in Int /\ t[4] \in Int
        /\ t[5] \in Int /\ t[6] \in Int
    BY <1>1, <1>6
  <2>2. /\ y[1] >= 1 /\ y[2] >= 1 /\ y[3] >= 1 /\ y[4] >= 1 /\ y[5] >= 1
        /\ y[6] >= 1 /\ y[1] + y[2] + y[3] + y[4] + y[5] + y[6] <= 10
    <3>1. /\ c[1] = c[0] + y[1] /\ c[2] = c[1] + y[2] /\ c[3] = c[2] + y[3]
          /\ c[4] = c[3] + y[4] /\ c[5] = c[4] + y[5] /\ c[6] = c[5] + y[6]
          /\ y[1] >= 1 /\ y[2] >= 1 /\ y[3] >= 1 /\ y[4] >= 1 /\ y[5] >= 1
          /\ y[6] >= 1 /\ c[1] \in Int /\ c[2] \in Int /\ c[3] \in Int
          /\ c[4] \in Int /\ c[5] \in Int /\ c[6] \in Int
      BY <1>1, <1>6
    <3>2. c[0] = 0 /\ c[6] <= 10
      BY <1>6 DEF Counting
    <3> QED BY <2>1, <3>1, <3>2
  <2>3. /\ Moves(l[1], t[1], 1, y[2], l[2], t[2])
        /\ Moves(l[2], t[2], 100, y[3], l[3], t[3])
        /\ Moves(l[3], t[3], 10000, y[4], l[4], t[4])
        /\ Moves(l[4], t[4], 1000000, y[5], l[5], t[5])
        /\ Moves(l[5], t[5], 100000000, y[6], l[6], t[6]) /\ d[6] = 10000000000
    <3>1. /\ d[1] = 1 /\ d[2] = 100 * d[1] /\ d[3] = 100 * d[2] /\ d[4] = 100 * d[3]
          /\ d[5] = 100 * d[4] /\ d[6] = 100 * d[5]
          /\ Moves(l[1], t[1], d[1], y[2], l[2], t[2])
          /\ Moves(l[2], t[2], d[2], y[3], l[3], t[3])
          /\ Moves(l[3], t[3], d[3], y[4], l[4], t[4])
          /\ Moves(l[4], t[4], d[4], y[5], l[5], t[5])
          /\ Moves(l[5], t[5], d[5], y[6], l[6], t[6])
      BY <1>6 DEF Smoothing
    <3>2. /\ d[1] = 1 /\ d[2] = 100 /\ d[3] = 10000 /\ d[4] = 1000000
          /\ d[5] = 100000000 /\ d[6] = 10000000000
      BY SMT, <3>1
    <3> QED BY SMT, <3>1, <3>2
  <2>6. l[1] = y[1] /\ t[1] = y[2] - y[1]
    BY DEF Smoothing
  <2>7. EightSteps(l[6], t[6], sum)
    BY <1>6
  <2>4. (\A i \in 2..n : y[i - 1] <= y[i]) => 15 * sum >= 32 * (y[6] + y[5] + y[4]) * 10000000000
    <3> HAVE \A i \in 2..n : y[i - 1] <= y[i]
    <3>1. /\ y[1] <= y[2] /\ y[2] <= y[3] /\ y[3] <= y[4] /\ y[4] <= y[5]
          /\ y[5] <= y[6]
      BY <1>6
    <3> QED BY SMT, <1>6, <2>1, <2>2, <2>3, <2>6, <2>7, <3>1, SixDays
  <2>5. (\A i \in 2..n : y[i - 1] >= y[i]) => 15 * sum <= 48 * (y[6] + y[5] + y[4]) * 10000000000
    <3> HAVE \A i \in 2..n : y[i - 1] >= y[i]
    <3>1. /\ y[1] >= y[2] /\ y[2] >= y[3] /\ y[3] >= y[4] /\ y[4] >= y[5]
          /\ y[5] >= y[6]
      BY <1>6
    <3> QED BY SMT, <1>6, <2>1, <2>2, <2>3, <2>6, <2>7, <3>1, SixDays
  <2> QED BY SMT, <1>6, <2>3, <2>4, <2>5
<1>7. CASE n = 7
  <2>1. /\ y[1] \in Int /\ y[2] \in Int /\ y[3] \in Int /\ y[4] \in Int
        /\ y[5] \in Int /\ y[6] \in Int /\ y[7] \in Int /\ l[1] \in Int
        /\ l[2] \in Int /\ l[3] \in Int /\ l[4] \in Int /\ l[5] \in Int
        /\ l[6] \in Int /\ l[7] \in Int /\ t[1] \in Int /\ t[2] \in Int
        /\ t[3] \in Int /\ t[4] \in Int /\ t[5] \in Int /\ t[6] \in Int
        /\ t[7] \in Int
    BY <1>1, <1>7
  <2>2. /\ y[1] >= 1 /\ y[2] >= 1 /\ y[3] >= 1 /\ y[4] >= 1 /\ y[5] >= 1
        /\ y[6] >= 1 /\ y[7] >= 1
        /\ y[1] + y[2] + y[3] + y[4] + y[5] + y[6] + y[7] <= 10
    <3>1. /\ c[1] = c[0] + y[1] /\ c[2] = c[1] + y[2] /\ c[3] = c[2] + y[3]
          /\ c[4] = c[3] + y[4] /\ c[5] = c[4] + y[5] /\ c[6] = c[5] + y[6]
          /\ c[7] = c[6] + y[7] /\ y[1] >= 1 /\ y[2] >= 1 /\ y[3] >= 1 /\ y[4] >= 1
          /\ y[5] >= 1 /\ y[6] >= 1 /\ y[7] >= 1 /\ c[1] \in Int /\ c[2] \in Int
          /\ c[3] \in Int /\ c[4] \in Int /\ c[5] \in Int /\ c[6] \in Int
          /\ c[7] \in Int
      BY <1>1, <1>7
    <3>2. c[0] = 0 /\ c[7] <= 10
      BY <1>7 DEF Counting
    <3> QED BY <2>1, <3>1, <3>2
  <2>3. /\ Moves(l[1], t[1], 1, y[2], l[2], t[2])
        /\ Moves(l[2], t[2], 100, y[3], l[3], t[3])
        /\ Moves(l[3], t[3], 10000, y[4], l[4], t[4])
        /\ Moves(l[4], t[4], 1000000, y[5], l[5], t[5])
        /\ Moves(l[5], t[5], 100000000, y[6], l[6], t[6])
        /\ Moves(l[6], t[6], 10000000000, y[7], l[7], t[7]) /\ d[7] = 1000000000000
    <3>1. /\ d[1] = 1 /\ d[2] = 100 * d[1] /\ d[3] = 100 * d[2] /\ d[4] = 100 * d[3]
          /\ d[5] = 100 * d[4] /\ d[6] = 100 * d[5] /\ d[7] = 100 * d[6]
          /\ Moves(l[1], t[1], d[1], y[2], l[2], t[2])
          /\ Moves(l[2], t[2], d[2], y[3], l[3], t[3])
          /\ Moves(l[3], t[3], d[3], y[4], l[4], t[4])
          /\ Moves(l[4], t[4], d[4], y[5], l[5], t[5])
          /\ Moves(l[5], t[5], d[5], y[6], l[6], t[6])
          /\ Moves(l[6], t[6], d[6], y[7], l[7], t[7])
      BY <1>7 DEF Smoothing
    <3>2. /\ d[1] = 1 /\ d[2] = 100 /\ d[3] = 10000 /\ d[4] = 1000000
          /\ d[5] = 100000000 /\ d[6] = 10000000000 /\ d[7] = 1000000000000
      BY SMT, <3>1
    <3> QED BY SMT, <3>1, <3>2
  <2>6. l[1] = y[1] /\ t[1] = y[2] - y[1]
    BY DEF Smoothing
  <2>7. EightSteps(l[7], t[7], sum)
    BY <1>7
  <2>4. (\A i \in 2..n : y[i - 1] <= y[i]) => 15 * sum >= 32 * (y[7] + y[6] + y[5]) * 1000000000000
    <3> HAVE \A i \in 2..n : y[i - 1] <= y[i]
    <3>1. /\ y[1] <= y[2] /\ y[2] <= y[3] /\ y[3] <= y[4] /\ y[4] <= y[5]
          /\ y[5] <= y[6] /\ y[6] <= y[7]
      BY <1>7
    <3> QED BY SMT, <1>7, <2>1, <2>2, <2>3, <2>6, <2>7, <3>1, SevenDays
  <2>5. (\A i \in 2..n : y[i - 1] >= y[i]) => 15 * sum <= 48 * (y[7] + y[6] + y[5]) * 1000000000000
    <3> HAVE \A i \in 2..n : y[i - 1] >= y[i]
    <3>1. /\ y[1] >= y[2] /\ y[2] >= y[3] /\ y[3] >= y[4] /\ y[4] >= y[5]
          /\ y[5] >= y[6] /\ y[6] >= y[7]
      BY <1>7
    <3> QED BY SMT, <1>7, <2>1, <2>2, <2>3, <2>6, <2>7, <3>1, SevenDays
  <2> QED BY SMT, <1>7, <2>3, <2>4, <2>5
<1>8. CASE n = 8
  <2>1. /\ y[1] \in Int /\ y[2] \in Int /\ y[3] \in Int /\ y[4] \in Int
        /\ y[5] \in Int /\ y[6] \in Int /\ y[7] \in Int /\ y[8] \in Int
        /\ l[1] \in Int /\ l[2] \in Int /\ l[3] \in Int /\ l[4] \in Int
        /\ l[5] \in Int /\ l[6] \in Int /\ l[7] \in Int /\ l[8] \in Int
        /\ t[1] \in Int /\ t[2] \in Int /\ t[3] \in Int /\ t[4] \in Int
        /\ t[5] \in Int /\ t[6] \in Int /\ t[7] \in Int /\ t[8] \in Int
    BY <1>1, <1>8
  <2>2. /\ y[1] >= 1 /\ y[2] >= 1 /\ y[3] >= 1 /\ y[4] >= 1 /\ y[5] >= 1
        /\ y[6] >= 1 /\ y[7] >= 1 /\ y[8] >= 1
        /\ y[1] + y[2] + y[3] + y[4] + y[5] + y[6] + y[7] + y[8] <= 10
    <3>1. /\ c[1] = c[0] + y[1] /\ c[2] = c[1] + y[2] /\ c[3] = c[2] + y[3]
          /\ c[4] = c[3] + y[4] /\ c[5] = c[4] + y[5] /\ c[6] = c[5] + y[6]
          /\ c[7] = c[6] + y[7] /\ c[8] = c[7] + y[8] /\ y[1] >= 1 /\ y[2] >= 1
          /\ y[3] >= 1 /\ y[4] >= 1 /\ y[5] >= 1 /\ y[6] >= 1 /\ y[7] >= 1
          /\ y[8] >= 1 /\ c[1] \in Int /\ c[2] \in Int /\ c[3] \in Int
          /\ c[4] \in Int /\ c[5] \in Int /\ c[6] \in Int /\ c[7] \in Int
          /\ c[8] \in Int
      BY <1>1, <1>8
    <3>2. c[0] = 0 /\ c[8] <= 10
      BY <1>8 DEF Counting
    <3> QED BY <2>1, <3>1, <3>2
  <2>3. /\ Moves(l[1], t[1], 1, y[2], l[2], t[2])
        /\ Moves(l[2], t[2], 100, y[3], l[3], t[3])
        /\ Moves(l[3], t[3], 10000, y[4], l[4], t[4])
        /\ Moves(l[4], t[4], 1000000, y[5], l[5], t[5])
        /\ Moves(l[5], t[5], 100000000, y[6], l[6], t[6])
        /\ Moves(l[6], t[6], 10000000000, y[7], l[7], t[7])
        /\ Moves(l[7], t[7], 1000000000000, y[8], l[8], t[8])
        /\ d[8] = 100000000000000
    <3>1. /\ d[1] = 1 /\ d[2] = 100 * d[1] /\ d[3] = 100 * d[2] /\ d[4] = 100 * d[3]
          /\ d[5] = 100 * d[4] /\ d[6] = 100 * d[5] /\ d[7] = 100 * d[6]
          /\ d[8] = 100 * d[7] /\ Moves(l[1], t[1], d[1], y[2], l[2], t[2])
          /\ Moves(l[2], t[2], d[2], y[3], l[3], t[3])
          /\ Moves(l[3], t[3], d[3], y[4], l[4], t[4])
          /\ Moves(l[4], t[4], d[4], y[5], l[5], t[5])
          /\ Moves(l[5], t[5], d[5], y[6], l[6], t[6])
          /\ Moves(l[6], t[6], d[6], y[7], l[7], t[7])
          /\ Moves(l[7], t[7], d[7], y[8], l[8], t[8])
      BY <1>8 DEF Smoothing
    <3>2. /\ d[1] = 1 /\ d[2] = 100 /\ d[3] = 10000 /\ d[4] = 1000000
          /\ d[5] = 100000000 /\ d[6] = 10000000000 /\ d[7] = 1000000000000
          /\ d[8] = 100000000000000
      BY SMT, <3>1
    <3> QED BY SMT, <3>1, <3>2
  <2>6. l[1] = y[1] /\ t[1] = y[2] - y[1]
    BY DEF Smoothing
  <2>7. EightSteps(l[8], t[8], sum)
    BY <1>8
  <2>4. (\A i \in 2..n : y[i - 1] <= y[i]) => 15 * sum >= 32 * (y[8] + y[7] + y[6]) * 100000000000000
    <3> HAVE \A i \in 2..n : y[i - 1] <= y[i]
    <3>1. /\ y[1] <= y[2] /\ y[2] <= y[3] /\ y[3] <= y[4] /\ y[4] <= y[5]
          /\ y[5] <= y[6] /\ y[6] <= y[7] /\ y[7] <= y[8]
      BY <1>8
    <3> QED BY SMT, <1>8, <2>1, <2>2, <2>3, <2>6, <2>7, <3>1, EightDays
  <2>5. (\A i \in 2..n : y[i - 1] >= y[i]) => 15 * sum <= 48 * (y[8] + y[7] + y[6]) * 100000000000000
    <3> HAVE \A i \in 2..n : y[i - 1] >= y[i]
    <3>1. /\ y[1] >= y[2] /\ y[2] >= y[3] /\ y[3] >= y[4] /\ y[4] >= y[5]
          /\ y[5] >= y[6] /\ y[6] >= y[7] /\ y[7] >= y[8]
      BY <1>8
    <3> QED BY SMT, <1>8, <2>1, <2>2, <2>3, <2>6, <2>7, <3>1, EightDays
  <2> QED BY SMT, <1>8, <2>3, <2>4, <2>5
<1>9. CASE n = 9
  <2>1. /\ y[1] \in Int /\ y[2] \in Int /\ y[3] \in Int /\ y[4] \in Int
        /\ y[5] \in Int /\ y[6] \in Int /\ y[7] \in Int /\ y[8] \in Int
        /\ y[9] \in Int /\ l[1] \in Int /\ l[2] \in Int /\ l[3] \in Int
        /\ l[4] \in Int /\ l[5] \in Int /\ l[6] \in Int /\ l[7] \in Int
        /\ l[8] \in Int /\ l[9] \in Int /\ t[1] \in Int /\ t[2] \in Int
        /\ t[3] \in Int /\ t[4] \in Int /\ t[5] \in Int /\ t[6] \in Int
        /\ t[7] \in Int /\ t[8] \in Int /\ t[9] \in Int
    BY <1>1, <1>9
  <2>2. /\ y[1] >= 1 /\ y[2] >= 1 /\ y[3] >= 1 /\ y[4] >= 1 /\ y[5] >= 1
        /\ y[6] >= 1 /\ y[7] >= 1 /\ y[8] >= 1 /\ y[9] >= 1
        /\ y[1] + y[2] + y[3] + y[4] + y[5] + y[6] + y[7] + y[8] + y[9] <= 10
    <3>1. /\ c[1] = c[0] + y[1] /\ c[2] = c[1] + y[2] /\ c[3] = c[2] + y[3]
          /\ c[4] = c[3] + y[4] /\ c[5] = c[4] + y[5] /\ c[6] = c[5] + y[6]
          /\ c[7] = c[6] + y[7] /\ c[8] = c[7] + y[8] /\ c[9] = c[8] + y[9]
          /\ y[1] >= 1 /\ y[2] >= 1 /\ y[3] >= 1 /\ y[4] >= 1 /\ y[5] >= 1
          /\ y[6] >= 1 /\ y[7] >= 1 /\ y[8] >= 1 /\ y[9] >= 1 /\ c[1] \in Int
          /\ c[2] \in Int /\ c[3] \in Int /\ c[4] \in Int /\ c[5] \in Int
          /\ c[6] \in Int /\ c[7] \in Int /\ c[8] \in Int /\ c[9] \in Int
      BY <1>1, <1>9
    <3>2. c[0] = 0 /\ c[9] <= 10
      BY <1>9 DEF Counting
    <3> QED BY <2>1, <3>1, <3>2
  <2>3. /\ Moves(l[1], t[1], 1, y[2], l[2], t[2])
        /\ Moves(l[2], t[2], 100, y[3], l[3], t[3])
        /\ Moves(l[3], t[3], 10000, y[4], l[4], t[4])
        /\ Moves(l[4], t[4], 1000000, y[5], l[5], t[5])
        /\ Moves(l[5], t[5], 100000000, y[6], l[6], t[6])
        /\ Moves(l[6], t[6], 10000000000, y[7], l[7], t[7])
        /\ Moves(l[7], t[7], 1000000000000, y[8], l[8], t[8])
        /\ Moves(l[8], t[8], 100000000000000, y[9], l[9], t[9])
        /\ d[9] = 10000000000000000
    <3>1. /\ d[1] = 1 /\ d[2] = 100 * d[1] /\ d[3] = 100 * d[2] /\ d[4] = 100 * d[3]
          /\ d[5] = 100 * d[4] /\ d[6] = 100 * d[5] /\ d[7] = 100 * d[6]
          /\ d[8] = 100 * d[7] /\ d[9] = 100 * d[8]
          /\ Moves(l[1], t[1], d[1], y[2], l[2], t[2])
          /\ Moves(l[2], t[2], d[2], y[3], l[3], t[3])
          /\ Moves(l[3], t[3], d[3], y[4], l[4], t[4])
          /\ Moves(l[4], t[4], d[4], y[5], l[5], t[5])
          /\ Moves(l[5], t[5], d[5], y[6], l[6], t[6])
          /\ Moves(l[6], t[6], d[6], y[7], l[7], t[7])
          /\ Moves(l[7], t[7], d[7], y[8], l[8], t[8])
          /\ Moves(l[8], t[8], d[8], y[9], l[9], t[9])
      BY <1>9 DEF Smoothing
    <3>2. /\ d[1] = 1 /\ d[2] = 100 /\ d[3] = 10000 /\ d[4] = 1000000
          /\ d[5] = 100000000 /\ d[6] = 10000000000 /\ d[7] = 1000000000000
          /\ d[8] = 100000000000000 /\ d[9] = 10000000000000000
      BY SMT, <3>1
    <3> QED BY SMT, <3>1, <3>2
  <2>6. l[1] = y[1] /\ t[1] = y[2] - y[1]
    BY DEF Smoothing
  <2>7. EightSteps(l[9], t[9], sum)
    BY <1>9
  <2>4. (\A i \in 2..n : y[i - 1] <= y[i]) => 15 * sum >= 32 * (y[9] + y[8] + y[7]) * 10000000000000000
    <3> HAVE \A i \in 2..n : y[i - 1] <= y[i]
    <3>1. /\ y[1] <= y[2] /\ y[2] <= y[3] /\ y[3] <= y[4] /\ y[4] <= y[5]
          /\ y[5] <= y[6] /\ y[6] <= y[7] /\ y[7] <= y[8] /\ y[8] <= y[9]
      BY <1>9
    <3> QED BY SMT, <1>9, <2>1, <2>2, <2>3, <2>6, <2>7, <3>1, NineDays
  <2>5. (\A i \in 2..n : y[i - 1] >= y[i]) => 15 * sum <= 48 * (y[9] + y[8] + y[7]) * 10000000000000000
    <3> HAVE \A i \in 2..n : y[i - 1] >= y[i]
    <3>1. /\ y[1] >= y[2] /\ y[2] >= y[3] /\ y[3] >= y[4] /\ y[4] >= y[5]
          /\ y[5] >= y[6] /\ y[6] >= y[7] /\ y[7] >= y[8] /\ y[8] >= y[9]
      BY <1>9
    <3> QED BY SMT, <1>9, <2>1, <2>2, <2>3, <2>6, <2>7, <3>1, NineDays
  <2> QED BY SMT, <1>9, <2>3, <2>4, <2>5
<1>10. CASE n = 10
  <2>1. /\ y[1] \in Int /\ y[2] \in Int /\ y[3] \in Int /\ y[4] \in Int
        /\ y[5] \in Int /\ y[6] \in Int /\ y[7] \in Int /\ y[8] \in Int
        /\ y[9] \in Int /\ y[10] \in Int /\ l[1] \in Int /\ l[2] \in Int
        /\ l[3] \in Int /\ l[4] \in Int /\ l[5] \in Int /\ l[6] \in Int
        /\ l[7] \in Int /\ l[8] \in Int /\ l[9] \in Int /\ l[10] \in Int
        /\ t[1] \in Int /\ t[2] \in Int /\ t[3] \in Int /\ t[4] \in Int
        /\ t[5] \in Int /\ t[6] \in Int /\ t[7] \in Int /\ t[8] \in Int
        /\ t[9] \in Int /\ t[10] \in Int
    BY <1>1, <1>10
  <2>2. /\ y[1] >= 1 /\ y[2] >= 1 /\ y[3] >= 1 /\ y[4] >= 1 /\ y[5] >= 1
        /\ y[6] >= 1 /\ y[7] >= 1 /\ y[8] >= 1 /\ y[9] >= 1 /\ y[10] >= 1
        /\ y[1] + y[2] + y[3] + y[4] + y[5] + y[6] + y[7] + y[8] + y[9] + y[10] <= 10
    <3>1. /\ c[1] = c[0] + y[1] /\ c[2] = c[1] + y[2] /\ c[3] = c[2] + y[3]
          /\ c[4] = c[3] + y[4] /\ c[5] = c[4] + y[5] /\ c[6] = c[5] + y[6]
          /\ c[7] = c[6] + y[7] /\ c[8] = c[7] + y[8] /\ c[9] = c[8] + y[9]
          /\ c[10] = c[9] + y[10] /\ y[1] >= 1 /\ y[2] >= 1 /\ y[3] >= 1
          /\ y[4] >= 1 /\ y[5] >= 1 /\ y[6] >= 1 /\ y[7] >= 1 /\ y[8] >= 1
          /\ y[9] >= 1 /\ y[10] >= 1 /\ c[1] \in Int /\ c[2] \in Int /\ c[3] \in Int
          /\ c[4] \in Int /\ c[5] \in Int /\ c[6] \in Int /\ c[7] \in Int
          /\ c[8] \in Int /\ c[9] \in Int /\ c[10] \in Int
      BY <1>1, <1>10
    <3>2. c[0] = 0 /\ c[10] <= 10
      BY <1>10 DEF Counting
    <3> QED BY <2>1, <3>1, <3>2
  <2>3. /\ Moves(l[1], t[1], 1, y[2], l[2], t[2])
        /\ Moves(l[2], t[2], 100, y[3], l[3], t[3])
        /\ Moves(l[3], t[3], 10000, y[4], l[4], t[4])
        /\ Moves(l[4], t[4], 1000000, y[5], l[5], t[5])
        /\ Moves(l[5], t[5], 100000000, y[6], l[6], t[6])
        /\ Moves(l[6], t[6], 10000000000, y[7], l[7], t[7])
        /\ Moves(l[7], t[7], 1000000000000, y[8], l[8], t[8])
        /\ Moves(l[8], t[8], 100000000000000, y[9], l[9], t[9])
        /\ Moves(l[9], t[9], 10000000000000000, y[10], l[10], t[10])
        /\ d[10] = 1000000000000000000
    <3>1. /\ d[1] = 1 /\ d[2] = 100 * d[1] /\ d[3] = 100 * d[2] /\ d[4] = 100 * d[3]
          /\ d[5] = 100 * d[4] /\ d[6] = 100 * d[5] /\ d[7] = 100 * d[6]
          /\ d[8] = 100 * d[7] /\ d[9] = 100 * d[8] /\ d[10] = 100 * d[9]
          /\ Moves(l[1], t[1], d[1], y[2], l[2], t[2])
          /\ Moves(l[2], t[2], d[2], y[3], l[3], t[3])
          /\ Moves(l[3], t[3], d[3], y[4], l[4], t[4])
          /\ Moves(l[4], t[4], d[4], y[5], l[5], t[5])
          /\ Moves(l[5], t[5], d[5], y[6], l[6], t[6])
          /\ Moves(l[6], t[6], d[6], y[7], l[7], t[7])
          /\ Moves(l[7], t[7], d[7], y[8], l[8], t[8])
          /\ Moves(l[8], t[8], d[8], y[9], l[9], t[9])
          /\ Moves(l[9], t[9], d[9], y[10], l[10], t[10])
      BY <1>10 DEF Smoothing
    <3>2. /\ d[1] = 1 /\ d[2] = 100 /\ d[3] = 10000 /\ d[4] = 1000000
          /\ d[5] = 100000000 /\ d[6] = 10000000000 /\ d[7] = 1000000000000
          /\ d[8] = 100000000000000 /\ d[9] = 10000000000000000
          /\ d[10] = 1000000000000000000
      BY SMT, <3>1
    <3> QED BY SMT, <3>1, <3>2
  <2>6. l[1] = y[1] /\ t[1] = y[2] - y[1]
    BY DEF Smoothing
  <2>7. EightSteps(l[10], t[10], sum)
    BY <1>10
  <2>4. (\A i \in 2..n : y[i - 1] <= y[i]) => 15 * sum >= 32 * (y[10] + y[9] + y[8]) * 1000000000000000000
    <3> HAVE \A i \in 2..n : y[i - 1] <= y[i]
    <3>1. /\ y[1] <= y[2] /\ y[2] <= y[3] /\ y[3] <= y[4] /\ y[4] <= y[5]
          /\ y[5] <= y[6] /\ y[6] <= y[7] /\ y[7] <= y[8] /\ y[8] <= y[9]
          /\ y[9] <= y[10]
      BY <1>10
    <3> QED BY SMT, <1>10, <2>1, <2>2, <2>3, <2>6, <2>7, <3>1, TenDays
  <2>5. (\A i \in 2..n : y[i - 1] >= y[i]) => 15 * sum <= 48 * (y[10] + y[9] + y[8]) * 1000000000000000000
    <3> HAVE \A i \in 2..n : y[i - 1] >= y[i]
    <3>1. /\ y[1] >= y[2] /\ y[2] >= y[3] /\ y[3] >= y[4] /\ y[4] >= y[5]
          /\ y[5] >= y[6] /\ y[6] >= y[7] /\ y[7] >= y[8] /\ y[8] >= y[9]
          /\ y[9] >= y[10]
      BY <1>10
    <3> QED BY SMT, <1>10, <2>1, <2>2, <2>3, <2>6, <2>7, <3>1, TenDays
  <2> QED BY SMT, <1>10, <2>3, <2>4, <2>5
<1> QED BY <1>3, <1>4, <1>5, <1>6, <1>7, <1>8, <1>9, <1>10

\* The daily counts of some events add up to their number, and none is empty.
LEMMA CountsAddUp ==
  ASSUME NEW events \in Seq(Event)
  PROVE  LET n == Len(DailyCounts(events))
         IN  \E c \in [0..n -> Int] :
               /\ Counting(n, DailyCounts(events), c)
               /\ c[n] <= Len(events) /\ n <= Len(events)
<1> DEFINE y == DailyCounts(events)
           n == Len(y)
           D == DOMAIN events
<1>1. y \in Seq(Int)
  BY CountsOfDays
<1>2. PICK day : /\ day \in [DOMAIN y -> Days(events)]
                 /\ \A d, e \in DOMAIN y : d < e => day[d] < day[e]
                 /\ \A d \in DOMAIN y : y[d] = Cardinality(OnDay(events, day[d]))
  BY CountsOfDays
<1> HIDE DEF y
<1>3. n \in Nat /\ DOMAIN y = 1..n /\ \A i \in 1..n : y[i] \in Int
  BY <1>1
<1>4. D = 1..Len(events) /\ Len(events) \in Nat /\ IsFiniteSet(D) /\ Cardinality(D) = Len(events)
  <2> DEFINE k == Len(events)
  <2>1. D = 1..k /\ k \in Nat
    OBVIOUS
  <2> HIDE DEF k, D
  <2>2. IsFiniteSet(D) /\ Cardinality(D) = k
    BY <2>1, FS_Interval
  <2> QED BY <2>1, <2>2 DEF k
<1> DEFINE Upto(k) == {i \in D : \E e \in 1..k : DayOf(events[i]) = day[e]}
           c == [k \in 0..n |-> Cardinality(Upto(k))]
<1>5. \A k : IsFiniteSet(Upto(k)) /\ Cardinality(Upto(k)) \in Nat /\ Cardinality(Upto(k)) <= Len(events)
  <2> TAKE k
  <2>1. Upto(k) \in SUBSET D
    OBVIOUS
  <2> HIDE DEF Upto, D
  <2> QED BY <1>4, <2>1, FS_Subset, FS_CardinalityType
<1> HIDE DEF n
<1>6. c \in [0..n -> Int]
  <2> HIDE DEF Upto
  <2> QED BY <1>5
<1>7. c[0] = 0
  <2>1. Upto(0) = {}
    OBVIOUS
  <2>2. c[0] = Cardinality(Upto(0))
    <3>1. 0 \in 0..n
      BY <1>3
    <3> HIDE DEF Upto
    <3> QED BY <3>1
  <2> HIDE DEF c, Upto
  <2> QED BY <2>1, <2>2, FS_EmptySet
<1>8. ASSUME NEW i \in 1..n
      PROVE  y[i] >= 1 /\ c[i] = c[i - 1] + y[i]
  <2> DEFINE new == OnDay(events, day[i])
             before == Upto(i - 1)
  <2>1. i \in Nat /\ i \in 0..n /\ i - 1 \in 0..n /\ i \in DOMAIN y /\ i \in 1..i
    BY <1>3
  <2>2. new \in SUBSET D /\ new # {}
    <3>1. day[i] \in Days(events)
      BY <1>2, <2>1
    <3> QED BY <3>1 DEF Days, OnDay
  <2>3. IsFiniteSet(new) /\ Cardinality(new) \in Nat /\ Cardinality(new) # 0
    <3> HIDE DEF new, D
    <3> QED BY <1>4, <2>2, FS_Subset, FS_CardinalityType, FS_EmptySet
  <2>4. Upto(i) = before \cup new
    <3>1. \A e \in 1..i : e \in 1..(i - 1) \/ e = i
      BY <2>1
    <3>2. \A e \in 1..(i - 1) : e \in 1..i
      BY <2>1
    <3> QED BY <2>1, <3>1, <3>2 DEF OnDay
  <2>5. before \cap new = {}
    <3> SUFFICES ASSUME NEW x \in before, x \in new PROVE FALSE
      OBVIOUS
    <3>1. PICK e \in 1..(i - 1) : DayOf(events[x]) = day[e]
      OBVIOUS
    <3>2. DayOf(events[x]) = day[i] /\ x \in D
      BY DEF OnDay
    <3>3. e \in DOMAIN y /\ e < i
      BY <1>3, <2>1
    <3>4. day[e] < day[i]
      BY <1>2, <2>1, <3>3
    <3>5. day[i] \in Int
      BY <3>2, EventTimes, QueriesAssumption DEF DayOf
    <3> QED BY <3>1, <3>2, <3>4, <3>5
  <2>6. Cardinality(Upto(i)) = Cardinality(before) + Cardinality(new)
    <3> DEFINE both == before \cap new
    <3>1. IsFiniteSet(before) /\ Cardinality(before) \in Nat
      BY <1>5
    <3> HIDE DEF before, new
    <3>2. Cardinality(before \cup new) = Cardinality(before) + Cardinality(new) - Cardinality(both)
      BY <2>3, <3>1, FS_Union
    <3>3. Cardinality(both) = 0
      BY <2>5, FS_EmptySet
    <3> HIDE DEF Upto
    <3> QED BY <2>3, <2>4, <3>1, <3>2, <3>3
  <2>7. y[i] = Cardinality(new)
    BY <1>2, <2>1
  <2>8. c[i] = Cardinality(Upto(i)) /\ c[i - 1] = Cardinality(before)
    BY <2>1
  <2> HIDE DEF c, before, new, Upto
  <2> QED BY <2>3, <2>6, <2>7, <2>8
<1>9. c[n] <= Len(events)
  <2>1. n \in 0..n
    BY <1>3
  <2> HIDE DEF Upto
  <2> QED BY <1>5, <2>1
<1> HIDE DEF c
<1>10. n <= c[n]
  <2> DEFINE T == {k \in Nat : k <= n => k <= c[k]}
  <2>1. 0 \in T
    BY <1>7
  <2>2. ASSUME NEW k \in Nat, k \in T PROVE k + 1 \in T
    <3> SUFFICES ASSUME k + 1 <= n PROVE k + 1 <= c[k + 1]
      OBVIOUS
    <3>1. k + 1 \in 1..n /\ k + 1 - 1 = k /\ k \in 0..n /\ k <= c[k]
      BY <1>3, <2>2
    <3>2. y[k + 1] >= 1 /\ c[k + 1] = c[k] + y[k + 1]
      BY <1>8, <3>1
    <3> QED BY <1>3, <1>6, <3>1, <3>2
  <2> HIDE DEF T
  <2>3. n \in T
    BY <1>3, <2>1, <2>2, SetInduction
  <2> QED BY <2>3, <1>3 DEF T
<1>11. n <= Len(events)
  <2>1. c[n] \in Int
    BY <1>3, <1>6
  <2> QED BY <1>3, <1>4, <1>9, <1>10, <2>1
<1>12. Counting(n, y, c)
  BY <1>7, <1>8 DEF Counting
<1> QED BY <1>6, <1>9, <1>11, <1>12 DEF y, n

\* The direction that is forecast from counts that add up to at most ten.
LEMMA DirectionFollows ==
  ASSUME NEW y \in Seq(Int), NEW c \in [0..Len(y) -> Int],
         Counting(Len(y), y, c), c[Len(y)] <= 10, Len(y) <= 10
  PROVE  /\ (\A i \in 2..Len(y) : y[i] >= y[i - 1]) => Direction(y) # "falling"
         /\ (\A i \in 2..Len(y) : y[i] <= y[i - 1]) => Direction(y) # "rising"
<1> DEFINE n == Len(y)
           s == Smooth(y)
           recent == y[n] + y[n - 1] + y[n - 2]
           f == [i \in 1..8 |-> ForecastAt(s, i)]
           coming == Total(f)
<1>1. Direction(y) = CASE n < 3 -> "stable"
                       [] n >= 3 /\ 5 * 3 * coming > 6 * 8 * recent * s.den -> "rising"
                       [] n >= 3 /\ 5 * 3 * coming < 4 * 8 * recent * s.den -> "falling"
                       [] OTHER -> "stable"
  BY DEF Direction
<1>2. n \in Nat /\ y \in [1..n -> Int] /\ n <= 10
  OBVIOUS
<1>3. CASE n < 3
  <2> HIDE DEF s, recent, coming
  <2>1. ~(n >= 3)
    BY <1>2, <1>3
  <2>2. Direction(y) = "stable"
    BY <1>1, <1>3, <2>1
  <2> QED BY <2>2
<1>4. CASE n >= 3
  <2>1. n \in 3..10 /\ n \in 1..n /\ n - 1 \in 1..n /\ n - 2 \in 1..n
    <3> HIDE DEF n
    <3> QED BY <1>2, <1>4
  <2>2. PICK l \in [1..n -> Int], t \in [1..n -> Int], d \in [1..n -> Int] :
          /\ Smoothing(n, y, l, t, d)
          /\ s = [level |-> l[n], trend |-> t[n], den |-> d[n]]
    <3>1. Len(y) >= 2
      BY <1>2, <1>4
    <3> HIDE DEF s
    <3> QED BY <3>1, SmoothUnfolds DEF s
  <2> HIDE DEF s
  <2>3. l[n] \in Int /\ t[n] \in Int /\ d[n] \in Int
    BY <2>1
  <2>4. \A i \in 1..8 : ForecastAt(s, i) = Clipped(l[n], t[n], i)
    BY <2>2 DEF ForecastAt, Clipped
  <2>5. f \in [1..8 -> Int] /\ coming = Clipped(l[n], t[n], 1) + Clipped(l[n], t[n], 2)
          + Clipped(l[n], t[n], 3) + Clipped(l[n], t[n], 4) + Clipped(l[n], t[n], 5)
          + Clipped(l[n], t[n], 6) + Clipped(l[n], t[n], 7) + Clipped(l[n], t[n], 8)
    <3>1. \A i \in 1..8 : ForecastAt(s, i) \in Int
      <4> DEFINE level == l[n]
                 trend == t[n]
      <4>1. level \in Int /\ trend \in Int
        BY <2>3
      <4> HIDE DEF level, trend
      <4>2. \A i \in 1..8 : i * trend \in Int
        <5> TAKE i \in 1..8
        <5>1. i \in Int
          OBVIOUS
        <5> QED BY <4>1, <5>1, TimesType DEF Times
      <4>3. \A i \in 1..8 : Clipped(level, trend, i) \in Int
        BY <4>1, <4>2 DEF Clipped
      <4> QED BY <2>4, <4>3 DEF level, trend
    <3>2. f \in [1..8 -> Int]
      BY <3>1
    <3>3. \A i \in 1..8 : f[i] = Clipped(l[n], t[n], i)
      BY <2>4
    <3> HIDE DEF f
    <3>4. coming = f[1] + f[2] + f[3] + f[4] + f[5] + f[6] + f[7] + f[8]
      BY <3>2, TotalOfEight
    <3> QED BY <3>2, <3>3, <3>4
  <2>6. \A i \in 1..8 : Clipped(l[n], t[n], i) \in Int
    <3> HIDE DEF coming
    <3> QED BY <2>4, <2>5
  <2> HIDE DEF coming, f
  <2>7. coming \in Int /\ EightSteps(l[n], t[n], coming)
    <3> DEFINE a1 == Clipped(l[n], t[n], 1)
               a2 == Clipped(l[n], t[n], 2)
               a3 == Clipped(l[n], t[n], 3)
               a4 == Clipped(l[n], t[n], 4)
               a5 == Clipped(l[n], t[n], 5)
               a6 == Clipped(l[n], t[n], 6)
               a7 == Clipped(l[n], t[n], 7)
               a8 == Clipped(l[n], t[n], 8)
    <3>1. /\ a1 \in Int /\ a2 \in Int /\ a3 \in Int /\ a4 \in Int
          /\ a5 \in Int /\ a6 \in Int /\ a7 \in Int /\ a8 \in Int
      BY <2>6
    <3>2. coming = a1 + a2 + a3 + a4 + a5 + a6 + a7 + a8
      BY <2>5
    <3> HIDE DEF a1, a2, a3, a4, a5, a6, a7, a8
    <3>3. coming \in Int
      BY <3>1, <3>2
    <3>4. a1 + a2 + a3 + a4 + a5 + a6 + a7 + a8 - coming = 0
      BY <3>1, <3>2, <3>3
    <3> QED BY <3>3, <3>4 DEF EightSteps, a1, a2, a3, a4, a5, a6, a7, a8
  <2>8. c[n] <= 10 /\ Counting(n, y, c) /\ c \in [0..n -> Int]
    OBVIOUS
  <2> HIDE DEF n
  <2>9. /\ (\A i \in 2..n : y[i - 1] <= y[i]) => 15 * coming >= 32 * recent * d[n]
        /\ (\A i \in 2..n : y[i - 1] >= y[i]) => 15 * coming <= 48 * recent * d[n]
    BY <1>2, <2>1, <2>2, <2>7, <2>8, FollowsUpToTen
  <2>10. recent \in Int
    BY SMTT(40), <1>2, <2>1
  <2> HIDE DEF recent
  <2>11. /\ 5 * 3 * coming = 15 * coming
         /\ 6 * 8 * recent * s.den = 48 * recent * d[n]
         /\ 4 * 8 * recent * s.den = 32 * recent * d[n]
    BY <2>2
  <2>12. 48 * recent * d[n] \in Int /\ 32 * recent * d[n] \in Int /\ 15 * coming \in Int
    <3> DEFINE a == 48 * recent
               b == 32 * recent
               e == d[n]
    <3>1. a \in Int /\ b \in Int /\ e \in Int
      BY <2>3, <2>10
    <3> HIDE DEF a, b, e
    <3>2. a * e \in Int /\ b * e \in Int
      BY <3>1, TimesType DEF Times
    <3> QED BY <2>7, <3>2 DEF a, b, e
  <2> DEFINE sum == 15 * coming
             upper == 48 * recent * d[n]
             lower == 32 * recent * d[n]
  <2>13. /\ sum \in Int /\ upper \in Int /\ lower \in Int
         /\ (\A i \in 2..n : y[i - 1] <= y[i]) => sum >= lower
         /\ (\A i \in 2..n : y[i - 1] >= y[i]) => sum <= upper
         /\ Direction(y) = CASE n < 3 -> "stable"
                             [] n >= 3 /\ sum > upper -> "rising"
                             [] n >= 3 /\ sum < lower -> "falling"
                             [] OTHER -> "stable"
    BY <1>1, <2>9, <2>11, <2>12
  <2> HIDE DEF sum, upper, lower
  <2>14. ~(n < 3)
    BY <1>2, <1>4
  <2>15. ASSUME \A i \in 2..n : y[i] >= y[i - 1] PROVE Direction(y) # "falling"
    <3>1. \A i \in 2..n : y[i - 1] <= y[i]
      BY <1>2, <2>15
    <3>2. ~(sum < lower)
      BY <2>13, <3>1
    <3> QED BY <2>13, <2>14, <3>2
  <2>16. ASSUME \A i \in 2..n : y[i] <= y[i - 1] PROVE Direction(y) # "rising"
    <3>1. \A i \in 2..n : y[i - 1] >= y[i]
      BY <1>2, <2>16
    <3>2. ~(sum > upper)
      BY <2>13, <3>1
    <3> QED BY <2>13, <2>14, <3>2
  <2> QED BY <2>15, <2>16 DEF n
<1> QED BY <1>2, <1>3, <1>4

-----------------------------------------------------------------------------
(* The forecast follows the counts                                         *)

\* What the cut at some event leaves.
LEMMA CutLength ==
  ASSUME NEW events \in Seq(Event), NEW k \in 0..Len(events)
  PROVE  SubSeq(events, 1, k) \in Seq(Event) /\ Len(SubSeq(events, 1, k)) = k
<1>1. Len(events) \in Nat /\ k \in Nat /\ \A i \in 1..k : events[i] \in Event
  OBVIOUS
<1>2. /\ SubSeq(events, 1, k) \in Seq(Event)
      /\ Len(SubSeq(events, 1, k)) = IF 1 <= k THEN k - 1 + 1 ELSE 0
  BY <1>1, SubSeqProperties
<1> QED BY <1>1, <1>2

\* The history that the forecast reads is reversed twice.
LEMMA ReversedTwice ==
  ASSUME NEW y \in Seq(Int)
  PROVE  Chronological(Reverse(y)) = y
<1> DEFINE n == Len(y)
           z == Reverse(y)
<1>1. n \in Nat /\ y \in [1..n -> Int]
  OBVIOUS
<1>2. z = [i \in 1..n |-> y[n - i + 1]]
  BY DEF Reverse
<1> HIDE DEF n, z
<1>3. Len(z) = n
  BY <1>1, <1>2
<1>4. Reverse(z) = [i \in 1..n |-> z[n - i + 1]]
  BY <1>3 DEF Reverse
<1>5. \A i \in 1..n : n - i + 1 \in 1..n /\ n - (n - i + 1) + 1 = i
  BY <1>1
<1>6. \A i \in 1..n : z[n - i + 1] = y[i]
  BY <1>2, <1>5
<1>7. Reverse(z) = y
  BY <1>1, <1>4, <1>6
<1> QED BY <1>7 DEF Chronological, z

\* Only one query answers with predictions.
LEMMA OnlyPredictions == QueriesNext => GetPredictions \/ answer'.kind # "predictions"
<1>1. ASSUME NEW thread \in Threads, NEW t \in 0..MaxTime, StoreCheckpoint(thread, t)
      PROVE  answer'.kind # "predictions"
  BY <1>1 DEF StoreCheckpoint, NoAnswer
<1>2. GetPatterns => answer'.kind # "predictions"
  BY DEF GetPatterns
<1>3. ASSUME NEW words \in SUBSET Words, NEW k \in TopK, SuggestRunbook(words, k)
      PROVE  answer'.kind # "predictions"
  BY <1>3 DEF SuggestRunbook
<1> QED BY <1>1, <1>2, <1>3 DEF QueriesNext

\* The one query that answers with directions.
LEMMA PredictionsFollow ==
  ASSUME MaxMembers <= 10, store \in Seq(Event), NewestFirst(store), GetPredictions
  PROVE  ForecastFollows'
<1>1. /\ answer'.clusters = ClusterEvents(store)
      /\ answer'.directions = [id \in DOMAIN ClusterEvents(store) |->
           Direction(Chronological(Reverse(DailyCounts(ClusterEvents(store)[id].members))))]
  BY DEF GetPredictions
<1>2. ASSUME NEW id \in DOMAIN answer'.clusters
      PROVE  LET y == DailyCounts(answer'.clusters[id].members)
             IN  /\ (\A d \in 2..Len(y) : y[d] >= y[d - 1]) => answer'.directions[id] # "falling"
                 /\ (\A d \in 2..Len(y) : y[d] <= y[d - 1]) => answer'.directions[id] # "rising"
  <2> DEFINE c == ClusterEvents(store)[id]
             y == DailyCounts(c.members)
  <2>1. id \in DOMAIN ClusterEvents(store) /\ answer'.clusters[id] = c
    BY <1>1, <1>2
  <2>2. /\ c.events \in Seq(Event)
        /\ \E k \in 0..Len(c.events) : c.members = SubSeq(c.events, 1, k) /\ k <= MaxMembers
    BY <2>1, ClusterFits
  <2>3. answer'.directions[id] = Direction(Chronological(Reverse(y)))
    BY <1>1, <2>1
  <2> HIDE DEF c
  <2>4. c.members \in Seq(Event) /\ Len(c.members) <= 10
    <3>1. PICK k \in 0..Len(c.events) : c.members = SubSeq(c.events, 1, k) /\ k <= MaxMembers
      BY <2>2
    <3>2. c.members \in Seq(Event) /\ Len(c.members) = k
      BY <2>2, <3>1, CutLength
    <3>3. k \in Int
      BY <2>2
    <3> QED BY <3>1, <3>2, <3>3, QueriesAssumption
  <2>5. y \in Seq(Int)
    BY <2>4, CountsOfDays
  <2>6. PICK count \in [0..Len(y) -> Int] :
          Counting(Len(y), y, count) /\ count[Len(y)] <= Len(c.members) /\ Len(y) <= Len(c.members)
    BY <2>4, CountsAddUp
  <2> HIDE DEF y
  <2>7. count[Len(y)] <= 10 /\ Len(y) <= 10
    <3>1. Len(y) \in Nat /\ Len(y) \in 0..Len(y) /\ Len(c.members) \in Nat
      BY <2>4, <2>5
    <3>2. count[Len(y)] \in Int
      BY <3>1
    <3> QED BY <2>4, <2>6, <3>1, <3>2
  <2>8. Direction(Chronological(Reverse(y))) = Direction(y)
    BY <2>5, ReversedTwice
  <2>9. /\ (\A i \in 2..Len(y) : y[i] >= y[i - 1]) => Direction(y) # "falling"
        /\ (\A i \in 2..Len(y) : y[i] <= y[i - 1]) => Direction(y) # "rising"
    BY <2>5, <2>6, <2>7, DirectionFollows
  <2> QED BY <2>1, <2>3, <2>8, <2>9 DEF y
<1> QED BY <1>2 DEF ForecastFollows

\* The invariant behind ForecastFollows.
ForecastInv == store \in Seq(Event) /\ NewestFirst(store) /\ ForecastFollows

\* Every step keeps it.
LEMMA StepForecasts ==
  MaxMembers <= 10 => (ForecastInv /\ [QueriesNext]_queryVars => ForecastInv')
<1> SUFFICES ASSUME MaxMembers <= 10, ForecastInv, [QueriesNext]_queryVars PROVE ForecastInv'
  OBVIOUS
<1>1. CASE UNCHANGED queryVars
  BY <1>1 DEF ForecastInv, queryVars, ForecastFollows, NewestFirst
<1>2. CASE QueriesNext
  <2>1. store' \in Seq(Event) /\ NewestFirst(store')
    BY <1>2, StoreGrows, StoreOrdered DEF ForecastInv
  <2>2. CASE GetPredictions
    BY <2>1, <2>2, PredictionsFollow DEF ForecastInv, NewestFirst
  <2>3. CASE answer'.kind # "predictions"
    BY <2>1, <2>3 DEF ForecastInv, ForecastFollows, NewestFirst
  <2>4. GetPredictions \/ answer'.kind # "predictions"
    BY <1>2, OnlyPredictions
  <2> QED BY <2>2, <2>3, <2>4
<1> QED BY <1>1, <1>2

\* get_predictions does not forecast against the counts: for the cut at ten
\* members that cluster_events makes, a cluster whose daily counts never fall
\* is not forecast to fall, and one whose counts never rise is not forecast
\* to rise, whatever is stored.
THEOREM ForecastFollowsHolds == MaxMembers <= 10 => (QueriesSpec => []ForecastFollows)
<1> SUFFICES ASSUME MaxMembers <= 10 PROVE QueriesSpec => []ForecastFollows
  OBVIOUS
<1>1. QueriesInit => ForecastInv
  BY DEF QueriesInit, ForecastInv, ForecastFollows, NoAnswer, NewestFirst
<1>2. ForecastInv /\ [QueriesNext]_queryVars => ForecastInv'
  BY StepForecasts
<1>3. ForecastInv => ForecastFollows
  BY DEF ForecastInv
<1> QED BY <1>1, <1>2, <1>3, PTL DEF QueriesSpec
=============================================================================
