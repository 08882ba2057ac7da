------------------------------ MODULE Tripwire ------------------------------
(***************************************************************************)
(* The log sidecar of tools/tripwire.py: TripwireDaemon follows one log    *)
(* file, collects max_buffer_lines lines from each line that matches the   *)
(* error pattern, and dispatches them in tasks of their own; a             *)
(* DebounceCapacitor drops messages it has let through less than ttl ago.  *)
(*                                                                         *)
(* A line is its number in the file and what it says: a member of Errors,  *)
(* or Info for every text that does not match.  Ages stop at TTL, from     *)
(* where on the cache treats an entry as absent (_cleanup deletes it).     *)
(***************************************************************************)
EXTENDS Naturals, Sequences

CONSTANTS
  Errors,     (* error lines, as the capacitor tells them apart            *)
  Info,       (* every other line                                          *)
  MaxBuffer,  (* config.max_buffer_lines                                   *)
  TTL,        (* config.debounce_ttl, in ticks                             *)
  MaxLines    (* bound: lines written to the log                           *)

ASSUME TripwireAssumption ==
  /\ MaxBuffer \in Nat /\ MaxBuffer > 1
  /\ TTL \in Nat \ {0}
  /\ MaxLines \in Nat
  /\ Info \notin Errors

VARIABLES
  nextLine,        (* number of the line readline returns next             *)
  is_capturing,
  capture_buffer,  (* the lines captured so far                            *)
  tasks,           (* every dispatch_alert task, in order of creation      *)
  cache,           (* DebounceCapacitor._cache: age of each entry          *)
  sinceSent        (* history: time since a POST of each error began       *)

vars == <<nextLine, is_capturing, capture_buffer, tasks, cache, sinceSent>>

Line == [number : 1..MaxLines, text : Errors \cup {Info}]

\* "created", then either "suppressed" or "posting", which ends "ok" or
\* "failed".  open: the session the task was given is not closed.
TaskState == {"created", "suppressed", "posting", "ok", "failed"}
Task == [lines : Seq(Line), st : TaskState, open : BOOLEAN]

ErrorOf(task) == task.lines[1].text

Init ==
  /\ nextLine = 1
  /\ is_capturing = FALSE
  /\ capture_buffer = <<>>
  /\ tasks = <<>>
  /\ cache = [e \in Errors |-> TTL]
  /\ sinceSent = [e \in Errors |-> TTL]

-----------------------------------------------------------------------------
(* tail_and_parse                                                          *)

\* Mutant: the buffer is not emptied after a dispatch.
DispatchKeepsBuffer(lines) ==
  /\ tasks' = Append(tasks, [lines |-> lines, st |-> "created", open |-> TRUE])
  /\ is_capturing' = FALSE
  /\ capture_buffer' = lines

\* asyncio.create_task(dispatch_alert(...)) with the full buffer.
Dispatch(lines) ==
  /\ tasks' = Append(tasks, [lines |-> lines, st |-> "created", open |-> TRUE])
  /\ is_capturing' = FALSE
  /\ capture_buffer' = <<>>

\* Inside a capture every line is taken, error or not.
Capture(line) ==
  LET lines == Append(capture_buffer, line) IN
  IF Len(lines) >= MaxBuffer THEN Dispatch(lines)
  ELSE capture_buffer' = lines /\ UNCHANGED <<tasks, is_capturing>>

ReadLine(text) ==
  LET line == [number |-> nextLine, text |-> text] IN
  /\ nextLine <= MaxLines
  /\ nextLine' = nextLine + 1
  /\ IF is_capturing THEN Capture(line)
     ELSE IF text \in Errors
       THEN /\ is_capturing' = TRUE
            /\ capture_buffer' = <<line>>
            /\ UNCHANGED tasks
     ELSE UNCHANGED <<is_capturing, capture_buffer, tasks>>
  /\ UNCHANGED <<cache, sinceSent>>

\* An exception while reading (the file vanished, a line is not text): run
\* waits and calls tail_and_parse again, which seeks to the end of the file
\* and opens a new session.  The capture goes on where it was; tasks that
\* still hold the old session fail.
Restart ==
  /\ nextLine' \in nextLine..(MaxLines + 1)
  /\ tasks' = [i \in DOMAIN tasks |-> [tasks[i] EXCEPT !.open = FALSE]]
  /\ UNCHANGED <<is_capturing, capture_buffer, cache, sinceSent>>

-----------------------------------------------------------------------------
(* dispatch_alert                                                          *)

SetState(i, st) == tasks' = [tasks EXCEPT ![i].st = st]

\* The event loop starts tasks in the order of their creation.
Starts(i) ==
  /\ tasks[i].st = "created"
  /\ \A j \in 1..(i - 1) : tasks[j].st # "created"

\* is_suppressed, its test.
IsSuppressed(e) == cache[e] < TTL

\* Mutant: an occurrence that is dropped counts as the latest one.
SuppressRefreshes(i) ==
  /\ Starts(i)
  /\ IsSuppressed(ErrorOf(tasks[i]))
  /\ SetState(i, "suppressed")
  /\ cache' = [cache EXCEPT ![ErrorOf(tasks[i])] = 0]
  /\ UNCHANGED <<nextLine, is_capturing, capture_buffer, sinceSent>>

Suppress(i) ==
  /\ Starts(i)
  /\ IsSuppressed(ErrorOf(tasks[i]))
  /\ SetState(i, "suppressed")
  /\ UNCHANGED <<nextLine, is_capturing, capture_buffer, cache, sinceSent>>

\* The entry is made before the POST, which fails at once on a closed session.
Post(i) ==
  /\ Starts(i)
  /\ ~IsSuppressed(ErrorOf(tasks[i]))
  /\ cache' = [cache EXCEPT ![ErrorOf(tasks[i])] = 0]
  /\ sinceSent' = [sinceSent EXCEPT ![ErrorOf(tasks[i])] = 0]
  /\ SetState(i, IF tasks[i].open THEN "posting" ELSE "failed")
  /\ UNCHANGED <<nextLine, is_capturing, capture_buffer>>

\* Mutant: without a timeout a POST waits for an answer, however long.
AnswerAwaited(i) ==
  /\ tasks[i].st = "posting"
  /\ tasks[i].open /\ SetState(i, "ok")
  /\ UNCHANGED <<nextLine, is_capturing, capture_buffer, cache, sinceSent>>

\* An answer, which only the log records, or an exception: a timeout, a
\* refused connection, a closed session.
Answer(i) ==
  /\ tasks[i].st = "posting"
  /\ \/ tasks[i].open /\ SetState(i, "ok")
     \/ SetState(i, "failed")
  /\ UNCHANGED <<nextLine, is_capturing, capture_buffer, cache, sinceSent>>

-----------------------------------------------------------------------------

Older(age) == [e \in Errors |-> IF age[e] < TTL THEN age[e] + 1 ELSE TTL]

Tick ==
  /\ cache' = Older(cache)
  /\ sinceSent' = Older(sinceSent)
  /\ UNCHANGED <<nextLine, is_capturing, capture_buffer, tasks>>

Daemon == \E i \in DOMAIN tasks : Suppress(i) \/ Post(i) \/ Answer(i)

Next ==
  \/ \E text \in Errors \cup {Info} : ReadLine(text)
  \/ Restart
  \/ Daemon
  \/ Tick

Spec == Init /\ [][Next]_vars

\* The event loop runs every task and a POST has a timeout.  Nobody is
\* obliged to write a line.
FairSpec == Spec /\ WF_vars(Daemon)

-----------------------------------------------------------------------------
(* Properties                                                              *)

\* Types; the buffer is dispatched before it is full.
TypeOK ==
  /\ nextLine \in 1..(MaxLines + 1)
  /\ is_capturing \in BOOLEAN
  /\ capture_buffer \in Seq(Line) /\ Len(capture_buffer) < MaxBuffer
  /\ tasks \in Seq(Task)
  /\ cache \in [Errors -> 0..TTL]
  /\ sinceSent \in [Errors -> 0..TTL]

Numbers(lines) == {lines[i].number : i \in DOMAIN lines}

\* Whatever restarts the tail loop goes through, every task got exactly
\* max_buffer_lines lines of which the first matched the pattern, and no line
\* of the log is reported twice.
CapturesAreDisjoint ==
  /\ \A i \in DOMAIN tasks :
       Len(tasks[i].lines) = MaxBuffer /\ ErrorOf(tasks[i]) \in Errors
  /\ is_capturing = (capture_buffer # <<>>)
  /\ \A i \in DOMAIN tasks :
       /\ Numbers(tasks[i].lines) \cap Numbers(capture_buffer) = {}
       /\ \A j \in DOMAIN tasks :
            i # j => Numbers(tasks[i].lines) \cap Numbers(tasks[j].lines) = {}

Begins(i) ==
  i \in DOMAIN tasks /\ tasks[i].st = "created" /\ tasks'[i].st # "created"

\* The same error is not POSTed twice within ttl, and is dropped only when
\* it has been POSTed less than ttl ago: no error is silenced for longer,
\* however often it comes back.
OncePerWindow ==
  [][\A i \in DOMAIN tasks : Begins(i) =>
       (tasks'[i].st = "suppressed" <=> sinceSent[ErrorOf(tasks[i])] < TTL)]_vars

\* Every task ends, POSTed or suppressed.
EveryTaskEnds ==
  \A i \in 1..MaxLines :
    (i \in DOMAIN tasks) ~> (i \in DOMAIN tasks /\ tasks[i].st \in {"suppressed", "ok", "failed"})
=============================================================================
