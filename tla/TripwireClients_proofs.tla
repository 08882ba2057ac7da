----------------------- MODULE TripwireClients_proofs -----------------------
(***************************************************************************)
(* Proofs about the two parts that stand beside the workflow.  Tripwire:   *)
(* for any error texts, size of the buffer, window of the capacitor and    *)
(* length of the log.  Clients: for any workers, tasks, calls, faults and  *)
(* moves of issues.  The second half has one invariant per outside system, *)
(* EffectInv, UpdateInv and ServedInv; the first ends with the steps that  *)
(* a task of dispatch_alert has left.                                      *)
(***************************************************************************)
EXTENDS Tripwire, Clients, Integers, FiniteSetTheorems, SequenceTheorems,
        WellFoundedInduction, TLAPS

\* Every captured line has been read.
Past ==
  /\ \A n \in Numbers(capture_buffer) : n < nextLine
  /\ \A i \in DOMAIN tasks : \A n \in Numbers(tasks[i].lines) : n < nextLine

\* A capture begins with the line that started it.
BeginsWithError == capture_buffer # <<>> => capture_buffer[1].text \in Errors

\* The age of an entry of the cache is the time since the POST.
CacheIsHistory == cache = sinceSent

IInv == TypeOK /\ CapturesAreDisjoint /\ Past /\ BeginsWithError /\ CacheIsHistory

-----------------------------------------------------------------------------
(* Captures                                                                *)

LEMMA NumbersOfAppend ==
  ASSUME NEW lines \in Seq(Line), NEW line \in Line
  PROVE  /\ Append(lines, line) \in Seq(Line)
         /\ Len(Append(lines, line)) = Len(lines) + 1
         /\ Append(lines, line) # <<>>
         /\ Append(lines, line)[1] = IF lines = <<>> THEN line ELSE lines[1]
         /\ Numbers(Append(lines, line)) = Numbers(lines) \cup {line.number}
<1> DEFINE more == Append(lines, line)
<1>1. /\ more \in Seq(Line) /\ Len(more) = Len(lines) + 1
      /\ \A i \in 1..Len(lines) : more[i] = lines[i]
      /\ more[Len(lines) + 1] = line
      /\ Len(lines) \in Nat /\ DOMAIN lines = 1..Len(lines)
      /\ DOMAIN more = 1..(Len(lines) + 1)
  OBVIOUS
<1>2. more # <<>>
  BY <1>1
<1>3. more[1] = IF lines = <<>> THEN line ELSE lines[1]
  BY <1>1
<1>4. Numbers(more) = Numbers(lines) \cup {line.number}
  <2> HIDE DEF more
  <2> QED BY <1>1 DEF Numbers
<1> QED BY <1>1, <1>2, <1>3, <1>4

LEMMA NoNumbers == Numbers(<<>>) = {}
BY DEF Numbers

\* What Append does to the tasks.
LEMMA OneMoreTask ==
  ASSUME NEW ts \in Seq(Task), NEW t \in Task
  PROVE  /\ Append(ts, t) \in Seq(Task)
         /\ DOMAIN ts = 1..Len(ts) /\ DOMAIN Append(ts, t) = 1..(Len(ts) + 1)
         /\ Len(ts) \in Nat
         /\ \A i \in DOMAIN ts : Append(ts, t)[i] = ts[i]
         /\ Append(ts, t)[Len(ts) + 1] = t
OBVIOUS

\* A text for a line that is there.
LEMMA LineType ==
  ASSUME TypeOK, nextLine <= MaxLines, NEW text \in Errors \cup {Info}
  PROVE  [number |-> nextLine, text |-> text] \in Line
BY TripwireAssumption DEF TypeOK, Line

\* The numbers of captured lines are numbers.
LEMMA NumbersOfLines ==
  ASSUME NEW lines \in Seq(Line)
  PROVE  Numbers(lines) \subseteq Nat
<1> SUFFICES ASSUME NEW i \in DOMAIN lines PROVE lines[i].number \in Nat
  BY DEF Numbers
<1>1. lines[i] \in Line
  OBVIOUS
<1> QED BY <1>1 DEF Line

\* What has been read stays behind the next line.
LEMMA PastStays ==
  ASSUME TypeOK, Past, nextLine' >= nextLine, nextLine' \in Nat
  PROVE  /\ \A n \in Numbers(capture_buffer) : n < nextLine'
         /\ \A i \in DOMAIN tasks : \A n \in Numbers(tasks[i].lines) : n < nextLine'
         /\ nextLine \in Nat /\ nextLine \notin Numbers(capture_buffer)
         /\ \A i \in DOMAIN tasks : nextLine \notin Numbers(tasks[i].lines)
<1>1. nextLine \in Nat
  BY DEF TypeOK
<1>2. ASSUME NEW lines \in Seq(Line), \A n \in Numbers(lines) : n < nextLine
      PROVE  nextLine \notin Numbers(lines) /\ \A n \in Numbers(lines) : n < nextLine'
  <2>1. \A n \in Numbers(lines) : n \in Nat
    BY NumbersOfLines
  <2> QED BY <1>1, <1>2, <2>1
<1>3. capture_buffer \in Seq(Line) /\ \A i \in DOMAIN tasks : tasks[i].lines \in Seq(Line)
  <2>1. \A i \in DOMAIN tasks : tasks[i] \in Task
    BY DEF TypeOK
  <2>2. \A t \in Task : t.lines \in Seq(Line)
    BY DEF Task
  <2> QED BY <2>1, <2>2 DEF TypeOK
<1> QED BY <1>1, <1>2, <1>3 DEF Past

\* The line that is read.
LEMMA LineRead ==
  ASSUME TypeOK, NEW text \in Errors \cup {Info}, ReadLine(text)
  PROVE  LET line == [number |-> nextLine, text |-> text]
         IN  /\ line \in Line /\ line.number = nextLine /\ line.text = text
             /\ nextLine \in Nat /\ nextLine' = nextLine + 1
             /\ nextLine' \in 1..(MaxLines + 1)
             /\ UNCHANGED <<cache, sinceSent>>
<1>1. nextLine <= MaxLines /\ nextLine' = nextLine + 1 /\ UNCHANGED <<cache, sinceSent>>
  BY DEF ReadLine
<1>2. nextLine \in Nat /\ nextLine' \in 1..(MaxLines + 1)
  BY <1>1, TripwireAssumption DEF TypeOK
<1> QED BY <1>1, <1>2, LineType

\* A line outside a capture starts one, or goes by.
LEMMA OutsideInv ==
  ASSUME IInv, NEW text \in Errors \cup {Info}, ReadLine(text), ~is_capturing
  PROVE  IInv'
<1> USE TripwireAssumption
<1> DEFINE line == [number |-> nextLine, text |-> text]
<1>1. /\ line \in Line /\ line.number = nextLine /\ line.text = text
      /\ nextLine \in Nat /\ nextLine' = nextLine + 1 /\ nextLine' \in 1..(MaxLines + 1)
      /\ UNCHANGED <<tasks, cache, sinceSent>>
      /\ capture_buffer = <<>>
  <2>1. capture_buffer = <<>>
    BY DEF IInv, CapturesAreDisjoint
  <2>2. UNCHANGED tasks
    BY DEF ReadLine
  <2> QED BY <2>1, <2>2, LineRead DEF IInv
<1>4. /\ \A n \in Numbers(capture_buffer) : n < nextLine'
      /\ \A i \in DOMAIN tasks : \A n \in Numbers(tasks[i].lines) : n < nextLine'
      /\ \A i \in DOMAIN tasks : nextLine \notin Numbers(tasks[i].lines)
  BY <1>1, PastStays DEF IInv
<1>2. CASE text \in Errors
  <2>1. is_capturing' = TRUE /\ capture_buffer' = <<line>>
    BY <1>2 DEF ReadLine
  <2> HIDE DEF line
  <2>2. /\ <<line>> \in Seq(Line) /\ Len(<<line>>) = 1 /\ <<line>> # <<>>
        /\ <<line>>[1] = line
    BY <1>1
  <2>3. Numbers(<<line>>) = {nextLine}
    BY <1>1 DEF Numbers
  <2>4. TypeOK'
    BY <1>1, <2>1, <2>2 DEF IInv, TypeOK
  <2>5. CapturesAreDisjoint'
    <3>1. \A i \in DOMAIN tasks : Numbers(tasks[i].lines) \cap {nextLine} = {}
      BY <1>4
    <3>2. is_capturing' = (capture_buffer' # <<>>)
      BY <2>1, <2>2
    <3>3. \A i \in DOMAIN tasks : Numbers(tasks[i].lines) \cap Numbers(capture_buffer') = {}
      BY <3>1, <2>1, <2>3
    <3> QED BY <1>1, <3>2, <3>3 DEF IInv, CapturesAreDisjoint, ErrorOf
  <2>6. Past'
    <3>1. \A n \in Numbers(capture_buffer') : n < nextLine'
      BY <1>1, <2>1, <2>3
    <3> QED BY <1>1, <1>4, <3>1 DEF Past
  <2>7. BeginsWithError' /\ CacheIsHistory'
    BY <1>1, <1>2, <2>1, <2>2 DEF IInv, BeginsWithError, CacheIsHistory
  <2> QED BY <2>4, <2>5, <2>6, <2>7 DEF IInv
<1>3. CASE text \notin Errors
  <2>1. UNCHANGED <<is_capturing, capture_buffer, tasks, cache, sinceSent>>
    BY <1>3 DEF ReadLine
  <2> HIDE DEF line
  <2>2. TypeOK'
    BY <1>1, <2>1 DEF IInv, TypeOK
  <2>3. CapturesAreDisjoint' /\ BeginsWithError' /\ CacheIsHistory'
    BY <2>1 DEF IInv, CapturesAreDisjoint, BeginsWithError, CacheIsHistory, ErrorOf
  <2>4. Past'
    BY <1>4, <2>1 DEF Past
  <2> QED BY <2>2, <2>3, <2>4 DEF IInv
<1> QED BY <1>2, <1>3

\* A line inside a capture is kept, or completes the capture of a task.
LEMMA InsideInv ==
  ASSUME IInv, NEW text \in Errors \cup {Info}, ReadLine(text), is_capturing
  PROVE  IInv'
<1> USE TripwireAssumption
<1> DEFINE line == [number |-> nextLine, text |-> text]
           lines == Append(capture_buffer, line)
<1>1. /\ line \in Line /\ line.number = nextLine
      /\ nextLine \in Nat /\ nextLine' = nextLine + 1 /\ nextLine' \in 1..(MaxLines + 1)
      /\ UNCHANGED <<cache, sinceSent>>
      /\ Capture(line)
      /\ capture_buffer \in Seq(Line) /\ Len(capture_buffer) < MaxBuffer
      /\ capture_buffer # <<>> /\ capture_buffer[1].text \in Errors
      /\ tasks \in Seq(Task)
  <2>1. Capture(line)
    BY DEF ReadLine
  <2>2. capture_buffer # <<>> /\ capture_buffer[1].text \in Errors
    BY DEF IInv, CapturesAreDisjoint, BeginsWithError
  <2>3. capture_buffer \in Seq(Line) /\ Len(capture_buffer) < MaxBuffer /\ tasks \in Seq(Task)
    BY DEF IInv, TypeOK
  <2> QED BY <2>1, <2>2, <2>3, LineRead DEF IInv
<1> HIDE DEF line
<1>2. /\ lines \in Seq(Line) /\ Len(lines) = Len(capture_buffer) + 1 /\ lines # <<>>
      /\ lines[1].text \in Errors
      /\ Numbers(lines) = Numbers(capture_buffer) \cup {nextLine}
  BY <1>1, NumbersOfAppend
<1>3. (Len(lines) >= MaxBuffer /\ Dispatch(lines))
      \/ (~(Len(lines) >= MaxBuffer) /\ capture_buffer' = lines /\ UNCHANGED <<tasks, is_capturing>>)
  BY <1>1 DEF Capture
<1> HIDE DEF lines
<1>4. /\ \A i \in DOMAIN tasks :
           Numbers(tasks[i].lines) \cap Numbers(lines) = {}
      /\ \A n \in Numbers(lines) : n < nextLine'
      /\ \A i \in DOMAIN tasks : \A n \in Numbers(tasks[i].lines) : n < nextLine'
  <2>1. /\ \A n \in Numbers(capture_buffer) : n < nextLine'
        /\ \A i \in DOMAIN tasks : \A n \in Numbers(tasks[i].lines) : n < nextLine'
        /\ \A i \in DOMAIN tasks : nextLine \notin Numbers(tasks[i].lines)
    BY <1>1, PastStays DEF IInv
  <2>2. \A i \in DOMAIN tasks : Numbers(tasks[i].lines) \cap Numbers(capture_buffer) = {}
    BY DEF IInv, CapturesAreDisjoint
  <2>3. nextLine < nextLine'
    BY <1>1
  <2> QED BY <1>2, <2>1, <2>2, <2>3
<1>5. CASE Len(lines) >= MaxBuffer /\ Dispatch(lines)
  <2> DEFINE task == [lines |-> lines, st |-> "created", open |-> TRUE]
             last == Len(tasks) + 1
  <2>1. /\ tasks' = Append(tasks, task) /\ is_capturing' = FALSE /\ capture_buffer' = <<>>
        /\ Len(lines) = MaxBuffer
        /\ task \in Task /\ task.lines = lines
    BY <1>1, <1>2, <1>5 DEF Dispatch, Task, TaskState
  <2> HIDE DEF task
  <2>2. /\ tasks' \in Seq(Task) /\ DOMAIN tasks' = DOMAIN tasks \cup {last}
        /\ \A i \in DOMAIN tasks : tasks'[i] = tasks[i] /\ i # last
        /\ tasks'[last] = task
    BY <1>1, <2>1, OneMoreTask
  <2> HIDE DEF last
  <2>3. TypeOK'
    <3>1. /\ capture_buffer' \in Seq(Line) /\ Len(capture_buffer') < MaxBuffer
          /\ is_capturing' \in BOOLEAN
      <4>1. Len(<<>>) = 0 /\ <<>> \in Seq(Line)
        OBVIOUS
      <4>2. 0 < MaxBuffer
        OBVIOUS
      <4> QED BY <4>1, <4>2, <2>1
    <3> QED BY <1>1, <2>2, <3>1 DEF IInv, TypeOK
  <2>4. CapturesAreDisjoint'
    <3>1. \A i \in DOMAIN tasks' :
            Len(tasks'[i].lines) = MaxBuffer /\ tasks'[i].lines[1].text \in Errors
      BY <1>2, <2>1, <2>2 DEF IInv, CapturesAreDisjoint, ErrorOf
    <3>2. \A i, j \in DOMAIN tasks' :
            i # j => Numbers(tasks'[i].lines) \cap Numbers(tasks'[j].lines) = {}
      <4>1. \A i, j \in DOMAIN tasks :
              i # j => Numbers(tasks[i].lines) \cap Numbers(tasks[j].lines) = {}
        BY DEF IInv, CapturesAreDisjoint
      <4>2. \A i \in DOMAIN tasks :
              Numbers(tasks[i].lines) \cap Numbers(tasks'[last].lines) = {}
        BY <1>4, <2>1, <2>2
      <4> QED BY <4>1, <4>2, <2>2
    <3>3. Numbers(capture_buffer') = {} /\ is_capturing' = (capture_buffer' # <<>>)
      BY <2>1, NoNumbers
    <3> QED BY <3>1, <3>2, <3>3 DEF CapturesAreDisjoint, ErrorOf
  <2>5. Past'
    <3>1. Numbers(capture_buffer') = {}
      BY <2>1, NoNumbers
    <3>2. \A i \in DOMAIN tasks' : \A n \in Numbers(tasks'[i].lines) : n < nextLine'
      BY <1>4, <2>1, <2>2
    <3> QED BY <3>1, <3>2 DEF Past
  <2>6. BeginsWithError' /\ CacheIsHistory'
    BY <1>1, <2>1 DEF IInv, BeginsWithError, CacheIsHistory
  <2> QED BY <2>3, <2>4, <2>5, <2>6 DEF IInv
<1>6. CASE ~(Len(lines) >= MaxBuffer) /\ capture_buffer' = lines /\ UNCHANGED <<tasks, is_capturing>>
  <2>1. TypeOK'
    BY <1>1, <1>2, <1>6 DEF IInv, TypeOK
  <2>2. CapturesAreDisjoint'
    BY <1>1, <1>2, <1>4, <1>6 DEF IInv, CapturesAreDisjoint, ErrorOf
  <2>3. Past'
    BY <1>4, <1>6 DEF Past
  <2>4. BeginsWithError' /\ CacheIsHistory'
    BY <1>1, <1>2, <1>6 DEF IInv, BeginsWithError, CacheIsHistory
  <2> QED BY <2>1, <2>2, <2>3, <2>4 DEF IInv
<1> QED BY <1>3, <1>5, <1>6

-----------------------------------------------------------------------------
(* Tasks                                                                   *)

\* A step that leaves every task its lines leaves the captures as they are.
LEMMA LinesStay ==
  ASSUME IInv, tasks' \in Seq(Task), DOMAIN tasks' = DOMAIN tasks,
         \A i \in DOMAIN tasks : tasks'[i].lines = tasks[i].lines,
         UNCHANGED <<is_capturing, capture_buffer>>,
         nextLine' \in 1..(MaxLines + 1), nextLine' >= nextLine,
         cache' \in [Errors -> 0..TTL], sinceSent' = cache'
  PROVE  IInv'
<1>1. TypeOK'
  BY DEF IInv, TypeOK
<1>2. CapturesAreDisjoint'
  BY DEF IInv, CapturesAreDisjoint, ErrorOf
<1>3. Past'
  <2>1. nextLine' \in Nat
    BY TripwireAssumption
  <2> QED BY <2>1, PastStays DEF IInv, Past
<1>4. BeginsWithError' /\ CacheIsHistory'
  BY DEF IInv, BeginsWithError, CacheIsHistory
<1> QED BY <1>1, <1>2, <1>3, <1>4 DEF IInv

LEMMA RestartInv ==
  ASSUME IInv, Restart
  PROVE  IInv'
<1>1. tasks \in Seq(Task) /\ nextLine \in 1..(MaxLines + 1)
  BY DEF IInv, TypeOK
<1>2. /\ tasks' = [i \in DOMAIN tasks |-> [tasks[i] EXCEPT !.open = FALSE]]
      /\ nextLine' \in nextLine..(MaxLines + 1)
      /\ UNCHANGED <<is_capturing, capture_buffer, cache, sinceSent>>
  BY DEF Restart
<1> DEFINE closed(t) == [t EXCEPT !.open = FALSE]
<1>3. \A t \in Task : closed(t) \in Task /\ closed(t).lines = t.lines
  BY DEF Task
<1>4. /\ tasks' \in Seq(Task) /\ DOMAIN tasks' = DOMAIN tasks
      /\ \A i \in DOMAIN tasks : tasks'[i].lines = tasks[i].lines
  <2>1. tasks' = [i \in DOMAIN tasks |-> closed(tasks[i])]
    BY <1>2
  <2> HIDE DEF closed
  <2>2. \A i \in DOMAIN tasks : tasks[i] \in Task
    BY <1>1
  <2>3. /\ DOMAIN tasks' = DOMAIN tasks
        /\ \A i \in DOMAIN tasks : tasks'[i] \in Task /\ tasks'[i].lines = tasks[i].lines
    BY <1>3, <2>1, <2>2
  <2>4. Len(tasks) \in Nat /\ DOMAIN tasks = 1..Len(tasks)
    BY <1>1
  <2>5. tasks' \in [1..Len(tasks) -> Task]
    BY <2>1, <2>3, <2>4
  <2> QED BY <2>3, <2>4, <2>5
<1>5. nextLine' \in 1..(MaxLines + 1) /\ nextLine' >= nextLine
  <2>1. nextLine \in Nat /\ nextLine >= 1 /\ nextLine' \in nextLine..(MaxLines + 1)
    BY <1>1, <1>2
  <2> QED BY <2>1, TripwireAssumption
<1>6. cache' \in [Errors -> 0..TTL] /\ sinceSent' = cache'
  BY <1>2 DEF IInv, TypeOK, CacheIsHistory
<1> QED BY <1>2, <1>4, <1>5, <1>6, LinesStay

LEMMA DaemonInv ==
  ASSUME IInv, NEW i \in DOMAIN tasks, Suppress(i) \/ Post(i) \/ Answer(i)
  PROVE  IInv'
<1>1. PICK st \in TaskState : tasks' = [tasks EXCEPT ![i] = [@ EXCEPT !.st = st]]
  BY DEF Suppress, Post, Answer, SetState, TaskState
<1>2. tasks \in Seq(Task) /\ tasks[i] \in Task
  BY DEF IInv, TypeOK
<1>3. [tasks[i] EXCEPT !.st = st] \in Task /\ [tasks[i] EXCEPT !.st = st].lines = tasks[i].lines
  BY <1>2 DEF Task
<1>4. /\ tasks' \in Seq(Task) /\ DOMAIN tasks' = DOMAIN tasks
      /\ \A j \in DOMAIN tasks : tasks'[j].lines = tasks[j].lines
  BY <1>1, <1>2, <1>3
<1>5. /\ UNCHANGED <<nextLine, is_capturing, capture_buffer>>
      /\ nextLine \in 1..(MaxLines + 1) /\ nextLine \in Nat
  BY DEF Suppress, Post, Answer, IInv, TypeOK
<1>6. cache \in [Errors -> 0..TTL] /\ sinceSent = cache
  BY DEF IInv, TypeOK, CacheIsHistory
<1>7. cache' \in [Errors -> 0..TTL] /\ sinceSent' = cache'
  <2>1. CASE Suppress(i) \/ Answer(i)
    BY <1>6, <2>1 DEF Suppress, Answer
  <2>2. CASE Post(i)
    <3>1. 0 \in 0..TTL
      BY TripwireAssumption
    <3>2. /\ cache' = [cache EXCEPT ![ErrorOf(tasks[i])] = 0]
          /\ sinceSent' = [sinceSent EXCEPT ![ErrorOf(tasks[i])] = 0]
      BY <2>2 DEF Post
    <3>3. sinceSent' = cache'
      BY <1>6, <3>2
    <3> QED BY <1>6, <3>1, <3>2, <3>3
  <2> QED BY <2>1, <2>2
<1> QED BY <1>4, <1>5, <1>7, LinesStay

LEMMA TickInv ==
  ASSUME IInv, Tick
  PROVE  IInv'
<1>1. cache \in [Errors -> 0..TTL] /\ sinceSent = cache
  BY DEF IInv, TypeOK, CacheIsHistory
<1>2. Older(cache) \in [Errors -> 0..TTL]
  BY <1>1, TripwireAssumption DEF Older
<1>3. cache' \in [Errors -> 0..TTL] /\ sinceSent' = cache'
  BY <1>1, <1>2 DEF Tick
<1>4. /\ UNCHANGED <<nextLine, is_capturing, capture_buffer, tasks>>
      /\ nextLine \in 1..(MaxLines + 1) /\ nextLine \in Nat /\ tasks \in Seq(Task)
  BY DEF Tick, IInv, TypeOK
<1> QED BY <1>3, <1>4, LinesStay

-----------------------------------------------------------------------------

LEMMA InitInv == Init => IInv
<1> SUFFICES ASSUME Init PROVE IInv
  OBVIOUS
<1> USE TripwireAssumption
<1>1. /\ <<>> \in Seq(Line) /\ <<>> \in Seq(Task) /\ Len(<<>>) = 0 /\ DOMAIN <<>> = {}
  OBVIOUS
<1>2. /\ nextLine = 1 /\ is_capturing = FALSE /\ capture_buffer = <<>> /\ tasks = <<>>
      /\ cache = sinceSent /\ cache \in [Errors -> 0..TTL]
  BY DEF Init
<1>3. TypeOK
  <2>1. 0 < MaxBuffer /\ 1 \in 1..(MaxLines + 1)
    OBVIOUS
  <2> QED BY <1>1, <1>2, <2>1 DEF TypeOK
<1>4. CapturesAreDisjoint
  BY <1>1, <1>2 DEF CapturesAreDisjoint
<1>5. Past /\ BeginsWithError /\ CacheIsHistory
  BY <1>1, <1>2, NoNumbers DEF Past, BeginsWithError, CacheIsHistory
<1> QED BY <1>3, <1>4, <1>5 DEF IInv

LEMMA StepInv == IInv /\ [Next]_vars => IInv'
<1> SUFFICES ASSUME IInv, [Next]_vars PROVE IInv'
  OBVIOUS
<1>1. ASSUME NEW text \in Errors \cup {Info}, ReadLine(text) PROVE IInv'
  BY <1>1, InsideInv, OutsideInv
<1>2. CASE Restart
  BY <1>2, RestartInv
<1>3. CASE Daemon
  BY <1>3, DaemonInv DEF Daemon
<1>4. CASE Tick
  BY <1>4, TickInv
<1>5. CASE UNCHANGED vars
  BY <1>5 DEF vars, IInv, TypeOK, CapturesAreDisjoint, Past, BeginsWithError,
              CacheIsHistory, ErrorOf
<1> QED BY <1>1, <1>2, <1>3, <1>4, <1>5 DEF Next

\* The daemon's state has its types, and the capture buffer is handed over
\* before it exceeds max_buffer_lines.
THEOREM TypeCorrect == Spec => []TypeOK
<1>1. IInv => TypeOK
  BY DEF IInv
<1> QED BY InitInv, StepInv, <1>1, PTL DEF Spec

\* tail_and_parse reports no line of the log twice and no partial capture,
\* for any buffer, any log and restarts at any line.
THEOREM CapturesAreDisjointHolds == Spec => []CapturesAreDisjoint
<1>1. IInv => CapturesAreDisjoint
  BY DEF IInv
<1> QED BY InitInv, StepInv, <1>1, PTL DEF Spec

\* DebounceCapacitor drops an error exactly when it was POSTed less than a
\* window ago, for any texts and any window.
THEOREM OncePerWindowHolds == Spec => OncePerWindow
<1> DEFINE InWindow ==
      \A i \in DOMAIN tasks : Begins(i) =>
        (tasks'[i].st = "suppressed" <=> sinceSent[ErrorOf(tasks[i])] < TTL)
<1>1. IInv /\ [Next]_vars => [InWindow]_vars
  <2> SUFFICES ASSUME IInv, [Next]_vars, NEW i \in DOMAIN tasks, Begins(i)
               PROVE  tasks'[i].st = "suppressed" <=> sinceSent[ErrorOf(tasks[i])] < TTL
    OBVIOUS
  <2>1. /\ tasks \in Seq(Task) /\ tasks[i] \in Task /\ i \in 1..Len(tasks)
        /\ tasks[i].st = "created" /\ tasks'[i].st # "created" /\ cache = sinceSent
    BY DEF IInv, TypeOK, Begins, CacheIsHistory
  <2>2. ASSUME NEW text \in Errors \cup {Info}, ReadLine(text) PROVE FALSE
    <3>1. tasks'[i] = tasks[i]
      BY <2>1, <2>2 DEF ReadLine, Capture, Dispatch
    <3> QED BY <2>1, <3>1
  <2>3. ~Restart /\ ~Tick /\ ~UNCHANGED vars
    BY <2>1 DEF Restart, Tick, vars, Task
  <2>4. PICK j \in DOMAIN tasks : Suppress(j) \/ Post(j) \/ Answer(j)
    BY <2>2, <2>3 DEF Next, Daemon
  <2>5. i = j /\ ~Answer(j)
    BY <2>1, <2>4 DEF Suppress, Post, Answer, SetState, Task
  <2>6. CASE Suppress(i)
    BY <2>1, <2>6 DEF Suppress, SetState, IsSuppressed, Task
  <2>7. CASE Post(i)
    <3>1. tasks'[i].st \in {"posting", "failed"}
      BY <2>1, <2>7 DEF Post, SetState, Task
    <3> QED BY <2>1, <2>7, <3>1 DEF Post, IsSuppressed
  <2> QED BY <2>4, <2>5, <2>6, <2>7
<1> QED BY InitInv, StepInv, <1>1, PTL DEF Spec, OncePerWindow

-----------------------------------------------------------------------------
(* Every task of the sidecar has an end                                    *)

\* How many steps a task has left at most.
StepsLeft(task) ==
  CASE task.st = "created" -> 2 [] task.st = "posting" -> 1 [] OTHER -> 0

\* A line that is read adds one task at most, and nothing takes one away or
\* back to an earlier state, a restart of the tail loop neither; every step
\* of dispatch_alert brings a task nearer to its end, and as long as one is
\* not over, one of them waits for its answer or is the next to start.
TasksDwindle ==
  /\ \A i \in DOMAIN tasks :
       i \in DOMAIN tasks' /\ StepsLeft(tasks'[i]) <= StepsLeft(tasks[i])
  /\ Len(tasks') # Len(tasks) => Len(tasks') = Len(tasks) + 1 /\ nextLine' = nextLine + 1
  /\ Daemon => \E i \in DOMAIN tasks : StepsLeft(tasks'[i]) < StepsLeft(tasks[i])
  /\ (\E i \in DOMAIN tasks : StepsLeft(tasks[i]) > 0)
       => \E i \in DOMAIN tasks : tasks[i].st = "posting" \/ Starts(i)

LEMMA FirstOf ==
  ASSUME NEW S, S \subseteq Nat, S # {}
  PROVE  \E m \in S : \A n \in S : ~(n < m)
<1> DEFINE R == OpToRel(<, Nat)
<1>1. IsWellFoundedOn(R, Nat)
  BY NatLessThanWellFounded
<1>2. \A x, y \in Nat : x < y => <<x, y>> \in R
  BY DEF OpToRel
<1> HIDE DEF R
<1>3. PICK m \in S : \A n \in S : ~(<<n, m>> \in R)
  BY <1>1, WFMin
<1> QED BY <1>2, <1>3

\* Tasks start in their order, so that the first that has not is the next.
LEMMA OneCanGoOn ==
  ASSUME IInv, NEW i \in DOMAIN tasks, StepsLeft(tasks[i]) > 0
  PROVE  \E j \in DOMAIN tasks : tasks[j].st = "posting" \/ Starts(j)
<1>1. tasks[i].st \in {"created", "posting"}
  BY DEF StepsLeft
<1>2. CASE tasks[i].st = "posting"
  BY <1>2
<1>3. CASE tasks[i].st = "created"
  <2> DEFINE S == {j \in DOMAIN tasks : tasks[j].st = "created"}
  <2>1. DOMAIN tasks = 1..Len(tasks) /\ Len(tasks) \in Nat
    BY DEF IInv, TypeOK
  <2>2. PICK m \in S : \A n \in S : ~(n < m)
    <3>1. S \subseteq Nat /\ S # {}
      BY <1>3, <2>1
    <3> HIDE DEF S
    <3> QED BY <3>1, FirstOf
  <2>3. m \in DOMAIN tasks /\ tasks[m].st = "created"
    BY <2>2
  <2>4. \A j \in 1..(m - 1) : tasks[j].st # "created"
    <3>1. \A j \in 1..(m - 1) : j \in DOMAIN tasks /\ j < m
      BY <2>1, <2>3
    <3> QED BY <2>2, <3>1
  <2> QED BY <2>3, <2>4 DEF Starts
<1> QED BY <1>1, <1>2, <1>3

LEMMA StepDwindles == IInv /\ [Next]_vars => [TasksDwindle]_vars
<1> SUFFICES ASSUME IInv, Next PROVE TasksDwindle
  BY DEF TasksDwindle
<1>0. /\ tasks \in Seq(Task) /\ nextLine \in 1..(MaxLines + 1)
      /\ DOMAIN tasks = 1..Len(tasks) /\ Len(tasks) \in Nat
      /\ \A i \in DOMAIN tasks : tasks[i] \in Task
  BY DEF IInv, TypeOK
<1>1. \A task : StepsLeft(task) \in 0..2
  BY DEF StepsLeft
<1> DEFINE Same == /\ DOMAIN tasks' = DOMAIN tasks /\ Len(tasks') = Len(tasks)
                   /\ \A i \in DOMAIN tasks : tasks'[i].st = tasks[i].st
           Fewer == /\ DOMAIN tasks' = DOMAIN tasks /\ Len(tasks') = Len(tasks)
                    /\ \A i \in DOMAIN tasks : StepsLeft(tasks'[i]) <= StepsLeft(tasks[i])
                    /\ \E i \in DOMAIN tasks : StepsLeft(tasks'[i]) < StepsLeft(tasks[i])
           More == /\ \A i \in DOMAIN tasks : i \in DOMAIN tasks' /\ tasks'[i] = tasks[i]
                   /\ Len(tasks') = Len(tasks) + 1 /\ nextLine' = nextLine + 1
<1>2. ASSUME NEW text \in Errors \cup {Info}, ReadLine(text)
      PROVE  Same \/ More
  <2>1. nextLine' = nextLine + 1
    BY <1>0, <1>2 DEF ReadLine
  <2>2. tasks' = tasks \/ \E t : tasks' = Append(tasks, t)
    BY <1>2 DEF ReadLine, Capture, Dispatch
  <2>3. CASE tasks' = tasks
    BY <2>1, <2>3
  <2>4. ASSUME NEW t, tasks' = Append(tasks, t) PROVE More
    BY <1>0, <2>1, <2>4
  <2> QED BY <2>1, <2>2, <2>3, <2>4
<1>3. ASSUME Restart PROVE Same
  <2>1. tasks' = [i \in DOMAIN tasks |-> [tasks[i] EXCEPT !.open = FALSE]]
    BY <1>3 DEF Restart
  <2>2. \A i \in DOMAIN tasks : tasks'[i].st = tasks[i].st
    BY <1>0, <2>1 DEF Task
  <2> QED BY <1>0, <2>1, <2>2
<1>4. ASSUME Daemon PROVE Fewer
  <2>1. PICK i \in DOMAIN tasks : Suppress(i) \/ Post(i) \/ Answer(i)
    BY <1>4 DEF Daemon
  <2>2. PICK st : /\ tasks' = [tasks EXCEPT ![i] = [@ EXCEPT !.st = st]]
                  /\ \/ tasks[i].st = "created" /\ st # "created"
                     \/ tasks[i].st = "posting" /\ st \in {"ok", "failed"}
    BY <2>1 DEF Suppress, Post, Answer, SetState, Starts
  <2>3. /\ DOMAIN tasks' = DOMAIN tasks /\ Len(tasks') = Len(tasks)
        /\ tasks'[i].st = st
        /\ \A j \in DOMAIN tasks \ {i} : tasks'[j] = tasks[j]
    BY <1>0, <2>2 DEF Task
  <2>4. StepsLeft(tasks'[i]) < StepsLeft(tasks[i])
    BY <2>2, <2>3 DEF StepsLeft
  <2> QED BY <1>1, <2>3, <2>4
<1>5. ASSUME Tick PROVE Same
  BY <1>5 DEF Tick
<1>6. Fewer \/ Same \/ More
  BY <1>2, <1>3, <1>4, <1>5 DEF Next
<1>7. Daemon => Fewer
  BY <1>4
<1>8. \A i \in DOMAIN tasks :
        i \in DOMAIN tasks' /\ StepsLeft(tasks'[i]) <= StepsLeft(tasks[i])
  BY <1>1, <1>6 DEF StepsLeft
<1>9. (\E i \in DOMAIN tasks : StepsLeft(tasks[i]) > 0)
        => \E i \in DOMAIN tasks : tasks[i].st = "posting" \/ Starts(i)
  BY OneCanGoOn
<1> QED BY <1>6, <1>7, <1>8, <1>9 DEF TasksDwindle

\* What EveryTaskEnds rests on besides fairness, for any log and any
\* restarts: dispatch_alert has two steps per captured error at most, and
\* the order in which tasks start never leaves all of them waiting.
THEOREM TasksDwindleHolds == Spec => [][TasksDwindle]_vars
BY InitInv, StepInv, StepDwindles, PTL DEF Spec

-----------------------------------------------------------------------------
(* Calls                                                                   *)

\* The record of a call, whatever its fields hold.
IsCall(c) ==
  /\ c = [pc |-> c.pc, result |-> c.result, on |-> c.on, todo |-> c.todo, sent |-> c.sent,
          late |-> c.late]
  /\ c.sent \in Nat

CallsTyped ==
  /\ work \in Scenarios
  /\ call = [t \in Tasks |-> call[t]]
  /\ \A t \in Tasks : IsCall(call[t])
  /\ faults \in Nat

\* A step of the task's call, which keeps when it began.
CallMoves(t) ==
  /\ call' = [u \in Tasks |-> call'[u]]
  /\ \A u \in Tasks \ {t} : call'[u] = call[u]
  /\ IsCall(call'[t])

Keeps(t) == call'[t].late = call[t].late /\ call'[t].result = call[t].result

\* ... and how often its request was sent again.
SameTries(t) == call'[t].sent = call[t].sent

LEMMA ToMoves ==
  ASSUME CallsTyped, NEW t \in Tasks, NEW pc, To(t, pc)
  PROVE  /\ CallMoves(t) /\ Keeps(t)
         /\ call'[t].pc = pc
         /\ call'[t].on = call[t].on /\ call'[t].todo = call[t].todo /\ SameTries(t)
BY DEF CallsTyped, To, CallMoves, IsCall, Keeps, SameTries

LEMMA ReturnsMoves ==
  ASSUME CallsTyped, NEW t \in Tasks, NEW result, Returns(t, result)
  PROVE  /\ CallMoves(t) /\ call'[t].late = call[t].late
         /\ call'[t].pc = "returned" /\ call'[t].result = result
         /\ call'[t].on = call[t].on /\ call'[t].todo = call[t].todo /\ SameTries(t)
<1> DEFINE c == call[t]
           mid == [c EXCEPT !.pc = "returned"]
           new == [mid EXCEPT !.result = result]
<1>1. call' = [call EXCEPT ![t] = new] /\ IsCall(c)
  BY DEF Returns, CallsTyped
<1>2. /\ IsCall(mid) /\ mid.pc = "returned"
      /\ mid.on = c.on /\ mid.todo = c.todo /\ mid.late = c.late /\ mid.sent = c.sent
  BY <1>1 DEF IsCall
<1> HIDE DEF mid
<1>3. /\ IsCall(new) /\ new.pc = "returned" /\ new.result = result
      /\ new.on = c.on /\ new.todo = c.todo /\ new.late = c.late /\ new.sent = c.sent
  BY <1>2 DEF IsCall
<1> HIDE DEF new
<1> QED BY <1>1, <1>3 DEF CallsTyped, CallMoves, SameTries

LEMMA FieldDoneMoves ==
  ASSUME CallsTyped, NEW t \in Tasks, FieldDone(t)
  PROVE  /\ CallMoves(t) /\ Keeps(t)
         /\ call'[t].pc = call[t].pc
         /\ call'[t].on = None /\ call'[t].todo = Tail(call[t].todo)
<1> DEFINE c == call[t]
           rest == Tail(c.todo)
           mid == [c EXCEPT !.todo = rest]
           two == [mid EXCEPT !.on = None]
           new == [two EXCEPT !.sent = 0]
<1>1. call' = [call EXCEPT ![t] = new] /\ IsCall(c)
  BY DEF FieldDone, CallsTyped
<1> HIDE DEF rest
<1>2. /\ IsCall(mid) /\ mid.todo = rest
      /\ mid.on = c.on /\ mid.pc = c.pc /\ mid.late = c.late /\ mid.result = c.result
  BY <1>1 DEF IsCall
<1> HIDE DEF mid
<1>3. /\ IsCall(two) /\ two.pc = c.pc /\ two.result = c.result
      /\ two.on = None /\ two.todo = rest /\ two.late = c.late
  BY <1>2 DEF IsCall
<1> HIDE DEF two
<1>4. /\ IsCall(new) /\ new.pc = c.pc /\ new.result = c.result
      /\ new.on = None /\ new.todo = rest /\ new.late = c.late
  BY <1>3 DEF IsCall
<1> HIDE DEF new
<1> QED BY <1>1, <1>4 DEF CallsTyped, CallMoves, Keeps, rest

\* A call of the manager starts to use a pool.
LEMMA UsesPool ==
  ASSUME CallsTyped, NEW t \in Tasks, NEW pc, NEW p,
         call' = [call EXCEPT ![t].pc = pc, ![t].on = p]
  PROVE  /\ CallMoves(t) /\ Keeps(t)
         /\ call'[t].pc = pc /\ call'[t].on = p /\ call'[t].todo = call[t].todo
<1> DEFINE c == call[t]
           mid == [c EXCEPT !.pc = pc]
           new == [mid EXCEPT !.on = p]
<1>1. call' = [call EXCEPT ![t] = new] /\ IsCall(c)
  BY DEF CallsTyped
<1>2. /\ IsCall(mid) /\ mid.todo = c.todo
      /\ mid.on = c.on /\ mid.pc = pc /\ mid.late = c.late /\ mid.result = c.result
  BY <1>1 DEF IsCall
<1> HIDE DEF mid
<1>3. /\ IsCall(new) /\ new.pc = pc /\ new.result = c.result
      /\ new.on = p /\ new.todo = c.todo /\ new.late = c.late
  BY <1>2 DEF IsCall
<1> HIDE DEF new
<1> QED BY <1>1, <1>3 DEF CallsTyped, CallMoves, Keeps

\* A call of Jira learns what it has to write.
LEMMA GetsWork ==
  ASSUME CallsTyped, NEW t \in Tasks, NEW todo,
         call' = [call EXCEPT ![t].pc = "request", ![t].todo = todo]
  PROVE  /\ CallMoves(t) /\ Keeps(t)
         /\ call'[t].pc = "request" /\ call'[t].on = call[t].on /\ call'[t].todo = todo
<1> DEFINE c == call[t]
           mid == [c EXCEPT !.pc = "request"]
           new == [mid EXCEPT !.todo = todo]
<1>1. call' = [call EXCEPT ![t] = new] /\ IsCall(c)
  BY DEF CallsTyped
<1>2. /\ IsCall(mid) /\ mid.todo = c.todo
      /\ mid.on = c.on /\ mid.pc = "request" /\ mid.late = c.late /\ mid.result = c.result
  BY <1>1 DEF IsCall
<1> HIDE DEF mid
<1>3. /\ IsCall(new) /\ new.pc = "request" /\ new.result = c.result
      /\ new.on = c.on /\ new.todo = todo /\ new.late = c.late
  BY <1>2 DEF IsCall
<1> HIDE DEF new
<1> QED BY <1>1, <1>3 DEF CallsTyped, CallMoves, Keeps

\* The status that an update has read.
LEMMA ReadsStatus ==
  ASSUME CallsTyped, NEW t \in Tasks, NEW s, call' = [call EXCEPT ![t].on = s, ![t].sent = 0]
  PROVE  /\ CallMoves(t) /\ Keeps(t)
         /\ call'[t].pc = call[t].pc /\ call'[t].on = s /\ call'[t].todo = call[t].todo
<1> DEFINE c == call[t]
           mid == [c EXCEPT !.on = s]
           new == [mid EXCEPT !.sent = 0]
<1>1. call' = [call EXCEPT ![t] = new] /\ IsCall(c)
  BY DEF CallsTyped
<1>2. /\ IsCall(mid) /\ mid.todo = c.todo
      /\ mid.on = s /\ mid.pc = c.pc /\ mid.late = c.late /\ mid.result = c.result
  BY <1>1 DEF IsCall
<1> HIDE DEF mid
<1>3. /\ IsCall(new) /\ new.pc = c.pc /\ new.result = c.result
      /\ new.on = s /\ new.todo = c.todo /\ new.late = c.late
  BY <1>2 DEF IsCall
<1> HIDE DEF new
<1> QED BY <1>1, <1>3 DEF CallsTyped, CallMoves, Keeps

\* A request is sent once more.
LEMMA SentAgain ==
  ASSUME CallsTyped, NEW t \in Tasks, call' = [call EXCEPT ![t].sent = @ + 1]
  PROVE  /\ CallMoves(t) /\ Keeps(t) /\ call'[t].sent = call[t].sent + 1
         /\ call'[t].pc = call[t].pc /\ call'[t].on = call[t].on /\ call'[t].todo = call[t].todo
<1> DEFINE c == call[t]
           n == c.sent + 1
           new == [c EXCEPT !.sent = n]
<1>1. call' = [call EXCEPT ![t] = new] /\ IsCall(c) /\ n \in Nat
  BY DEF CallsTyped, IsCall
<1> HIDE DEF n
<1>2. /\ IsCall(new) /\ new.pc = c.pc /\ new.result = c.result /\ new.sent = n
      /\ new.on = c.on /\ new.todo = c.todo /\ new.late = c.late
  BY <1>1 DEF IsCall
<1> HIDE DEF new
<1> QED BY <1>1, <1>2 DEF CallsTyped, CallMoves, Keeps, n

LEMMA GivesUpMoves ==
  ASSUME CallsTyped, NEW t \in Tasks, GivesUp(t)
  PROVE  /\ CallMoves(t) /\ Keeps(t) /\ call'[t].pc \in {"raised", "swallowed"}
         /\ call'[t].on = call[t].on /\ SameTries(t)
BY ToMoves DEF GivesUp

LEMMA JiraFailsMoves ==
  ASSUME CallsTyped, NEW t \in Tasks, JiraFails(t)
  PROVE  /\ CallMoves(t) /\ Keeps(t) /\ call'[t].pc \in {"raised", "swallowed"}
         /\ call'[t].on = call[t].on /\ SameTries(t)
BY ToMoves DEF JiraFails

LEMMA AzureRaisesMoves ==
  ASSUME CallsTyped, NEW t \in Tasks, AzureRaises(t)
  PROVE  /\ CallMoves(t) /\ Keeps(t) /\ call'[t].pc \in {"raised", "swallowed"}
         /\ call'[t].on = call[t].on /\ SameTries(t)
BY ToMoves DEF AzureRaises

-----------------------------------------------------------------------------
(* The effects of calls in Jira and Azure DevOps                           *)

Issue == [by : Tasks \cup {People}, status : Statuses]

AtMost(n, S) == IsFiniteSet(S) /\ Cardinality(S) <= n

LEMMA AtMostEmpty == ASSUME NEW n \in Nat PROVE AtMost(n, {})
BY FS_EmptySet DEF AtMost

\* A set with one element more, or the same, has one more element at most.
LEMMA AtMostMore ==
  ASSUME NEW n \in Nat, NEW S, AtMost(n, S), NEW e
  PROVE  AtMost(n + 1, S) /\ AtMost(n + 1, S \cup {e})
<1> DEFINE k == Cardinality(S)
           T == S \cup {e}
           m == Cardinality(T)
<1>1. k \in Nat /\ k <= n
  BY FS_CardinalityType DEF AtMost
<1>2. IsFiniteSet(S) /\ IsFiniteSet(T) /\ (m = k \/ m = k + 1)
  BY FS_AddElement DEF AtMost
<1>3. k <= n + 1 /\ m <= n + 1
  <2> HIDE DEF k, m, T
  <2> QED BY <1>1, <1>2
<1> QED BY <1>2, <1>3 DEF AtMost

CreateFits(t) ==
  Kind(t) = "create_ticket" =>
    /\ call[t].pc = "idle" => Made(t) = {}
    /\ call[t].pc = "request" => AtMost(call[t].sent, Made(t))
    /\ AtMost(call[t].sent + 1, Made(t))
    /\ call[t].pc = "returned" => call[t].result[1] \in Made(t)

WriteFits(t) ==
  Kind(t) \in AdoWrites =>
    /\ call[t].pc \in {"idle", "request"} => EffectsOf(t) = {} /\ call[t].result = <<>>
    /\ EffectsOf(t) = {} \/ \E i \in Nat : EffectsOf(t) = {i}
    /\ \/ call[t].result = <<>>
       \/ call[t].result = <<"data">> /\ \E i \in Nat : EffectsOf(t) = {i}

\* A ticket's request makes one issue per try at most, and no call has an
\* effect in Azure DevOps before its request, nor two.
EffectInv ==
  /\ CallsTyped
  /\ issues \in Seq(Issue) /\ effects \in Seq(Tasks)
  /\ \A t \in Tasks : CreateFits(t) /\ WriteFits(t)

LEMMA EffectInvInit == ClientsInit => EffectInv
<1> SUFFICES ASSUME ClientsInit PROVE EffectInv
  OBVIOUS
<1>1. CallsTyped
  BY DEF ClientsInit, CallsTyped, IsCall, NoCall
<1>2. PICK s \in Statuses : issues = <<[by |-> People, status |-> s]>>
  BY DEF ClientsInit
<1>3. issues \in Seq(Issue) /\ DOMAIN issues = {1} /\ issues[1].by = People
  BY <1>2 DEF Issue
<1>4. \A t \in Tasks : t # People
  BY ClientsAssumption DEF People
<1>5. \A t \in Tasks : Made(t) = {}
  BY <1>3, <1>4 DEF Made
<1>6. effects \in Seq(Tasks) /\ \A t \in Tasks : EffectsOf(t) = {}
  BY DEF ClientsInit, EffectsOf
<1>7. \A t \in Tasks : call[t].pc = "idle" /\ call[t].sent = 0 /\ call[t].result = <<>>
  BY DEF ClientsInit, NoCall
<1>8. ASSUME NEW t \in Tasks PROVE CreateFits(t)
  <2>1. AtMost(0 + 1, {})
    BY AtMostEmpty
  <2> QED BY <1>5, <1>7, <2>1 DEF CreateFits
<1>9. ASSUME NEW t \in Tasks PROVE WriteFits(t)
  BY <1>6, <1>7 DEF WriteFits
<1> QED BY <1>1, <1>3, <1>6, <1>8, <1>9 DEF EffectInv

\* A new issue is of the task that makes it.
LEMMA MadeByOne ==
  ASSUME issues \in Seq(Issue), NEW t \in Tasks, NEW s \in Statuses,
         issues' = Append(issues, [by |-> t, status |-> s])
  PROVE  /\ issues' \in Seq(Issue)
         /\ Len(issues) + 1 \in Nat
         /\ Made(t)' = Made(t) \cup {Len(issues) + 1}
         /\ \A u \in Tasks \ {t} : Made(u)' = Made(u)
<1> DEFINE new == [by |-> t, status |-> s]
<1>1. new \in Issue /\ new.by = t
  BY DEF Issue
<1> HIDE DEF new
<1>2. /\ issues' \in Seq(Issue) /\ Len(issues) \in Nat
      /\ DOMAIN issues = 1..Len(issues) /\ DOMAIN issues' = 1..(Len(issues) + 1)
      /\ \A i \in 1..Len(issues) : issues'[i] = issues[i]
      /\ issues'[Len(issues) + 1] = new
  BY <1>1 DEF new
<1>3. ASSUME NEW u \in Tasks, NEW i
      PROVE  i \in Made(u)' <=> i \in Made(u) \/ (u = t /\ i = Len(issues) + 1)
  BY <1>1, <1>2 DEF Made
<1>4. \A i : i \in Made(t)' <=> i \in Made(t) \cup {Len(issues) + 1}
  BY <1>3
<1>5. ASSUME NEW u \in Tasks \ {t} PROVE Made(u)' = Made(u)
  <2>1. \A i : i \in Made(u)' <=> i \in Made(u)
    BY <1>3
  <2> QED BY <2>1
<1> QED BY <1>2, <1>4, <1>5

\* A move changes no issue's maker.
LEMMA MoveKeepsMade ==
  ASSUME issues \in Seq(Issue), NEW i, NEW s \in Statuses,
         issues' = [issues EXCEPT ![i].status = s]
  PROVE  issues' \in Seq(Issue) /\ \A u \in Tasks : Made(u)' = Made(u)
<1>1. /\ Len(issues) \in Nat /\ DOMAIN issues = 1..Len(issues)
      /\ \A j \in 1..Len(issues) : issues[j] \in Issue
  OBVIOUS
<1>2. /\ issues' = [j \in 1..Len(issues) |-> issues'[j]]
      /\ \A j \in 1..Len(issues) : issues'[j] \in Issue /\ issues'[j].by = issues[j].by
  BY <1>1 DEF Issue
<1>3. DOMAIN issues' = DOMAIN issues /\ issues' \in [1..Len(issues) -> Issue]
  BY <1>1, <1>2
<1>4. issues' \in Seq(Issue)
  BY <1>1, <1>3
<1> QED BY <1>1, <1>2, <1>3, <1>4 DEF Made

\* A write of a call of Azure DevOps has its effect once.
LEMMA EffectOfOne ==
  ASSUME effects \in Seq(Tasks), NEW t \in Tasks, effects' = Append(effects, t)
  PROVE  /\ effects' \in Seq(Tasks)
         /\ Len(effects) + 1 \in Nat
         /\ EffectsOf(t)' = EffectsOf(t) \cup {Len(effects) + 1}
         /\ \A u \in Tasks \ {t} : EffectsOf(u)' = EffectsOf(u)
<1>1. /\ effects' \in Seq(Tasks) /\ Len(effects) \in Nat
      /\ DOMAIN effects = 1..Len(effects) /\ DOMAIN effects' = 1..(Len(effects) + 1)
      /\ \A i \in 1..Len(effects) : effects'[i] = effects[i]
      /\ effects'[Len(effects) + 1] = t
  OBVIOUS
<1>2. ASSUME NEW u \in Tasks, NEW i
      PROVE  i \in EffectsOf(u)' <=> i \in EffectsOf(u) \/ (u = t /\ i = Len(effects) + 1)
  BY <1>1 DEF EffectsOf
<1>3. \A i : i \in EffectsOf(t)' <=> i \in EffectsOf(t) \cup {Len(effects) + 1}
  BY <1>2
<1>4. ASSUME NEW u \in Tasks \ {t} PROVE EffectsOf(u)' = EffectsOf(u)
  <2>1. \A i : i \in EffectsOf(u)' <=> i \in EffectsOf(u)
    BY <1>2
  <2> QED BY <2>1
<1> QED BY <1>1, <1>3, <1>4

LEMMA BeginMoves ==
  ASSUME CallsTyped, NEW t \in Tasks, GetCheckpointer(t)
  PROVE  /\ CallMoves(t)
         /\ Kind(t) \in CheckpointOps \cup {"initialize"} /\ call[t].pc = "idle"
         /\ call'[t].late = SomeEnded(WorkerOf[t])
         /\ LET m == Manager(t)
            IN  IF m.initialized /\ (Kind(t) = "initialize" => m.saver # None)
                  THEN /\ call'[t].on = m.saver
                       /\ \/ Kind(t) = "initialize" /\ call'[t].pc = "returned"
                          \/ call'[t].pc \in {"raised", "swallowed"}
                       /\ UNCHANGED <<manager, pool>>
                  ELSE /\ call'[t].pc = "wait"
                       /\ pool' = [pool EXCEPT ![t] = "open"]
                       /\ manager' = [manager EXCEPT ![WorkerOf[t]] = [m EXCEPT !.pool = t]]
<1> DEFINE m == Manager(t)
           late == SomeEnded(WorkerOf[t])
           ready == m.initialized /\ (Kind(t) = "initialize" => m.saver # None)
           saver == m.saver
           end == CASE Kind(t) = "initialize" -> "returned"
                    [] Kind(t) = "save" -> "raised"
                    [] OTHER -> "swallowed"
<1>1. /\ Kind(t) \in CheckpointOps \cup {"initialize"} /\ call[t].pc = "idle"
      /\ IF ready
           THEN /\ call' = [call EXCEPT ![t] = UseSaver(t, saver)]
                /\ UNCHANGED <<manager, pool>>
           ELSE /\ call' = [call EXCEPT ![t] = [Begun(t) EXCEPT !.pc = "wait"]]
                /\ pool' = [pool EXCEPT ![t] = "open"]
                /\ manager' = [manager EXCEPT ![WorkerOf[t]] = [m EXCEPT !.pool = t]]
  BY DEF GetCheckpointer, SetManager
<1>2. UseSaver(t, saver) = [[Begun(t) EXCEPT !.on = saver] EXCEPT !.pc = end]
  BY DEF UseSaver
<1>3. \/ Kind(t) = "initialize" /\ end = "returned"
      \/ end \in {"raised", "swallowed"}
  OBVIOUS
<1>4. Begun(t) = [pc |-> "idle", result |-> <<>>, on |-> None, todo |-> <<>>, sent |-> 0,
                  late |-> late]
  BY DEF Begun, NoCall
<1> HIDE DEF late, ready, m, saver, end
<1>5. CASE ready
  <2> DEFINE mid == [Begun(t) EXCEPT !.on = saver]
             new == [mid EXCEPT !.pc = end]
  <2>1. mid = [pc |-> "idle", result |-> <<>>, on |-> saver, todo |-> <<>>, sent |-> 0,
               late |-> late]
    BY <1>4
  <2> HIDE DEF mid
  <2>2. new = [pc |-> end, result |-> <<>>, on |-> saver, todo |-> <<>>, sent |-> 0,
               late |-> late]
    BY <2>1
  <2>3. call' = [call EXCEPT ![t] = new] /\ UNCHANGED <<manager, pool>>
    BY <1>1, <1>2, <1>5 DEF mid
  <2> HIDE DEF new
  <2>4. IsCall(new) /\ new.pc = end /\ new.on = saver /\ new.late = late
    BY <2>2 DEF IsCall
  <2>5. CallMoves(t) /\ call'[t] = new
    BY <2>3, <2>4 DEF CallsTyped, CallMoves
  <2> QED BY <1>1, <1>3, <1>5, <2>3, <2>4, <2>5 DEF late, ready, m, saver
<1>6. CASE ~ready
  <2> DEFINE new == [Begun(t) EXCEPT !.pc = "wait"]
  <2>1. new = [pc |-> "wait", result |-> <<>>, on |-> None, todo |-> <<>>, sent |-> 0,
               late |-> late]
    BY <1>4
  <2>2. /\ call' = [call EXCEPT ![t] = new]
        /\ pool' = [pool EXCEPT ![t] = "open"]
        /\ manager' = [manager EXCEPT ![WorkerOf[t]] = [m EXCEPT !.pool = t]]
    BY <1>1, <1>6
  <2> HIDE DEF new
  <2>3. IsCall(new) /\ new.pc = "wait" /\ new.late = late
    BY <2>1 DEF IsCall
  <2>4. CallMoves(t) /\ call'[t] = new
    BY <2>2, <2>3 DEF CallsTyped, CallMoves
  <2> QED BY <1>1, <1>6, <2>2, <2>3, <2>4 DEF late, ready, m
<1> QED BY <1>5, <1>6

\* Whatever a task does, its call moves and no other.
LEMMA StepMoves ==
  ASSUME CallsTyped, NEW t \in Tasks, Step(t)
  PROVE  CallMoves(t) /\ work' = work /\ faults' \in {faults, faults + 1}
<1>1. CASE GetCheckpointer(t)
  BY <1>1, BeginMoves DEF GetCheckpointer
<1>2. CASE PoolReady(t)
  BY <1>2, GivesUpMoves, UsesPool DEF PoolReady
<1>3. CASE PoolFails(t)
  BY <1>3, GivesUpMoves DEF PoolFails, FailsOr, Fails
<1>4. CASE SetupEnds(t)
  BY <1>4, GivesUpMoves DEF SetupEnds
<1>5. CASE SetupFails(t)
  BY <1>5, GivesUpMoves DEF SetupFails, FailsOr, Fails
<1>8. CASE CloseManager(t)
  BY <1>8, ReturnsMoves, ToMoves DEF CloseManager
<1>9. CASE ManagerClosed(t)
  BY <1>9, ReturnsMoves, ToMoves DEF ManagerClosed, Fails
<1>10. CASE CallAzure(t)
  BY <1>10, ToMoves DEF CallAzure
<1>11. CASE AzureAnswers(t)
  BY <1>11, ReturnsMoves DEF AzureAnswers
<1>12. CASE AzureFails(t)
  BY <1>12, AzureRaisesMoves DEF AzureFails, Fails
<1>13. CASE CloseSession(t)
  BY <1>13, ReturnsMoves DEF CloseSession
<1>14. CASE CallJira(t)
  BY <1>14, GetsWork, JiraFailsMoves DEF CallJira, Fails
<1>15. CASE CreateIssue(t)
  BY <1>15, ReturnsMoves DEF CreateIssue
<1>16. CASE WriteField(t)
  BY <1>16, FieldDoneMoves DEF WriteField
<1>17. CASE ReadTransitions(t)
  BY <1>17, FieldDoneMoves, ReadsStatus DEF ReadTransitions
<1>18. CASE TransitionIssue(t)
  BY <1>18, FieldDoneMoves, JiraFailsMoves DEF TransitionIssue
<1>19. CASE JiraResends(t) \/ JiraGivesUp(t)
  BY <1>19, SentAgain, JiraFailsMoves DEF JiraResends, JiraGivesUp, Unanswered, Fails
<1>20. CASE Updated(t)
  BY <1>20, ReturnsMoves DEF Updated
<1>21. CASE GetTicket(t)
  BY <1>21, ReturnsMoves, JiraFailsMoves DEF GetTicket, Fails
<1> QED
  BY <1>1, <1>2, <1>3, <1>4, <1>5, <1>8, <1>9, <1>10, <1>11, <1>12, <1>13, <1>14,
     <1>15, <1>16, <1>17, <1>18, <1>19, <1>20, <1>21 DEF Step

LEMMA StepCalls == CallsTyped /\ [ClientsNext]_clientVars => CallsTyped'
<1> SUFFICES ASSUME CallsTyped, [ClientsNext]_clientVars PROVE CallsTyped'
  OBVIOUS
<1>1. CASE Move \/ UNCHANGED clientVars
  BY <1>1 DEF Move, clientVars, CallsTyped
<1>2. ASSUME NEW t \in Tasks, Step(t) PROVE CallsTyped'
  BY <1>2, StepMoves DEF CallsTyped, CallMoves
<1> QED BY <1>1, <1>2 DEF ClientsNext

LEMMA OthersEffects ==
  ASSUME EffectInv, NEW t \in Tasks, CallMoves(t), work' = work,
         \A u \in Tasks \ {t} : Made(u)' = Made(u) /\ EffectsOf(u)' = EffectsOf(u)
  PROVE  \A u \in Tasks \ {t} : CreateFits(u)' /\ WriteFits(u)'
<1> SUFFICES ASSUME NEW u \in Tasks \ {t} PROVE CreateFits(u)' /\ WriteFits(u)'
  OBVIOUS
<1>1. /\ CreateFits(u) /\ WriteFits(u)
      /\ call'[u] = call[u] /\ Kind(u)' = Kind(u)
      /\ Made(u)' = Made(u) /\ EffectsOf(u)' = EffectsOf(u)
  BY DEF EffectInv, CallMoves, Kind
<1>2. CreateFits(u)'
  BY <1>1 DEF CreateFits
<1>3. WriteFits(u)'
  BY <1>1 DEF WriteFits
<1> QED BY <1>2, <1>3

\* The steps of calls that neither make an issue nor write to Azure DevOps.
LEMMA QuietStep ==
  ASSUME EffectInv, NEW t \in Tasks, CallMoves(t), work' = work,
         Kind(t) \notin {"create_ticket"} \cup AdoWrites,
         issues' \in Seq(Issue), effects' = effects,
         \A u \in Tasks : Made(u)' = Made(u)
  PROVE  issues' \in Seq(Issue) /\ effects' \in Seq(Tasks)
         /\ \A u \in Tasks : CreateFits(u)' /\ WriteFits(u)'
<1>1. \A u \in Tasks \ {t} : CreateFits(u)' /\ WriteFits(u)'
  BY OthersEffects DEF EffectsOf
<1>2. CreateFits(t)' /\ WriteFits(t)'
  BY DEF CreateFits, WriteFits, Kind
<1> QED BY <1>1, <1>2 DEF EffectInv

LEMMA SameIssues ==
  ASSUME issues' = issues
  PROVE  \A u \in Tasks : Made(u)' = Made(u)
BY DEF Made

\* A ticket's request has its effect and the call answers, fails or tries again.
LEMMA CreateIssueEffect ==
  ASSUME EffectInv, NEW t \in Tasks, CallMoves(t), work' = work, Kind(t) = "create_ticket",
         CreateIssue(t) \/ JiraResends(t) \/ JiraGivesUp(t)
  PROVE  issues' \in Seq(Issue) /\ effects' \in Seq(Tasks)
         /\ \A u \in Tasks : CreateFits(u)' /\ WriteFits(u)'
<1> DEFINE n == call[t].sent
<1>1. /\ call[t].pc = "request" /\ effects' = effects /\ CallsTyped
      /\ issues \in Seq(Issue) /\ effects \in Seq(Tasks) /\ Len(issues) \in Nat
      /\ Kind(t)' = "create_ticket"
  BY DEF CreateIssue, JiraResends, JiraGivesUp, Unanswered, Changing, At, EffectInv, azure, Kind
<1>2. AtMost(n, Made(t)) /\ n \in Nat
  BY <1>1 DEF EffectInv, CreateFits, CallsTyped, IsCall
<1>3. \A u \in Tasks : EffectsOf(u)' = EffectsOf(u)
  BY <1>1 DEF EffectsOf
<1>4. /\ \/ issues' = issues /\ ~CreateIssue(t)
         \/ \E s \in Statuses : issues' = Append(issues, [by |-> t, status |-> s])
      /\ \/ /\ CreateIssue(t)
            /\ call'[t].pc = "returned" /\ call'[t].result = <<Len(issues) + 1>>
            /\ call'[t].sent = n
         \/ call'[t].pc = "request" /\ call'[t].sent = n + 1
         \/ call'[t].pc \in {"raised", "swallowed"} /\ call'[t].sent = n
  <2>1. CASE CreateIssue(t)
    BY <1>1, <2>1, ReturnsMoves DEF CreateIssue, SameTries
  <2>2. CASE (JiraResends(t) \/ JiraGivesUp(t)) /\ ~CreateIssue(t)
    <3>1. \/ issues' = issues
          \/ \E s \in Statuses : issues' = Append(issues, [by |-> t, status |-> s])
      BY <2>2 DEF JiraResends, JiraGivesUp, Unanswered
    <3>2. \/ call'[t].pc = "request" /\ call'[t].sent = n + 1
          \/ call'[t].pc \in {"raised", "swallowed"} /\ call'[t].sent = n
      BY <1>1, <2>2, SentAgain, JiraFailsMoves DEF JiraResends, JiraGivesUp, SameTries
    <3> QED BY <2>2, <3>1, <3>2
  <2> QED BY <2>1, <2>2
<1>5. /\ issues' \in Seq(Issue)
      /\ \A u \in Tasks \ {t} : Made(u)' = Made(u)
      /\ \/ Made(t)' = Made(t) /\ ~CreateIssue(t)
         \/ Made(t)' = Made(t) \cup {Len(issues) + 1}
  <2>1. CASE issues' = issues /\ ~CreateIssue(t)
    BY <1>1, <2>1, SameIssues
  <2>2. CASE \E s \in Statuses : issues' = Append(issues, [by |-> t, status |-> s])
    BY <1>1, <2>2, MadeByOne
  <2> QED BY <1>4, <2>1, <2>2
<1>6. AtMost(n + 1, Made(t)')
  BY <1>2, <1>5, AtMostMore
<1>7. call'[t].pc = "returned" => call'[t].result[1] \in Made(t)'
  <2>1. ASSUME call'[t].pc = "returned"
        PROVE  call'[t].result[1] = Len(issues) + 1 /\ Made(t)' = Made(t) \cup {Len(issues) + 1}
    BY <1>4, <1>5, <2>1
  <2> QED BY <2>1
<1>8. /\ call'[t].pc # "idle"
      /\ call'[t].pc = "request" => AtMost(call'[t].sent, Made(t)')
      /\ AtMost(call'[t].sent + 1, Made(t)')
  <2>1. AtMost((n + 1) + 1, Made(t)')
    <3> DEFINE m == n + 1
    <3>1. m \in Nat /\ AtMost(m, Made(t)')
      BY <1>2, <1>6
    <3> HIDE DEF m
    <3>2. AtMost(m + 1, Made(t)')
      BY <3>1, AtMostMore
    <3> QED BY <3>2 DEF m
  <2>2. CASE CreateIssue(t) /\ call'[t].pc = "returned" /\ call'[t].sent = n
    BY <1>6, <2>2
  <2>3. CASE call'[t].pc = "request" /\ call'[t].sent = n + 1
    BY <1>6, <2>1, <2>3
  <2>4. CASE call'[t].pc \in {"raised", "swallowed"} /\ call'[t].sent = n
    BY <1>6, <2>4
  <2> QED BY <1>4, <2>2, <2>3, <2>4
<1>9. CreateFits(t)'
  <2> USE DEF CreateFits
  <2> QED BY <1>1, <1>7, <1>8
<1>10. WriteFits(t)'
  BY <1>1 DEF WriteFits, AdoWrites
<1> QED BY <1>1, <1>3, <1>5, <1>9, <1>10, OthersEffects

\* A request of Azure DevOps, answered or not.
LEMMA AzureEffect ==
  ASSUME EffectInv, NEW t \in Tasks, CallMoves(t), CallAzure(t) \/ AzureAnswers(t) \/ AzureFails(t)
  PROVE  issues' \in Seq(Issue) /\ effects' \in Seq(Tasks)
         /\ \A u \in Tasks : CreateFits(u)' /\ WriteFits(u)'
<1>1. /\ Kind(t) # "create_ticket" /\ call[t].pc \in {"idle", "request"}
      /\ work' = work /\ issues' = issues /\ CallsTyped
      /\ issues \in Seq(Issue) /\ effects \in Seq(Tasks)
  BY DEF CallAzure, AzureAnswers, AzureFails, At, EffectInv, jira, AdoOps, AdoReads, AdoWrites
<1>2. /\ \A u \in Tasks : Made(u)' = Made(u)
      /\ Kind(t)' = Kind(t)
      /\ Kind(t) \in AdoWrites => EffectsOf(t) = {} /\ call[t].result = <<>>
  BY <1>1, SameIssues DEF EffectInv, WriteFits, Kind
<1>3. CreateFits(t)'
  BY <1>1, <1>2 DEF CreateFits
<1>4. /\ \/ effects' = effects
         \/ /\ Kind(t) \in AdoWrites /\ effects' = Append(effects, t)
            /\ call'[t].pc \notin {"idle", "request"}
      /\ \/ call'[t].result = call[t].result
         \/ call'[t].result = <<>>
         \/ call'[t].result = <<"data">> /\ effects' = EffectsAfter(t)
  <2>1. CASE CallAzure(t)
    BY <1>1, <2>1, ToMoves DEF CallAzure, Keeps
  <2>2. CASE AzureFails(t)
    BY <1>1, <2>2, AzureRaisesMoves DEF AzureFails, EffectsAfter, Keeps
  <2>3. CASE AzureAnswers(t)
    BY <1>1, <2>3, ReturnsMoves DEF AzureAnswers, EffectsAfter
  <2> QED BY <2>1, <2>2, <2>3
<1>5. ASSUME Kind(t) \in AdoWrites
      PROVE  /\ effects' \in Seq(Tasks)
             /\ \A u \in Tasks \ {t} : EffectsOf(u)' = EffectsOf(u)
             /\ \/ effects' = effects /\ EffectsOf(t)' = {}
                \/ /\ effects' = Append(effects, t)
                   /\ Len(effects) + 1 \in Nat /\ EffectsOf(t)' = {Len(effects) + 1}
  <2>1. CASE effects' = effects
    BY <1>1, <1>2, <1>5, <2>1 DEF EffectsOf
  <2>2. CASE effects' = Append(effects, t)
    BY <1>1, <1>2, <1>5, <2>2, EffectOfOne
  <2> QED BY <1>4, <2>1, <2>2
<1>6. CASE Kind(t) \in AdoWrites
  <2>1. \/ call'[t].result = <<>>
        \/ call'[t].result = <<"data">> /\ effects' = Append(effects, t)
    BY <1>2, <1>4, <1>6 DEF EffectsAfter
  <2>2. effects' = effects => effects' # Append(effects, t)
    <3>1. Len(Append(effects, t)) = Len(effects) + 1 /\ Len(effects) \in Nat
      BY <1>1
    <3> QED BY <3>1
  <2>3. EffectsOf(t)' = {} \/ \E i \in Nat : EffectsOf(t)' = {i}
    BY <1>5, <1>6
  <2>4. call'[t].result = <<>> \/ (call'[t].result = <<"data">> /\ \E i \in Nat : EffectsOf(t)' = {i})
    BY <1>5, <1>6, <2>1, <2>2
  <2>5. call'[t].pc \in {"idle", "request"} => EffectsOf(t)' = {} /\ call'[t].result = <<>>
    <3>1. CASE CallAzure(t)
      BY <1>1, <1>2, <1>5, <1>6, <2>2, <3>1, ToMoves DEF CallAzure, Keeps
    <3>2. CASE AzureFails(t)
      BY <1>1, <3>2, AzureRaisesMoves DEF AzureFails
    <3>3. CASE AzureAnswers(t)
      BY <1>1, <3>3, ReturnsMoves DEF AzureAnswers
    <3> QED BY <3>1, <3>2, <3>3
  <2>6. WriteFits(t)'
    BY <2>3, <2>4, <2>5 DEF WriteFits
  <2> QED BY <1>1, <1>2, <1>3, <1>5, <1>6, <2>6, OthersEffects
<1>7. CASE Kind(t) \notin AdoWrites
  <2>1. effects' = effects
    BY <1>4, <1>7
  <2>2. \A u \in Tasks : EffectsOf(u)' = EffectsOf(u)
    BY <2>1 DEF EffectsOf
  <2>3. WriteFits(t)'
    BY <1>2, <1>7 DEF WriteFits
  <2> QED BY <1>1, <1>2, <1>3, <2>1, <2>2, <2>3, OthersEffects
<1> QED BY <1>6, <1>7

\* A call of Jira that begins, whatever it is for.
LEMMA CallJiraEffect ==
  ASSUME EffectInv, NEW t \in Tasks, CallJira(t), CallMoves(t)
  PROVE  issues' \in Seq(Issue) /\ effects' \in Seq(Tasks)
         /\ \A u \in Tasks : CreateFits(u)' /\ WriteFits(u)'
<1>1. /\ Kind(t) \notin AdoWrites /\ call[t].pc = "idle" /\ Kind(t)' = Kind(t)
      /\ work' = work /\ issues' = issues /\ effects' = effects /\ CallsTyped
      /\ issues \in Seq(Issue) /\ effects \in Seq(Tasks)
  BY DEF CallJira, EffectInv, azure, AdoWrites, JiraOps, Kind
<1>2. call'[t].pc \in {"request", "raised", "swallowed"} /\ call'[t].sent \in Nat
  BY <1>1, GetsWork, JiraFailsMoves DEF CallJira, CallMoves, IsCall
<1>3. \A u \in Tasks : Made(u)' = Made(u) /\ EffectsOf(u)' = EffectsOf(u)
  BY <1>1 DEF Made, EffectsOf
<1>4. AtMost(call'[t].sent, {}) /\ AtMost(call'[t].sent + 1, {})
  <2> DEFINE n == call'[t].sent
  <2>1. n \in Nat /\ n + 1 \in Nat
    BY <1>2
  <2> QED BY <2>1, AtMostEmpty
<1>5. CreateFits(t)'
  <2>1. ASSUME Kind(t) = "create_ticket" PROVE Made(t)' = {}
    BY <1>1, <1>3, <2>1 DEF EffectInv, CreateFits
  <2> QED BY <1>1, <1>2, <1>4, <2>1 DEF CreateFits
<1>6. WriteFits(t)'
  BY <1>1 DEF WriteFits
<1> QED BY <1>1, <1>3, <1>5, <1>6, OthersEffects

LEMMA StepEffects == EffectInv /\ [ClientsNext]_clientVars => EffectInv'
<1> SUFFICES ASSUME EffectInv, [ClientsNext]_clientVars
             PROVE  /\ issues' \in Seq(Issue) /\ effects' \in Seq(Tasks)
                    /\ \A u \in Tasks : CreateFits(u)' /\ WriteFits(u)'
  BY StepCalls DEF EffectInv
<1>1. CASE UNCHANGED clientVars
  <2>1. /\ work' = work /\ call' = call /\ effects' = effects /\ issues' = issues
        /\ issues \in Seq(Issue) /\ effects \in Seq(Tasks)
    BY <1>1 DEF clientVars, jira, azure, EffectInv
  <2>2. ASSUME NEW u \in Tasks
        PROVE  Made(u)' = Made(u) /\ EffectsOf(u)' = EffectsOf(u) /\ Kind(u)' = Kind(u)
    BY <2>1 DEF Made, EffectsOf, Kind
  <2> QED BY <2>1, <2>2 DEF EffectInv, CreateFits, WriteFits
<1>2. CASE Move
  <2>1. /\ work' = work /\ call' = call /\ effects' = effects /\ issues \in Seq(Issue)
        /\ \E i \in DOMAIN issues, s \in Statuses : issues' = [issues EXCEPT ![i].status = s]
    BY <1>2 DEF Move, azure, EffectInv
  <2>2. issues' \in Seq(Issue) /\ \A u \in Tasks : Made(u)' = Made(u)
    BY <2>1, MoveKeepsMade
  <2> QED
    BY <2>1, <2>2 DEF EffectInv, CreateFits, WriteFits, EffectsOf, Kind
<1>3. ASSUME NEW t \in Tasks, Step(t)
      PROVE  /\ issues' \in Seq(Issue) /\ effects' \in Seq(Tasks)
             /\ \A u \in Tasks : CreateFits(u)' /\ WriteFits(u)'
  <2>1. CallMoves(t) /\ work' = work /\ work \in Scenarios /\ issues \in Seq(Issue)
    BY <1>3, StepMoves DEF EffectInv, CallsTyped
  <2>2. CASE GetCheckpointer(t) \/ PoolReady(t) \/ PoolFails(t) \/ SetupEnds(t) \/ SetupFails(t)
               \/ CloseManager(t) \/ ManagerClosed(t)
    <3>1. /\ Kind(t) \notin {"create_ticket"} \cup AdoWrites
          /\ issues' = issues /\ effects' = effects
      BY <2>2 DEF GetCheckpointer, PoolReady, PoolFails, SetupEnds, SetupFails,
                  CloseManager, ManagerClosed, At, ManagerOps, CheckpointOps,
                  AdoWrites, azure, jira
    <3> QED BY <2>1, <3>1, SameIssues, QuietStep
  <2>3. CASE CloseSession(t) \/ ReadTransitions(t) \/ WriteField(t) \/ Updated(t) \/ GetTicket(t)
    <3>1. /\ Kind(t) \notin {"create_ticket"} \cup AdoWrites
          /\ issues' = issues /\ effects' = effects
      BY <2>3 DEF CloseSession, ReadTransitions, WriteField, Updated, GetTicket, At,
                  AdoWrites, azure, jira
    <3> QED BY <2>1, <3>1, SameIssues, QuietStep
  <2>4. CASE TransitionIssue(t)
               \/ ((JiraResends(t) \/ JiraGivesUp(t)) /\ Kind(t) # "create_ticket")
    <3>1. /\ Kind(t) = "update_ticket" /\ effects' = effects
          /\ \/ issues' = issues
             \/ issues' = [issues EXCEPT ![Arg(t).issue].status = Arg(t).status]
      BY <2>4 DEF TransitionIssue, JiraResends, JiraGivesUp, Unanswered, Changing, At, azure
    <3>2. Arg(t).status \in Statuses
      BY <2>1, ClientsAssumption DEF Arg
    <3>3. issues' \in Seq(Issue) /\ \A u \in Tasks : Made(u)' = Made(u)
      BY <2>1, <3>1, <3>2, SameIssues, MoveKeepsMade
    <3> QED BY <2>1, <3>1, <3>3, QuietStep DEF AdoWrites
  <2> QED
    <3>1. CreateIssue(t) => Kind(t) = "create_ticket"
      BY DEF CreateIssue, At
    <3> QED
      BY <1>3, <2>1, <2>2, <2>3, <2>4, <3>1, CreateIssueEffect, AzureEffect, CallJiraEffect
         DEF Step
<1> QED BY <1>1, <1>2, <1>3 DEF ClientsNext

\* create_ticket_from_analysis and create_escalation_ticket, trigger_pipeline
\* and create_work_item: with answers that get lost, requests that the Jira
\* library sends again, statuses other than success after the effect and any
\* other calls in between, a ticket's request makes one issue per try at most
\* and answers with one of them, a request of Azure DevOps has its effect once
\* at most, and once if it answers with data.
THEOREM OneEffectHolds == ClientsSpec => []OneEffect
<1>1. EffectInv => OneEffect
  <2> SUFFICES ASSUME EffectInv, NEW t \in Tasks
               PROVE  /\ Kind(t) = "create_ticket" =>
                           /\ Cardinality(Made(t)) <= 1 + call[t].sent
                           /\ call[t].pc = "returned" => call[t].result[1] \in Made(t)
                      /\ Kind(t) \in AdoWrites =>
                           /\ Cardinality(EffectsOf(t)) <= 1
                           /\ Len(call[t].result) <= Cardinality(EffectsOf(t))
    BY DEF OneEffect
  <2>1. CreateFits(t) /\ WriteFits(t)
    BY DEF EffectInv
  <2>2. Cardinality({}) = 0 /\ \A i \in Nat : Cardinality({i}) = 1
    BY FS_EmptySet, FS_Singleton
  <2>3. Len(<<>>) = 0 /\ Len(<<"data">>) = 1
    OBVIOUS
  <2>4. ASSUME Kind(t) \in AdoWrites
        PROVE  /\ Cardinality(EffectsOf(t)) <= 1
               /\ Len(call[t].result) <= Cardinality(EffectsOf(t))
    <3>1. CASE EffectsOf(t) = {}
      <4>1. call[t].result = <<>>
        BY <2>1, <2>2, <2>4, <3>1 DEF WriteFits
      <4> QED BY <2>2, <2>3, <3>1, <4>1
    <3>2. CASE \E i \in Nat : EffectsOf(t) = {i}
      <4>1. Cardinality(EffectsOf(t)) = 1
        BY <2>2, <3>2
      <4>2. Len(call[t].result) \in {0, 1}
        BY <2>1, <2>3, <2>4 DEF WriteFits
      <4> DEFINE k == Cardinality(EffectsOf(t))
                 l == Len(call[t].result)
      <4>3. k = 1 /\ l \in {0, 1}
        BY <4>1, <4>2
      <4> HIDE DEF k, l
      <4>4. k <= 1 /\ l <= k
        BY <4>3
      <4> QED BY <4>4 DEF k, l
    <3> QED BY <2>1, <2>4, <3>1, <3>2 DEF WriteFits
  <2>5. ASSUME Kind(t) = "create_ticket"
        PROVE  /\ Cardinality(Made(t)) <= 1 + call[t].sent
               /\ call[t].pc = "returned" => call[t].result[1] \in Made(t)
    <3>1. call[t].sent \in Nat /\ AtMost(call[t].sent + 1, Made(t))
      BY <2>1, <2>5 DEF EffectInv, CallsTyped, IsCall, CreateFits
    <3>2. call[t].sent + 1 = 1 + call[t].sent
      BY <3>1
    <3>3. Cardinality(Made(t)) <= 1 + call[t].sent
      BY <3>1, <3>2 DEF AtMost
    <3> QED BY <2>1, <2>5, <3>3 DEF CreateFits
  <2> QED BY <2>4, <2>5
<1> QED BY EffectInvInit, StepEffects, <1>1, PTL DEF ClientsSpec

-----------------------------------------------------------------------------
(* Updates of issues                                                       *)

FieldNames == {"summary", "description", "status", "comment"}
Entry == [issue : Nat, field : FieldNames, by : Tasks]

Needed(t) == Arg(t).fields \ {"status"}
RangeOf(s) == {s[i] : i \in 1..Len(s)}

\* What an update has written and what it has still to write cover what it was
\* asked for, and the comment comes last.
UpdateFits(t) ==
  Kind(t) = "update_ticket" =>
    /\ call[t].pc = "idle" => Written(t) = {} /\ call[t].on = None
    /\ call[t].pc = "request" =>
         /\ call[t].todo \in Seq(FieldNames)
         /\ \A i \in 1..Len(call[t].todo) :
              call[t].todo[i] = "comment" => i = Len(call[t].todo)
         /\ "comment" \in Written(t) => RangeOf(call[t].todo) \subseteq {"comment"}
         /\ Needed(t) \subseteq Written(t) \cup RangeOf(call[t].todo)
         /\ call[t].on # None => call[t].todo # <<>> /\ call[t].todo[1] = "status"
    /\ /\ call[t].pc \notin {"idle", "request"}
       /\ call[t].pc = "returned" \/ "comment" \in Written(t)
       => Needed(t) \subseteq Written(t)

UpdateInv ==
  /\ CallsTyped
  /\ changelog \in Seq(Entry)
  /\ \A t \in Tasks : UpdateFits(t)

LEMMA UpdateInvInit == ClientsInit => UpdateInv
<1> SUFFICES ASSUME ClientsInit PROVE UpdateInv
  OBVIOUS
<1>1. CallsTyped
  BY DEF ClientsInit, CallsTyped, IsCall, NoCall
<1>2. changelog = <<>>
  BY DEF ClientsInit
<1>3. changelog \in Seq(Entry) /\ \A t \in Tasks : Written(t) = {}
  BY <1>2 DEF Written
<1>4. \A t \in Tasks : call[t].pc = "idle" /\ call[t].on = None
  BY DEF ClientsInit, NoCall
<1> QED BY <1>1, <1>3, <1>4 DEF UpdateInv, UpdateFits

\* An entry of the log is of the task that writes it.
LEMMA WrittenByOne ==
  ASSUME changelog \in Seq(Entry), NEW t \in Tasks, NEW f \in FieldNames, work \in Scenarios,
         Writes(t, f)
  PROVE  /\ changelog' \in Seq(Entry)
         /\ Written(t)' = Written(t) \cup {f}
         /\ \A u \in Tasks \ {t} : Written(u)' = Written(u)
<1> DEFINE n == Len(changelog)
           new == [issue |-> Arg(t).issue, field |-> f, by |-> t]
<1>1. new \in Entry /\ new.by = t /\ new.field = f /\ changelog' = Append(changelog, new)
  BY ClientsAssumption DEF Entry, Writes, Arg
<1> HIDE DEF new
<1>2. /\ changelog' \in Seq(Entry) /\ n \in Nat
      /\ DOMAIN changelog = 1..n /\ DOMAIN changelog' = 1..(n + 1)
      /\ \A i \in 1..n : changelog'[i] = changelog[i]
      /\ changelog'[n + 1] = new
  BY <1>1
<1>3. ASSUME NEW u \in Tasks, NEW g
      PROVE  g \in Written(u)' <=> g \in Written(u) \/ (u = t /\ g = f)
  <2>1. g \in Written(u) <=> \E i \in 1..n : changelog[i].by = u /\ changelog[i].field = g
    BY <1>2 DEF Written
  <2>2. g \in Written(u)' <=> \E i \in 1..(n + 1) : changelog'[i].by = u /\ changelog'[i].field = g
    BY <1>2 DEF Written
  <2>3. g \in Written(u)' <=> \/ \E i \in 1..n : changelog'[i].by = u /\ changelog'[i].field = g
                              \/ changelog'[n + 1].by = u /\ changelog'[n + 1].field = g
    BY <1>2, <2>2
  <2> QED BY <1>1, <1>2, <2>1, <2>3
<1>4. \A g : g \in Written(t)' <=> g \in Written(t) \cup {f}
  BY <1>3
<1>5. ASSUME NEW u \in Tasks \ {t} PROVE Written(u)' = Written(u)
  <2>1. \A g : g \in Written(u)' <=> g \in Written(u)
    BY <1>3
  <2> QED BY <2>1
<1> QED BY <1>2, <1>4, <1>5

LEMMA OthersUpdate ==
  ASSUME UpdateInv, NEW t \in Tasks, CallMoves(t), work' = work,
         \A u \in Tasks \ {t} : Written(u)' = Written(u)
  PROVE  \A u \in Tasks \ {t} : UpdateFits(u)'
<1> SUFFICES ASSUME NEW u \in Tasks \ {t} PROVE UpdateFits(u)'
  OBVIOUS
<1>1. /\ UpdateFits(u) /\ call'[u] = call[u] /\ Kind(u)' = Kind(u)
      /\ Written(u)' = Written(u) /\ Needed(u)' = Needed(u)
  BY DEF UpdateInv, CallMoves, Kind, Needed, Arg
<1> QED BY <1>1 DEF UpdateFits

\* What an update was asked for, in the order in which it is written.
LEMMA AskedFits ==
  ASSUME NEW t \in Tasks, work \in Scenarios
  PROVE  /\ Asked(t) \in Seq(FieldNames)
         /\ \A i \in 1..Len(Asked(t)) : Asked(t)[i] = "comment" => i = Len(Asked(t))
         /\ Arg(t).fields \subseteq RangeOf(Asked(t))
<1> DEFINE W(f) == Wanted(t, f)
           a == W("summary")
           b == W("description")
           c == W("status")
           d == W("comment")
           ab == a \o b
           abc == ab \o c
           Plain == FieldNames \ {"comment"}
<1>1. Arg(t).fields \subseteq FieldNames
  BY ClientsAssumption DEF Arg, FieldNames
<1>2. ASSUME NEW f
      PROVE  /\ f \in Arg(t).fields => W(f) = <<f>>
             /\ f \notin Arg(t).fields => W(f) = <<>>
  BY DEF Wanted
<1>3. /\ a \in Seq(Plain) /\ b \in Seq(Plain) /\ c \in Seq(Plain)
      /\ d = <<>> \/ d = <<"comment">>
  <2>1. ASSUME NEW f \in Plain PROVE W(f) \in Seq(Plain)
    <3>1. <<f>> \in Seq(Plain) /\ <<>> \in Seq(Plain)
      OBVIOUS
    <3>2. W(f) = <<f>> \/ W(f) = <<>>
      BY <1>2
    <3> HIDE DEF W
    <3> QED BY <3>1, <3>2
  <2>2. "summary" \in Plain /\ "description" \in Plain /\ "status" \in Plain
    BY DEF FieldNames
  <2>3. d = <<>> \/ d = <<"comment">>
    BY <1>2
  <2> HIDE DEF W, Plain
  <2> QED BY <2>1, <2>2, <2>3
<1>4. /\ "summary" \in Arg(t).fields => "summary" \in RangeOf(a)
      /\ "description" \in Arg(t).fields => "description" \in RangeOf(b)
      /\ "status" \in Arg(t).fields => "status" \in RangeOf(c)
      /\ "comment" \in Arg(t).fields => "comment" \in RangeOf(d)
  BY <1>2 DEF RangeOf
<1>5. Asked(t) = abc \o d
  BY DEF Asked
<1> HIDE DEF a, b, c, d, W
<1>6. ASSUME NEW S, NEW p \in Seq(S), NEW q \in Seq(S)
      PROVE  p \o q \in Seq(S) /\ RangeOf(p) \cup RangeOf(q) \subseteq RangeOf(p \o q)
  <2>1. /\ p \o q \in Seq(S) /\ Len(p \o q) = Len(p) + Len(q)
        /\ Len(p) \in Nat /\ Len(q) \in Nat
        /\ \A i \in 1..Len(p) : (p \o q)[i] = p[i]
        /\ \A i \in 1..Len(q) : (p \o q)[Len(p) + i] = q[i]
    OBVIOUS
  <2>2. ASSUME NEW i \in 1..Len(q) PROVE Len(p) + i \in 1..Len(p \o q)
    BY <2>1
  <2> QED BY <2>1, <2>2 DEF RangeOf
<1>7. ab \in Seq(Plain) /\ RangeOf(a) \cup RangeOf(b) \subseteq RangeOf(ab)
  BY <1>3, <1>6
<1> HIDE DEF ab
<1>8. abc \in Seq(Plain) /\ RangeOf(ab) \cup RangeOf(c) \subseteq RangeOf(abc)
  BY <1>3, <1>6, <1>7
<1> HIDE DEF abc
<1>9. abc \in Seq(FieldNames) /\ d \in Seq(FieldNames)
  <2>1. Len(abc) \in Nat /\ abc \in [1..Len(abc) -> FieldNames]
    BY <1>8
  <2>2. "comment" \in FieldNames
    BY DEF FieldNames
  <2> HIDE DEF Plain
  <2>3. <<>> \in Seq(FieldNames) /\ <<"comment">> \in Seq(FieldNames)
    BY <2>2
  <2>4. abc \in Seq(FieldNames)
    BY <2>1
  <2> QED BY <1>3, <2>3, <2>4
<1>10. Asked(t) \in Seq(FieldNames) /\ RangeOf(abc) \cup RangeOf(d) \subseteq RangeOf(Asked(t))
  BY <1>5, <1>6, <1>9
<1>11. Arg(t).fields \subseteq RangeOf(Asked(t))
  BY <1>1, <1>4, <1>7, <1>8, <1>10 DEF FieldNames
<1>12. ASSUME NEW i \in 1..Len(Asked(t)), Asked(t)[i] = "comment" PROVE i = Len(Asked(t))
  <2>1. /\ Len(Asked(t)) = Len(abc) + Len(d) /\ Len(abc) \in Nat /\ Len(d) \in {0, 1}
        /\ \A j \in 1..Len(abc) : Asked(t)[j] = abc[j]
        /\ \A j \in 1..Len(abc) : abc[j] # "comment"
    <3>1. Len(d) \in {0, 1}
      BY <1>3
    <3>2. \A j \in 1..Len(abc) : abc[j] # "comment"
      BY <1>8
    <3> HIDE DEF Plain
    <3> QED BY <1>5, <1>9, <3>1, <3>2
  <2>2. i \in Nat /\ i >= 1 /\ i <= Len(abc) + Len(d)
    BY <1>12, <2>1
  <2>3. i \notin 1..Len(abc)
    BY <1>12, <2>1
  <2>4. ASSUME NEW n \in Nat, NEW m \in {0, 1}, NEW k \in Nat,
               k >= 1, k <= n + m, k \notin 1..n
        PROVE  k = n + m
    BY <2>4
  <2> QED BY <2>1, <2>2, <2>3, <2>4
<1> QED BY <1>10, <1>11, <1>12

\* The first of the fields to write, and the others.
LEMMA FirstField ==
  ASSUME NEW todo \in Seq(FieldNames), todo # <<>>,
         \A i \in 1..Len(todo) : todo[i] = "comment" => i = Len(todo)
  PROVE  /\ todo[1] \in FieldNames /\ Tail(todo) \in Seq(FieldNames)
         /\ \A i \in 1..Len(Tail(todo)) : Tail(todo)[i] = "comment" => i = Len(Tail(todo))
         /\ RangeOf(todo) \subseteq {todo[1]} \cup RangeOf(Tail(todo))
         /\ todo[1] = "comment" => Tail(todo) = <<>>
         /\ todo[1] \in RangeOf(todo)
<1> DEFINE rest == Tail(todo)
<1>1. /\ todo[1] \in FieldNames /\ rest \in Seq(FieldNames)
      /\ Len(todo) \in Nat /\ Len(todo) >= 1
      /\ Len(rest) = Len(todo) - 1
      /\ \A i \in 1..Len(rest) : rest[i] = todo[i + 1]
  OBVIOUS
<1> HIDE DEF rest
<1>2. ASSUME NEW i \in 1..Len(rest) PROVE i + 1 \in 1..Len(todo) /\ i + 1 \in Nat
  BY <1>1
<1>3. \A i \in 1..Len(rest) : rest[i] = "comment" => i = Len(rest)
  BY <1>1, <1>2
<1>4. ASSUME NEW i \in 1..Len(todo) PROVE todo[i] \in {todo[1]} \cup RangeOf(rest)
  <2>1. CASE i = 1
    BY <2>1
  <2>2. CASE i # 1
    <3>1. i - 1 \in 1..Len(rest) /\ (i - 1) + 1 = i
      BY <1>1, <2>2
    <3>2. rest[i - 1] = todo[i]
      BY <1>1, <3>1
    <3> QED BY <3>1, <3>2 DEF RangeOf
  <2> QED BY <2>1, <2>2
<1>5. ASSUME todo[1] = "comment" PROVE rest = <<>>
  <2>1. Len(todo) = 1
    BY <1>1, <1>5
  <2>2. Len(rest) = 0
    BY <1>1, <2>1
  <2> QED BY <1>1, <2>2
<1>6. RangeOf(todo) \subseteq {todo[1]} \cup RangeOf(rest)
  BY <1>4 DEF RangeOf
<1>7. todo[1] \in RangeOf(todo)
  BY <1>1 DEF RangeOf
<1> QED BY <1>1, <1>3, <1>5, <1>6, <1>7 DEF rest

\* The steps that write nothing to an issue, of calls that update none.
LEMMA NoUpdate ==
  ASSUME UpdateInv, NEW t \in Tasks, CallMoves(t), work' = work, changelog' = changelog,
         Kind(t) # "update_ticket"
  PROVE  changelog' \in Seq(Entry) /\ \A u \in Tasks : UpdateFits(u)'
<1>1. \A u \in Tasks : Written(u)' = Written(u)
  BY DEF Written
<1>2. UpdateFits(t)'
  BY DEF UpdateFits, Kind
<1> QED BY <1>1, <1>2, OthersUpdate DEF UpdateInv

LEMMA BeginsUpdate ==
  ASSUME UpdateInv, NEW t \in Tasks, CallMoves(t), work' = work, CallJira(t)
  PROVE  changelog' \in Seq(Entry) /\ \A u \in Tasks : UpdateFits(u)'
<1>1. /\ CallsTyped /\ changelog' = changelog /\ call[t].pc = "idle" /\ UpdateFits(t)
      /\ work \in Scenarios
  BY DEF UpdateInv, CallJira, CallsTyped
<1>2. /\ \A u \in Tasks : Written(u)' = Written(u)
      /\ Kind(t)' = Kind(t) /\ Needed(t)' = Needed(t)
  BY <1>1 DEF Written, Kind, Needed, Arg
<1>3. CASE Kind(t) # "update_ticket"
  BY <1>1, <1>3, NoUpdate
<1>4. CASE Kind(t) = "update_ticket"
  <2>1. Written(t) = {} /\ call[t].on = None
    BY <1>1, <1>4 DEF UpdateFits
  <2>2. \/ call' = [call EXCEPT ![t].pc = "request", ![t].todo = Asked(t)]
        \/ JiraFails(t)
    BY <1>4 DEF CallJira
  <2>3. \/ /\ call'[t].pc = "request" /\ call'[t].todo = Asked(t) /\ call'[t].on = None
        \/ call'[t].pc \in {"raised", "swallowed"}
    BY <1>1, <2>1, <2>2, GetsWork, JiraFailsMoves
  <2>4. Needed(t) \subseteq RangeOf(Asked(t))
    BY <1>1, AskedFits DEF Needed
  <2>5. UpdateFits(t)'
    BY <1>1, <1>2, <1>4, <2>1, <2>3, <2>4, AskedFits DEF UpdateFits
  <2> QED BY <1>1, <1>2, <2>5, OthersUpdate DEF UpdateInv
<1> QED BY <1>3, <1>4

\* A field is done, and it is in the log or it is the status.
LEMMA FieldIsDone ==
  ASSUME UpdateInv, NEW t \in Tasks, work' = work, At(t, {"update_ticket"}, "request"),
         call[t].todo # <<>>, FieldDone(t),
         \/ Writes(t, call[t].todo[1])
         \/ call[t].todo[1] = "status" /\ changelog' = changelog
  PROVE  changelog' \in Seq(Entry) /\ \A u \in Tasks : UpdateFits(u)'
<1> DEFINE todo == call[t].todo
<1>1. /\ CallsTyped /\ work \in Scenarios /\ changelog \in Seq(Entry) /\ UpdateFits(t)
      /\ Kind(t) = "update_ticket" /\ call[t].pc = "request"
      /\ Kind(t)' = Kind(t) /\ Needed(t)' = Needed(t)
  BY DEF UpdateInv, CallsTyped, At, Kind, Needed, Arg
<1>2. /\ CallMoves(t) /\ call'[t].pc = "request"
      /\ call'[t].on = None /\ call'[t].todo = Tail(todo)
  BY <1>1, FieldDoneMoves
<1>3. /\ todo \in Seq(FieldNames)
      /\ \A i \in 1..Len(todo) : todo[i] = "comment" => i = Len(todo)
      /\ "comment" \in Written(t) => RangeOf(todo) \subseteq {"comment"}
      /\ Needed(t) \subseteq Written(t) \cup RangeOf(todo)
  BY <1>1 DEF UpdateFits
<1>4. /\ todo[1] \in FieldNames /\ Tail(todo) \in Seq(FieldNames)
      /\ \A i \in 1..Len(Tail(todo)) : Tail(todo)[i] = "comment" => i = Len(Tail(todo))
      /\ RangeOf(todo) \subseteq {todo[1]} \cup RangeOf(Tail(todo))
      /\ todo[1] = "comment" => Tail(todo) = <<>>
      /\ todo[1] \in RangeOf(todo)
  BY <1>3, FirstField
<1>5. /\ changelog' \in Seq(Entry)
      /\ \A u \in Tasks \ {t} : Written(u)' = Written(u)
      /\ \/ Written(t)' = Written(t) \cup {todo[1]}
         \/ Written(t)' = Written(t) /\ todo[1] = "status"
  <2>1. CASE Writes(t, todo[1])
    BY <1>1, <1>4, <2>1, WrittenByOne
  <2>2. CASE todo[1] = "status" /\ changelog' = changelog
    BY <1>1, <2>2 DEF Written
  <2> QED BY <2>1, <2>2
<1> DEFINE first == todo[1]
           rest == Tail(todo)
<1> HIDE DEF first, rest
<1>6. /\ "comment" \in Written(t)' => RangeOf(rest) \subseteq {"comment"}
      /\ Needed(t) \subseteq Written(t)' \cup RangeOf(rest)
  <2>1. "status" \notin Needed(t) /\ RangeOf(<<>>) = {}
    BY DEF Needed, RangeOf
  <2>2. "comment" \in Written(t)' => first = "comment"
    BY <1>3, <1>4, <1>5 DEF first
  <2> QED BY <1>3, <1>4, <1>5, <2>1, <2>2 DEF first, rest
<1>7. UpdateFits(t)'
  BY <1>1, <1>2, <1>4, <1>6 DEF UpdateFits, rest
<1> QED BY <1>2, <1>5, <1>7, OthersUpdate

\* An update that raises, or sends a request again: only its last request, the
\* comment, may have been written after all the others.
LEMMA UpdateRaises ==
  ASSUME UpdateInv, NEW t \in Tasks, work' = work, At(t, {"update_ticket"}, "request"),
         call[t].todo # <<>>,
         JiraFails(t) \/ call' = [call EXCEPT ![t].sent = @ + 1],
         \/ Writes(t, call[t].todo[1])
         \/ Writes(t, "status")
         \/ changelog' = changelog
  PROVE  changelog' \in Seq(Entry) /\ \A u \in Tasks : UpdateFits(u)'
<1> DEFINE todo == call[t].todo
           first == todo[1]
<1>1. /\ CallsTyped /\ work \in Scenarios /\ changelog \in Seq(Entry) /\ UpdateFits(t)
      /\ Kind(t) = "update_ticket" /\ call[t].pc = "request"
      /\ Kind(t)' = Kind(t) /\ Needed(t)' = Needed(t)
  BY DEF UpdateInv, CallsTyped, At, Kind, Needed, Arg
<1>2. /\ CallMoves(t)
      /\ \/ call'[t].pc \in {"raised", "swallowed"}
         \/ call'[t].pc = "request" /\ call'[t].todo = todo /\ call'[t].on = call[t].on
  BY <1>1, JiraFailsMoves, SentAgain
<1>3. /\ "comment" \in Written(t) => RangeOf(todo) \subseteq {"comment"}
      /\ Needed(t) \subseteq Written(t) \cup RangeOf(todo)
      /\ first \in FieldNames
      /\ first = "comment" => RangeOf(todo) \subseteq {first}
  <2>1. /\ todo \in Seq(FieldNames)
        /\ "comment" \in Written(t) => RangeOf(todo) \subseteq {"comment"}
        /\ \A i \in 1..Len(todo) : todo[i] = "comment" => i = Len(todo)
        /\ Needed(t) \subseteq Written(t) \cup RangeOf(todo)
    BY <1>1 DEF UpdateFits
  <2>2. RangeOf(<<>>) = {}
    BY DEF RangeOf
  <2> QED BY <2>1, <2>2, FirstField
<1>4. /\ changelog' \in Seq(Entry)
      /\ \A u \in Tasks \ {t} : Written(u)' = Written(u)
      /\ \/ Written(t)' = Written(t) \cup {first}
         \/ Written(t)' = Written(t) \cup {"status"}
         \/ Written(t)' = Written(t)
  <2>1. CASE Writes(t, first)
    BY <1>1, <1>3, <2>1, WrittenByOne
  <2>2. CASE Writes(t, "status")
    BY <1>1, <2>2, WrittenByOne DEF FieldNames
  <2>3. CASE changelog' = changelog
    BY <1>1, <2>3 DEF Written
  <2> QED BY <2>1, <2>2, <2>3
<1> HIDE DEF first
<1>5. /\ "comment" \in Written(t)' => RangeOf(todo) \subseteq {"comment"}
      /\ Needed(t) \subseteq Written(t)' \cup RangeOf(todo)
  BY <1>3, <1>4
<1>6. UpdateFits(t)'
  <2>1. CASE call'[t].pc \in {"raised", "swallowed"}
    BY <1>1, <1>5, <2>1 DEF UpdateFits
  <2>2. CASE call'[t].pc = "request" /\ call'[t].todo = todo /\ call'[t].on = call[t].on
    BY <1>1, <1>5, <2>2 DEF UpdateFits
  <2> QED BY <1>2, <2>1, <2>2
<1> QED BY <1>2, <1>4, <1>6, OthersUpdate

LEMMA UpdateSteps ==
  ASSUME UpdateInv, NEW t \in Tasks, CallMoves(t), work' = work,
         \/ WriteField(t) \/ ReadTransitions(t) \/ TransitionIssue(t) \/ Updated(t)
         \/ (JiraResends(t) \/ JiraGivesUp(t)) /\ Kind(t) = "update_ticket"
  PROVE  changelog' \in Seq(Entry) /\ \A u \in Tasks : UpdateFits(u)'
<1> DEFINE todo == call[t].todo
<1>1. /\ CallsTyped /\ changelog \in Seq(Entry) /\ UpdateFits(t)
      /\ At(t, {"update_ticket"}, "request")
      /\ Kind(t) = "update_ticket" /\ call[t].pc = "request"
      /\ Kind(t)' = Kind(t) /\ Needed(t)' = Needed(t)
  BY DEF UpdateInv, At, Kind, Needed, Arg, WriteField, ReadTransitions, TransitionIssue,
         JiraResends, JiraGivesUp, Unanswered, Changing, Updated
<1>2. CASE WriteField(t)
  BY <1>1, <1>2, FieldIsDone DEF WriteField, NextField
<1>3. CASE ReadTransitions(t)
  <2>1. changelog' = changelog /\ todo # <<>> /\ todo[1] = "status"
    BY <1>3 DEF ReadTransitions, NextField, jira
  <2>2. CASE FieldDone(t)
    BY <1>1, <2>1, <2>2, FieldIsDone
  <2>3. CASE call' = [call EXCEPT ![t].on = issues[Arg(t).issue].status, ![t].sent = 0]
    <3>1. call'[t].pc = call[t].pc /\ call'[t].todo = todo
      BY <1>1, <2>3, ReadsStatus
    <3>2. \A u \in Tasks : Written(u)' = Written(u)
      BY <2>1 DEF Written
    <3>3. UpdateFits(t)'
      BY <1>1, <2>1, <3>1, <3>2 DEF UpdateFits
    <3> QED BY <1>1, <2>1, <3>2, <3>3, OthersUpdate
  <2> QED BY <1>3, <2>2, <2>3 DEF ReadTransitions
<1>4. CASE TransitionIssue(t)
  <2>1. todo # <<>> /\ todo[1] = "status"
    BY <1>1, <1>4 DEF TransitionIssue, UpdateFits
  <2>2. \/ Writes(t, "status") /\ FieldDone(t)
        \/ JiraFails(t) /\ changelog' = changelog
    BY <1>4 DEF TransitionIssue
  <2> QED BY <1>1, <2>1, <2>2, FieldIsDone, UpdateRaises
<1>5. CASE JiraResends(t) \/ JiraGivesUp(t)
  <2>1. /\ todo # <<>>
        /\ \/ Writes(t, todo[1])
           \/ Writes(t, "status")
           \/ changelog' = changelog
    BY <1>1, <1>5 DEF JiraResends, JiraGivesUp, Unanswered, Changing, At, NextField
  <2>2. JiraFails(t) \/ call' = [call EXCEPT ![t].sent = @ + 1]
    BY <1>5 DEF JiraResends, JiraGivesUp
  <2> QED BY <1>1, <2>1, <2>2, UpdateRaises
<1>6. CASE Updated(t)
  <2>1. changelog' = changelog /\ todo = <<>> /\ call'[t].pc = "returned"
    BY <1>1, <1>6, ReturnsMoves DEF Updated, jira
  <2>2. RangeOf(<<>>) = {}
    BY DEF RangeOf
  <2>3. Needed(t) \subseteq Written(t)
    BY <1>1, <2>1, <2>2 DEF UpdateFits
  <2>4. \A u \in Tasks : Written(u)' = Written(u)
    BY <2>1 DEF Written
  <2>5. UpdateFits(t)'
    BY <1>1, <2>1, <2>3, <2>4 DEF UpdateFits
  <2> QED BY <1>1, <2>1, <2>4, <2>5, OthersUpdate
<1> QED BY <1>2, <1>3, <1>4, <1>5, <1>6

LEMMA StepUpdates == UpdateInv /\ [ClientsNext]_clientVars => UpdateInv'
<1> SUFFICES ASSUME UpdateInv, [ClientsNext]_clientVars
             PROVE  changelog' \in Seq(Entry) /\ \A u \in Tasks : UpdateFits(u)'
  BY StepCalls DEF UpdateInv
<1>1. CASE Move \/ UNCHANGED clientVars
  <2>1. work' = work /\ call' = call /\ changelog' = changelog
    BY <1>1 DEF Move, clientVars, jira
  <2>2. \A u \in Tasks : Written(u)' = Written(u)
    BY <2>1 DEF Written
  <2> QED BY <2>1, <2>2 DEF UpdateInv, UpdateFits, Kind, Needed, Arg
<1>2. ASSUME NEW t \in Tasks, Step(t)
      PROVE  changelog' \in Seq(Entry) /\ \A u \in Tasks : UpdateFits(u)'
  <2>1. CallMoves(t) /\ work' = work
    BY <1>2, StepMoves DEF UpdateInv
  <2>2. CASE GetCheckpointer(t) \/ PoolReady(t) \/ PoolFails(t) \/ SetupEnds(t) \/ SetupFails(t)
               \/ CloseManager(t) \/ ManagerClosed(t)
    <3>1. Kind(t) # "update_ticket" /\ changelog' = changelog
      BY <2>2 DEF GetCheckpointer, PoolReady, PoolFails, SetupEnds, SetupFails,
                  CloseManager, ManagerClosed, At, ManagerOps, CheckpointOps, jira
    <3> QED BY <2>1, <3>1, NoUpdate
  <2>3. CASE \/ CallAzure(t) \/ AzureAnswers(t) \/ AzureFails(t) \/ CloseSession(t)
             \/ CreateIssue(t) \/ GetTicket(t)
             \/ (JiraResends(t) \/ JiraGivesUp(t)) /\ Kind(t) # "update_ticket"
    <3>1. Kind(t) # "update_ticket" /\ changelog' = changelog
      BY <2>3 DEF CallAzure, AzureAnswers, AzureFails, CloseSession, CreateIssue, GetTicket,
                  JiraResends, JiraGivesUp, Unanswered, At, AdoOps, AdoReads, AdoWrites, jira
    <3> QED BY <2>1, <3>1, NoUpdate
  <2> QED BY <1>2, <2>1, <2>2, <2>3, BeginsUpdate, UpdateSteps DEF Step
<1> QED BY <1>1, <1>2 DEF ClientsNext

\* update_ticket: whatever fails on the way, whoever moves the issue and
\* whichever updates of it interleave, an update that answers True, or whose
\* comment is there, has written every other field it was asked for.
THEOREM UpdateIsWholeHolds == ClientsSpec => []UpdateIsWhole
<1>1. UpdateInv => UpdateIsWhole
  <2> SUFFICES ASSUME UpdateInv, NEW t \in Tasks, Kind(t) = "update_ticket",
                      call[t].pc = "returned" \/ "comment" \in Written(t)
               PROVE  Needed(t) \subseteq Written(t)
    BY DEF UpdateIsWhole, Needed
  <2>1. UpdateFits(t)
    BY DEF UpdateInv
  <2> QED BY <2>1 DEF UpdateFits
<1> QED BY UpdateInvInit, StepUpdates, <1>1, PTL DEF ClientsSpec

-----------------------------------------------------------------------------
(* The manager, while nothing fails and the worker does not close it       *)

ServedOps == CheckpointOps \cup {"initialize"}

\* No call of the worker has begun to close its manager.
Unclosed(w) ==
  \A u \in Tasks : WorkerOf[u] = w /\ Kind(u) = "close_manager" => call[u].pc = "idle"

OpenIn(w, p) == p \in Tasks /\ WorkerOf[p] = w /\ pool[p] = "open"

\* What a call of the manager finds at each of its steps.
CallServed(t) ==
  LET w == WorkerOf[t]
  IN  \/ call[t].pc = "idle" /\ call[t].late = FALSE
      \/ /\ call[t].pc = "wait" /\ call[t].late = FALSE
         /\ pool[t] = "open" /\ manager[w].pool # None
      \/ /\ call[t].pc = "setup" /\ call[t].late = FALSE
         /\ OpenIn(w, call[t].on) /\ OpenIn(w, manager[w].saver)
      \/ /\ call[t].pc \in Ends /\ manager[w].initialized = TRUE
         /\ call[t].late = FALSE \/ OpenIn(w, call[t].on)

\* The pools that the manager keeps are open ones of its own worker, and it is
\* initialized as soon as a call has ended.
ManagerServes(w) ==
  /\ manager[w].pool = None \/ OpenIn(w, manager[w].pool)
  /\ manager[w].initialized = FALSE \/ OpenIn(w, manager[w].saver)
  /\ \A t \in Tasks : WorkerOf[t] = w /\ Kind(t) \in ServedOps => CallServed(t)

\* The record of a manager, whatever its fields hold.
IsManager(m) ==
  /\ m = [initialized |-> m.initialized, pool |-> m.pool, saver |-> m.saver]
  /\ m.initialized \in BOOLEAN

ManagersTyped ==
  /\ manager = [w \in Workers |-> manager[w]]
  /\ \A w \in Workers : IsManager(manager[w])
  /\ \A w \in Workers :
       manager[w].pool # None => manager[w].pool \in Tasks /\ WorkerOf[manager[w].pool] = w
  /\ pool = [t \in Tasks |-> pool[t]]

ServedInv ==
  /\ CallsTyped /\ ManagersTyped
  /\ faults = 0 => \A w \in Workers : Unclosed(w) => ManagerServes(w)

LEMMA ServedInvInit == ClientsInit => ServedInv
<1> SUFFICES ASSUME ClientsInit PROVE ServedInv
  OBVIOUS
<1>1. CallsTyped
  BY DEF ClientsInit, CallsTyped, IsCall, NoCall
<1>2. ManagersTyped
  BY DEF ClientsInit, ManagersTyped, IsManager, NoManager
<1>3. \A w \in Workers : ManagerServes(w)
  BY DEF ClientsInit, ManagerServes, CallServed, NoManager, NoCall
<1> QED BY <1>1, <1>2, <1>3 DEF ServedInv

\* SetManager changes one field of a manager.
LEMMA SetsManager ==
  ASSUME ManagersTyped, NEW t \in Tasks, NEW m, IsManager(m), SetManager(t, m)
  PROVE  /\ manager' = [w \in Workers |-> manager'[w]]
         /\ \A w \in Workers : IsManager(manager'[w])
         /\ manager'[WorkerOf[t]] = m
         /\ \A w \in Workers \ {WorkerOf[t]} : manager'[w] = manager[w]
BY ClientsAssumption DEF ManagersTyped, SetManager

LEMMA PoolField ==
  ASSUME NEW m, IsManager(m), NEW p
  PROVE  LET n == [m EXCEPT !.pool = p]
         IN  IsManager(n) /\ n.pool = p /\ n.initialized = m.initialized /\ n.saver = m.saver
BY DEF IsManager

LEMMA SaverField ==
  ASSUME NEW m, IsManager(m), NEW p
  PROVE  LET n == [m EXCEPT !.saver = p]
         IN  IsManager(n) /\ n.saver = p /\ n.initialized = m.initialized /\ n.pool = m.pool
BY DEF IsManager

LEMMA InitializedField ==
  ASSUME NEW m, IsManager(m)
  PROVE  LET n == [m EXCEPT !.initialized = TRUE]
         IN  IsManager(n) /\ n.initialized = TRUE /\ n.saver = m.saver /\ n.pool = m.pool
<1>1. ASSUME NEW b, b \in BOOLEAN
      PROVE  LET n == [m EXCEPT !.initialized = b]
             IN  IsManager(n) /\ n.initialized = b /\ n.saver = m.saver /\ n.pool = m.pool
  BY <1>1 DEF IsManager
<1>2. TRUE \in BOOLEAN
  OBVIOUS
<1> QED BY ONLY <1>1, <1>2

\* Nothing that the calls of the worker rely on is taken away.
Grows(w) ==
  /\ manager[w].pool # None => manager'[w].pool # None
  /\ manager[w].initialized = TRUE => manager'[w].initialized = TRUE
  /\ \A p : OpenIn(w, p) => OpenIn(w, p)'
  /\ OpenIn(w, manager[w].saver) => OpenIn(w, manager[w].saver)'

LEMMA OthersServed ==
  ASSUME NEW w \in Workers, NEW t \in Tasks, CallMoves(t), work' = work, Grows(w),
         ManagerServes(w)
  PROVE  \A u \in Tasks \ {t} : WorkerOf[u] = w /\ Kind(u)' \in ServedOps => CallServed(u)'
<1> SUFFICES ASSUME NEW u \in Tasks \ {t}, WorkerOf[u] = w, Kind(u)' \in ServedOps
             PROVE  CallServed(u)'
  OBVIOUS
<1>1. CallServed(u) /\ call'[u] = call[u]
  BY DEF ManagerServes, CallMoves, Kind
<1>2. pool[u] = "open" => pool'[u] = "open"
  BY DEF Grows, OpenIn
<1>3. OpenIn(w, call[u].on) => OpenIn(w, call[u].on)'
  <2>1. \A p : OpenIn(w, p) => p \in Tasks /\ WorkerOf[p] = w /\ pool'[p] = "open"
    BY DEF Grows, OpenIn
  <2> QED BY <1>1, <2>1 DEF OpenIn
<1> QED BY <1>1, <1>2, <1>3 DEF CallServed, Grows

\* The manager keeps its types, and a pool is of the worker of its task.
LEMMA StepManagers ==
  ASSUME CallsTyped, ManagersTyped, NEW t \in Tasks, Step(t)
  PROVE  /\ ManagersTyped'
         /\ \A w \in Workers \ {WorkerOf[t]} :
              /\ manager'[w] = manager[w]
              /\ \A p \in Tasks : WorkerOf[p] = w => pool'[p] = pool[p]
<1> DEFINE m == manager[WorkerOf[t]]
<1>1. IsManager(m) /\ WorkerOf[t] \in Workers /\ None \notin Tasks
  BY ClientsAssumption DEF ManagersTyped, None
<1>2. IsManager(NoManager) /\ NoManager.pool = None
  BY DEF IsManager, NoManager
<1>3. ASSUME NEW n, IsManager(n), n.pool \in {m.pool, t, None}, SetManager(t, n)
      PROVE  /\ manager' = [w \in Workers |-> manager'[w]]
             /\ \A w \in Workers : IsManager(manager'[w])
             /\ \A w \in Workers : manager'[w].pool # None =>
                  manager'[w].pool \in Tasks /\ WorkerOf[manager'[w].pool] = w
             /\ \A w \in Workers \ {WorkerOf[t]} : manager'[w] = manager[w]
  BY <1>1, <1>3, SetsManager DEF ManagersTyped
<1>4. ASSUME UNCHANGED manager
      PROVE  /\ manager' = [w \in Workers |-> manager'[w]]
             /\ \A w \in Workers : IsManager(manager'[w])
             /\ \A w \in Workers : manager'[w].pool # None =>
                  manager'[w].pool \in Tasks /\ WorkerOf[manager'[w].pool] = w
             /\ \A w \in Workers \ {WorkerOf[t]} : manager'[w] = manager[w]
  BY <1>4 DEF ManagersTyped
<1>5. ASSUME NEW p, p = t \/ (p = m.pool /\ p # None), NEW s,
             pool' = [pool EXCEPT ![p] = s] \/ UNCHANGED pool
      PROVE  /\ pool' = [q \in Tasks |-> pool'[q]]
             /\ \A w \in Workers \ {WorkerOf[t]}, q \in Tasks : WorkerOf[q] = w => pool'[q] = pool[q]
  BY <1>1, <1>5 DEF ManagersTyped
<1>6. CASE GetCheckpointer(t)
  <2>1. \/ UNCHANGED <<manager, pool>>
        \/ /\ pool' = [pool EXCEPT ![t] = "open"]
           /\ SetManager(t, [m EXCEPT !.pool = t])
    BY <1>6 DEF GetCheckpointer, Manager
  <2> DEFINE n == [m EXCEPT !.pool = t]
  <2>2. IsManager(n) /\ n.pool = t
    BY <1>1, PoolField
  <2> HIDE DEF n, m
  <2>3. UNCHANGED manager \/ SetManager(t, n)
    BY <2>1 DEF n
  <2> QED BY <1>3, <1>4, <1>5, <2>1, <2>2, <2>3 DEF ManagersTyped
<1>7. CASE PoolReady(t)
  <2>1. \E s : SetManager(t, [m EXCEPT !.saver = s]) /\ UNCHANGED pool
    BY <1>7 DEF PoolReady, Manager
  <2>2. PICK s : SetManager(t, [m EXCEPT !.saver = s]) /\ UNCHANGED pool
    BY <2>1
  <2> DEFINE n == [m EXCEPT !.saver = s]
  <2>3. IsManager(n) /\ n.pool = m.pool /\ SetManager(t, n)
    BY <1>1, <2>2, SaverField
  <2> HIDE DEF n, m
  <2> QED BY <1>3, <1>5, <2>2, <2>3 DEF ManagersTyped
<1>8. CASE PoolFails(t)
  <2>1. UNCHANGED manager /\ pool' = [pool EXCEPT ![t] = "closed"]
    BY <1>8 DEF PoolFails
  <2> HIDE DEF m
  <2> QED BY <1>4, <1>5, <2>1 DEF ManagersTyped
<1>9. CASE SetupEnds(t)
  <2> DEFINE n == [m EXCEPT !.initialized = TRUE]
  <2>1. SetManager(t, n) /\ UNCHANGED pool
    BY <1>9 DEF SetupEnds, Manager
  <2>2. IsManager(n) /\ n.pool = m.pool
    BY <1>1, InitializedField
  <2> HIDE DEF n, m
  <2> QED BY <1>3, <1>5, <2>1, <2>2 DEF ManagersTyped
<1>10. CASE CloseManager(t)
  <2>1. \/ SetManager(t, NoManager) /\ UNCHANGED pool
        \/ m.pool # None /\ pool' = [pool EXCEPT ![m.pool] = "closed"] /\ UNCHANGED manager
    BY <1>10 DEF CloseManager, Manager
  <2> HIDE DEF m
  <2> QED BY <1>2, <1>3, <1>4, <1>5, <2>1 DEF ManagersTyped
<1>11. CASE ManagerClosed(t)
  <2>1. UNCHANGED pool /\ (SetManager(t, NoManager) \/ UNCHANGED manager)
    BY <1>11 DEF ManagerClosed
  <2> HIDE DEF m
  <2> QED BY <1>2, <1>3, <1>4, <1>5, <2>1 DEF ManagersTyped
<1>12. ASSUME UNCHANGED <<manager, pool>>
       PROVE  /\ ManagersTyped'
              /\ \A w \in Workers \ {WorkerOf[t]} :
                   /\ manager'[w] = manager[w]
                   /\ \A p \in Tasks : WorkerOf[p] = w => pool'[p] = pool[p]
  BY <1>12 DEF ManagersTyped
<1>13. CASE SetupFails(t)
  BY <1>12, <1>13 DEF SetupFails, postgres
<1>14. CASE CallAzure(t) \/ AzureAnswers(t) \/ AzureFails(t) \/ CloseSession(t)
              \/ CallJira(t) \/ CreateIssue(t)
  BY <1>12, <1>14 DEF CallAzure, AzureAnswers, AzureFails, CloseSession, CallJira, CreateIssue,
                      postgres
<1>15. CASE WriteField(t) \/ ReadTransitions(t) \/ TransitionIssue(t) \/ JiraResends(t) \/ JiraGivesUp(t)
              \/ Updated(t) \/ GetTicket(t)
  BY <1>12, <1>15 DEF WriteField, ReadTransitions, TransitionIssue, JiraResends, JiraGivesUp, Unanswered, Changing, Updated,
                      GetTicket, postgres
<1> QED
  BY <1>6, <1>7, <1>8, <1>9, <1>10, <1>11, <1>13, <1>14, <1>15 DEF Step

\* A call that closes the manager does not stand still.
LEMMA ClosersLeave ==
  ASSUME CallsTyped, NEW t \in Tasks, Step(t), NEW w, Unclosed(w)', CallMoves(t), work' = work
  PROVE  Unclosed(w) /\ (WorkerOf[t] = w => Kind(t) # "close_manager")
<1>1. Kind(t) = "close_manager" => call'[t].pc # "idle"
  <2> SUFFICES ASSUME Kind(t) = "close_manager" PROVE call'[t].pc # "idle"
    OBVIOUS
  <2>1. CASE PoolReady(t)
    <3>1. GivesUp(t) \/ call' = [call EXCEPT ![t].pc = "setup", ![t].on = Manager(t).pool]
      BY <2>1 DEF PoolReady
    <3>2. GivesUp(t) => call'[t].pc # "idle"
      BY GivesUpMoves
    <3>3. call' = [call EXCEPT ![t].pc = "setup", ![t].on = Manager(t).pool] => call'[t].pc # "idle"
      <4> SUFFICES ASSUME call' = [call EXCEPT ![t].pc = "setup", ![t].on = Manager(t).pool]
                   PROVE  call'[t].pc # "idle"
        OBVIOUS
      <4>1. call'[t].pc = "setup"
        BY UsesPool
      <4> QED BY <4>1
    <3> QED BY <3>1, <3>2, <3>3
  <2>2. CASE PoolFails(t) \/ SetupEnds(t) \/ SetupFails(t)
    BY <2>2, GivesUpMoves DEF PoolFails, SetupEnds, SetupFails
  <2>3. CASE CloseManager(t)
    BY <2>3, ReturnsMoves, ToMoves DEF CloseManager
  <2>4. CASE ManagerClosed(t)
    BY <2>4, ReturnsMoves, ToMoves DEF ManagerClosed
  <2>5. ~(GetCheckpointer(t) \/ CallAzure(t)
            \/ AzureAnswers(t) \/ AzureFails(t) \/ CloseSession(t))
    BY DEF GetCheckpointer, CallAzure, AzureAnswers, AzureFails,
           CloseSession, At, CheckpointOps, AdoOps, AdoReads, AdoWrites
  <2>6. ~(CallJira(t) \/ CreateIssue(t) \/ WriteField(t) \/ ReadTransitions(t)
            \/ TransitionIssue(t) \/ JiraResends(t) \/ JiraGivesUp(t) \/ Updated(t) \/ GetTicket(t))
    BY DEF CallJira, CreateIssue, WriteField, ReadTransitions, TransitionIssue, JiraResends, JiraGivesUp, Unanswered, Changing,
           Updated, GetTicket, At, JiraOps
  <2> QED BY <2>1, <2>2, <2>3, <2>4, <2>5, <2>6 DEF Step
<1>2. \A u \in Tasks : Kind(u)' = Kind(u)
  BY DEF Kind
<1>3. ASSUME WorkerOf[t] = w PROVE Kind(t) # "close_manager"
  BY <1>1, <1>2, <1>3 DEF Unclosed
<1>4. ASSUME NEW u \in Tasks, WorkerOf[u] = w, Kind(u) = "close_manager"
      PROVE  call[u].pc = "idle"
  BY <1>2, <1>3, <1>4 DEF Unclosed, CallMoves
<1> QED BY <1>3, <1>4 DEF Unclosed

\* A call of the worker begins: it finds the manager initialized, or it is
\* among the first and no call has ended.
LEMMA BeginServes ==
  ASSUME CallsTyped, ManagersTyped, NEW t \in Tasks, GetCheckpointer(t),
         ManagerServes(WorkerOf[t])
  PROVE  ManagerServes(WorkerOf[t])'
<1> DEFINE w == WorkerOf[t]
           m == manager[w]
<1>1. /\ CallMoves(t) /\ work' = work /\ w \in Workers /\ None \notin Tasks
      /\ Kind(t) \in ServedOps /\ call[t].pc = "idle"
      /\ call'[t].late = SomeEnded(w)
      /\ IF m.initialized /\ (Kind(t) = "initialize" => m.saver # None)
           THEN /\ call'[t].on = m.saver /\ call'[t].pc \in Ends
                /\ UNCHANGED <<manager, pool>>
           ELSE /\ call'[t].pc = "wait"
                /\ pool' = [pool EXCEPT ![t] = "open"]
                /\ SetManager(t, [m EXCEPT !.pool = t])
  BY BeginMoves, ClientsAssumption DEF Manager, ServedOps, None, GetCheckpointer, SetManager, Ends
<1>2. m.initialized \in BOOLEAN /\ IsManager(m)
  BY <1>1 DEF ManagersTyped, IsManager
<1>3. CASE m.initialized = TRUE
  <2>1. OpenIn(w, m.saver) /\ m.saver # None
    BY <1>1, <1>3 DEF ManagerServes, OpenIn
  <2>2. /\ call'[t].pc \in Ends /\ call'[t].on = m.saver
        /\ UNCHANGED <<manager, pool>>
    BY <1>1, <1>3, <2>1
  <2>3. Grows(w)
    BY <2>2 DEF Grows, OpenIn
  <2>4. \A u \in Tasks \ {t} : WorkerOf[u] = w /\ Kind(u)' \in ServedOps => CallServed(u)'
    BY <1>1, <2>3, OthersServed
  <2>5. CallServed(t)'
    BY <1>3, <2>1, <2>2 DEF CallServed, OpenIn
  <2> QED BY <2>2, <2>4, <2>5 DEF ManagerServes, OpenIn
<1>4. CASE m.initialized = FALSE
  <2>1. ~SomeEnded(w)
    BY <1>4 DEF SomeEnded, ManagerServes, CallServed, ServedOps, Over, Ends
  <2>2. call'[t].late = FALSE
    BY <1>1, <2>1
  <2> DEFINE n == [m EXCEPT !.pool = t]
  <2>3. /\ call'[t].pc = "wait" /\ pool' = [pool EXCEPT ![t] = "open"]
        /\ SetManager(t, n)
    BY <1>1, <1>4
  <2>4. IsManager(n) /\ n.pool = t /\ n.initialized = FALSE /\ n.saver = m.saver
    BY <1>2, <1>4, PoolField
  <2> HIDE DEF n
  <2>5. manager'[w] = n
    BY <2>3, <2>4, SetsManager
  <2>6. /\ \A p : OpenIn(w, p) => OpenIn(w, p)'
        /\ OpenIn(w, t)'
    BY <2>3 DEF OpenIn, ManagersTyped
  <2>7. Grows(w)
    BY <1>1, <1>4, <2>4, <2>5, <2>6 DEF Grows, OpenIn
  <2>8. \A u \in Tasks \ {t} : WorkerOf[u] = w /\ Kind(u)' \in ServedOps => CallServed(u)'
    BY <1>1, <2>7, OthersServed
  <2>9. CallServed(t)'
    BY <1>1, <2>2, <2>3, <2>4, <2>5, <2>6 DEF CallServed, OpenIn
  <2> QED BY <2>4, <2>5, <2>6, <2>8, <2>9 DEF ManagerServes, OpenIn
<1> QED BY <1>2, <1>3, <1>4

\* The wait for a pool is over: there is one, and it is open.
LEMMA PoolReadyServes ==
  ASSUME CallsTyped, ManagersTyped, NEW t \in Tasks, PoolReady(t), Kind(t) \in ServedOps,
         ManagerServes(WorkerOf[t])
  PROVE  ManagerServes(WorkerOf[t])'
<1> DEFINE w == WorkerOf[t]
           m == manager[w]
           n == [m EXCEPT !.saver = m.pool]
<1>1. /\ w \in Workers /\ call[t].pc = "wait" /\ CallServed(t)
      /\ m.pool = None \/ OpenIn(w, m.pool)
      /\ work' = work /\ UNCHANGED pool /\ IsManager(m)
  BY ClientsAssumption DEF PoolReady, At, ManagerServes, ManagersTyped
<1>2. m.pool # None /\ OpenIn(w, m.pool) /\ call[t].late = FALSE
  BY <1>1 DEF CallServed, Ends
<1>3. SetManager(t, n) /\ call' = [call EXCEPT ![t].pc = "setup", ![t].on = m.pool]
  BY <1>2 DEF PoolReady, Manager
<1>4. /\ IsManager(n) /\ n.saver = m.pool /\ n.initialized = m.initialized /\ n.pool = m.pool
  BY <1>1, SaverField
<1>5. /\ CallMoves(t) /\ call'[t].pc = "setup" /\ call'[t].on = m.pool /\ call'[t].late = FALSE
  BY <1>2, <1>3, UsesPool DEF Keeps
<1> HIDE DEF n
<1>6. manager'[w] = n
  BY <1>3, <1>4, SetsManager
<1>7. /\ \A p : OpenIn(w, p) <=> OpenIn(w, p)'
      /\ OpenIn(w, manager[w].saver)'
  BY <1>1, <1>2, <1>4, <1>6 DEF OpenIn
<1>8. Grows(w)
  BY <1>4, <1>6, <1>7 DEF Grows
<1>9. \A u \in Tasks \ {t} : WorkerOf[u] = w /\ Kind(u)' \in ServedOps => CallServed(u)'
  BY <1>1, <1>5, <1>8, OthersServed
<1>10. CallServed(t)'
  BY <1>1, <1>2, <1>4, <1>5, <1>6, <1>7 DEF CallServed, OpenIn
<1> QED BY <1>1, <1>2, <1>4, <1>6, <1>7, <1>9, <1>10 DEF ManagerServes, OpenIn

\* The tables are there: the call raises, and the manager is initialized.
LEMMA SetupEndsServes ==
  ASSUME CallsTyped, ManagersTyped, NEW t \in Tasks, SetupEnds(t), Kind(t) \in ServedOps,
         ManagerServes(WorkerOf[t])
  PROVE  ManagerServes(WorkerOf[t])'
<1> DEFINE w == WorkerOf[t]
           m == manager[w]
           n == [m EXCEPT !.initialized = TRUE]
<1>1. /\ w \in Workers /\ call[t].pc = "setup" /\ CallServed(t)
      /\ m.pool = None \/ OpenIn(w, m.pool)
      /\ work' = work /\ UNCHANGED pool /\ IsManager(m)
      /\ SetManager(t, n) /\ GivesUp(t)
  BY ClientsAssumption DEF SetupEnds, At, ManagerServes, ManagersTyped, Manager
<1>2. OpenIn(w, m.saver) /\ call[t].late = FALSE
  BY <1>1 DEF CallServed, Ends
<1>3. IsManager(n) /\ n.initialized = TRUE /\ n.saver = m.saver /\ n.pool = m.pool
  BY <1>1, InitializedField
<1>4. CallMoves(t) /\ call'[t].pc \in Ends /\ call'[t].late = FALSE
  BY <1>1, <1>2, GivesUpMoves DEF Keeps, Ends
<1> HIDE DEF n
<1>5. manager'[w] = n
  BY <1>1, <1>3, SetsManager
<1>6. \A p : OpenIn(w, p) <=> OpenIn(w, p)'
  BY <1>1 DEF OpenIn
<1>7. OpenIn(w, manager[w].saver)'
  BY <1>1, <1>2, <1>3, <1>5 DEF OpenIn
<1>8. Grows(w)
  BY <1>3, <1>5, <1>6, <1>7 DEF Grows
<1>9. \A u \in Tasks \ {t} : WorkerOf[u] = w /\ Kind(u)' \in ServedOps => CallServed(u)'
  BY <1>1, <1>4, <1>8, OthersServed
<1>10. CallServed(t)'
  BY <1>3, <1>4, <1>5 DEF CallServed
<1> QED BY <1>1, <1>3, <1>5, <1>7, <1>9, <1>10 DEF ManagerServes, OpenIn

\* What only a failing request, or a closed manager, lets happen.
LEMMA NoFailure ==
  ASSUME CallsTyped, NEW t \in Tasks, CallServed(t), Kind(t) \in ServedOps,
         faults = 0, faults' = 0
  PROVE  ~(PoolFails(t) \/ SetupFails(t))
<1>1. ~Fails
  BY DEF Fails
<1>2. ~PoolFails(t)
  BY <1>1 DEF PoolFails, FailsOr, At, CallServed, Ends
<1>3. ~SetupFails(t)
  BY <1>1 DEF SetupFails, FailsOr, At, CallServed, IsOpen, OpenIn, Ends
<1> QED BY <1>2, <1>3

LEMMA StepServed == ServedInv /\ [ClientsNext]_clientVars => ServedInv'
<1> SUFFICES ASSUME ServedInv, [ClientsNext]_clientVars PROVE ServedInv'
  OBVIOUS
<1>1. CallsTyped /\ ManagersTyped /\ CallsTyped'
  BY StepCalls DEF ServedInv
<1>2. CASE Move \/ UNCHANGED clientVars
  <2>1. UNCHANGED <<work, manager, pool, call, faults>>
    BY <1>2 DEF Move, clientVars, postgres
  <2>2. ManagersTyped'
    BY <1>1, <2>1 DEF ManagersTyped
  <2>3. \A w, p : OpenIn(w, p)' <=> OpenIn(w, p)
    BY <2>1 DEF OpenIn
  <2>4. ASSUME NEW t \in Tasks
        PROVE  Kind(t)' = Kind(t) /\ (CallServed(t)' <=> CallServed(t))
    BY <2>1, <2>3 DEF Kind, CallServed, OpenIn
  <2>5. ASSUME NEW w \in Workers
        PROVE  /\ Unclosed(w)' <=> Unclosed(w)
               /\ ManagerServes(w) => ManagerServes(w)'
    BY <2>1, <2>4 DEF Unclosed, ManagerServes, OpenIn
  <2> QED BY <1>1, <2>1, <2>2, <2>5 DEF ServedInv
<1>3. ASSUME NEW t \in Tasks, Step(t) PROVE ServedInv'
  <2>1. CallMoves(t) /\ work' = work /\ faults' \in {faults, faults + 1} /\ faults \in Nat
    BY <1>1, <1>3, StepMoves DEF CallsTyped
  <2>2. /\ ManagersTyped'
        /\ \A w \in Workers \ {WorkerOf[t]} :
             /\ manager'[w] = manager[w]
             /\ \A p \in Tasks : WorkerOf[p] = w => pool'[p] = pool[p]
    BY <1>1, <1>3, StepManagers
  <2>3. SUFFICES ASSUME faults' = 0, NEW w \in Workers, Unclosed(w)'
                 PROVE  ManagerServes(w)'
    BY <1>1, <2>2 DEF ServedInv
  <2>4. /\ faults = 0 /\ Unclosed(w) /\ ManagerServes(w)
        /\ WorkerOf[t] = w => Kind(t) # "close_manager"
    BY <1>1, <1>3, <2>1, <2>3, ClosersLeave DEF ServedInv
  <2>5. CASE WorkerOf[t] # w
    <3>1. /\ manager'[w] = manager[w]
          /\ \A p : OpenIn(w, p) <=> OpenIn(w, p)'
      BY <2>2, <2>5 DEF OpenIn
    <3>2. OpenIn(w, manager[w].saver)' <=> OpenIn(w, manager[w].saver)
      BY <2>2, <2>5, <3>1 DEF OpenIn
    <3>3. OpenIn(w, manager[w].pool)' <=> OpenIn(w, manager[w].pool)
      BY <2>2, <2>5, <3>1 DEF OpenIn
    <3>4. Grows(w)
      BY <3>1, <3>2 DEF Grows
    <3>5. \A u \in Tasks : WorkerOf[u] = w /\ Kind(u)' \in ServedOps => CallServed(u)'
      BY <2>1, <2>4, <2>5, <3>4, OthersServed
    <3> QED BY <2>4, <3>1, <3>2, <3>3, <3>5 DEF ManagerServes
  <2>6. CASE WorkerOf[t] = w /\ Kind(t) \in ServedOps
    <3>1. CallServed(t)
      BY <2>4, <2>6 DEF ManagerServes
    <3>2. ~(PoolFails(t) \/ SetupFails(t))
      BY <1>1, <2>3, <2>4, <2>6, <3>1, NoFailure
    <3>3. ~(CloseManager(t) \/ ManagerClosed(t) \/ CallAzure(t) \/ AzureAnswers(t)
              \/ AzureFails(t) \/ CloseSession(t))
      BY <2>6 DEF CloseManager, ManagerClosed, CallAzure, AzureAnswers, AzureFails,
                  CloseSession, At, ServedOps, CheckpointOps, AdoOps, AdoReads, AdoWrites
    <3>4. ~(CallJira(t) \/ CreateIssue(t) \/ WriteField(t) \/ ReadTransitions(t)
              \/ TransitionIssue(t) \/ JiraResends(t) \/ JiraGivesUp(t) \/ Updated(t) \/ GetTicket(t))
      BY <2>6 DEF CallJira, CreateIssue, WriteField, ReadTransitions, TransitionIssue,
                  JiraResends, JiraGivesUp, Unanswered, Changing, Updated, GetTicket, At, ServedOps, CheckpointOps, JiraOps
    <3>5. GetCheckpointer(t) \/ PoolReady(t) \/ SetupEnds(t)
      BY <1>3, <3>2, <3>3, <3>4 DEF Step
    <3> QED
      BY <1>1, <2>4, <2>6, <3>5, BeginServes, PoolReadyServes, SetupEndsServes
  <2>7. CASE WorkerOf[t] = w /\ Kind(t) \notin ServedOps
    <3>1. Kind(t) \notin ManagerOps
      BY <2>4, <2>7 DEF ServedOps, ManagerOps
    <3>2. UNCHANGED <<manager, pool>>
      <4>1. ~(GetCheckpointer(t) \/ PoolReady(t) \/ PoolFails(t) \/ SetupEnds(t) \/ SetupFails(t)
                \/ CloseManager(t) \/ ManagerClosed(t))
        BY <3>1 DEF GetCheckpointer, PoolReady, PoolFails, SetupEnds, SetupFails,
                    CloseManager, ManagerClosed, At, ManagerOps
      <4>2. CASE CallAzure(t) \/ AzureAnswers(t) \/ AzureFails(t) \/ CloseSession(t)
                   \/ CallJira(t) \/ CreateIssue(t)
        BY <4>2 DEF CallAzure, AzureAnswers, AzureFails, CloseSession, CallJira, CreateIssue,
                    postgres
      <4>3. CASE WriteField(t) \/ ReadTransitions(t) \/ TransitionIssue(t) \/ JiraResends(t) \/ JiraGivesUp(t)
                   \/ Updated(t) \/ GetTicket(t)
        BY <4>3 DEF WriteField, ReadTransitions, TransitionIssue, JiraResends, JiraGivesUp, Unanswered, Changing, Updated,
                    GetTicket, postgres
      <4> QED BY <1>3, <4>1, <4>2, <4>3 DEF Step
    <3>3. Grows(w)
      BY <3>2 DEF Grows, OpenIn
    <3>4. \A u \in Tasks : WorkerOf[u] = w /\ Kind(u)' \in ServedOps => CallServed(u)'
      <4>1. Kind(t)' = Kind(t)
        BY <2>1 DEF Kind
      <4> QED BY <2>1, <2>4, <2>7, <3>3, <4>1, OthersServed
    <3> QED BY <2>4, <3>2, <3>4 DEF ManagerServes, OpenIn
  <2> QED BY <2>5, <2>6, <2>7
<1> QED BY <1>2, <1>3 DEF ClientsNext

\* get_checkpointer and initialize, raced by any number of tasks of a worker:
\* although initialize raises at its end, the manager that it leaves has a saver
\* on an open pool for every call of a checkpoint that begins after another has
\* ended, if no request fails and the worker does not close the manager,
\* whatever the other workers do.
THEOREM FindsOpenPoolHolds == ClientsSpec => []FindsOpenPool
<1>1. ServedInv => FindsOpenPool
  <2> SUFFICES ASSUME ServedInv, faults = 0, NEW t \in Tasks,
                      Kind(t) \in CheckpointOps, call[t].late,
                      \A u \in Tasks : WorkerOf[u] = WorkerOf[t] /\ Kind(u) = "close_manager"
                                         => call[u].pc = "idle"
               PROVE  IsOpen(call[t].on)
    BY DEF FindsOpenPool
  <2>1. ManagerServes(WorkerOf[t])
    BY ClientsAssumption DEF ServedInv, Unclosed
  <2>2. CallServed(t)
    BY <2>1 DEF ManagerServes, ServedOps
  <2>3. OpenIn(WorkerOf[t], call[t].on)
    BY <2>2 DEF CallServed
  <2> QED BY <2>3 DEF OpenIn, IsOpen
<1> QED BY ServedInvInit, StepServed, <1>1, PTL DEF ClientsSpec
=============================================================================
