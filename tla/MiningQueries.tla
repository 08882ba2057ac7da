---------------------------- MODULE MiningQueries ----------------------------
(***************************************************************************)
(* The questions that api/mining.py answers from the stored events: GET    *)
(* /mining/patterns, GET /mining/predictions and POST                      *)
(* /mining/runbook-suggestion, with the algorithms behind them, those of   *)
(* cluster_engine.py, pattern_detector.py, forecaster.py and predictor.py. *)
(*                                                                         *)
(* A message is the set of its words, each said once, so that all weights  *)
(* of _significant_tokens are 1 and the cosine of two messages is          *)
(* |A n B| / sqrt(|A| |B|); similarities are compared by their squares.    *)
(* Time is counted so that a day has DayLen units; an average of floats is *)
(* a sum, cross-multiplied.  Answers keep what the properties read, and    *)
(* all of it: the code shows the first ten clusters, twenty pairs of them  *)
(* and top_n predictions.                                                  *)
(***************************************************************************)
EXTENDS Integers, FiniteSets, Sequences, SequencesExt

CONSTANTS
  Threads,        (* thread ids                                            *)
  WordsOf,        (* the significant tokens of each thread's error message *)
  Words,          (* words of the messages that runbooks are asked for     *)
  DayLen,         (* units of time in a day                                *)
  CascadeWindow,  (* cascade_window_minutes, in units of time              *)
  MaxMembers,     (* the 10 of members[:10]                                *)
  MaxEvents,      (* bound: events in the store                            *)
  MaxTime,        (* bound: time of a checkpoint                           *)
  TopK            (* values of top_k that callers give                     *)

ASSUME QueriesAssumption ==
  /\ WordsOf \in [Threads -> SUBSET STRING]
  /\ DayLen \in Nat \ {0} /\ MaxMembers \in Nat \ {0}
  /\ CascadeWindow \in Nat /\ MaxEvents \in Nat /\ MaxTime \in Nat
  /\ TopK \subseteq Nat \ {0}

VARIABLES
  store,   (* the rows of checkpoint_blobs, newest first                   *)
  answer   (* the last answer                                              *)

queryVars == <<store, answer>>

Event == [thread : Threads, timestamp : Nat]
NoAnswer == [kind |-> "none"]
QueriesInit == store = <<>> /\ answer = NoAnswer

Least(S) == CHOOSE x \in S : \A y \in S : x <= y
Total(f) == FoldFunction(+, 0, f)
Sorted(S, Before(_, _)) ==
  [i \in 1..Cardinality(S) |-> CHOOSE x \in S : Cardinality({y \in S : Before(y, x)}) = i - 1]

-----------------------------------------------------------------------------
(* cluster_engine.py                                                       *)

\* token_cosine_similarity, squared, as a fraction.
Similarity(a, b) ==
  [num |-> Cardinality(a \cap b) * Cardinality(a \cap b),
   den |-> IF a = {} \/ b = {} THEN 1 ELSE Cardinality(a) * Cardinality(b)]
Above(s, t) == s.num * t.den > t.num * s.den
AtLeast(s, t) == ~Above(t, s)
Threshold == [num |-> 35 * 35, den |-> 100 * 100]

\* The first of the clusters that are most similar to the message.
BestCluster(clusters, words) ==
  CHOOSE i \in DOMAIN clusters : \A j \in DOMAIN clusters :
    LET si == Similarity(words, clusters[i].tokens)
        sj == Similarity(words, clusters[j].tokens)
    IN  AtLeast(si, sj) /\ (j < i => Above(si, sj))

\* An event joins the most similar cluster, which takes its tokens, or
\* founds one.
PlaceEvent(clusters, e) ==
  LET words == WordsOf[e.thread]
      best == BestCluster(clusters, words)
  IN  IF clusters # <<>> /\ AtLeast(Similarity(words, clusters[best].tokens), Threshold)
      THEN [clusters EXCEPT ![best] = [tokens |-> @.tokens \cup words,
                                       events |-> Append(@.events, e)]]
      ELSE Append(clusters, [tokens |-> words, events |-> <<e>>])

\* cluster_events: largest first, equal sizes in the order of founding; the
\* id of a cluster is its place.
ClusterEvents(events) ==
  LET founded == FoldLeft(PlaceEvent, <<>>, events)
      Before(i, j) == \/ Len(founded[i].events) > Len(founded[j].events)
                      \/ Len(founded[i].events) = Len(founded[j].events) /\ i < j
      order == Sorted(DOMAIN founded, Before)
  IN  [id \in DOMAIN founded |->
        LET all == founded[order[id]].events
        IN  [size |-> Len(all), is_noise |-> Len(all) < 2,
             members |-> SubSeq(all, 1, IF Len(all) < MaxMembers THEN Len(all) ELSE MaxMembers),
             events |-> all]]

-----------------------------------------------------------------------------
(* pattern_detector.py                                                     *)

DayOf(e) == e.timestamp \div DayLen

\* The counts of the days that have events, oldest first.
DailyCounts(events) ==
  LET days == {DayOf(events[i]) : i \in DOMAIN events}
      sorted == Sorted(days, <)
  IN  [d \in 1..Cardinality(days) |->
        Cardinality({i \in DOMAIN events : DayOf(events[i]) = sorted[d]})]

\* Mutant: the days are taken as the members come, newest first.
VelocityUnsorted(y) ==
  LET n == Len(y)
      x == [d \in 1..n |-> n - d]
      sum_x == Total(x)
  IN  IF n < 3 THEN [num |-> 0, den |-> 1]
      ELSE [num |-> n * Total([d \in 1..n |-> x[d] * y[d]]) - sum_x * Total(y),
            den |-> n * Total([d \in 1..n |-> x[d] * x[d]]) - sum_x * sum_x]

\* compute_velocity: the slope of the regression line through the counts.
Velocity(y) ==
  LET n == Len(y)
      x == [d \in 1..n |-> d - 1]
      sum_x == Total(x)
  IN  IF n < 3 THEN [num |-> 0, den |-> 1]
      ELSE [num |-> n * Total([d \in 1..n |-> x[d] * y[d]]) - sum_x * Total(y),
            den |-> n * Total([d \in 1..n |-> x[d] * x[d]]) - sum_x * sum_x]

\* _compute_velocity_analysis, which counts the members of the cluster.
Trend(cluster) ==
  LET v == Velocity(DailyCounts(cluster.members))
  IN  CASE 2 * v.num > v.den -> "accelerating"
        [] 2 * v.num < -v.den -> "declining"
        [] OTHER -> "stable"

\* The threads that have an event among the members of a cluster.
ThreadsOf(cluster) == {cluster.members[i].thread : i \in DOMAIN cluster.members}

\* event_cluster_map: a thread is taken for the last of the clusters that have
\* it among their members.
MappedTo(clusters, id) ==
  ThreadsOf(clusters[id])
    \ UNION {ThreadsOf(clusters[later]) : later \in {l \in DOMAIN clusters : l > id}}

\* The events by time; equal times stay in the order given.
ByTime(events) ==
  LET order == Sorted(DOMAIN events, LAMBDA i, j :
        \/ events[i].timestamp < events[j].timestamp
        \/ events[i].timestamp = events[j].timestamp /\ i < j)
  IN  [i \in DOMAIN events |-> events[order[i]]]

\* Mutant: the loop over the later events goes on beyond the window.
FollowersAnyTime(sorted) ==
  {p \in (DOMAIN sorted) \X (DOMAIN sorted) : p[1] < p[2]}

\* The pairs of events of which the second follows the first within the
\* window.
Followers(sorted) ==
  {p \in (DOMAIN sorted) \X (DOMAIN sorted) :
     p[1] < p[2] /\ sorted[p[2]].timestamp - sorted[p[1]].timestamp <= CascadeWindow}

\* For each two clusters, how often the second followed the first.
Cascades(clusters, events) ==
  LET sorted == ByTime(events)
      mapped == [id \in DOMAIN clusters |-> MappedTo(clusters, id)]
      followers == Followers(sorted)
  IN  [c \in (DOMAIN clusters) \X (DOMAIN clusters) |->
        Cardinality({p \in followers :
          sorted[p[1]].thread \in mapped[c[1]] /\ sorted[p[2]].thread \in mapped[c[2]]})]

\* _find_cascade_roots: pairs seen once do not count.
CascadePairs(clusters, events) ==
  LET n == Cascades(clusters, events)
  IN  [c \in DOMAIN n |-> IF c[1] = c[2] \/ n[c] < 2 THEN 0 ELSE n[c]]

\* _compute_co_occurrence: a loop of its own over unordered pairs.
CoOccurrence(clusters, events) ==
  LET n == Cascades(clusters, events)
  IN  [c \in DOMAIN n |->
        LET both == n[c] + n[<<c[2], c[1]>>]
        IN  IF c[1] >= c[2] \/ both < 2 THEN 0 ELSE both]

-----------------------------------------------------------------------------
(* forecaster.py.  A fraction is kept over a power of 100.                 *)

\* Mutant: the history is not reversed.
ChronologicalNot(newest_first) == newest_first

Chronological(newest_first) == Reverse(newest_first)

\* DoubleExponentialSmoother with alpha 0.3 and beta 0.1: the last level and
\* trend.
Smooth(values) ==
  LET Next100(s, v) ==
        LET gain == 3 * v * s.den + 7 * (s.level + s.trend) - 10 * s.level
        IN  [level |-> 10 * gain + 100 * s.level, trend |-> gain + 90 * s.trend,
             den |-> 100 * s.den]
  IN  IF Len(values) < 2 THEN [level |-> values[1], trend |-> 0, den |-> 1]
      ELSE FoldLeft(Next100, [level |-> values[1], trend |-> values[2] - values[1], den |-> 1],
                    Tail(values))

\* forecast_cluster: 24 steps, none negative.
ForecastAt(s, step) ==
  LET value == s.level + step * s.trend
  IN  IF s.trend # 0 /\ value < 0 THEN 0 ELSE value

Direction(values) ==
  LET s == Smooth(values)
      n == Len(values)
      recent == values[n] + values[n - 1] + values[n - 2]
      coming == Total([i \in 1..8 |-> ForecastAt(s, i)])
  IN  CASE n < 3 -> "stable"
        [] n >= 3 /\ 5 * 3 * coming > 6 * 8 * recent * s.den -> "rising"
        [] n >= 3 /\ 5 * 3 * coming < 4 * 8 * recent * s.den -> "falling"
        [] OTHER -> "stable"

-----------------------------------------------------------------------------
(* predictor.py                                                            *)

\* The patterns of _extract_error_type in their order: the words that match
\* each, the tokens of the type's name, and its place in DEFAULT_RUNBOOKS.
ErrorTypes == <<
  [match |-> {"refused", "reset"}, tokens |-> {"connection", "refused"}, place |-> 2],
  [match |-> {"connection", "timeout"}, tokens |-> {"connection", "timeout"}, place |-> 1],
  [match |-> {"denied"}, tokens |-> {"authentication", "authorization"}, place |-> 3],
  [match |-> {"404", "missing"}, tokens |-> {"found"}, place |-> 4],
  [match |-> {"memory", "oom"}, tokens |-> {"memory"}, place |-> 5],
  [match |-> {"null"}, tokens |-> {"null", "reference"}, place |-> 6],
  [match |-> {"disk", "storage"}, tokens |-> {"storage"}, place |-> 8],
  [match |-> {"cpu", "throttling"}, tokens |-> {"cpu", "throttling"}, place |-> 9],
  [match |-> {"ssl", "tls"}, tokens |-> {"ssl", "tls"}, place |-> 10],
  [match |-> {"dns"}, tokens |-> {"dns"}, place |-> 7] >>

\* The type of the first pattern that matches; 0 stands for "Other", which
\* has no runbook.
ExtractErrorType(words) ==
  LET matching == {i \in DOMAIN ErrorTypes : ErrorTypes[i].match \cap words # {}}
  IN  IF matching = {} THEN 0 ELSE Least(matching)

\* Words that _significant_tokens drops: stopwords and what is no word.
Insignificant == {"error", "failed", "404"}

\* Mutant: the type of the message is not added.
SuggestUnmerged(words, top_k) ==
  LET tokens == words \ Insignificant
      scored == {i \in DOMAIN ErrorTypes : tokens \cap ErrorTypes[i].tokens # {}}
  IN  Sorted(scored, <)

\* RunbookMatcher.suggest, the types whose runbooks it gives: those similar to
\* the message, and the type of the message with similarity 0.5 if it is not
\* one of them; equal ones in the order of the runbooks, the added one last.
\* The suggestion "general" has no runbook.
Suggest(words, top_k) ==
  LET tokens == words \ Insignificant
      own == ExtractErrorType(words)
      similar == {i \in DOMAIN ErrorTypes :
                    Above(Similarity(tokens, ErrorTypes[i].tokens), [num |-> 1, den |-> 100 * 100])}
      scored == similar \cup ({own} \ {0})
      Score(i) == IF i \in similar THEN Similarity(tokens, ErrorTypes[i].tokens)
                  ELSE [num |-> 1, den |-> 4]
      Place(i) == IF i \in similar THEN ErrorTypes[i].place ELSE Len(ErrorTypes) + 1
      ranked == Sorted(scored, LAMBDA i, j :
                  \/ Above(Score(i), Score(j))
                  \/ AtLeast(Score(i), Score(j)) /\ AtLeast(Score(j), Score(i))
                     /\ Place(i) < Place(j))
  IN  IF words = {} THEN <<>>
      ELSE IF tokens = {} THEN IF own = 0 THEN <<>> ELSE <<own>>
      ELSE SubSeq(ranked, 1, IF Len(ranked) < top_k THEN Len(ranked) ELSE top_k)

-----------------------------------------------------------------------------
(* The endpoints                                                           *)

\* LangGraph stores a checkpoint of a thread, at the time of the newest one
\* or later.
StoreCheckpoint(thread, t) ==
  /\ Len(store) < MaxEvents
  /\ store # <<>> => Head(store).timestamp <= t
  /\ store' = <<[thread |-> thread, timestamp |-> t]>> \o store
  /\ answer' = NoAnswer

GetPatterns ==
  LET clusters == ClusterEvents(store)
  IN  /\ answer' = [kind |-> "patterns",
                    clusters |-> clusters,
                    trends |-> [id \in DOMAIN clusters |-> Trend(clusters[id])],
                    pairs |-> CascadePairs(clusters, store),
                    co_occurrence |-> CoOccurrence(clusters, store)]
      /\ UNCHANGED store

\* The daily counts are those of the members, newest day first.
GetPredictions ==
  LET clusters == ClusterEvents(store)
      History(c) == Chronological(Reverse(DailyCounts(c.members)))
  IN  /\ answer' = [kind |-> "predictions", clusters |-> clusters,
                    directions |-> [id \in DOMAIN clusters |-> Direction(History(clusters[id]))]]
      /\ UNCHANGED store

SuggestRunbook(words, top_k) ==
  /\ answer' = [kind |-> "runbook", words |-> words, top_k |-> top_k,
                types |-> Suggest(words, top_k)]
  /\ UNCHANGED store

QueriesNext ==
  \/ \E thread \in Threads, t \in 0..MaxTime : StoreCheckpoint(thread, t)
  \/ answer = NoAnswer /\ (GetPatterns \/ GetPredictions)
  \/ /\ answer = NoAnswer /\ store = <<>>
     /\ \E words \in SUBSET Words, top_k \in TopK : SuggestRunbook(words, top_k)

QueriesSpec == QueriesInit /\ [][QueriesNext]_queryVars

-----------------------------------------------------------------------------
(* Properties                                                              *)

\* The pairs of events, the second within the window of the first and each of
\* a thread that is a member of its cluster.
Happened(clusters, events, up, down) ==
  {p \in (DOMAIN events) \X (DOMAIN events) :
     /\ events[p[1]].thread \in ThreadsOf(clusters[up])
     /\ events[p[2]].thread \in ThreadsOf(clusters[down])
     /\ events[p[2]].timestamp - events[p[1]].timestamp \in 0..CascadeWindow}

\* What is reported as a cascade or as a co-occurrence happened: for two
\* clusters there are as many pairs of stored events as are counted, in the
\* one order or in either.  No more is true: events are assigned to clusters
\* by their thread, and a thread may have members in two clusters, so that a
\* pair can be counted for another two clusters than those its events were
\* placed in.
CascadesAreReal ==
  answer.kind = "patterns" =>
    \A up, down \in DOMAIN answer.clusters :
      LET there == Cardinality(Happened(answer.clusters, store, up, down))
          back  == Cardinality(Happened(answer.clusters, store, down, up))
      IN  /\ answer.pairs[<<up, down>>] <= there
          /\ answer.co_occurrence[<<up, down>>] <= there + back

\* The trend is computed from the newest events of a cluster, those it keeps
\* as members: the cut can make a steady cluster look accelerating, but one
\* that is reported as declining had a day with fewer events than one before,
\* counting all its events.
DeclineIsReal ==
  answer.kind = "patterns" =>
    \A id \in DOMAIN answer.clusters :
      answer.trends[id] = "declining" =>
        LET y == DailyCounts(answer.clusters[id].events)
        IN  \E d, e \in DOMAIN y : d < e /\ y[e] < y[d]

\* A cluster whose daily counts never fall is not forecast to fall, and one
\* whose counts never rise is not forecast to rise: the endpoint, the
\* reversal in forecast_cluster and the smoother agree on which end of the
\* history is the newest.
ForecastFollows ==
  answer.kind = "predictions" =>
    \A id \in DOMAIN answer.clusters :
      LET y == DailyCounts(answer.clusters[id].members)
      IN  /\ (\A d \in 2..Len(y) : y[d] >= y[d - 1]) => answer.directions[id] # "falling"
          /\ (\A d \in 2..Len(y) : y[d] <= y[d - 1]) => answer.directions[id] # "rising"

\* Whatever else a message says, one whose error type has a runbook is
\* answered with a runbook: neither the scoring nor the cut at top_k leaves
\* the caller without one.
KnownErrorGetsRunbook ==
  answer.kind = "runbook" =>
    (ExtractErrorType(answer.words) # 0 => answer.types # <<>>)
=============================================================================
