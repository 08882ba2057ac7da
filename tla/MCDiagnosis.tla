---------------------------- MODULE MCDiagnosis -----------------------------
(***************************************************************************)
(* TLC instance of Diagnosis: three tasks, two of them in one worker, in   *)
(* one of seven scenarios.                                                 *)
(***************************************************************************)
EXTENDS Diagnosis

MCWorkerOf == [t \in Tasks |-> IF t = "t3" THEN "w2" ELSE "w1"]
MCThreadOf == [a \in Alerts |-> IF a = "a3" THEN "th2" ELSE "th1"]
MCServiceOf == [a \in Alerts |-> IF a = "a1" THEN "s1" ELSE "s2"]
MCProposals == {[action |-> "RESTART_SERVICE", confident |-> FALSE]}

Do(kind, arg) == [kind |-> kind, arg |-> arg]
Nothing == Do("nothing", <<>>)
Work(one, two, three) ==
  [t \in Tasks |-> CASE t = "t1" -> one [] t = "t2" -> two [] t = "t3" -> three]

MCScenarios ==
  {[provider |-> s[1], down |-> s[2], work |-> s[3]] : s \in {
     \* two alerts of a thread, in one worker or in two
     <<"openai", {}, Work(Do("alert", <<"a1">>), Do("alert", <<"a2">>), Nothing)>>,
     <<"openai", {}, Work(Nothing, Do("alert", <<"a1">>), Do("alert", <<"a2">>))>>,
     \* runbooks come and go while an alert is handled
     <<"openai", {"openai"}, Work(Do("index", <<"r1">>), Do("alert", <<"a1">>), Do("delete", <<"r1">>))>>,
     <<"openai", {}, Work(Do("index", <<"r1">>), Do("get", <<"r1">>), Do("impacted", <<"s1">>))>>,
     \* the graph grows
     <<"other", {}, Work(Do("add_service", <<"s1">>), Do("add_dependency", <<"s1", "s1">>),
                         Do("impacted", <<"s1">>))>>,
     \* embeddings in one worker, a batch in the other
     <<"azure", {"openai"}, Work(Do("generate", <<"x", "y", "z">>),
                                 Do("generate_batch", <<"y", "x", "y">>),
                                 Do("batch", <<"a1", "a3">>))>>,
     \* the other ways to an analysis, with a fallback
     <<"gemini", {"gemini"}, Work(Do("stream", <<"a1">>), Do("alert", <<"a1">>),
                                  Nothing)>>}}
=============================================================================
