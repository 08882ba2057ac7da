--------------------------- MODULE MCSREWorkflow ---------------------------
(***************************************************************************)
(* TLC instance of SREWorkflow: the answers the diagnostic agent may give. *)
(***************************************************************************)
EXTENDS SREWorkflow, TLC

\* One proposal for each way through Adjust, Route and RemediationRules.
MCProposals ==
  {[action |-> "ROLLBACK",        script |-> "kubectl", confident |-> TRUE],
   [action |-> "ROLLBACK",        script |-> "kubectl", confident |-> FALSE],
   [action |-> "RESTART_SERVICE", script |-> "docker",  confident |-> TRUE],
   [action |-> "ESCALATE_ONLY",   script |-> "kubectl", confident |-> TRUE]}

TaskSymmetry == Permutations(Tasks)

\* The safety runs, which no loop concerns, keep their symmetry with one worker.
OneWorker == [k \in Tasks |-> "w1"]

\* Two tasks share a loop, the third has its own.
TwoWorkers ==
  LET other == CHOOSE k \in Tasks : TRUE
  IN [k \in Tasks |-> IF k = other THEN "w2" ELSE "w1"]
=============================================================================
