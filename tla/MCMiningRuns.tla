---------------------------- MODULE MCMiningRuns ----------------------------
(***************************************************************************)
(* TLC instance of MiningRuns: two workers with a scheduler each, and one  *)
(* requested run in each.  In the first plan three of the runs save up to  *)
(* two clusters and one thing fails; in the second one all four save one,  *)
(* the least in which two connections wait for each other; in the third    *)
(* there is nothing to save.                                               *)
(***************************************************************************)
EXTENDS MiningRuns

MCRuns == {"scheduled1", "requested1", "scheduled2", "requested2"}
MCWorkerOf ==
  [r \in MCRuns |-> IF r \in {"scheduled1", "requested1"} THEN "w1" ELSE "w2"]
MCPlans ==
  {[starts |-> [r \in MCRuns |-> IF r = "requested2" THEN {} ELSE {1, 2}],
    finds |-> [r \in MCRuns |-> IF r = "requested1" THEN 1 ELSE 2], faults |-> 1],
   [starts |-> [r \in MCRuns |-> IF r \in {"scheduled1", "requested2"} THEN {1} ELSE {2}],
    finds |-> [r \in MCRuns |-> 1], faults |-> 0],
   [starts |-> [r \in MCRuns |-> {1}], finds |-> [r \in MCRuns |-> 0], faults |-> 0]}
=============================================================================
