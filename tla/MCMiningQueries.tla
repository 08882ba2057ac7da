--------------------------- MODULE MCMiningQueries ---------------------------
(***************************************************************************)
(* TLC instance of MiningQueries: two unlike messages and a third that is  *)
(* like both, whose thread may get into the clusters of both; days,        *)
(* windows and the cut at MaxMembers are small, so that six checkpoints    *)
(* span several days and exceed the cut.                                   *)
(***************************************************************************)
EXTENDS MiningQueries

MCWordsOf ==
  [t1 |-> {"pool"}, t2 |-> {"pool", "disk"},
   t3 |-> {"pool", "reset", "peer", "socket", "host", "port", "upstream", "read"}]
=============================================================================
