--------------------------- MODULE MCWorkflowSetup ---------------------------
(***************************************************************************)
(* TLC instance of WorkflowSetup: three tasks, one that opens the pool, one *)
(* that finds it opening and one that finds the saver before it is set up. *)
(***************************************************************************)
EXTENDS WorkflowSetup
=============================================================================
