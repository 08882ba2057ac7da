------------------------------ MODULE MCClients ------------------------------
(***************************************************************************)
(* TLC instance of Clients: four tasks, three of them in one worker, in    *)
(* one of seven scenarios.                                                 *)
(***************************************************************************)
EXTENDS Clients

MCWorkerOf == [t \in Tasks |-> IF t = "t4" THEN "w2" ELSE "w1"]

Do(kind, fields, status) ==
  [kind |-> kind,
   arg |-> [issue |-> 1, fields |-> fields, status |-> status]]
Op(kind) == Do(kind, {}, "open")
Nothing == Op("nothing")
Work(one, two, three, four) ==
  [t \in Tasks |-> CASE t = "t1" -> one [] t = "t2" -> two
                     [] t = "t3" -> three [] t = "t4" -> four]

Approve == Do("update_ticket", {"summary", "status", "comment"}, "approved")
Close == Do("update_ticket", {"description", "status", "comment"}, "closed")

MCScenarios == {
  \* checkpoints are asked for while the first calls initialize
  Work(Op("save"), Op("load"), Op("list"), Op("delete")),
  Work(Op("initialize"), Op("initialize"), Op("save"), Nothing),
  \* the manager is closed under its calls
  Work(Op("initialize"), Op("close_manager"), Op("load"), Op("save")),
  \* two updates of an issue, in one worker and in two
  Work(Approve, Op("get_ticket"), Nothing, Close),
  Work(Approve, Close, Op("get_pipeline_run"), Op("create_ticket")),
  \* Azure DevOps, with a session that gets closed
  Work(Op("trigger_pipeline"), Op("create_work_item"), Op("close_session"), Op("trigger_pipeline")),
  Work(Op("get_pipeline_logs"), Op("get_release"), Op("close_session"), Op("get_build"))}
=============================================================================
