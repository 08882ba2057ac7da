-------------------------- MODULE AbstractWorkflow --------------------------
(***************************************************************************)
(* What the repository promises of one alert's workflow: the arrows of     *)
(* "Workflow State Machine" (ARCHITECTURE.md, Diagram 3), with no tasks,   *)
(* no checkpoints and no failures between two nodes.  SREWorkflow.tla,     *)
(* which is translated from the code, is shown to implement it as long as  *)
(* webhooks for a thread do not overlap.                                   *)
(***************************************************************************)
CONSTANT Threads

VARIABLES
  phase,     (* where each thread stands in the diagram                    *)
  approved,  (* the decision that check_approved looks at                  *)
  outcome    (* how the thread ended, "none" before                        *)

vars == <<phase, approved, outcome>>

Init ==
  /\ phase = [t \in Threads |-> "START"]
  /\ approved = [t \in Threads |-> FALSE]
  /\ outcome = [t \in Threads |-> "none"]

Arrow(t, from, to) ==
  /\ phase[t] = from
  /\ phase' = [phase EXCEPT ![t] = to]
  /\ UNCHANGED <<approved, outcome>>

\* The edges up to the pause.
Edge(t) ==
  \/ Arrow(t, "START", "retrieve_context")
  \/ Arrow(t, "retrieve_context", "diagnostic_agent")
  \/ \E n \in {"create_jira_ticket", "escalate_only", "handle_error"} :
       Arrow(t, "diagnostic_agent", n)
  \/ Arrow(t, "create_jira_ticket", "wait_human")

\* POST /webhooks/jira
Resume(t) ==
  /\ phase[t] = "wait_human"
  /\ phase' = [phase EXCEPT ![t] = "check_approved"]
  /\ \E b \in BOOLEAN : approved' = [approved EXCEPT ![t] = b]
  /\ UNCHANGED outcome

\* The outcomes each node may end the workflow with.
Outcomes(t) ==
  CASE phase[t] = "escalate_only" -> {"ESCALATED", "ESCALATION_FAILED"}
    [] phase[t] = "handle_error"  -> {"ERROR"}
    [] phase[t] = "check_approved" ->
         IF approved[t] THEN {"REMEDIATION_SUCCESSFUL", "REMEDIATION_FAILED"}
         ELSE {"REMEDIATION_SKIPPED"}
    [] OTHER -> {}

End(t) ==
  /\ \E o \in Outcomes(t) : outcome' = [outcome EXCEPT ![t] = o]
  /\ phase' = [phase EXCEPT ![t] = "END"]
  /\ UNCHANGED approved

Next == \E t \in Threads : Edge(t) \/ Resume(t) \/ End(t)

Spec == Init /\ [][Next]_vars
=============================================================================
