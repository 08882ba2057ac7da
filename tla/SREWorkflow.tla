----------------------------- MODULE SREWorkflow -----------------------------
(***************************************************************************)
(* The LangGraph workflow of orchestrator/graph.py: the background tasks   *)
(* (start_workflow, resume_workflow) that several worker processes run on  *)
(* the same threads, and the PostgreSQL checkpoints they share.            *)
(*                                                                         *)
(* A task that streams the graph keeps its own copy of the channel values  *)
(* and writes a checkpoint after every node; nothing locks a thread, so    *)
(* the last writer wins.  resume_workflow forces the next node with        *)
(* aupdate_state(as_node="create_jira_ticket") whatever the thread was     *)
(* doing.  A task slot of Tasks is used for one webhook only.              *)
(*                                                                         *)
(* Abstractions: error_count stops at MaxErrors, the only value it is      *)
(* compared with; of the audit log only the two entries that the           *)
(* properties read are kept; deduplication is a free choice here (it has   *)
(* a module of its own, AlertIngress).                                     *)
(***************************************************************************)
EXTENDS RemediationRules

CONSTANTS
  Threads,     (* thread ids; an alert's id is its thread's id             *)
  ProdThreads, (* the threads whose alert is about PROD                    *)
  Tasks,       (* background tasks, one per accepted webhook               *)
  Proposals,   (* what DiagnosticAgent.analyze may answer                  *)
  WorkerOf,    (* the process whose event loop runs a task                 *)
  Faults,      (* which of PossibleFaults a run allows                     *)
  None         (* Python's None                                            *)

\* "abort":   a process dies, or PostgreSQL fails in the middle of a task
\* "audit":   AuditLogger.log_event raises (its file cannot be written)
\* "overlap": webhooks are repeated, out of order, or for any thread
PossibleFaults == {"abort", "audit", "overlap"}

MaxErrors == 3

Proposal == [action : ActionType, script : Script, confident : BOOLEAN]
Analysis == [action : ActionType, script : Script]

\* What a webhook asks of a task.
Job == [kind : {"start", "resume"}, thread : Threads, approve : BOOLEAN]

ASSUME WorkflowAssumption ==
  /\ ProdThreads \subseteq Threads
  /\ Proposals \subseteq Proposal
  /\ Faults \subseteq PossibleFaults
  /\ DOMAIN WorkerOf = Tasks
  /\ None \notin Job \cup Analysis

VARIABLES
  job,      (* what each task was asked to do                              *)
  pc,       (* where each task is; inside the graph, the node it runs      *)
  vals,     (* each task's copy of the channel values                      *)
  ckpt,     (* the latest checkpoint of each thread                        *)
  tickets,  (* the analyses shown in Jira tickets, with their threads       *)
  audit,    (* audit entries                                               *)
  launches  (* how many processes each task has started                    *)

vars == <<job, pc, vals, ckpt, tickets, audit, launches>>

Node == {"retrieve_context", "diagnostic_agent", "create_jira_ticket",
         "escalate_only", "handle_error", "execute_remediation"}

Terminal == {"ESCALATED", "ESCALATION_FAILED", "ERROR", "REMEDIATION_SKIPPED",
             "REMEDIATION_SUCCESSFUL", "REMEDIATION_FAILED"}
Status   == Terminal \cup {"unset", "WAITING_ON_HUMAN", "JIRA_FAILED",
                           "APPROVAL_PROCESSED"}

\* SREWorkflowState, without the channels no property depends on.
Values == [alert : BOOLEAN,              \* has the alert channel a value?
           analysis : Analysis \cup {None},
           ticket : BOOLEAN,             \* jira_ticket_id is set
           approved : BOOLEAN,           \* human_approved
           status : Status,              \* final_status
           errors : 0..MaxErrors]        \* error_count

NoValues == [alert |-> FALSE, analysis |-> None, ticket |-> FALSE,
             approved |-> FALSE, status |-> "unset", errors |-> 0]

Event == {"HUMAN_APPROVED", "REMEDIATION_EXECUTED"}

\* "failed": the task's process died or an exception ended its stream.
PC == Node \cup {"free", "received", "decide", "update", "stream", "continue",
                 "command", "done", "failed"}

\* A task that is not waiting for a webhook and has not ended.
Busy(k) == pc[k] \notin {"free", "done", "failed"}

Init ==
  /\ job = [k \in Tasks |-> None]
  /\ pc = [k \in Tasks |-> "free"]
  /\ vals = [k \in Tasks |-> NoValues]
  /\ ckpt = [t \in Threads |-> [vals |-> NoValues, next |-> "END"]]
  /\ tickets = {}
  /\ audit = {}
  /\ launches = [k \in Tasks |-> 0]

-----------------------------------------------------------------------------
(* The checkpointer and the stream                                         *)

MoreErrors(v) == IF v.errors < MaxErrors THEN v.errors + 1 ELSE v.errors

\* A super-step of task k ends: its values become the thread's checkpoint.
Commit(k, v, nxt) ==
  /\ vals' = [vals EXCEPT ![k] = v]
  /\ ckpt' = [ckpt EXCEPT ![job[k].thread] = [vals |-> v, next |-> nxt]]

\* interrupt_before and END end the stream.  What the task still does then,
\* reading the state back and auditing a success, changes nothing kept here.
Goto(k, nxt) ==
  pc' = [pc EXCEPT ![k] =
           IF nxt \in {"END", "execute_remediation"} THEN "done" ELSE nxt]

Move(k, to) == pc' = [pc EXCEPT ![k] = to]

-----------------------------------------------------------------------------
(* Webhooks: a free task slot gets a job                                   *)

\* Without "overlap" a thread is started once, because its alert passes
\* deduplication once, and one decision is sent for a ticket that waits.
MayStart(t) ==
  "overlap" \notin Faults => \A k \in Tasks : job[k] # None => job[k].thread # t

MayDecide(t) ==
  "overlap" \notin Faults =>
    /\ ckpt[t].vals.status = "WAITING_ON_HUMAN"
    /\ \A k \in Tasks :
         job[k] # None /\ job[k].thread = t => job[k].kind = "start"

AlertWebhook(k, t) ==
  /\ pc[k] = "free"
  /\ MayStart(t)
  /\ job' = [job EXCEPT ![k] = [kind |-> "start", thread |-> t, approve |-> FALSE]]
  /\ Move(k, "received")
  /\ UNCHANGED <<vals, ckpt, tickets, audit, launches>>

JiraWebhook(k, t, approve) ==
  /\ pc[k] = "free"
  /\ MayDecide(t)
  /\ job' = [job EXCEPT ![k] = [kind |-> "resume", thread |-> t, approve |-> approve]]
  /\ Move(k, "decide")
  /\ UNCHANGED <<vals, ckpt, tickets, audit, launches>>

-----------------------------------------------------------------------------
(* start_workflow                                                          *)

\* is_duplicate and the ALERT_RECEIVED entry: a duplicate, a Redis error or
\* an audit error ends the task here.
Receive(k) ==
  /\ pc[k] = "received"
  /\ \E to \in {"stream", "done"} : Move(k, to)
  /\ UNCHANGED <<job, vals, ckpt, tickets, audit, launches>>

\* astream({"alert": alert}): the input is written over whatever the thread
\* already holds, and the graph starts again at START.
StartStream(k) ==
  /\ pc[k] = "stream"
  /\ Commit(k, [ckpt[job[k].thread].vals EXCEPT !.alert = TRUE], "retrieve_context")
  /\ Move(k, "retrieve_context")
  /\ UNCHANGED <<job, tickets, audit, launches>>

-----------------------------------------------------------------------------
(* The nodes                                                               *)

\* _retrieve_context_node, without and with an exception.
RetrieveContext(k) ==
  /\ pc[k] = "retrieve_context"
  /\ \E e \in {vals[k].errors, MoreErrors(vals[k])} :
       Commit(k, [vals[k] EXCEPT !.errors = e], "diagnostic_agent")
  /\ Goto(k, "diagnostic_agent")
  /\ UNCHANGED <<job, tickets, audit, launches>>

\* In PROD an unsure rollback or restart becomes an escalation; the script
\* stays.
Adjust(t, p) ==
  IF /\ t \in ProdThreads
     /\ p.action \in {"ROLLBACK", "RESTART_SERVICE"}
     /\ ~p.confident
    THEN [action |-> "ESCALATE_ONLY", script |-> p.script]
    ELSE [action |-> p.action, script |-> p.script]

\* Mutant: a failed diagnosis is tried again, and no error count ends it.
RouteRetries(v) ==
  IF v.analysis = None THEN "retrieve_context"
  ELSE IF v.analysis.action = "ESCALATE_ONLY" THEN "escalate_only"
  ELSE "create_jira_ticket"

\* _route_post_diagnosis
Route(v) ==
  IF v.errors >= MaxErrors \/ v.analysis = None THEN "handle_error"
  ELSE IF v.analysis.action = "ESCALATE_ONLY" THEN "escalate_only"
  ELSE "create_jira_ticket"

Diagnosed(k, v) ==
  /\ pc[k] = "diagnostic_agent"
  /\ Commit(k, v, Route(v))
  /\ Goto(k, Route(v))
  /\ UNCHANGED <<job, tickets, audit, launches>>

\* _diagnostic_agent_node
Diagnose(k) ==
  \E p \in Proposals :
    Diagnosed(k, [vals[k] EXCEPT !.analysis = Adjust(job[k].thread, p)])

DiagnoseFails(k) ==
  Diagnosed(k, [vals[k] EXCEPT !.analysis = None, !.errors = MoreErrors(vals[k])])

\* _create_jira_ticket_node, then the interrupt.
CreateTicket(k) ==
  /\ pc[k] = "create_jira_ticket"
  /\ tickets' = tickets \cup {<<job[k].thread, vals[k].analysis>>}
  /\ Commit(k, [vals[k] EXCEPT !.ticket = TRUE, !.approved = FALSE,
                               !.status = "WAITING_ON_HUMAN"],
            "execute_remediation")
  /\ Goto(k, "execute_remediation")
  /\ UNCHANGED <<job, audit, launches>>

\* Mutant: the except clause goes on to the pause as if there was a ticket.
TicketFailureWaits(k) ==
  /\ pc[k] = "create_jira_ticket"
  /\ UNCHANGED tickets
  /\ Commit(k, [vals[k] EXCEPT !.errors = MoreErrors(vals[k]),
                               !.status = "WAITING_ON_HUMAN"],
            "execute_remediation")
  /\ Goto(k, "execute_remediation")
  /\ UNCHANGED <<job, audit, launches>>

\* Jira refuses, or accepts the ticket and then the audit log fails.
CreateTicketFails(k) ==
  /\ pc[k] = "create_jira_ticket"
  /\ \/ UNCHANGED tickets
     \/ /\ "audit" \in Faults
        /\ tickets' = tickets \cup {<<job[k].thread, vals[k].analysis>>}
  /\ Commit(k, [vals[k] EXCEPT !.errors = MoreErrors(vals[k]),
                               !.status = "JIRA_FAILED"],
            "execute_remediation")
  /\ Goto(k, "execute_remediation")
  /\ UNCHANGED <<job, audit, launches>>

\* _escalate_only_node
Escalate(k) ==
  /\ pc[k] = "escalate_only"
  /\ \/ Commit(k, [vals[k] EXCEPT !.ticket = TRUE, !.status = "ESCALATED"], "END")
     \/ Commit(k, [vals[k] EXCEPT !.errors = MoreErrors(vals[k]),
                                  !.status = "ESCALATION_FAILED"], "END")
  /\ Goto(k, "END")
  /\ UNCHANGED <<job, tickets, audit, launches>>

\* _handle_error_node
HandleError(k) ==
  /\ pc[k] = "handle_error"
  /\ Commit(k, [vals[k] EXCEPT !.approved = FALSE, !.status = "ERROR"], "END")
  /\ Goto(k, "END")
  /\ UNCHANGED <<job, tickets, audit, launches>>

-----------------------------------------------------------------------------
(* _execute_remediation_node                                               *)

Enters(k) == pc[k] = "execute_remediation" /\ vals[k].alert

Finished(k, v) ==
  /\ Commit(k, v, "END")
  /\ Goto(k, "END")

Failed(k) ==
  Finished(k, [vals[k] EXCEPT !.status = "REMEDIATION_FAILED",
                              !.errors = MoreErrors(vals[k])])

\* state['alert'] raises KeyError on a thread that never had an alert.
NoAlert(k) ==
  /\ pc[k] = "execute_remediation"
  /\ ~vals[k].alert
  /\ Move(k, "done")
  /\ UNCHANGED <<job, vals, ckpt, tickets, audit, launches>>

SkipRemediation(k) ==
  /\ Enters(k)
  /\ ~vals[k].approved
  /\ Finished(k, [vals[k] EXCEPT !.status = "REMEDIATION_SKIPPED"])
  /\ UNCHANGED <<job, tickets, audit, launches>>

\* The tool starts a process for the analysis a task holds; with no analysis
\* the node raises before it calls the tool.
Runnable(k) ==
  /\ vals[k].analysis # None
  /\ Runs(IF job[k].thread \in ProdThreads THEN "PROD" ELSE "SIT",
          vals[k].analysis.action, vals[k].analysis.script)

\* Mutant: the analysis is read before the try block.
RefuseRaises(k) ==
  /\ Enters(k)
  /\ vals[k].approved
  /\ ~Runnable(k)
  /\ Move(k, "done")
  /\ UNCHANGED <<job, vals, ckpt, tickets, audit, launches>>

\* No analysis (an exception), or the tool answers {'success': False}.
RefuseRemediation(k) ==
  /\ Enters(k)
  /\ vals[k].approved
  /\ ~Runnable(k)
  /\ Failed(k)
  /\ UNCHANGED <<job, tickets, audit, launches>>

\* Mutant: human_approved is not looked at.
LaunchUnapproved(k) ==
  /\ Enters(k)
  /\ Runnable(k)
  /\ launches' = [launches EXCEPT ![k] = @ + 1]
  /\ Move(k, "command")
  /\ UNCHANGED <<job, vals, ckpt, tickets, audit>>

\* create_subprocess_exec
Launch(k) ==
  /\ Enters(k)
  /\ vals[k].approved
  /\ Runnable(k)
  /\ launches' = [launches EXCEPT ![k] = @ + 1]
  /\ Move(k, "command")
  /\ UNCHANGED <<job, vals, ckpt, tickets, audit>>

\* Mutant: success is written to the state before it is audited.
CommandSucceedsUnaudited(k) ==
  /\ pc[k] = "command"
  /\ Finished(k, [vals[k] EXCEPT !.status = "REMEDIATION_SUCCESSFUL"])
  /\ UNCHANGED <<job, tickets, launches, audit>>

CommandSucceeds(k) ==
  /\ pc[k] = "command"
  /\ audit' = audit \cup {<<"REMEDIATION_EXECUTED", job[k].thread>>}
  /\ Finished(k, [vals[k] EXCEPT !.status = "REMEDIATION_SUCCESSFUL"])
  /\ UNCHANGED <<job, tickets, launches>>

\* Mutant: the tool raises on a failed command, so the RetryHandler around
\* it runs the command again.
CommandRetried(k) ==
  /\ pc[k] = "command"
  /\ launches[k] < 4
  /\ launches' = [launches EXCEPT ![k] = @ + 1]
  /\ UNCHANGED <<job, pc, vals, ckpt, tickets, audit>>

\* A non-zero exit or the timeout.  The tool returns it, it does not raise,
\* so the RetryHandler around it does not run the command again.
CommandFails(k) ==
  /\ pc[k] = "command"
  /\ Failed(k)
  /\ UNCHANGED <<job, tickets, audit, launches>>

\* The command succeeded and the audit log fails, at the first or at the
\* second entry: the handler records a failed remediation.
CommandUnaudited(k) ==
  /\ "audit" \in Faults
  /\ pc[k] = "command"
  /\ audit' \in {audit, audit \cup {<<"REMEDIATION_EXECUTED", job[k].thread>>}}
  /\ Failed(k)
  /\ UNCHANGED <<job, tickets, launches>>

\* The exception handler's own audit entry fails, or that of handle_error:
\* the exception leaves the graph and no checkpoint is written.
HandlerRaises(k) ==
  /\ "audit" \in Faults
  /\ pc[k] \in {"command", "execute_remediation", "handle_error"}
  /\ pc[k] = "execute_remediation" =>
       vals[k].approved /\ ~Runnable(k)
  /\ Move(k, "failed")
  /\ UNCHANGED <<job, vals, ckpt, tickets, audit, launches>>

-----------------------------------------------------------------------------
(* resume_workflow                                                         *)

\* The HUMAN_APPROVED entry is written for a rejection too, with
\* approved=False; only the approvals are kept here.
AuditDecision(k) ==
  /\ pc[k] = "decide"
  /\ audit' = IF job[k].approve
                THEN audit \cup {<<"HUMAN_APPROVED", job[k].thread>>} ELSE audit
  /\ Move(k, "update")
  /\ UNCHANGED <<job, vals, ckpt, tickets, launches>>

\* Mutant: an earlier approval is not withdrawn by a rejection.
UpdateStateKeepsApproval(k) ==
  LET t == job[k].thread IN
  /\ pc[k] = "update"
  /\ ckpt' = [ckpt EXCEPT ![t] =
       [vals |-> [@.vals EXCEPT !.approved = TRUE, !.status = "APPROVAL_PROCESSED"],
        next |-> "execute_remediation"]]
  /\ Move(k, "continue")
  /\ UNCHANGED <<job, vals, tickets, audit, launches>>

\* aupdate_state(..., as_node="create_jira_ticket") on the latest checkpoint.
UpdateState(k) ==
  LET t == job[k].thread IN
  /\ pc[k] = "update"
  /\ ckpt' = [ckpt EXCEPT ![t] =
       [vals |-> [@.vals EXCEPT !.approved = job[k].approve,
                                !.status = "APPROVAL_PROCESSED"],
        next |-> "execute_remediation"]]
  /\ Move(k, "continue")
  /\ UNCHANGED <<job, vals, tickets, audit, launches>>

\* astream(None): goes on from the latest checkpoint, which another task
\* may have written meanwhile.  A resumed stream passes the interrupt.
Continue(k) ==
  LET c == ckpt[job[k].thread] IN
  /\ pc[k] = "continue"
  /\ vals' = [vals EXCEPT ![k] = c.vals]
  /\ Move(k, IF c.next = "END" THEN "done" ELSE c.next)
  /\ UNCHANGED <<job, ckpt, tickets, audit, launches>>

-----------------------------------------------------------------------------

\* The process that runs the task dies, or PostgreSQL fails under it (the
\* except clauses of start_workflow and resume_workflow), or, before the
\* stream, the audit log fails.
Abort(k) ==
  /\ \/ "abort" \in Faults /\ Busy(k)
     \/ "audit" \in Faults /\ pc[k] = "decide"
  /\ Move(k, "failed")
  /\ UNCHANGED <<job, vals, ckpt, tickets, audit, launches>>

Execute(k) ==
  \/ NoAlert(k) \/ SkipRemediation(k) \/ RefuseRemediation(k) \/ Launch(k)
  \/ CommandSucceeds(k) \/ CommandFails(k) \/ CommandUnaudited(k)
  \/ HandlerRaises(k)

Step(k) ==
  \/ Receive(k) \/ StartStream(k)
  \/ RetrieveContext(k) \/ Diagnose(k) \/ DiagnoseFails(k)
  \/ CreateTicket(k) \/ CreateTicketFails(k) \/ Escalate(k) \/ HandleError(k)
  \/ Execute(k)
  \/ AuditDecision(k) \/ UpdateState(k) \/ Continue(k)

Webhook(k) ==
  \E t \in Threads : AlertWebhook(k, t) \/ \E b \in BOOLEAN : JiraWebhook(k, t, b)

Next == \E k \in Tasks : Webhook(k) \/ Step(k) \/ Abort(k)

\* The Jira client is synchronous and has no timeout: while one task waits for
\* its answer, the event loop of its worker runs nothing.
CallsJira(k) == pc[k] \in {"create_jira_ticket", "escalate_only"}

LoopHeld(k) == \E j \in Tasks : WorkerOf[j] = WorkerOf[k] /\ CallsJira(j)

\* The event loop runs every task unless Jira holds it, and whatever else a
\* task waits for answers or fails: Redis, the pool and the command by timeouts
\* of the code, the LLM and Qdrant by those of their clients; that PostgreSQL
\* and Neo4j do is assumed.  Nobody is obliged to send a webhook, and Jira is
\* not obliged to answer.
Fairness == \A k \in Tasks : WF_vars(Step(k) /\ ~LoopHeld(k))

Spec     == Init /\ [][Next]_vars
FairSpec == Spec /\ Fairness

-----------------------------------------------------------------------------
(* Properties                                                              *)

\* Types of checkpoints, tickets, audit entries and tasks.
TypeOK ==
  /\ job \in [Tasks -> Job \cup {None}]
  /\ pc \in [Tasks -> PC]
  /\ vals \in [Tasks -> Values]
  /\ ckpt \in [Threads -> [vals : Values, next : Node \cup {"END"}]]
  /\ tickets \subseteq Threads \X Analysis
  /\ audit \subseteq Event \X Threads
  /\ launches \in [Tasks -> Nat]

\* No process is started on behalf of a thread unless the audit log already
\* holds an approval of that thread, whatever webhooks overlap, whatever
\* checkpoint a restarted thread inherits and whatever crashes.
CommandWasApproved ==
  \A k \in Tasks :
    launches[k] > 0 => <<"HUMAN_APPROVED", job[k].thread>> \in audit

\* One accepted webhook starts at most one process, although the tool is
\* called through a RetryHandler with four attempts.
AtMostOneLaunch == \A k \in Tasks : launches[k] <= 1

\* A process runs only for an analysis the tables allow: never for PROD and
\* never for an escalation, whose analysis keeps its script and which an
\* approval webhook can force into the execute_remediation node.
CommandIsAllowed ==
  \A k \in Tasks :
    launches[k] > 0 =>
      /\ job[k].thread \notin ProdThreads
      /\ vals[k].analysis # None
      /\ vals[k].analysis.action # "ESCALATE_ONLY"

\* A thread is reported as remediated only if the audit log holds both the
\* approval and the execution.
SuccessIsAudited ==
  \A t \in Threads :
    ckpt[t].vals.status = "REMEDIATION_SUCCESSFUL" =>
      {<<"HUMAN_APPROVED", t>>, <<"REMEDIATION_EXECUTED", t>>} \subseteq audit

\* When every task has returned, however their streams overlapped, every
\* thread that has an alert is either finished or at the approval gate: none
\* is left between two nodes, and none shows a decision as "processed" that
\* was never acted upon.
NoStrandedThread ==
  (\A k \in Tasks : pc[k] \in {"free", "done"}) =>
    \A t \in Threads : ckpt[t].vals.alert =>
      \/ ckpt[t].next = "END" /\ ckpt[t].vals.status \in Terminal
      \/ /\ ckpt[t].next = "execute_remediation"
         /\ ckpt[t].vals.status \in {"WAITING_ON_HUMAN", "JIRA_FAILED"}

\* When webhooks of a thread do not overlap, a process runs the very
\* analysis that a ticket of its thread showed to the human who approved it.
TicketedPlanRuns ==
  \A k \in Tasks :
    launches[k] > 0 => <<job[k].thread, vals[k].analysis>> \in tickets

\* The node of Diagram 3 that a checkpoint stands for.
PhaseOf(c) ==
  IF c.next = "END"
    THEN IF c.vals.status = "unset" THEN "START" ELSE "END"
  ELSE IF c.next = "execute_remediation"
    THEN IF c.vals.status = "APPROVAL_PROCESSED" THEN "check_approved" ELSE "wait_human"
  ELSE c.next

Diagram3 == INSTANCE AbstractWorkflow WITH
  phase    <- [t \in Threads |-> PhaseOf(ckpt[t])],
  approved <- [t \in Threads |-> ckpt[t].vals.approved],
  outcome  <- [t \in Threads |->
                 IF ckpt[t].vals.status \in Terminal THEN ckpt[t].vals.status ELSE "none"]

\* When webhooks of a thread do not overlap, the checkpoints of every thread
\* walk along the arrows of Diagram 3, whatever crashes on the way.
ImplementsDiagram3 == Diagram3!Spec

\* Nothing but a Jira that never answers keeps a task from its end: a task
\* returns, whatever the agent answers, however often it fails and whatever
\* node another task of its thread sends it back to, unless from some moment on
\* a call of Jira always holds its worker's loop.
EveryTaskEnds ==
  \A k \in Tasks : []<>~LoopHeld(k) => (Busy(k) ~> ~Busy(k))

\* ARCHITECTURE.md, Diagram 3: "check_approved --> skip_remediation :
\* approved == false": a rejection's task starts no process.
RejectionRunsNothing ==
  \A k \in Tasks : launches[k] > 0 => job[k].approve
=============================================================================
