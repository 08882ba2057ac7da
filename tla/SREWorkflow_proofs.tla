------------------------- MODULE SREWorkflow_proofs -------------------------
(***************************************************************************)
(* Proofs about SREWorkflow.tla, for any threads, tasks, proposals and     *)
(* faults: the safety invariants of the runs with overlapping webhooks,    *)
(* and below what holds of the serial ones.                                *)
(***************************************************************************)
EXTENDS SREWorkflow, TLAPS

Approval(t)  == <<"HUMAN_APPROVED", t>>
Execution(t) == <<"REMEDIATION_EXECUTED", t>>

\* Channel values of thread t that an audit log backs.
Backed(v, t, log) ==
  /\ v.approved => Approval(t) \in log
  /\ v.status = "REMEDIATION_SUCCESSFUL" => {Approval(t), Execution(t)} \subseteq log

\* Every copy of a thread's values is backed: the checkpoint, which any task
\* may read and write, and what each task carries through the graph.
AllBacked ==
  /\ \A t \in Threads : Backed(ckpt[t].vals, t, audit)
  /\ \A k \in Tasks : job[k] # None => Backed(vals[k], job[k].thread, audit)

\* A slot has a job from its webhook on.
HasJob ==
  \A k \in Tasks :
    IF pc[k] = "free" THEN vals[k] = NoValues /\ launches[k] = 0
    ELSE job[k] # None

\* resume_workflow writes an approval only after it is audited.
DecisionAudited ==
  \A k \in Tasks :
    pc[k] = "update" /\ job[k].approve => Approval(job[k].thread) \in audit

\* Only a plan can reach the ticket node.
TicketNeedsPlan ==
  /\ \A t \in Threads : ckpt[t].next = "create_jira_ticket" => ckpt[t].vals.analysis # None
  /\ \A k \in Tasks : pc[k] = "create_jira_ticket" => vals[k].analysis # None

\* A task that started a process did so once, with an approved plan that the
\* tables allow, and goes no further than the end of the node.
LaunchedInOrder ==
  \A k \in Tasks :
    /\ pc[k] = "command" => launches[k] = 1
    /\ launches[k] # 0 =>
         /\ launches[k] = 1
         /\ pc[k] \in {"command", "done", "failed"}
         /\ vals[k].approved
         /\ Runnable(k)

IInv ==
  /\ TypeOK
  /\ AllBacked
  /\ HasJob
  /\ DecisionAudited
  /\ TicketNeedsPlan
  /\ LaunchedInOrder

-----------------------------------------------------------------------------
\* The tables of RemediationTool let no PROD command and no escalation run.
LEMMA NothingRunsFor ==
  ASSUME NEW a, NEW s
  PROVE  /\ a \in ActionType => ~Runs("PROD", a, s)
         /\ \A e : ~Runs(e, "ESCALATE_ONLY", s)
BY DEF Runs, RefusedEnvironment, Validates, AllowedFor, Lower, allowed_commands, ActionType

\* More errors are still a number the state may hold.
LEMMA ErrorsStayBounded ==
  ASSUME NEW v \in Values
  PROVE  MoreErrors(v) \in 0..MaxErrors
BY DEF Values, MoreErrors, MaxErrors

\* One super-step: whatever node k runs, the invariant holds after it if the
\* values it writes are well typed and backed.
LEMMA SuperStep ==
  ASSUME IInv, NEW k \in Tasks, pc[k] # "free",
         NEW v \in Values, NEW nxt \in Node \cup {"END"},
         Commit(k, v, nxt), Goto(k, nxt), UNCHANGED <<job, launches>>,
         tickets' \subseteq Threads \X Analysis,
         audit \subseteq audit', audit' \subseteq Event \X Threads,
         Backed(v, job[k].thread, audit'),
         nxt = "create_jira_ticket" => v.analysis # None,
         launches[k] # 0 =>
           v.approved /\ v.analysis = vals[k].analysis /\ nxt = "END"
  PROVE  IInv'
<1> DEFINE t == job[k].thread
<1> USE DEF IInv
<1>1. job[k] # None /\ job[k] \in Job /\ t \in Threads
  BY DEF TypeOK, HasJob, Job
<1>2. /\ vals' = [vals EXCEPT ![k] = v]
      /\ ckpt' = [ckpt EXCEPT ![t] = [vals |-> v, next |-> nxt]]
      /\ pc' = [pc EXCEPT ![k] =
                  IF nxt \in {"END", "execute_remediation"} THEN "done" ELSE nxt]
  BY DEF Commit, Goto
<1>3. TypeOK'
  <2>1. pc' \in [Tasks -> PC]
    BY <1>2 DEF TypeOK, PC, Node
  <2>2. vals' \in [Tasks -> Values]
    BY <1>2 DEF TypeOK
  <2>3. ckpt' \in [Threads -> [vals : Values, next : Node \cup {"END"}]]
    BY <1>1, <1>2 DEF TypeOK
  <2> QED BY <2>1, <2>2, <2>3 DEF TypeOK
<1>4. AllBacked'
  <2>1. ASSUME NEW w, NEW u, Backed(w, u, audit)
        PROVE  Backed(w, u, audit')
    BY <2>1 DEF Backed
  <2>2. ASSUME NEW u \in Threads PROVE Backed(ckpt'[u].vals, u, audit')
    <3>1. CASE u = t
      BY <1>1, <1>2, <3>1 DEF TypeOK
    <3>2. CASE u # t
      <4>1. ckpt'[u] = ckpt[u] /\ Backed(ckpt[u].vals, u, audit)
        BY <1>2, <3>2 DEF TypeOK, AllBacked
      <4> QED BY <4>1, <2>1
    <3> QED BY <3>1, <3>2
  <2>3. ASSUME NEW j \in Tasks, job'[j] # None PROVE Backed(vals'[j], job'[j].thread, audit')
    <3>1. CASE j = k
      BY <1>1, <1>2, <3>1 DEF TypeOK
    <3>2. CASE j # k
      <4>1. vals'[j] = vals[j] /\ job'[j] = job[j] /\ Backed(vals[j], job[j].thread, audit)
        BY <1>2, <2>3, <3>2 DEF TypeOK, AllBacked, Job
      <4> QED BY <4>1, <2>1
    <3> QED BY <3>1, <3>2
  <2> QED BY <2>2, <2>3 DEF AllBacked
<1>5. HasJob'
  BY <1>1, <1>2 DEF HasJob, TypeOK, Node
<1>6. DecisionAudited'
  BY <1>1, <1>2 DEF DecisionAudited, TypeOK, Node
<1>7. TicketNeedsPlan'
  BY <1>1, <1>2 DEF TicketNeedsPlan, TypeOK, Node
<1>8. LaunchedInOrder'
  BY <1>1, <1>2 DEF LaunchedInOrder, Runnable, TypeOK, Node
<1> QED BY <1>3, <1>4, <1>5, <1>6, <1>7, <1>8

\* A step that only sends a task on to a place where nothing is asked of it.
LEMMA JustMoves ==
  ASSUME IInv, NEW k \in Tasks, pc[k] # "free",
         NEW to \in PC \ {"free", "update", "create_jira_ticket", "command"},
         Move(k, to), UNCHANGED <<job, vals, ckpt, tickets, audit, launches>>,
         launches[k] # 0 => to \in {"done", "failed"}
  PROVE  IInv'
<1> USE DEF IInv
<1>1. pc' = [pc EXCEPT ![k] = to]
  BY DEF Move
<1>2. TypeOK'
  BY <1>1 DEF TypeOK
<1>3. AllBacked'
  BY DEF AllBacked, Backed
<1>4. HasJob'
  BY <1>1 DEF HasJob, TypeOK
<1>5. DecisionAudited' /\ TicketNeedsPlan'
  BY <1>1 DEF DecisionAudited, TicketNeedsPlan, TypeOK
<1>6. LaunchedInOrder'
  BY <1>1 DEF LaunchedInOrder, Runnable, TypeOK
<1> QED BY <1>2, <1>3, <1>4, <1>5, <1>6

\* A webhook gives a free slot a job.
LEMMA WebhookInv ==
  ASSUME IInv, NEW k \in Tasks, Webhook(k)
  PROVE  IInv'
<1> USE DEF IInv
<1>1. PICK j \in Job, to \in {"received", "decide"} :
        /\ pc[k] = "free"
        /\ job' = [job EXCEPT ![k] = j]
        /\ pc' = [pc EXCEPT ![k] = to]
        /\ UNCHANGED <<vals, ckpt, tickets, audit, launches>>
  BY DEF Webhook, AlertWebhook, JiraWebhook, Move, Job
<1>2. TypeOK'
  BY <1>1 DEF TypeOK, PC
<1>3. AllBacked'
  BY <1>1 DEF AllBacked, Backed, HasJob, NoValues, TypeOK
<1>4. HasJob'
  BY <1>1, WorkflowAssumption DEF HasJob, TypeOK
<1>5. DecisionAudited' /\ TicketNeedsPlan'
  BY <1>1 DEF DecisionAudited, TicketNeedsPlan, TypeOK
<1>6. LaunchedInOrder'
  BY <1>1 DEF LaunchedInOrder, HasJob, Runnable, TypeOK
<1> QED BY <1>2, <1>3, <1>4, <1>5, <1>6

\* The nodes up to the pause, and those that end without a remediation.
LEMMA NodesInv ==
  ASSUME IInv, NEW k \in Tasks,
         \/ StartStream(k) \/ RetrieveContext(k) \/ Diagnose(k) \/ DiagnoseFails(k)
         \/ CreateTicket(k) \/ CreateTicketFails(k) \/ Escalate(k) \/ HandleError(k)
  PROVE  IInv'
<1> DEFINE t == job[k].thread
<1> USE DEF IInv
<1>0. /\ pc[k] # "free" /\ pc[k] \notin {"command", "done", "failed"}
      /\ launches[k] = 0
      /\ t \in Threads /\ vals[k] \in Values /\ ckpt[t].vals \in Values
      /\ Backed(vals[k], t, audit) /\ Backed(ckpt[t].vals, t, audit)
      /\ MoreErrors(vals[k]) \in 0..MaxErrors
  <2>1. pc[k] # "free" /\ pc[k] \notin {"command", "done", "failed"}
    BY DEF StartStream, RetrieveContext, Diagnose, DiagnoseFails, Diagnosed, CreateTicket,
           CreateTicketFails, Escalate, HandleError
  <2>2. job[k] # None /\ t \in Threads /\ vals[k] \in Values /\ ckpt[t].vals \in Values
    BY <2>1 DEF TypeOK, HasJob, Job
  <2> QED BY <2>1, <2>2, ErrorsStayBounded DEF LaunchedInOrder, AllBacked
<1>1. CASE StartStream(k)
  <2>1. PICK v \in Values :
          /\ v.approved = ckpt[t].vals.approved /\ v.status = ckpt[t].vals.status
          /\ Commit(k, v, "retrieve_context")
    BY <1>0, <1>1 DEF StartStream, Values
  <2>2. Backed(v, t, audit') /\ Goto(k, "retrieve_context")
    BY <1>0, <1>1, <2>1 DEF StartStream, Backed, Move, Goto
  <2> QED BY <1>0, <1>1, <2>1, <2>2, SuperStep DEF StartStream, TypeOK, Node
<1>2. CASE RetrieveContext(k)
  <2>1. PICK v \in Values :
          /\ v.approved = vals[k].approved /\ v.status = vals[k].status
          /\ Commit(k, v, "diagnostic_agent")
    BY <1>0, <1>2 DEF RetrieveContext, Values
  <2>2. Backed(v, t, audit')
    BY <1>0, <1>2, <2>1 DEF RetrieveContext, Backed
  <2> QED BY <1>0, <1>2, <2>1, <2>2, SuperStep DEF RetrieveContext, TypeOK, Node
<1>3. CASE Diagnose(k) \/ DiagnoseFails(k)
  <2>1. PICK v \in Values :
          /\ v.approved = vals[k].approved /\ v.status = vals[k].status
          /\ Diagnosed(k, v)
    <3>1. CASE Diagnose(k)
      <4>1. PICK p \in Proposals :
              Diagnosed(k, [vals[k] EXCEPT !.analysis = Adjust(t, p)])
        BY <3>1 DEF Diagnose
      <4>2. Adjust(t, p) \in Analysis
        BY WorkflowAssumption DEF Adjust, Analysis, Proposal, ActionType
      <4> QED BY <1>0, <4>1, <4>2 DEF Values
    <3>2. CASE DiagnoseFails(k)
      BY <1>0, <3>2 DEF DiagnoseFails, Values
    <3> QED BY <1>3, <3>1, <3>2
  <2>2. Route(v) \in Node /\ (Route(v) = "create_jira_ticket" => v.analysis # None)
    BY DEF Route, Node
  <2>3. Backed(v, t, audit')
    BY <1>0, <2>1 DEF Diagnosed, Backed
  <2> QED BY <1>0, <2>1, <2>2, <2>3, SuperStep DEF Diagnosed, TypeOK
<1>4. CASE CreateTicket(k) \/ CreateTicketFails(k)
  <2>1. PICK v \in Values :
          /\ v.approved => vals[k].approved
          /\ v.status \in {"WAITING_ON_HUMAN", "JIRA_FAILED"}
          /\ Commit(k, v, "execute_remediation")
    <3>1. CASE CreateTicket(k)
      BY <1>0, <3>1 DEF CreateTicket, Values, Status
    <3>2. CASE CreateTicketFails(k)
      BY <1>0, <3>2 DEF CreateTicketFails, Values, Status
    <3> QED BY <1>4, <3>1, <3>2
  <2>2. tickets' \subseteq Threads \X Analysis
    <3>1. vals[k].analysis \in Analysis
      BY <1>0, <1>4 DEF CreateTicket, CreateTicketFails, TicketNeedsPlan, Values
    <3> QED BY <1>0, <1>4, <3>1 DEF CreateTicket, CreateTicketFails, TypeOK
  <2>3. Backed(v, t, audit')
    BY <1>0, <1>4, <2>1 DEF CreateTicket, CreateTicketFails, Backed
  <2> QED BY <1>0, <1>4, <2>1, <2>2, <2>3, SuperStep DEF CreateTicket, CreateTicketFails, TypeOK, Node
<1>5. CASE Escalate(k) \/ HandleError(k)
  <2>1. PICK v \in Values :
          /\ v.approved => vals[k].approved
          /\ v.status # "REMEDIATION_SUCCESSFUL"
          /\ Commit(k, v, "END")
    <3>1. CASE Escalate(k)
      BY <1>0, <3>1 DEF Escalate, Values, Status, Terminal
    <3>2. CASE HandleError(k)
      BY <1>0, <3>2 DEF HandleError, Values, Status, Terminal
    <3> QED BY <1>5, <3>1, <3>2
  <2>2. Backed(v, t, audit')
    BY <1>0, <1>5, <2>1 DEF Escalate, HandleError, Backed
  <2> QED BY <1>0, <1>5, <2>1, <2>2, SuperStep DEF Escalate, HandleError, TypeOK
<1> QED BY <1>1, <1>2, <1>3, <1>4, <1>5

\* The node that runs the command, from its first test to its last write.
LEMMA ExecuteInv ==
  ASSUME IInv, NEW k \in Tasks, Execute(k)
  PROVE  IInv'
<1> DEFINE t == job[k].thread
<1> USE DEF IInv
<1>0. /\ pc[k] \in {"execute_remediation", "command", "handle_error"}
      /\ t \in Threads /\ vals[k] \in Values
      /\ Backed(vals[k], t, audit)
      /\ MoreErrors(vals[k]) \in 0..MaxErrors
      /\ pc[k] # "command" => launches[k] = 0
  <2>1. pc[k] \in {"execute_remediation", "command", "handle_error"}
    BY DEF Execute, NoAlert, SkipRemediation, RefuseRemediation, Launch, CommandSucceeds,
           CommandFails, CommandUnaudited, HandlerRaises, Enters
  <2>2. job[k] # None /\ t \in Threads /\ vals[k] \in Values
    BY <2>1 DEF TypeOK, HasJob, Job
  <2> QED BY <2>1, <2>2, ErrorsStayBounded DEF LaunchedInOrder, AllBacked
<1>1. CASE NoAlert(k) \/ HandlerRaises(k)
  BY <1>0, <1>1, JustMoves DEF NoAlert, HandlerRaises, PC
<1>2. CASE SkipRemediation(k)
  <2>1. PICK v \in Values :
          /\ v.approved = vals[k].approved /\ v.status = "REMEDIATION_SKIPPED"
          /\ Finished(k, v)
    BY <1>0, <1>2 DEF SkipRemediation, Values, Status, Terminal
  <2>2. Backed(v, t, audit')
    BY <1>0, <1>2, <2>1 DEF SkipRemediation, Backed
  <2> QED BY <1>0, <1>2, <2>1, <2>2, SuperStep DEF SkipRemediation, Finished, Enters, TypeOK
<1>3. CASE \/ RefuseRemediation(k) \/ CommandFails(k) \/ CommandUnaudited(k)
  <2>1. PICK v \in Values :
          /\ v.approved = vals[k].approved /\ v.analysis = vals[k].analysis
          /\ v.status = "REMEDIATION_FAILED"
          /\ Finished(k, v)
    <3>1. Failed(k)
      BY <1>3 DEF RefuseRemediation, CommandFails, CommandUnaudited
    <3> QED BY <1>0, <3>1 DEF Failed, Values, Status, Terminal
  <2>2. /\ audit \subseteq audit' /\ audit' \subseteq Event \X Threads
        /\ UNCHANGED <<job, tickets, launches>>
    BY <1>0, <1>3 DEF RefuseRemediation, CommandFails, CommandUnaudited, TypeOK, Event
  <2>3. Backed(v, t, audit')
    BY <1>0, <2>1, <2>2 DEF Backed
  <2>4. launches[k] # 0 => v.approved
    BY <2>1 DEF LaunchedInOrder
  <2> QED BY <1>0, <2>1, <2>2, <2>3, <2>4, SuperStep DEF Finished, TypeOK
<1>4. CASE CommandSucceeds(k)
  <2>1. PICK v \in Values :
          /\ v.approved = vals[k].approved /\ v.analysis = vals[k].analysis
          /\ Finished(k, v)
    BY <1>0, <1>4 DEF CommandSucceeds, Values, Status, Terminal
  <2>2. /\ audit' = audit \cup {Execution(t)} /\ audit' \subseteq Event \X Threads
        /\ UNCHANGED <<job, tickets, launches>>
    BY <1>0, <1>4 DEF CommandSucceeds, Execution, TypeOK, Event
  <2>3. vals[k].approved
    BY <1>4 DEF CommandSucceeds, LaunchedInOrder
  <2>4. Backed(v, t, audit')
    BY <1>0, <2>1, <2>2, <2>3 DEF Backed
  <2> QED BY <1>0, <2>1, <2>2, <2>3, <2>4, SuperStep DEF Finished, TypeOK
<1>5. CASE Launch(k)
  <2>1. /\ pc[k] = "execute_remediation" /\ vals[k].approved /\ Runnable(k)
        /\ launches' = [launches EXCEPT ![k] = @ + 1]
        /\ pc' = [pc EXCEPT ![k] = "command"]
        /\ UNCHANGED <<job, vals, ckpt, tickets, audit>>
    BY <1>5 DEF Launch, Enters, Move
  <2>2. TypeOK'
    BY <2>1 DEF TypeOK, PC
  <2>3. AllBacked'
    BY <2>1 DEF AllBacked
  <2>4. HasJob'
    BY <2>1 DEF HasJob, TypeOK
  <2>5. DecisionAudited' /\ TicketNeedsPlan'
    BY <2>1 DEF DecisionAudited, TicketNeedsPlan, TypeOK
  <2>6. LaunchedInOrder'
    BY <1>0, <2>1 DEF LaunchedInOrder, Runnable, TypeOK
  <2> QED BY <2>2, <2>3, <2>4, <2>5, <2>6
<1> QED BY <1>1, <1>2, <1>3, <1>4, <1>5 DEF Execute

\* resume_workflow up to the graph.
LEMMA ResumeInv ==
  ASSUME IInv, NEW k \in Tasks, AuditDecision(k) \/ UpdateState(k) \/ Continue(k)
  PROVE  IInv'
<1> DEFINE t == job[k].thread
<1> USE DEF IInv
<1>0. /\ pc[k] \in {"decide", "update", "continue"} /\ launches[k] = 0
      /\ job[k] # None /\ job[k] \in Job /\ t \in Threads
      /\ ckpt[t].vals \in Values /\ Backed(ckpt[t].vals, t, audit)
  <2>1. pc[k] \in {"decide", "update", "continue"}
    BY DEF AuditDecision, UpdateState, Continue
  <2>2. job[k] # None /\ job[k] \in Job /\ t \in Threads
    BY <2>1 DEF TypeOK, HasJob, Job
  <2> QED BY <2>1, <2>2 DEF LaunchedInOrder, AllBacked, TypeOK
<1>1. CASE AuditDecision(k)
  <2>1. /\ audit \subseteq audit' /\ audit' \subseteq Event \X Threads
        /\ job[k].approve => Approval(t) \in audit'
        /\ pc' = [pc EXCEPT ![k] = "update"]
        /\ UNCHANGED <<job, vals, ckpt, tickets, launches>>
    BY <1>0, <1>1 DEF AuditDecision, Move, Approval, TypeOK, Event
  <2>2. TypeOK'
    BY <2>1 DEF TypeOK, PC
  <2>3. AllBacked'
    BY <2>1 DEF AllBacked, Backed
  <2>4. HasJob'
    BY <1>0, <2>1 DEF HasJob, TypeOK
  <2>5. DecisionAudited' /\ TicketNeedsPlan'
    BY <2>1 DEF DecisionAudited, TicketNeedsPlan, TypeOK
  <2>6. LaunchedInOrder'
    BY <1>0, <2>1 DEF LaunchedInOrder, Runnable, TypeOK
  <2> QED BY <2>2, <2>3, <2>4, <2>5, <2>6
<1>2. CASE UpdateState(k)
  <2>1. PICK v \in Values :
          /\ v.approved = job[k].approve /\ v.status = "APPROVAL_PROCESSED"
          /\ ckpt' = [ckpt EXCEPT ![t] = [vals |-> v, next |-> "execute_remediation"]]
    BY <1>0, <1>2 DEF UpdateState, Values, Status, Job, TypeOK
  <2>2. /\ pc[k] = "update" /\ pc' = [pc EXCEPT ![k] = "continue"]
        /\ UNCHANGED <<job, vals, tickets, audit, launches>>
    BY <1>2 DEF UpdateState, Move
  <2>3. Backed(v, t, audit)
    BY <2>1, <2>2 DEF DecisionAudited, Backed
  <2>4. TypeOK'
    BY <1>0, <2>1, <2>2 DEF TypeOK, PC, Node
  <2>5. AllBacked'
    <3>1. ASSUME NEW u \in Threads PROVE Backed(ckpt'[u].vals, u, audit)
      BY <1>0, <2>1, <2>3 DEF AllBacked, TypeOK
    <3> QED BY <2>2, <3>1 DEF AllBacked
  <2>6. HasJob' /\ DecisionAudited'
    BY <1>0, <2>2 DEF HasJob, DecisionAudited, TypeOK
  <2>7. TicketNeedsPlan'
    BY <1>0, <2>1, <2>2 DEF TicketNeedsPlan, TypeOK
  <2>8. LaunchedInOrder'
    BY <1>0, <2>2 DEF LaunchedInOrder, Runnable, TypeOK
  <2> QED BY <2>4, <2>5, <2>6, <2>7, <2>8
<1>3. CASE Continue(k)
  <2> DEFINE c  == ckpt[t]
             to == IF c.next = "END" THEN "done" ELSE c.next
  <2>1. /\ vals' = [vals EXCEPT ![k] = c.vals] /\ pc' = [pc EXCEPT ![k] = to]
        /\ to \in Node \cup {"done"}
        /\ UNCHANGED <<job, ckpt, tickets, audit, launches>>
    BY <1>0, <1>3 DEF Continue, Move, TypeOK
  <2>2. TypeOK'
    BY <1>0, <2>1 DEF TypeOK, PC
  <2>3. AllBacked'
    <3>1. ASSUME NEW j \in Tasks, job[j] # None PROVE Backed(vals'[j], job[j].thread, audit)
      BY <1>0, <2>1, <3>1 DEF AllBacked, TypeOK
    <3> QED BY <2>1, <3>1 DEF AllBacked
  <2>4. HasJob' /\ DecisionAudited'
    BY <1>0, <2>1 DEF HasJob, DecisionAudited, TypeOK, Node
  <2>5. TicketNeedsPlan'
    BY <1>0, <2>1 DEF TicketNeedsPlan, TypeOK
  <2>6. LaunchedInOrder'
    BY <1>0, <2>1 DEF LaunchedInOrder, Runnable, TypeOK, Node
  <2> QED BY <2>2, <2>3, <2>4, <2>5, <2>6
<1> QED BY <1>1, <1>2, <1>3

-----------------------------------------------------------------------------
LEMMA InitInv == Init => IInv
<1> SUFFICES ASSUME Init PROVE IInv
  OBVIOUS
<1>1. NoValues \in Values
  BY DEF NoValues, Values, Status, MaxErrors
<1>2. TypeOK
  BY <1>1 DEF Init, TypeOK, PC, Node
<1>3. AllBacked /\ HasJob /\ DecisionAudited /\ TicketNeedsPlan /\ LaunchedInOrder
  BY DEF Init, AllBacked, Backed, HasJob, DecisionAudited, TicketNeedsPlan,
         LaunchedInOrder, NoValues
<1> QED BY <1>2, <1>3 DEF IInv

LEMMA NextInv == IInv /\ [Next]_vars => IInv'
<1> SUFFICES ASSUME IInv, [Next]_vars PROVE IInv'
  OBVIOUS
<1>1. CASE UNCHANGED vars
  BY <1>1 DEF vars, IInv, TypeOK, AllBacked, Backed, HasJob, DecisionAudited,
              TicketNeedsPlan, LaunchedInOrder, Runnable
<1>2. ASSUME NEW k \in Tasks, Webhook(k) PROVE IInv'
  BY <1>2, WebhookInv
<1>3. ASSUME NEW k \in Tasks, Step(k) PROVE IInv'
  <2>1. CASE Receive(k)
    <3>1. PICK to \in {"stream", "done"} : Move(k, to)
      BY <2>1 DEF Receive
    <3> QED BY <2>1, <3>1, JustMoves DEF Receive, PC, IInv, LaunchedInOrder
  <2>2. CASE Execute(k)
    BY <2>2, ExecuteInv
  <2> QED BY <1>3, <2>1, <2>2, NodesInv, ResumeInv DEF Step
<1>4. ASSUME NEW k \in Tasks, Abort(k) PROVE IInv'
  BY <1>4, JustMoves DEF Abort, Busy, PC
<1> QED BY <1>1, <1>2, <1>3, <1>4 DEF Next

LEMMA Invariance == Spec => []IInv
BY InitInv, NextInv, PTL DEF Spec

\* The values a thread and its tasks hold are always the channels of
\* SREWorkflowState, and tickets and audit entries are about real threads.
THEOREM TypeCorrect == Spec => []TypeOK
<1>1. IInv => TypeOK
  BY DEF IInv
<1> QED BY <1>1, Invariance, PTL

\* No process without an approval in the audit log, for any number of
\* threads and overlapping tasks and whatever crashes.
THEOREM CommandWasApprovedHolds == Spec => []CommandWasApproved
<1>1. IInv => CommandWasApproved
  BY DEF IInv, TypeOK, CommandWasApproved, LaunchedInOrder, HasJob, AllBacked, Backed, Approval
<1> QED BY <1>1, Invariance, PTL

\* At most one process for each accepted webhook.
THEOREM AtMostOneLaunchHolds == Spec => []AtMostOneLaunch
<1>1. IInv => AtMostOneLaunch
  BY DEF IInv, TypeOK, AtMostOneLaunch, LaunchedInOrder
<1> QED BY <1>1, Invariance, PTL

\* Whatever the agent proposes: never a process in PROD, never one for an
\* escalation.
THEOREM CommandIsAllowedHolds == Spec => []CommandIsAllowed
<1>1. IInv => CommandIsAllowed
  <2> SUFFICES ASSUME IInv, NEW k \in Tasks, launches[k] > 0
               PROVE  /\ job[k].thread \notin ProdThreads
                      /\ vals[k].analysis # None
                      /\ vals[k].analysis.action # "ESCALATE_ONLY"
    BY DEF CommandIsAllowed
  <2>1. Runnable(k) /\ vals[k] \in Values
    BY DEF IInv, TypeOK, LaunchedInOrder
  <2>2. vals[k].analysis # None /\ vals[k].analysis.action \in ActionType
    BY <2>1 DEF Runnable, Values, Analysis
  <2> QED BY <2>1, <2>2, NothingRunsFor DEF Runnable
<1> QED BY <1>1, Invariance, PTL

\* No thread is reported as remediated without both audit entries.
THEOREM SuccessIsAuditedHolds == Spec => []SuccessIsAudited
<1>1. IInv => SuccessIsAudited
  BY DEF IInv, SuccessIsAudited, AllBacked, Backed, Approval, Execution
<1> QED BY <1>1, Invariance, PTL

-----------------------------------------------------------------------------
(* No thread is left between two nodes                                     *)

\* A task that will write to its thread again, or that something has ended
\* on the way.
Carries(k) ==
  /\ job[k] # None
  /\ \/ pc[k] \in {"continue", "failed"}
     \/ pc[k] \in Node \cup {"command"} /\ vals[k].alert

Settled(c) ==
  \/ c.next = "END" /\ c.vals.status \in Terminal
  \/ c.next = "execute_remediation" /\ c.vals.status \in {"WAITING_ON_HUMAN", "JIRA_FAILED"}

\* A thread with an alert is settled, or a task carries it on; and an ended
\* one has a final status, even when the task that ended it is not the one
\* that reads it back.
NotStranded ==
  \A t \in Threads : ckpt[t].vals.alert =>
    /\ Settled(ckpt[t]) \/ \E k \in Tasks : job[k].thread = t /\ Carries(k)
    /\ ckpt[t].next = "END" => ckpt[t].vals.status \in Terminal

LEMMA InitNotStranded == Init => NotStranded
BY DEF Init, NotStranded, NoValues

\* A super-step settles its thread, or its task carries it to the next node.
LEMMA CommitCarries ==
  ASSUME TypeOK, NotStranded, NEW k \in Tasks, job[k] # None,
         NEW v, NEW nxt \in Node \cup {"END"},
         Commit(k, v, nxt), Goto(k, nxt), UNCHANGED job,
         nxt = "END" => v.status \in Terminal,
         nxt = "execute_remediation" => v.status \in {"WAITING_ON_HUMAN", "JIRA_FAILED"}
  PROVE  NotStranded'
<1> SUFFICES ASSUME NEW u \in Threads, ckpt'[u].vals.alert
             PROVE  /\ Settled(ckpt'[u])
                       \/ \E j \in Tasks : job[j].thread = u /\ Carries(j)'
                    /\ ckpt'[u].next = "END" => ckpt'[u].vals.status \in Terminal
  BY DEF NotStranded
<1>1. /\ job[k].thread \in Threads
      /\ vals'[k] = v /\ ckpt'[job[k].thread] = [vals |-> v, next |-> nxt]
      /\ pc'[k] = (IF nxt \in {"END", "execute_remediation"} THEN "done" ELSE nxt)
      /\ \A j \in Tasks \ {k} : vals'[j] = vals[j] /\ pc'[j] = pc[j]
      /\ \A t \in Threads \ {job[k].thread} : ckpt'[t] = ckpt[t]
  BY DEF Commit, Goto, TypeOK, Job
<1>2. CASE u = job[k].thread
  <2>1. CASE nxt \in {"END", "execute_remediation"}
    BY <1>1, <1>2, <2>1 DEF Settled
  <2>2. CASE nxt \notin {"END", "execute_remediation"}
    <3>1. Carries(k)'
      BY <1>1, <1>2, <2>2 DEF Carries
    <3> QED BY <1>1, <1>2, <2>2, <3>1
  <2> QED BY <2>1, <2>2
<1>3. CASE u # job[k].thread
  <2>1. ckpt'[u] = ckpt[u]
    BY <1>1, <1>3
  <2>2. \A j \in Tasks : job[j].thread = u /\ Carries(j) => Carries(j)'
    BY <1>1, <1>3 DEF Carries
  <2> QED BY <2>1, <2>2 DEF NotStranded
<1> QED BY <1>2, <1>3

\* A task that moves without writing gives up no thread that it carries.
LEMMA MoveCarries ==
  ASSUME TypeOK, NotStranded, NEW k \in Tasks, NEW to, Move(k, to),
         \A j \in Tasks \ {k} : job'[j] = job[j],
         UNCHANGED <<vals, ckpt>>,
         Carries(k) => job'[k] = job[k] /\ (to = "failed" \/ (to = "command" /\ vals[k].alert))
  PROVE  NotStranded'
<1>1. pc'[k] = to /\ \A j \in Tasks \ {k} : pc'[j] = pc[j]
  BY DEF Move, TypeOK
<1>2. \A j \in Tasks : Carries(j) => Carries(j)' /\ job'[j] = job[j]
  BY <1>1 DEF Carries
<1> QED BY <1>2 DEF NotStranded

LEMMA NextNotStranded == IInv /\ NotStranded /\ [Next]_vars => NotStranded'
<1> SUFFICES ASSUME IInv, NotStranded, [Next]_vars PROVE NotStranded'
  OBVIOUS
<1> USE DEF IInv
<1>1. CASE UNCHANGED vars
  BY <1>1 DEF vars, NotStranded, Carries
<1>2. ASSUME NEW k \in Tasks, Webhook(k) PROVE NotStranded'
  <2>1. PICK to \in {"received", "decide"} : Move(k, to)
    BY <1>2 DEF Webhook, AlertWebhook, JiraWebhook
  <2>2. /\ \A j \in Tasks \ {k} : job'[j] = job[j]
        /\ UNCHANGED <<vals, ckpt>> /\ pc[k] = "free"
    BY <1>2 DEF Webhook, AlertWebhook, JiraWebhook, TypeOK
  <2>3. ~Carries(k)
    BY <2>2 DEF Carries, Node
  <2> QED BY <2>1, <2>2, <2>3, MoveCarries
<1>3. ASSUME NEW k \in Tasks, Abort(k) PROVE NotStranded'
  BY <1>3, MoveCarries DEF Abort
<1>4. ASSUME NEW k \in Tasks, Step(k) PROVE NotStranded'
  <2>1. pc[k] # "free"
    BY <1>4 DEF Step, Receive, StartStream, RetrieveContext, Diagnose, DiagnoseFails, Diagnosed,
       CreateTicket, CreateTicketFails, Escalate, HandleError, Execute, NoAlert,
       SkipRemediation, RefuseRemediation, Launch, CommandSucceeds, CommandFails,
       CommandUnaudited, HandlerRaises, Enters, AuditDecision, UpdateState, Continue
  <2>2. job[k] # None
    BY <2>1 DEF HasJob
  <2>3. CASE Receive(k) \/ AuditDecision(k) \/ NoAlert(k)
    <3>1. \E to : Move(k, to)
      BY <2>3 DEF Receive, AuditDecision, NoAlert
    <3>2. ~Carries(k) /\ UNCHANGED <<job, vals, ckpt>>
      BY <2>3 DEF Receive, AuditDecision, NoAlert, Carries, Node
    <3> QED BY <3>1, <3>2, MoveCarries
  <2>4. CASE HandlerRaises(k)
    BY <2>4, MoveCarries DEF HandlerRaises
  <2>5. CASE Launch(k)
    BY <2>5, MoveCarries DEF Launch, Enters
  <2>6. CASE StartStream(k) \/ RetrieveContext(k)
    <3>1. PICK v : \E nxt \in {"retrieve_context", "diagnostic_agent"} :
            Commit(k, v, nxt) /\ Goto(k, nxt) /\ UNCHANGED job
      BY <2>6 DEF StartStream, RetrieveContext, Move, Goto
    <3> QED BY <2>2, <3>1, CommitCarries DEF Node
  <2>7. CASE Diagnose(k) \/ DiagnoseFails(k)
    <3>1. PICK v : Diagnosed(k, v)
      BY <2>7 DEF Diagnose, DiagnoseFails
    <3>2. Route(v) \in {"handle_error", "escalate_only", "create_jira_ticket"}
      BY DEF Route
    <3> QED BY <2>2, <3>1, <3>2, CommitCarries DEF Diagnosed, Node
  <2>8. CASE CreateTicket(k) \/ CreateTicketFails(k)
    <3>1. PICK v \in Values : /\ v.status \in {"WAITING_ON_HUMAN", "JIRA_FAILED"}
                              /\ Commit(k, v, "execute_remediation")
      <4>1. vals[k] \in Values /\ MoreErrors(vals[k]) \in 0..MaxErrors
        BY ErrorsStayBounded DEF TypeOK
      <4>2. CASE CreateTicket(k)
        BY <4>1, <4>2 DEF CreateTicket, Values, Status
      <4>3. CASE CreateTicketFails(k)
        BY <4>1, <4>3 DEF CreateTicketFails, Values, Status
      <4> QED BY <2>8, <4>2, <4>3
    <3>2. Goto(k, "execute_remediation") /\ UNCHANGED job
      BY <2>8 DEF CreateTicket, CreateTicketFails
    <3> QED BY <2>2, <3>1, <3>2, CommitCarries DEF Node
  <2>9. CASE \/ Escalate(k) \/ HandleError(k) \/ SkipRemediation(k) \/ RefuseRemediation(k)
             \/ CommandSucceeds(k) \/ CommandFails(k) \/ CommandUnaudited(k)
    <3>1. vals[k] \in Values /\ MoreErrors(vals[k]) \in 0..MaxErrors
      BY ErrorsStayBounded DEF TypeOK
    <3>2. PICK v \in Values : v.status \in Terminal /\ Commit(k, v, "END")
      <4>1. CASE Escalate(k)
        BY <3>1, <4>1 DEF Escalate, Values, Status, Terminal
      <4>2. CASE HandleError(k)
        BY <3>1, <4>2 DEF HandleError, Values, Status, Terminal
      <4>3. CASE SkipRemediation(k)
        BY <3>1, <4>3 DEF SkipRemediation, Finished, Values, Status, Terminal
      <4>4. CASE CommandSucceeds(k)
        BY <3>1, <4>4 DEF CommandSucceeds, Finished, Values, Status, Terminal
      <4>5. CASE Failed(k)
        BY <3>1, <4>5 DEF Failed, Finished, Values, Status, Terminal
      <4> QED BY <2>9, <4>1, <4>2, <4>3, <4>4, <4>5
              DEF RefuseRemediation, CommandFails, CommandUnaudited
    <3>3. Goto(k, "END") /\ UNCHANGED job
      BY <2>9 DEF Escalate, HandleError, SkipRemediation, RefuseRemediation,
         CommandSucceeds, CommandFails, CommandUnaudited, Failed, Finished
    <3> QED BY <2>2, <3>2, <3>3, CommitCarries
  <2>10. CASE UpdateState(k)
    <3>1. /\ \A u \in Threads \ {job[k].thread} : ckpt'[u] = ckpt[u]
          /\ ckpt'[job[k].thread].next = "execute_remediation"
          /\ pc'[k] = "continue" /\ pc[k] = "update"
          /\ \A j \in Tasks \ {k} : pc'[j] = pc[j]
          /\ UNCHANGED <<job, vals>>
      BY <2>2, <2>10 DEF UpdateState, Move, TypeOK, Job
    <3>2. \A j \in Tasks : Carries(j) => Carries(j)'
      BY <2>2, <3>1 DEF Carries
    <3>3. Carries(k)'
      BY <2>2, <3>1 DEF Carries
    <3> QED BY <3>1, <3>2, <3>3 DEF NotStranded
  <2>11. CASE Continue(k)
    <3> DEFINE c == ckpt[job[k].thread]
    <3>1. /\ vals'[k] = c.vals /\ pc[k] = "continue"
          /\ pc'[k] = (IF c.next = "END" THEN "done" ELSE c.next)
          /\ \A j \in Tasks \ {k} : pc'[j] = pc[j] /\ vals'[j] = vals[j]
          /\ UNCHANGED <<job, ckpt>>
          /\ c.next \in Node \cup {"END"}
      BY <2>2, <2>11 DEF Continue, Move, TypeOK, Job
    <3>2. \A j \in Tasks \ {k} : Carries(j) => Carries(j)'
      BY <3>1 DEF Carries
    <3>3. SUFFICES ASSUME NEW u \in Threads, ckpt[u].vals.alert
                   PROVE  /\ Settled(ckpt[u])
                             \/ \E j \in Tasks : job[j].thread = u /\ Carries(j)'
                          /\ ckpt[u].next = "END" => ckpt[u].vals.status \in Terminal
      BY <3>1 DEF NotStranded
    <3>4. CASE u # job[k].thread
      BY <3>2, <3>3, <3>4 DEF NotStranded
    <3>5. CASE u = job[k].thread /\ c.next = "END"
      BY <3>3, <3>5 DEF NotStranded, Settled
    <3>6. CASE u = job[k].thread /\ c.next # "END"
      <4>1. Carries(k)'
        BY <2>2, <3>1, <3>3, <3>6 DEF Carries
      <4> QED BY <3>3, <3>6, <4>1 DEF NotStranded
    <3> QED BY <3>4, <3>5, <3>6
  <2> QED BY <1>4, <2>3, <2>4, <2>5, <2>6, <2>7, <2>8, <2>9, <2>10, <2>11 DEF Step, Execute
<1> QED BY <1>1, <1>2, <1>3, <1>4 DEF Next

\* resume_workflow and start_workflow: when no task is under way and none
\* has died, every thread with an alert is finished or at the gate, for any
\* number of threads and tasks, in whatever order their streams overlap.
THEOREM NoStrandedThreadHolds == Spec => []NoStrandedThread
<1>1. IInv /\ NotStranded => NoStrandedThread
  <2> SUFFICES ASSUME IInv, NotStranded, \A k \in Tasks : pc[k] \in {"free", "done"},
                      NEW t \in Threads, ckpt[t].vals.alert
               PROVE  Settled(ckpt[t])
    BY DEF NoStrandedThread, Settled
  <2>1. \A k \in Tasks : ~Carries(k)
    BY DEF Carries, Node
  <2> QED BY <2>1 DEF NotStranded
<1>2. Spec => [](IInv /\ NotStranded)
  BY InitInv, InitNotStranded, NextInv, NextNotStranded, PTL DEF Spec
<1> QED BY <1>1, <1>2, PTL
-----------------------------------------------------------------------------
(***************************************************************************)
(* When webhooks do not overlap: a thread is started once and decided      *)
(* once, while its ticket waits.  With crashes and a failing audit log,    *)
(* the plan that runs was shown, and the checkpoints implement Diagram 3.  *)
(***************************************************************************)

\* The nodes of a stream before the pause, and those that end without one.
StartNodes == {"retrieve_context", "diagnostic_agent", "create_jira_ticket",
               "escalate_only", "handle_error"}

HasKind(k, t, kind) == job[k] # None /\ job[k].thread = t /\ job[k].kind = kind

OneOfAKind ==
  \A j, k \in Tasks :
    /\ job[j] # None /\ job[k] # None
    /\ job[j].thread = job[k].thread /\ job[j].kind = job[k].kind
    => j = k

Untouched(c) == c.vals = NoValues /\ c.next = "END"

\* Where the task that starts a thread is, the thread's checkpoint is too.
StartFits(k) ==
  /\ pc[k] \in {"received", "stream", "done", "failed"} \cup StartNodes
  /\ launches[k] = 0
  /\ pc[k] \in {"received", "stream"} => Untouched(ckpt[job[k].thread])
  /\ pc[k] \in StartNodes =>
       /\ ckpt[job[k].thread] = [vals |-> vals[k], next |-> pc[k]]
       /\ vals[k].status = "unset" /\ ~vals[k].approved

\* Likewise the task of a decision, which has the thread for itself.
ResumeFits(k) ==
  /\ pc[k] \in {"decide", "update", "continue", "execute_remediation", "command",
                "done", "failed"}
  /\ pc[k] \in {"decide", "update", "continue", "execute_remediation", "command"} =>
       /\ ckpt[job[k].thread].next = "execute_remediation"
       /\ <<job[k].thread, ckpt[job[k].thread].vals.analysis>> \in tickets
  /\ pc[k] \in {"decide", "update"} =>
       ckpt[job[k].thread].vals.status = "WAITING_ON_HUMAN"
  /\ pc[k] \in {"continue", "execute_remediation", "command"} =>
       ckpt[job[k].thread].vals.status = "APPROVAL_PROCESSED"
  /\ pc[k] \in {"execute_remediation", "command"} => vals[k] = ckpt[job[k].thread].vals
  /\ launches[k] # 0 => <<job[k].thread, vals[k].analysis>> \in tickets
  /\ \A j \in Tasks : HasKind(j, job[k].thread, "start") => pc[j] \in {"done", "failed"}

Fits(k) == IF job[k].kind = "start" THEN StartFits(k) ELSE ResumeFits(k)

\* A ticket that waits shows the plan of the checkpoint.
WaitsForTicket(t) ==
  ckpt[t].vals.status = "WAITING_ON_HUMAN" =>
    /\ ckpt[t].next = "execute_remediation"
    /\ <<t, ckpt[t].vals.analysis>> \in tickets

Serial ==
  /\ OneOfAKind
  /\ \A k \in Tasks : job[k] # None => Fits(k)
  /\ \A t \in Threads :
       /\ (\A k \in Tasks : job[k] # None => job[k].thread # t) => Untouched(ckpt[t])
       /\ WaitsForTicket(t)

-----------------------------------------------------------------------------

LEMMA InitSerial ==
  ASSUME Init
  PROVE  Serial
<1>1. \A k \in Tasks : job[k] = None
  BY DEF Init
<1>2. ASSUME NEW t \in Threads PROVE Untouched(ckpt[t]) /\ WaitsForTicket(t)
  <2>1. ckpt[t] = [vals |-> NoValues, next |-> "END"]
    BY DEF Init
  <2> QED BY <2>1 DEF Untouched, WaitsForTicket, NoValues
<1> QED BY <1>1, <1>2 DEF Serial, OneOfAKind

\* The jobs' types.
LEMMA JobType ==
  ASSUME TypeOK, NEW k \in Tasks, job[k] # None
  PROVE  job[k].thread \in Threads /\ job[k].kind \in {"start", "resume"}
<1>1. job[k] \in Job
  BY DEF TypeOK
<1> QED BY <1>1 DEF Job

\* While a task is under way, the other one of its thread is over.
LEMMA Alone ==
  ASSUME TypeOK, Serial, NEW k \in Tasks, job[k] # None, Busy(k),
         NEW j \in Tasks \ {k}, job[j] # None, job[j].thread = job[k].thread
  PROVE  /\ pc[j] \in {"done", "failed"}
         /\ job[k].kind = "resume" /\ job[j].kind = "start"
<1>1. job[j].kind # job[k].kind
  BY DEF Serial, OneOfAKind
<1>2. job[k].kind \in {"start", "resume"} /\ job[j].kind \in {"start", "resume"}
  BY JobType
<1>3. CASE job[k].kind = "start"
  <2>1. ResumeFits(j) /\ HasKind(k, job[j].thread, "start")
    BY <1>1, <1>3 DEF Serial, Fits, HasKind
  <2> QED BY <2>1 DEF ResumeFits, Busy
<1>4. CASE job[k].kind = "resume"
  <2>1. ResumeFits(k) /\ HasKind(j, job[k].thread, "start")
    BY <1>1, <1>2, <1>4 DEF Serial, Fits, HasKind
  <2> QED BY <1>1, <1>2, <1>4, <2>1 DEF ResumeFits
<1> QED BY <1>2, <1>3, <1>4

\* A step of one task concerns its own thread only.
LEMMA OneTaskSteps ==
  ASSUME TypeOK, Serial, NEW k \in Tasks, job[k] # None, Busy(k), UNCHANGED job,
         \A j \in Tasks \ {k} :
           pc'[j] = pc[j] /\ vals'[j] = vals[j] /\ launches'[j] = launches[j],
         \A t \in Threads \ {job[k].thread} : ckpt'[t] = ckpt[t],
         tickets \subseteq tickets',
         Fits(k)', WaitsForTicket(job[k].thread)'
  PROVE  Serial'
<1>1. OneOfAKind'
  BY DEF Serial, OneOfAKind
<1>2. ASSUME NEW j \in Tasks, job[j] # None PROVE Fits(j)'
  <2>1. CASE j = k
    BY <2>1
  <2>2. CASE j # k /\ job[j].thread = job[k].thread
    <3>1. pc[j] \in {"done", "failed"} /\ job[j].kind = "start"
      BY <1>2, <2>2, Alone
    <3>2. StartFits(j)
      BY <1>2, <3>1 DEF Serial, Fits
    <3> QED BY <2>2, <3>1, <3>2 DEF Fits, StartFits, StartNodes
  <2>3. CASE j # k /\ job[j].thread # job[k].thread
    <3>1. job[j].thread \in Threads
      BY <1>2, JobType
    <3>2. /\ pc'[j] = pc[j] /\ vals'[j] = vals[j] /\ launches'[j] = launches[j]
          /\ ckpt'[job[j].thread] = ckpt[job[j].thread]
      BY <2>3, <3>1
    <3>3. CASE job[j].kind = "start"
      <4>1. StartFits(j)
        BY <1>2, <3>3 DEF Serial, Fits
      <4> QED BY <3>2, <3>3, <4>1 DEF Fits, StartFits
    <3>4. CASE job[j].kind # "start"
      <4>1. ResumeFits(j)
        BY <1>2, <3>4 DEF Serial, Fits
      <4>2. \A i \in Tasks : HasKind(i, job[j].thread, "start")' => pc'[i] \in {"done", "failed"}
        BY <2>3, <4>1 DEF ResumeFits, HasKind
      <4> QED BY <3>2, <3>4, <4>1, <4>2 DEF Fits, ResumeFits
    <3> QED BY <3>3, <3>4
  <2> QED BY <2>1, <2>2, <2>3
<1>3. ASSUME NEW t \in Threads
      PROVE  /\ (\A j \in Tasks : job[j] # None => job[j].thread # t) => Untouched(ckpt'[t])
             /\ WaitsForTicket(t)'
  <2>1. CASE t = job[k].thread
    BY <2>1
  <2>2. CASE t # job[k].thread
    BY <2>2 DEF Serial, WaitsForTicket
  <2> QED BY <2>1, <2>2
<1> QED BY <1>1, <1>2, <1>3 DEF Serial

\* A node of a stream that starts a thread ends.
LEMMA StartCommits ==
  ASSUME TypeOK, Serial, NEW k \in Tasks, job[k] # None, job[k].kind = "start", Busy(k),
         NEW v \in Values, NEW nxt \in StartNodes \cup {"END", "execute_remediation"},
         Commit(k, v, nxt), Goto(k, nxt), UNCHANGED <<job, launches>>,
         tickets \subseteq tickets',
         nxt \in StartNodes => v.status = "unset" /\ ~v.approved,
         v.status = "WAITING_ON_HUMAN" =>
           nxt = "execute_remediation" /\ <<job[k].thread, v.analysis>> \in tickets'
  PROVE  Serial'
<1> DEFINE t == job[k].thread
<1>1. t \in Threads
  BY JobType
<1>2. /\ vals' = [vals EXCEPT ![k] = v]
      /\ ckpt' = [ckpt EXCEPT ![t] = [vals |-> v, next |-> nxt]]
      /\ pc' = [pc EXCEPT ![k] =
                  IF nxt \in {"END", "execute_remediation"} THEN "done" ELSE nxt]
  BY DEF Commit, Goto
<1>3. /\ vals'[k] = v /\ ckpt'[t] = [vals |-> v, next |-> nxt]
      /\ pc'[k] = IF nxt \in {"END", "execute_remediation"} THEN "done" ELSE nxt
  BY <1>1, <1>2 DEF TypeOK
<1>4. launches[k] = 0
  BY DEF Serial, Fits, StartFits
<1>5. StartFits(k)'
  BY <1>3, <1>4 DEF StartFits, StartNodes
<1>6. WaitsForTicket(t)'
  BY <1>3 DEF WaitsForTicket
<1>7. /\ \A j \in Tasks \ {k} :
           pc'[j] = pc[j] /\ vals'[j] = vals[j] /\ launches'[j] = launches[j]
      /\ \A u \in Threads \ {t} : ckpt'[u] = ckpt[u]
  BY <1>2 DEF TypeOK
<1> QED BY <1>5, <1>6, <1>7, OneTaskSteps DEF Fits

\* execute_remediation ends.
LEMMA ResumeCommits ==
  ASSUME TypeOK, Serial, NEW k \in Tasks, job[k] # None, job[k].kind = "resume", Busy(k),
         NEW v \in Values, Finished(k, v), UNCHANGED <<job, launches, tickets>>,
         v.status # "WAITING_ON_HUMAN", v.analysis = vals[k].analysis
  PROVE  Serial'
<1> DEFINE t == job[k].thread
<1>1. t \in Threads
  BY JobType
<1>2. /\ vals' = [vals EXCEPT ![k] = v]
      /\ ckpt' = [ckpt EXCEPT ![t] = [vals |-> v, next |-> "END"]]
      /\ pc' = [pc EXCEPT ![k] = "done"]
  BY DEF Finished, Commit, Goto
<1>3. vals'[k] = v /\ ckpt'[t] = [vals |-> v, next |-> "END"] /\ pc'[k] = "done"
  BY <1>1, <1>2 DEF TypeOK
<1>4. ResumeFits(k)
  BY DEF Serial, Fits
<1>5. /\ \A j \in Tasks \ {k} :
           pc'[j] = pc[j] /\ vals'[j] = vals[j] /\ launches'[j] = launches[j]
      /\ \A u \in Threads \ {t} : ckpt'[u] = ckpt[u]
  BY <1>2 DEF TypeOK
<1>6. \A j \in Tasks : HasKind(j, t, "start")' => pc'[j] \in {"done", "failed"}
  BY <1>4, <1>5 DEF ResumeFits, HasKind
<1>7. ResumeFits(k)'
  BY <1>3, <1>4, <1>6 DEF ResumeFits
<1>8. WaitsForTicket(t)'
  BY <1>3 DEF WaitsForTicket
<1> QED BY <1>5, <1>7, <1>8, OneTaskSteps DEF Fits

\* A step that writes no checkpoint.
LEMMA OnlyTaskMoves ==
  ASSUME TypeOK, Serial, NEW k \in Tasks, job[k] # None, Busy(k),
         NEW to, Move(k, to), UNCHANGED <<job, ckpt, tickets>>,
         \A j \in Tasks \ {k} : vals'[j] = vals[j] /\ launches'[j] = launches[j],
         job[k].kind = "start" =>
           /\ to \in {"stream", "done", "failed"} /\ launches'[k] = 0
           /\ to = "stream" => pc[k] = "received",
         job[k].kind = "resume" =>
           /\ to \in {"update", "execute_remediation", "command", "done", "failed"}
           /\ to = "update" => pc[k] = "decide"
           /\ to \in {"execute_remediation", "command"} =>
                /\ pc[k] \in {"continue", "execute_remediation"}
                /\ vals'[k] = ckpt[job[k].thread].vals
           /\ launches'[k] # 0 => <<job[k].thread, vals'[k].analysis>> \in tickets
  PROVE  Serial'
<1> DEFINE t == job[k].thread
<1>1. t \in Threads /\ job[k].kind \in {"start", "resume"}
  BY JobType
<1>2. /\ pc' = [pc EXCEPT ![k] = to]
      /\ pc'[k] = to
  BY DEF Move, TypeOK
<1>3. \A j \in Tasks \ {k} :
        pc'[j] = pc[j] /\ vals'[j] = vals[j] /\ launches'[j] = launches[j]
  BY <1>2 DEF TypeOK
<1>4. WaitsForTicket(t)'
  BY <1>1 DEF Serial, WaitsForTicket
<1>5. CASE job[k].kind = "start"
  <2>1. StartFits(k)
    BY <1>5 DEF Serial, Fits
  <2>2. StartFits(k)'
    BY <1>2, <1>5, <2>1 DEF StartFits, StartNodes
  <2> QED BY <1>3, <1>4, <1>5, <2>2, OneTaskSteps DEF Fits
<1>6. CASE job[k].kind = "resume"
  <2>1. ResumeFits(k)
    BY <1>6 DEF Serial, Fits
  <2>2. \A j \in Tasks : HasKind(j, t, "start")' => pc'[j] \in {"done", "failed"}
    BY <1>3, <1>6, <2>1 DEF ResumeFits, HasKind
  <2>3. ResumeFits(k)'
    BY <1>2, <1>6, <2>1, <2>2 DEF ResumeFits
  <2> QED BY <1>3, <1>4, <1>6, <2>3, OneTaskSteps DEF Fits
<1> QED BY <1>1, <1>5, <1>6

\* A webhook comes for a thread that waits for it.
LEMMA WebhookSerial ==
  ASSUME IInv, Serial, "overlap" \notin Faults, NEW k \in Tasks, Webhook(k)
  PROVE  Serial'
<1> USE DEF IInv
<1>1. PICK j \in Job, to \in {"received", "decide"} :
        /\ pc[k] = "free"
        /\ job' = [job EXCEPT ![k] = j] /\ pc' = [pc EXCEPT ![k] = to]
        /\ UNCHANGED <<vals, ckpt, tickets, launches>>
        /\ \/ to = "received" /\ j.kind = "start" /\ MayStart(j.thread)
           \/ to = "decide" /\ j.kind = "resume" /\ MayDecide(j.thread)
  <2>1. ASSUME NEW t \in Threads, AlertWebhook(k, t)
        PROVE  \E j \in Job : j.kind = "start" /\ j.thread = t /\ job' = [job EXCEPT ![k] = j]
    BY <2>1 DEF AlertWebhook, Job
  <2>2. ASSUME NEW t \in Threads, NEW b \in BOOLEAN, JiraWebhook(k, t, b)
        PROVE  \E j \in Job : j.kind = "resume" /\ j.thread = t /\ job' = [job EXCEPT ![k] = j]
    BY <2>2 DEF JiraWebhook, Job
  <2> QED BY <2>1, <2>2 DEF Webhook, AlertWebhook, JiraWebhook, Move
<1>2. /\ job'[k] = j /\ pc'[k] = to /\ launches[k] = 0 /\ j.thread \in Threads /\ j # None
      /\ \A i \in Tasks \ {k} : job'[i] = job[i] /\ pc'[i] = pc[i]
  BY <1>1, WorkflowAssumption DEF TypeOK, HasJob, Job
<1>3. ASSUME NEW i \in Tasks \ {k}, job[i] # None, job[i].thread = j.thread
      PROVE  job[i].kind = "start" /\ to = "decide" /\ pc[i] \in {"done", "failed"}
  <2>1. to = "decide" /\ MayDecide(j.thread)
    BY <1>1, <1>3 DEF MayStart
  <2>2. job[i].kind = "start" /\ ckpt[j.thread].vals.status = "WAITING_ON_HUMAN"
    BY <1>3, <2>1 DEF MayDecide
  <2>3. StartFits(i)
    BY <1>3, <2>2 DEF Serial, Fits
  <2>4. pc[i] \notin {"received", "stream"} \cup StartNodes
    BY <1>3, <2>2, <2>3 DEF StartFits, Untouched, NoValues
  <2> QED BY <2>1, <2>2, <2>3, <2>4 DEF StartFits
<1>4. OneOfAKind'
  BY <1>1, <1>2, <1>3 DEF Serial, OneOfAKind
<1>5. Fits(k)'
  <2>1. CASE to = "received"
    <3>1. \A i \in Tasks : job[i] # None => job[i].thread # j.thread
      BY <1>1, <2>1 DEF MayStart
    <3>2. Untouched(ckpt[j.thread])
      BY <1>2, <3>1 DEF Serial
    <3> QED BY <1>1, <1>2, <2>1, <3>2 DEF Fits, StartFits, StartNodes, Untouched
  <2>2. CASE to = "decide"
    <3>1. ckpt[j.thread].vals.status = "WAITING_ON_HUMAN" /\ j.kind = "resume"
      BY <1>1, <2>2 DEF MayDecide
    <3>2. WaitsForTicket(j.thread)
      BY <1>2 DEF Serial
    <3>3. \A i \in Tasks : HasKind(i, j.thread, "start")' => pc'[i] \in {"done", "failed"}
      BY <1>2, <1>3, <3>1 DEF HasKind
    <3> QED BY <1>1, <1>2, <2>2, <3>1, <3>2, <3>3 DEF Fits, ResumeFits, WaitsForTicket
  <2> QED BY <1>1, <2>1, <2>2
<1>6. ASSUME NEW i \in Tasks \ {k}, job[i] # None PROVE Fits(i)'
  <2>1. CASE job[i].kind = "start"
    <3>1. StartFits(i)
      BY <1>6, <2>1 DEF Serial, Fits
    <3> QED BY <1>1, <1>2, <2>1, <3>1 DEF Fits, StartFits
  <2>2. CASE job[i].kind # "start"
    <3>1. ResumeFits(i)
      BY <1>6, <2>2 DEF Serial, Fits
    <3>2. j.thread # job[i].thread
      BY <1>3, <1>6, <2>2
    <3>3. \A h \in Tasks : HasKind(h, job[i].thread, "start")' => pc'[h] \in {"done", "failed"}
      BY <1>2, <3>1, <3>2 DEF ResumeFits, HasKind
    <3> QED BY <1>1, <1>2, <2>2, <3>1, <3>3 DEF Fits, ResumeFits
  <2> QED BY <2>1, <2>2
<1>7. ASSUME NEW t \in Threads
      PROVE  /\ (\A i \in Tasks : job'[i] # None => job'[i].thread # t) => Untouched(ckpt'[t])
             /\ WaitsForTicket(t)'
  <2>1. WaitsForTicket(t)'
    BY <1>1 DEF Serial, WaitsForTicket
  <2>2. ASSUME \A i \in Tasks : job'[i] # None => job'[i].thread # t
        PROVE  \A i \in Tasks : job[i] # None => job[i].thread # t
    <3>1. job[k] = None
      BY <1>1 DEF Serial, Fits, StartFits, ResumeFits, StartNodes
    <3> QED BY <1>2, <2>2, <3>1
  <2> QED BY <1>1, <2>1, <2>2 DEF Serial
<1> QED BY <1>2, <1>4, <1>5, <1>6, <1>7 DEF Serial

\* Which task takes which step.
LEMMA StepKinds ==
  ASSUME IInv, Serial, NEW k \in Tasks, pc[k] # "free"
  PROVE  /\ job[k] # None /\ job[k].thread \in Threads
         /\ vals[k] \in Values /\ ckpt[job[k].thread].vals \in Values
         /\ launches[k] \in Nat
         /\ job[k].kind \in {"start", "resume"}
         /\ pc[k] \in {"received", "stream"} \cup StartNodes =>
              job[k].kind = "start" /\ StartFits(k)
         /\ pc[k] \in {"decide", "update", "continue", "execute_remediation", "command"} =>
              job[k].kind = "resume" /\ ResumeFits(k)
<1> USE DEF IInv
<1>1. job[k] # None
  BY DEF HasJob
<1>2. job[k].thread \in Threads /\ job[k].kind \in {"start", "resume"}
  BY <1>1, JobType
<1>3. Fits(k)
  BY <1>1 DEF Serial
<1>4. vals[k] \in Values /\ launches[k] \in Nat /\ ckpt[job[k].thread].vals \in Values
  BY <1>2 DEF TypeOK
<1>5. CASE job[k].kind = "start"
  BY <1>1, <1>2, <1>3, <1>4, <1>5 DEF Fits, StartFits, StartNodes
<1>6. CASE job[k].kind = "resume"
  BY <1>1, <1>2, <1>3, <1>4, <1>6 DEF Fits, ResumeFits, StartNodes
<1> QED BY <1>2, <1>5, <1>6

\* What a step of a thread's first stream does: task k goes from its node to
\* nxt, and its values v become the checkpoint.
Writes(k, v, nxt) ==
  /\ Commit(k, v, nxt) /\ Goto(k, nxt)
  /\ UNCHANGED <<job, launches>> /\ tickets \subseteq tickets'
  /\ ~v.approved
  /\ \/ /\ <<pc[k], nxt>> \in
             {<<"stream", "retrieve_context">>, <<"retrieve_context", "diagnostic_agent">>}
             \cup {"diagnostic_agent"} \X {"create_jira_ticket", "escalate_only", "handle_error"}
        /\ v.status = "unset"
     \/ /\ pc[k] = "create_jira_ticket" /\ nxt = "execute_remediation"
        /\ \/ v.status = "JIRA_FAILED"
           \/ v.status = "WAITING_ON_HUMAN" /\ <<job[k].thread, v.analysis>> \in tickets'
     \/ pc[k] = "escalate_only" /\ nxt = "END" /\ v.status \in {"ESCALATED", "ESCALATION_FAILED"}
     \/ pc[k] = "handle_error" /\ nxt = "END" /\ v.status = "ERROR"

LEMMA StartWrites ==
  ASSUME IInv, Serial, NEW k \in Tasks,
         \/ StartStream(k) \/ RetrieveContext(k) \/ Diagnose(k) \/ DiagnoseFails(k)
         \/ CreateTicket(k) \/ CreateTicketFails(k) \/ Escalate(k) \/ HandleError(k)
  PROVE  /\ Busy(k) /\ job[k] # None /\ job[k].kind = "start" /\ StartFits(k)
         /\ \E v \in Values : \E nxt \in StartNodes \cup {"END", "execute_remediation"} :
              Writes(k, v, nxt)
<1> DEFINE t == job[k].thread
           v0 == vals[k]
<1> USE DEF IInv
<1>0. /\ pc[k] \in {"stream"} \cup StartNodes /\ Busy(k)
      /\ job[k] # None /\ v0 \in Values /\ ckpt[t].vals \in Values
      /\ job[k].kind = "start" /\ StartFits(k)
      /\ pc[k] \in StartNodes => v0.status = "unset" /\ v0.approved = FALSE
      /\ MoreErrors(v0) \in 0..MaxErrors
  <2>1. pc[k] \in {"stream"} \cup StartNodes
    BY DEF StartStream, RetrieveContext, Diagnose, DiagnoseFails, Diagnosed,
           CreateTicket, CreateTicketFails, Escalate, HandleError, StartNodes
  <2>2. pc[k] # "free" /\ Busy(k)
    BY <2>1 DEF Busy, StartNodes
  <2>3. /\ job[k] # None /\ v0 \in Values /\ ckpt[t].vals \in Values
        /\ job[k].kind = "start" /\ StartFits(k)
    BY <2>1, <2>2, StepKinds
  <2>4. v0.approved \in BOOLEAN
    BY <2>3 DEF Values
  <2> QED BY <2>1, <2>2, <2>3, <2>4, ErrorsStayBounded DEF StartFits
<1>1. CASE StartStream(k)
  <2>1. Untouched(ckpt[t]) /\ UNCHANGED <<job, launches, tickets>> /\ pc[k] = "stream"
    BY <1>0, <1>1 DEF StartStream, StartFits
  <2>2. PICK v \in Values :
          v.approved = FALSE /\ v.status = "unset" /\ Commit(k, v, "retrieve_context")
    <3>1. Commit(k, [ckpt[t].vals EXCEPT !.alert = TRUE], "retrieve_context")
      BY <1>1 DEF StartStream
    <3>2. ckpt[t].vals.approved = FALSE /\ ckpt[t].vals.status = "unset"
      BY <2>1 DEF Untouched, NoValues
    <3> QED BY <1>0, <3>1, <3>2 DEF Values
  <2>3. Goto(k, "retrieve_context")
    BY <1>1 DEF StartStream, Move, Goto
  <2>4. Writes(k, v, "retrieve_context")
    BY <2>1, <2>2, <2>3 DEF Writes
  <2> QED BY <1>0, <2>4 DEF StartNodes
<1>2. CASE RetrieveContext(k)
  <2>1. /\ pc[k] = "retrieve_context" /\ pc[k] \in StartNodes
        /\ UNCHANGED <<job, launches, tickets>> /\ Goto(k, "diagnostic_agent")
    BY <1>2 DEF RetrieveContext, StartNodes
  <2>2. PICK v \in Values :
          v.approved = FALSE /\ v.status = "unset" /\ Commit(k, v, "diagnostic_agent")
    BY <1>0, <1>2, <2>1 DEF RetrieveContext, Values
  <2>3. Writes(k, v, "diagnostic_agent")
    BY <2>1, <2>2 DEF Writes
  <2> QED BY <1>0, <2>3 DEF StartNodes
<1>3. CASE Diagnose(k) \/ DiagnoseFails(k)
  <2>1. PICK v \in Values :
          /\ v.approved = v0.approved /\ v.status = v0.status
          /\ Diagnosed(k, v)
    <3>1. CASE Diagnose(k)
      <4>1. PICK p \in Proposals :
              Diagnosed(k, [vals[k] EXCEPT !.analysis = Adjust(t, p)])
        BY <3>1 DEF Diagnose
      <4>2. Adjust(t, p) \in Analysis
        BY WorkflowAssumption DEF Adjust, Analysis, Proposal, ActionType
      <4> QED BY <1>0, <4>1, <4>2 DEF Values
    <3>2. CASE DiagnoseFails(k)
      BY <1>0, <3>2 DEF DiagnoseFails, Values
    <3> QED BY <1>3, <3>1, <3>2
  <2>2. /\ pc[k] = "diagnostic_agent" /\ UNCHANGED <<job, launches, tickets>>
        /\ Commit(k, v, Route(v)) /\ Goto(k, Route(v))
    BY <2>1 DEF Diagnosed
  <2>3. Route(v) \in {"create_jira_ticket", "escalate_only", "handle_error"}
    BY DEF Route
  <2>4. v.status = "unset" /\ ~v.approved
    BY <1>0, <2>1, <2>2 DEF StartNodes
  <2>5. Writes(k, v, Route(v))
    BY <2>2, <2>3, <2>4 DEF Writes
  <2> QED BY <1>0, <2>3, <2>5 DEF StartNodes
<1>4. CASE CreateTicket(k) \/ CreateTicketFails(k)
  <2>0. v0.approved = FALSE
    BY <1>0, <1>4 DEF CreateTicket, CreateTicketFails, StartNodes
  <2>1. PICK v \in Values :
          /\ v.approved = FALSE /\ Commit(k, v, "execute_remediation")
          /\ \/ v.status = "JIRA_FAILED"
             \/ v.status = "WAITING_ON_HUMAN" /\ <<t, v.analysis>> \in tickets'
    <3>1. CASE CreateTicket(k)
      <4>1. PICK v \in Values :
              /\ v.approved = FALSE /\ v.analysis = v0.analysis
              /\ v.status = "WAITING_ON_HUMAN" /\ Commit(k, v, "execute_remediation")
        BY <1>0, <3>1 DEF CreateTicket, Values, Status
      <4> QED BY <3>1, <4>1 DEF CreateTicket
    <3>2. CASE CreateTicketFails(k)
      <4>1. PICK v \in Values :
              /\ v.approved = FALSE
              /\ v.status = "JIRA_FAILED" /\ Commit(k, v, "execute_remediation")
        BY <1>0, <2>0, <3>2 DEF CreateTicketFails, Values, Status
      <4> QED BY <4>1
    <3> QED BY <1>4, <3>1, <3>2
  <2>2. /\ pc[k] = "create_jira_ticket" /\ UNCHANGED <<job, launches>>
        /\ Goto(k, "execute_remediation") /\ tickets \subseteq tickets'
    BY <1>4 DEF CreateTicket, CreateTicketFails
  <2>3. Writes(k, v, "execute_remediation")
    BY <2>1, <2>2 DEF Writes
  <2> QED BY <1>0, <2>3
<1>5. CASE Escalate(k) \/ HandleError(k)
  <2>0. v0.approved = FALSE
    BY <1>0, <1>5 DEF Escalate, HandleError, StartNodes
  <2>1. PICK v \in Values :
          /\ v.approved = FALSE /\ Commit(k, v, "END")
          /\ \/ pc[k] = "escalate_only" /\ v.status \in {"ESCALATED", "ESCALATION_FAILED"}
             \/ pc[k] = "handle_error" /\ v.status = "ERROR"
    <3>1. CASE Escalate(k)
      <4>1. PICK v \in Values :
              /\ v.approved = FALSE /\ v.status \in {"ESCALATED", "ESCALATION_FAILED"}
              /\ Commit(k, v, "END")
        BY <1>0, <2>0, <3>1 DEF Escalate, Values, Status, Terminal
      <4> QED BY <3>1, <4>1 DEF Escalate
    <3>2. CASE HandleError(k)
      <4>1. PICK v \in Values :
              v.approved = FALSE /\ v.status = "ERROR" /\ Commit(k, v, "END")
        BY <1>0, <3>2 DEF HandleError, Values, Status, Terminal
      <4> QED BY <3>2, <4>1 DEF HandleError
    <3> QED BY <1>5, <3>1, <3>2
  <2>2. UNCHANGED <<job, launches, tickets>> /\ Goto(k, "END")
    BY <1>5 DEF Escalate, HandleError
  <2>3. Writes(k, v, "END")
    BY <2>1, <2>2 DEF Writes
  <2> QED BY <1>0, <2>3
<1> QED BY <1>1, <1>2, <1>3, <1>4, <1>5

LEMMA StartSerial ==
  ASSUME IInv, Serial, NEW k \in Tasks,
         \/ Receive(k) \/ StartStream(k) \/ RetrieveContext(k) \/ Diagnose(k)
         \/ DiagnoseFails(k) \/ CreateTicket(k) \/ CreateTicketFails(k) \/ Escalate(k)
         \/ HandleError(k)
  PROVE  Serial'
<1> USE DEF IInv
<1>1. CASE Receive(k)
  <2>1. PICK to \in {"stream", "done"} :
          pc[k] = "received" /\ Move(k, to) /\ UNCHANGED <<job, vals, ckpt, tickets, launches>>
    BY <1>1 DEF Receive
  <2>2. Busy(k) /\ job[k] # None /\ job[k].kind = "start" /\ launches[k] = 0
    BY <2>1, StepKinds DEF Busy, StartFits
  <2> QED BY <2>1, <2>2, OnlyTaskMoves
<1>2. CASE ~Receive(k)
  <2>1. Busy(k) /\ job[k] # None /\ job[k].kind = "start"
    BY <1>2, StartWrites
  <2>2. PICK v \in Values, nxt \in StartNodes \cup {"END", "execute_remediation"} :
          Writes(k, v, nxt)
    BY <1>2, StartWrites
  <2>3. /\ nxt \in StartNodes => v.status = "unset" /\ ~v.approved
        /\ v.status = "WAITING_ON_HUMAN" =>
             nxt = "execute_remediation" /\ <<job[k].thread, v.analysis>> \in tickets'
    BY <2>2 DEF Writes, StartNodes
  <2> QED BY <2>1, <2>2, <2>3, StartCommits DEF Writes
<1> QED BY <1>1, <1>2

\* What the end of execute_remediation does.
LEMMA ExecuteWrites ==
  ASSUME IInv, Serial, NEW k \in Tasks,
         \/ SkipRemediation(k) \/ RefuseRemediation(k) \/ CommandSucceeds(k)
         \/ CommandFails(k) \/ CommandUnaudited(k)
  PROVE  /\ Busy(k) /\ job[k] # None /\ job[k].kind = "resume" /\ ResumeFits(k)
         /\ pc[k] \in {"execute_remediation", "command"}
         /\ UNCHANGED <<job, launches, tickets>>
         /\ \E v \in Values :
              /\ Finished(k, v)
              /\ v.analysis = vals[k].analysis /\ v.approved = vals[k].approved
              /\ v.status \in IF v.approved
                               THEN {"REMEDIATION_SUCCESSFUL", "REMEDIATION_FAILED"}
                               ELSE {"REMEDIATION_SKIPPED"}
<1> DEFINE v0 == vals[k]
<1> USE DEF IInv
<1>1. /\ pc[k] \in {"execute_remediation", "command"}
      /\ UNCHANGED <<job, launches, tickets>>
      /\ pc[k] = "execute_remediation" => SkipRemediation(k) \/ RefuseRemediation(k)
    BY DEF SkipRemediation, RefuseRemediation, Enters, CommandSucceeds, CommandFails,
           CommandUnaudited
<1>2. Busy(k) /\ pc[k] # "free"
  BY <1>1 DEF Busy
<1>3. /\ job[k] # None /\ v0 \in Values /\ job[k].kind = "resume" /\ ResumeFits(k)
      /\ MoreErrors(v0) \in 0..MaxErrors
  BY <1>1, <1>2, StepKinds, ErrorsStayBounded
<1>4. v0.approved \in BOOLEAN /\ (~SkipRemediation(k) => v0.approved)
  <2>1. CASE RefuseRemediation(k)
    BY <1>3, <2>1 DEF RefuseRemediation, Values
  <2>2. CASE pc[k] = "command"
    BY <1>3, <2>2 DEF LaunchedInOrder, Values
  <2> QED BY <1>1, <1>3, <2>1, <2>2 DEF Values
<1>5. PICK v \in Values :
        /\ Finished(k, v)
        /\ v.analysis = v0.analysis /\ v.approved = v0.approved
        /\ v.status \in IF v0.approved
                         THEN {"REMEDIATION_SUCCESSFUL", "REMEDIATION_FAILED"}
                         ELSE {"REMEDIATION_SKIPPED"}
  <2>1. CASE SkipRemediation(k)
    <3>1. v0.approved = FALSE
      BY <1>4, <2>1 DEF SkipRemediation
    <3> QED BY <1>3, <2>1, <3>1 DEF SkipRemediation, Values, Status, Terminal
  <2>2. CASE ~SkipRemediation(k)
    <3>1. v0.approved = TRUE
      BY <1>4, <2>2
    <3>2. CASE CommandSucceeds(k)
      <4>1. PICK v \in Values :
              /\ Finished(k, v) /\ v.status = "REMEDIATION_SUCCESSFUL"
              /\ v.analysis = v0.analysis /\ v.approved = v0.approved
        BY <1>3, <3>2 DEF CommandSucceeds, Values, Status, Terminal
      <4> QED BY <3>1, <4>1
    <3>3. CASE RefuseRemediation(k) \/ CommandFails(k) \/ CommandUnaudited(k)
      <4>1. Failed(k)
        BY <3>3 DEF RefuseRemediation, CommandFails, CommandUnaudited
      <4> DEFINE v == [v0 EXCEPT !.status = "REMEDIATION_FAILED", !.errors = MoreErrors(v0)]
      <4>2. v \in Values /\ v.status = "REMEDIATION_FAILED"
        BY <1>3 DEF Values, Status, Terminal
      <4>3. v.analysis = v0.analysis /\ v.approved = v0.approved
        OBVIOUS
      <4>4. Finished(k, v)
        BY <4>1 DEF Failed
      <4> HIDE DEF v
      <4> QED BY <3>1, <4>2, <4>3, <4>4
    <3> QED BY <2>2, <3>2, <3>3
  <2> QED BY <2>1, <2>2
<1> QED BY <1>1, <1>2, <1>3, <1>5

\* execute_remediation: it runs the values of the checkpoint.
LEMMA ExecuteSerial ==
  ASSUME IInv, Serial, NEW k \in Tasks, Execute(k)
  PROVE  Serial'
<1> DEFINE t == job[k].thread
           v0 == vals[k]
<1> USE DEF IInv
<1>1. CASE HandlerRaises(k)
  <2>1. Busy(k) /\ pc[k] # "free"
    BY <1>1 DEF HandlerRaises, Busy
  <2>2. /\ job[k] # None
        /\ job[k].kind = "start" => launches[k] = 0
        /\ job[k].kind = "resume" /\ launches[k] # 0 => <<t, v0.analysis>> \in tickets
    BY <2>1, StepKinds DEF Serial, Fits, StartFits, ResumeFits
  <2>3. Move(k, "failed") /\ UNCHANGED <<job, ckpt, tickets, vals, launches>>
    BY <1>1 DEF HandlerRaises
  <2> QED BY <2>1, <2>2, <2>3, OnlyTaskMoves
<1>2. CASE NoAlert(k) \/ Launch(k)
  <2>1. pc[k] = "execute_remediation" /\ Busy(k) /\ pc[k] # "free"
    BY <1>2 DEF NoAlert, Launch, Enters, Busy
  <2>2. /\ job[k] # None /\ job[k].kind = "resume"
        /\ v0 = ckpt[t].vals /\ <<t, v0.analysis>> \in tickets
    BY <2>1, StepKinds DEF ResumeFits
  <2>3. PICK to \in {"done", "command"} :
          /\ Move(k, to) /\ UNCHANGED <<job, vals, ckpt, tickets>>
          /\ \A j \in Tasks \ {k} : launches'[j] = launches[j]
    BY <1>2 DEF NoAlert, Launch, TypeOK
  <2> QED BY <2>1, <2>2, <2>3, OnlyTaskMoves
<1>3. CASE \/ SkipRemediation(k) \/ RefuseRemediation(k) \/ CommandSucceeds(k)
           \/ CommandFails(k) \/ CommandUnaudited(k)
  <2>1. /\ Busy(k) /\ job[k] # None /\ job[k].kind = "resume"
        /\ UNCHANGED <<job, launches, tickets>>
    BY <1>3, ExecuteWrites
  <2>2. PICK v \in Values :
          /\ Finished(k, v) /\ v.analysis = vals[k].analysis
          /\ v.status # "WAITING_ON_HUMAN"
    BY <1>3, ExecuteWrites
  <2> QED BY <2>1, <2>2, ResumeCommits
<1> QED BY <1>1, <1>2, <1>3 DEF Execute

\* resume_workflow up to the node.
LEMMA DecisionSerial ==
  ASSUME IInv, Serial, NEW k \in Tasks,
         AuditDecision(k) \/ UpdateState(k) \/ Continue(k) \/ Abort(k)
  PROVE  Serial'
<1> DEFINE t == job[k].thread
           v0 == vals[k]
<1> USE DEF IInv
<1>0. /\ Busy(k) /\ pc[k] # "free" /\ job[k] # None
      /\ t \in Threads /\ v0 \in Values /\ launches[k] \in Nat /\ ckpt[t].vals \in Values
      /\ job[k].kind \in {"start", "resume"}
      /\ job[k].kind = "start" => launches[k] = 0
      /\ job[k].kind = "resume" /\ launches[k] # 0 => <<t, v0.analysis>> \in tickets
      /\ pc[k] \in {"decide", "update", "continue"} => job[k].kind = "resume" /\ ResumeFits(k)
  <2>1. Busy(k) /\ pc[k] # "free"
    BY DEF AuditDecision, UpdateState, Continue, Abort, Busy
  <2>2. /\ job[k] # None /\ job[k].kind \in {"start", "resume"}
        /\ t \in Threads /\ v0 \in Values /\ launches[k] \in Nat /\ ckpt[t].vals \in Values
        /\ pc[k] \in {"decide", "update", "continue"} => job[k].kind = "resume" /\ ResumeFits(k)
    BY <2>1, StepKinds
  <2> QED BY <2>1, <2>2 DEF Serial, Fits, StartFits, ResumeFits
<1>1. ASSUME NEW to \in {"failed", "update"}, Move(k, to), UNCHANGED <<job, vals, ckpt, tickets, launches>>,
             to = "update" => pc[k] = "decide"
      PROVE  Serial'
  BY <1>0, <1>1, OnlyTaskMoves
<1>2. CASE AuditDecision(k)
  BY <1>1, <1>2 DEF AuditDecision
<1>3. CASE Abort(k)
  BY <1>1, <1>3 DEF Abort
<1>4. CASE Continue(k)
  <2>1. pc[k] = "continue" /\ UNCHANGED <<job, ckpt, tickets, launches>>
        /\ Move(k, IF ckpt[t].next = "END" THEN "done" ELSE ckpt[t].next)
        /\ vals' = [vals EXCEPT ![k] = ckpt[t].vals]
    BY <1>4 DEF Continue
  <2>2. ckpt[t].next = "execute_remediation" /\ <<t, ckpt[t].vals.analysis>> \in tickets
    BY <1>0, <2>1 DEF ResumeFits
  <2>3. /\ Move(k, "execute_remediation") /\ vals'[k] = ckpt[t].vals
        /\ \A j \in Tasks \ {k} : vals'[j] = vals[j]
    BY <2>1, <2>2 DEF TypeOK
  <2> QED BY <1>0, <2>1, <2>2, <2>3, OnlyTaskMoves
<1>5. CASE UpdateState(k)
  <2>1. /\ pc[k] = "update" /\ Move(k, "continue") /\ UNCHANGED <<job, vals, tickets, launches>>
        /\ \A u \in Threads \ {t} : ckpt'[u] = ckpt[u]
        /\ ckpt'[t].next = "execute_remediation"
        /\ ckpt'[t].vals.analysis = ckpt[t].vals.analysis
        /\ ckpt'[t].vals.status = "APPROVAL_PROCESSED"
    BY <1>0, <1>5 DEF UpdateState, TypeOK, Values
  <2>2. pc' = [pc EXCEPT ![k] = "continue"] /\ pc'[k] = "continue"
    BY <2>1 DEF Move, TypeOK
  <2>3. /\ job[k].kind = "resume" /\ ResumeFits(k)
        /\ <<t, ckpt[t].vals.analysis>> \in tickets
    BY <1>0, <2>1 DEF ResumeFits
  <2>4. \A j \in Tasks : HasKind(j, t, "start")' => pc'[j] \in {"done", "failed"}
    BY <2>1, <2>2, <2>3 DEF ResumeFits, HasKind
  <2>5. Fits(k)' /\ WaitsForTicket(t)'
    BY <2>1, <2>2, <2>3, <2>4 DEF Fits, ResumeFits, WaitsForTicket
  <2> QED BY <1>0, <2>1, <2>2, <2>5, OneTaskSteps DEF TypeOK
<1> QED BY <1>2, <1>3, <1>4, <1>5

LEMMA NextSerial ==
  ASSUME IInv, Serial, "overlap" \notin Faults, [Next]_vars
  PROVE  Serial'
<1>1. ASSUME NEW k \in Tasks, Step(k) PROVE Serial'
  BY <1>1, StartSerial, ExecuteSerial, DecisionSerial DEF Step
<1>2. CASE UNCHANGED vars
  BY <1>2 DEF vars, Serial, OneOfAKind, Fits, StartFits, ResumeFits, HasKind, Untouched,
              WaitsForTicket
<1> QED BY <1>1, <1>2, WebhookSerial, DecisionSerial DEF Next

-----------------------------------------------------------------------------

LEMMA SerialInvariance ==
  ASSUME "overlap" \notin Faults
  PROVE  Spec => [](IInv /\ Serial)
<1>1. Init => IInv /\ Serial
  BY InitInv, InitSerial
<1>2. IInv /\ Serial /\ [Next]_vars => (IInv /\ Serial)'
  BY NextInv, NextSerial
<1> QED BY <1>1, <1>2, PTL DEF Spec

\* resume_workflow and execute_remediation: when every alert passes
\* deduplication once and one decision is sent for a waiting ticket, what
\* runs is the plan that the ticket showed, for any number of threads and
\* tasks, whatever crashes and whatever the audit log does.
THEOREM TicketedPlanRunsHolds ==
  ASSUME "overlap" \notin Faults
  PROVE  Spec => []TicketedPlanRuns
<1>1. IInv /\ Serial => TicketedPlanRuns
  <2> SUFFICES ASSUME IInv, Serial, NEW k \in Tasks, launches[k] > 0
               PROVE  <<job[k].thread, vals[k].analysis>> \in tickets
    BY DEF TicketedPlanRuns
  <2>1. launches[k] # 0 /\ launches[k] \in Nat
    BY DEF IInv, TypeOK
  <2>2. pc[k] # "free" /\ job[k] # None
    BY <2>1 DEF IInv, HasJob
  <2>3. job[k].kind \in {"start", "resume"} /\ Fits(k)
    BY <2>2, JobType DEF IInv, Serial
  <2> QED BY <2>1, <2>3 DEF Fits, StartFits, ResumeFits
<1> QED BY <1>1, SerialInvariance, PTL

-----------------------------------------------------------------------------
(* Diagram 3                                                               *)

OutcomeOf(c) == IF c.vals.status \in Terminal THEN c.vals.status ELSE "none"

\* How the checkpoint of a thread may change along the diagram.
Arrows == {<<"START", "retrieve_context">>, <<"retrieve_context", "diagnostic_agent">>,
           <<"create_jira_ticket", "wait_human">>}
          \cup {"diagnostic_agent"} \X {"create_jira_ticket", "escalate_only", "handle_error"}

LEMMA ArrowStep ==
  ASSUME NEW t \in Threads, \A u \in Threads \ {t} : ckpt'[u] = ckpt[u],
         <<PhaseOf(ckpt[t]), PhaseOf(ckpt'[t])>> \in Arrows,
         ckpt'[t].vals.approved = ckpt[t].vals.approved,
         OutcomeOf(ckpt'[t]) = OutcomeOf(ckpt[t])
  PROVE  Diagram3!Next
<1>1. Diagram3!Arrow(t, PhaseOf(ckpt[t]), PhaseOf(ckpt'[t]))
  BY DEF Diagram3!Arrow, OutcomeOf
<1> QED BY <1>1 DEF Diagram3!Next, Diagram3!Edge, Arrows

LEMMA EndStep ==
  ASSUME NEW t \in Threads, \A u \in Threads \ {t} : ckpt'[u] = ckpt[u],
         PhaseOf(ckpt'[t]) = "END",
         ckpt'[t].vals.approved = ckpt[t].vals.approved,
         OutcomeOf(ckpt'[t]) \in Diagram3!Outcomes(t)
  PROVE  Diagram3!Next
<1>1. Diagram3!End(t)
  BY DEF Diagram3!End, OutcomeOf
<1> QED BY <1>1 DEF Diagram3!Next

LEMMA ResumeStep ==
  ASSUME NEW t \in Threads, \A u \in Threads \ {t} : ckpt'[u] = ckpt[u],
         PhaseOf(ckpt[t]) = "wait_human", PhaseOf(ckpt'[t]) = "check_approved",
         ckpt'[t].vals.approved \in BOOLEAN,
         OutcomeOf(ckpt'[t]) = OutcomeOf(ckpt[t])
  PROVE  Diagram3!Next
<1>1. Diagram3!Resume(t)
  BY DEF Diagram3!Resume, OutcomeOf
<1> QED BY <1>1 DEF Diagram3!Next

LEMMA StayStep ==
  ASSUME UNCHANGED ckpt
  PROVE  UNCHANGED Diagram3!vars
BY DEF Diagram3!vars

LEMMA InitDiagram3 == Init => Diagram3!Init
<1> SUFFICES ASSUME Init PROVE Diagram3!Init
  OBVIOUS
<1>1. \A t \in Threads : /\ PhaseOf(ckpt[t]) = "START"
                         /\ ckpt[t].vals.approved = FALSE /\ OutcomeOf(ckpt[t]) = "none"
  BY DEF Init, PhaseOf, OutcomeOf, NoValues, Terminal
<1> QED BY <1>1 DEF Diagram3!Init, OutcomeOf

\* The checkpoint that a super-step writes.
LEMMA CommitWrites ==
  ASSUME TypeOK, NEW k \in Tasks, job[k] # None, NEW v, NEW nxt, Commit(k, v, nxt)
  PROVE  /\ job[k].thread \in Threads
         /\ ckpt'[job[k].thread] = [vals |-> v, next |-> nxt]
         /\ \A u \in Threads \ {job[k].thread} : ckpt'[u] = ckpt[u]
<1>1. job[k].thread \in Threads
  BY JobType
<1> QED BY <1>1 DEF Commit, TypeOK

LEMMA StartRefines ==
  ASSUME IInv, Serial, NEW k \in Tasks,
         \/ StartStream(k) \/ RetrieveContext(k) \/ Diagnose(k) \/ DiagnoseFails(k)
         \/ CreateTicket(k) \/ CreateTicketFails(k) \/ Escalate(k) \/ HandleError(k)
  PROVE  Diagram3!Next
<1> DEFINE t == job[k].thread
<1>1. job[k] # None /\ StartFits(k)
  BY StartWrites
<1>2. PICK v \in Values, nxt \in StartNodes \cup {"END", "execute_remediation"} :
        Writes(k, v, nxt)
  BY StartWrites
<1>3. /\ t \in Threads /\ ckpt'[t] = [vals |-> v, next |-> nxt]
      /\ \A u \in Threads \ {t} : ckpt'[u] = ckpt[u]
  BY <1>1, <1>2, CommitWrites DEF IInv, Writes
<1>4. ckpt[t].vals \in Values /\ v.approved = FALSE
  BY <1>2, <1>3 DEF IInv, TypeOK, Writes, Values
<1>5. pc[k] \in {"stream"} \cup StartNodes
  BY <1>2 DEF Writes, StartNodes
<1>6. /\ ckpt[t].vals.status = "unset" /\ ckpt[t].vals.approved = FALSE
      /\ PhaseOf(ckpt[t]) = IF pc[k] = "stream" THEN "START" ELSE pc[k]
  <2>1. CASE pc[k] = "stream"
    BY <1>1, <2>1 DEF StartFits, Untouched, NoValues, PhaseOf
  <2>2. CASE pc[k] \in StartNodes
    BY <1>1, <1>4, <2>2 DEF StartFits, PhaseOf, Values, StartNodes
  <2> QED BY <1>5, <2>1, <2>2 DEF StartNodes
<1>7. OutcomeOf(ckpt[t]) = "none"
  BY <1>6 DEF OutcomeOf, Terminal
<1>8. ckpt'[t].vals.approved = ckpt[t].vals.approved
  <2>1. ckpt'[t].vals.approved = v.approved
    BY <1>3
  <2>2. v.approved = ckpt[t].vals.approved
    BY <1>4, <1>6, Zenon
  <2> QED BY <2>1, <2>2, Zenon
<1>9. CASE pc[k] \notin {"escalate_only", "handle_error"}
  <2>1. <<PhaseOf(ckpt[t]), PhaseOf(ckpt'[t])>> \in Arrows
    BY <1>2, <1>3, <1>6, <1>9 DEF Writes, PhaseOf, Arrows
  <2>2. OutcomeOf(ckpt'[t]) = OutcomeOf(ckpt[t])
    BY <1>2, <1>3, <1>7, <1>9 DEF Writes, OutcomeOf, Terminal
  <2> QED BY <1>3, <1>8, <2>1, <2>2, ArrowStep
<1>10. CASE pc[k] \in {"escalate_only", "handle_error"}
  <2>1. /\ nxt = "END"
        /\ v.status \in IF pc[k] = "escalate_only" THEN {"ESCALATED", "ESCALATION_FAILED"}
                         ELSE {"ERROR"}
    BY <1>2, <1>10 DEF Writes
  <2>2. PhaseOf(ckpt'[t]) = "END" /\ OutcomeOf(ckpt'[t]) = v.status
    BY <1>3, <1>10, <2>1 DEF PhaseOf, OutcomeOf, Terminal
  <2>3. v.status \in Diagram3!Outcomes(t)
    BY <1>3, <1>6, <1>10, <2>1 DEF Diagram3!Outcomes
  <2> QED BY <1>3, <1>8, <2>2, <2>3, EndStep
<1> QED BY <1>9, <1>10

LEMMA ExecuteRefines ==
  ASSUME IInv, Serial, NEW k \in Tasks, Execute(k)
  PROVE  Diagram3!Next \/ UNCHANGED Diagram3!vars
<1> DEFINE t == job[k].thread
<1>1. CASE NoAlert(k) \/ Launch(k) \/ HandlerRaises(k)
  BY <1>1, StayStep DEF NoAlert, Launch, HandlerRaises
<1>2. CASE \/ SkipRemediation(k) \/ RefuseRemediation(k) \/ CommandSucceeds(k)
           \/ CommandFails(k) \/ CommandUnaudited(k)
  <2>1. /\ job[k] # None /\ ResumeFits(k) /\ pc[k] \in {"execute_remediation", "command"}
    BY <1>2, ExecuteWrites
  <2>2. PICK v \in Values :
          /\ Finished(k, v) /\ v.approved = vals[k].approved
          /\ v.status \in IF v.approved
                           THEN {"REMEDIATION_SUCCESSFUL", "REMEDIATION_FAILED"}
                           ELSE {"REMEDIATION_SKIPPED"}
    BY <1>2, ExecuteWrites
  <2>3. /\ t \in Threads /\ ckpt'[t] = [vals |-> v, next |-> "END"]
        /\ \A u \in Threads \ {t} : ckpt'[u] = ckpt[u]
    BY <2>1, <2>2, CommitWrites DEF IInv, Finished
  <2>4. PhaseOf(ckpt[t]) = "check_approved" /\ ckpt[t].vals.approved = v.approved
    BY <2>1, <2>2 DEF ResumeFits, PhaseOf
  <2>5. PhaseOf(ckpt'[t]) = "END" /\ OutcomeOf(ckpt'[t]) = v.status
    BY <2>2, <2>3 DEF PhaseOf, OutcomeOf, Terminal
  <2>6. v.status \in Diagram3!Outcomes(t)
    BY <2>2, <2>3, <2>4 DEF Diagram3!Outcomes
  <2> QED BY <2>3, <2>4, <2>5, <2>6, EndStep
<1> QED BY <1>1, <1>2 DEF Execute

LEMMA UpdateRefines ==
  ASSUME IInv, Serial, NEW k \in Tasks, UpdateState(k)
  PROVE  Diagram3!Next
<1> DEFINE t == job[k].thread
<1>1. pc[k] = "update" /\ pc[k] # "free"
  BY DEF UpdateState
<1>2. /\ t \in Threads /\ ResumeFits(k) /\ ckpt[t].vals \in Values /\ job[k] \in Job
  BY <1>1, StepKinds DEF IInv, TypeOK
<1>3. /\ \A u \in Threads \ {t} : ckpt'[u] = ckpt[u]
      /\ ckpt'[t].next = "execute_remediation"
      /\ ckpt'[t].vals.status = "APPROVAL_PROCESSED"
      /\ ckpt'[t].vals.approved = job[k].approve
  BY <1>2 DEF UpdateState, IInv, TypeOK, Values
<1>4. job[k].approve \in BOOLEAN
  BY <1>2 DEF Job
<1>5. PhaseOf(ckpt[t]) = "wait_human" /\ OutcomeOf(ckpt[t]) = "none"
  BY <1>1, <1>2 DEF ResumeFits, PhaseOf, OutcomeOf, Terminal
<1>6. PhaseOf(ckpt'[t]) = "check_approved" /\ OutcomeOf(ckpt'[t]) = "none"
  BY <1>3 DEF PhaseOf, OutcomeOf, Terminal
<1> QED BY <1>2, <1>3, <1>4, <1>5, <1>6, ResumeStep

LEMMA NextRefines ==
  ASSUME IInv, Serial, [Next]_vars
  PROVE  [Diagram3!Next]_Diagram3!vars
<1>1. CASE UNCHANGED vars
  BY <1>1, StayStep DEF vars
<1>2. ASSUME NEW k \in Tasks, Webhook(k) \/ Abort(k) PROVE UNCHANGED Diagram3!vars
  BY <1>2, StayStep DEF Webhook, AlertWebhook, JiraWebhook, Abort
<1>3. ASSUME NEW k \in Tasks, Step(k) PROVE Diagram3!Next \/ UNCHANGED Diagram3!vars
  <2>1. CASE Receive(k) \/ AuditDecision(k) \/ Continue(k)
    BY <2>1, StayStep DEF Receive, AuditDecision, Continue
  <2> QED BY <1>3, <2>1, StartRefines, ExecuteRefines, UpdateRefines DEF Step
<1> QED BY <1>1, <1>2, <1>3 DEF Next

\* graph.py against ARCHITECTURE.md: when webhooks of a thread do not
\* overlap, the checkpoints of any number of threads, written by any number
\* of tasks that may crash, walk along the arrows of Diagram 3.
THEOREM ImplementsDiagram3Holds ==
  ASSUME "overlap" \notin Faults
  PROVE  Spec => ImplementsDiagram3
<1>1. IInv /\ Serial /\ [Next]_vars => [Diagram3!Next]_Diagram3!vars
  BY NextRefines
<1> QED BY <1>1, InitDiagram3, SerialInvariance, PTL
        DEF Spec, ImplementsDiagram3, Diagram3!Spec
-----------------------------------------------------------------------------
(* Every task has an end                                                   *)

\* How many steps a task has left at most.  A resumed stream may go on from
\* any node, for another task may have written the checkpoint meanwhile.
StepsLeft(k) ==
  CASE pc[k] = "decide" -> 9
    [] pc[k] \in {"update", "received"} -> 8
    [] pc[k] \in {"continue", "stream"} -> 7
    [] pc[k] = "retrieve_context" -> 6
    [] pc[k] = "diagnostic_agent" -> 5
    [] pc[k] \in {"create_jira_ticket", "escalate_only", "handle_error"} -> 4
    [] pc[k] = "execute_remediation" -> 3
    [] pc[k] = "command" -> 2
    [] OTHER -> 0

\* Every step of a task brings its end nearer, whatever is written to its
\* thread meanwhile; no task moves but by its own steps, its webhook and
\* its abort, and one that has ended is never taken up again.
TasksDwindle ==
  \A k \in Tasks :
    /\ Busy(k) => StepsLeft(k) \in 1..9
    /\ Step(k) => StepsLeft(k)' < StepsLeft(k)
    /\ pc'[k] # pc[k] => (pc[k] = "free" /\ Webhook(k)) \/ StepsLeft(k)' < StepsLeft(k)

\* One task moves in a step, towards its end.
LEMMA TaskMoves ==
  ASSUME TypeOK, HasJob, NEW k \in Tasks, Step(k)
  PROVE  /\ \A j \in Tasks \ {k} : pc'[j] = pc[j]
         /\ StepsLeft(k)' < StepsLeft(k)
<1>0. pc \in [Tasks -> PC]
  BY DEF TypeOK
<1>1. ASSUME NEW to, Move(k, to) PROVE pc'[k] = to /\ \A j \in Tasks \ {k} : pc'[j] = pc[j]
  BY <1>0, <1>1 DEF Move
<1>2. ASSUME NEW nxt, Goto(k, nxt)
      PROVE  /\ pc'[k] = IF nxt \in {"END", "execute_remediation"} THEN "done" ELSE nxt
             /\ \A j \in Tasks \ {k} : pc'[j] = pc[j]
  BY <1>0, <1>2 DEF Goto
<1>3. CASE Receive(k) \/ AuditDecision(k) \/ UpdateState(k) \/ StartStream(k) \/ Launch(k)
  <2>1. \E to \in {"stream", "done", "update", "continue", "retrieve_context", "command"} :
          /\ Move(k, to)
          /\ to \in {"stream", "done"} => pc[k] = "received"
          /\ to = "update" => pc[k] = "decide"
          /\ to = "continue" => pc[k] = "update"
          /\ to = "retrieve_context" => pc[k] = "stream"
          /\ to = "command" => pc[k] = "execute_remediation"
    BY <1>3 DEF Receive, AuditDecision, UpdateState, StartStream, Launch, Enters
  <2> QED BY <1>1, <2>1 DEF StepsLeft
<1>4. CASE Continue(k)
  <2>1. ckpt[job[k].thread].next \in Node \cup {"END"} /\ pc[k] = "continue"
    BY <1>4 DEF Continue, TypeOK, HasJob, Job
  <2>2. pc'[k] \in Node \cup {"done"} /\ \A j \in Tasks \ {k} : pc'[j] = pc[j]
    BY <1>1, <1>4, <2>1 DEF Continue
  <2> QED BY <2>1, <2>2 DEF StepsLeft, Node
<1>5. CASE RetrieveContext(k)
  <2>1. pc[k] = "retrieve_context" /\ Goto(k, "diagnostic_agent")
    BY <1>5 DEF RetrieveContext
  <2> QED BY <1>2, <2>1 DEF StepsLeft
<1>6. CASE Diagnose(k) \/ DiagnoseFails(k)
  <2>1. PICK v : pc[k] = "diagnostic_agent" /\ Goto(k, Route(v))
    BY <1>6 DEF Diagnose, DiagnoseFails, Diagnosed
  <2>2. Route(v) \in {"handle_error", "escalate_only", "create_jira_ticket"}
    BY DEF Route
  <2> QED BY <1>2, <2>1, <2>2 DEF StepsLeft
<1>7. CASE CreateTicket(k) \/ CreateTicketFails(k)
  <2>1. pc[k] = "create_jira_ticket" /\ Goto(k, "execute_remediation")
    BY <1>7 DEF CreateTicket, CreateTicketFails
  <2> QED BY <1>2, <2>1 DEF StepsLeft
<1>8. CASE Escalate(k) \/ HandleError(k) \/ SkipRemediation(k) \/ RefuseRemediation(k)
           \/ CommandSucceeds(k) \/ CommandFails(k) \/ CommandUnaudited(k)
  <2>1. /\ pc[k] \in {"escalate_only", "handle_error", "execute_remediation", "command"}
        /\ Goto(k, "END")
    BY <1>8 DEF Escalate, HandleError, SkipRemediation, RefuseRemediation, CommandSucceeds,
                CommandFails, CommandUnaudited, Enters, Failed, Finished
  <2> QED BY <1>2, <2>1 DEF StepsLeft
<1>9. CASE NoAlert(k) \/ HandlerRaises(k)
  <2>1. /\ pc[k] \in {"execute_remediation", "command", "handle_error"}
        /\ \E to \in {"done", "failed"} : Move(k, to)
    BY <1>9 DEF NoAlert, HandlerRaises
  <2> QED BY <1>1, <2>1 DEF StepsLeft
<1> QED BY <1>3, <1>4, <1>5, <1>6, <1>7, <1>8, <1>9 DEF Step, Execute

LEMMA StepDwindles == IInv /\ [Next]_vars => [TasksDwindle]_vars
<1> SUFFICES ASSUME IInv, [Next]_vars, NEW k \in Tasks
             PROVE  /\ Busy(k) => StepsLeft(k) \in 1..9
                    /\ Step(k) => StepsLeft(k)' < StepsLeft(k)
                    /\ pc'[k] # pc[k] =>
                         (pc[k] = "free" /\ Webhook(k)) \/ StepsLeft(k)' < StepsLeft(k)
  BY DEF TasksDwindle
<1>0. TypeOK /\ HasJob /\ pc \in [Tasks -> PC]
  BY DEF IInv, TypeOK
<1>1. Busy(k) => StepsLeft(k) \in 1..9
  BY <1>0 DEF Busy, StepsLeft, PC, Node
<1>2. Step(k) => StepsLeft(k)' < StepsLeft(k)
  BY <1>0, TaskMoves
<1>3. ASSUME pc'[k] # pc[k]
      PROVE  (pc[k] = "free" /\ Webhook(k)) \/ StepsLeft(k)' < StepsLeft(k)
  <2>1. ASSUME NEW j \in Tasks, Step(j) PROVE StepsLeft(k)' < StepsLeft(k)
    BY <1>0, <1>3, <2>1, TaskMoves
  <2>2. ASSUME NEW j \in Tasks, Webhook(j) PROVE pc[k] = "free" /\ Webhook(k)
    <3>1. pc[j] = "free" /\ \E to : Move(j, to)
      BY <2>2 DEF Webhook, AlertWebhook, JiraWebhook
    <3>2. j = k
      BY <1>0, <1>3, <3>1 DEF Move
    <3> QED BY <2>2, <3>1, <3>2
  <2>3. ASSUME NEW j \in Tasks, Abort(j) PROVE StepsLeft(k)' < StepsLeft(k)
    <3>1. Busy(j) /\ Move(j, "failed")
      BY <2>3 DEF Abort, Busy
    <3>2. j = k /\ pc'[k] = "failed"
      BY <1>0, <1>3, <3>1 DEF Move
    <3>3. StepsLeft(k)' = 0
      BY <3>2 DEF StepsLeft
    <3> QED BY <1>1, <3>1, <3>2, <3>3
  <2>4. Next
    BY <1>3 DEF vars
  <2> QED BY <2>1, <2>2, <2>3, <2>4 DEF Next
<1> QED BY <1>1, <1>2, <1>3

\* A background task is at its end after at most nine steps, however many
\* tasks run on its thread and whatever checkpoint it goes on from.
THEOREM TasksDwindleHolds == Spec => [][TasksDwindle]_vars
BY Invariance, StepDwindles, PTL DEF Spec
=============================================================================
