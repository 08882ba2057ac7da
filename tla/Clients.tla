------------------------------- MODULE Clients -------------------------------
(***************************************************************************)
(* The clients of outside systems that a worker makes on first use and     *)
(* keeps: CheckpointerManager with its pool of PostgreSQL connections,     *)
(* JiraIntegration and ADOIntegration.  A task makes one call; its awaits  *)
(* and requests are the steps.  The Jira client is synchronous: while one  *)
(* of its calls is under way, no other task of the worker moves.           *)
(*                                                                         *)
(* A request may fail, and one that changes something may fail after it    *)
(* has; the Jira library sends one whose answer is lost again.  What a     *)
(* request says is left out, but for the fields of an update, and so are   *)
(* the counters of CheckpointerManager, which only get_stats reads, and    *)
(* the checkpoints, which no call of it reaches (see GetCheckpointer).     *)
(* Jira's credentials are configured.                                      *)
(***************************************************************************)
EXTENDS Naturals, Sequences, FiniteSets

CONSTANTS
  Workers,     (* worker processes                                         *)
  Tasks,       (* asyncio tasks; each makes one call                       *)
  WorkerOf,    (* the worker of each task                                  *)
  Statuses,    (* of a Jira issue                                          *)
  MaxRetries,  (* how often the Jira library sends a request again: 3      *)
  MaxFaults,   (* bound: requests that fail                                *)
  MaxMoves,    (* bound: times that people move an issue                   *)
  Scenarios    (* what each task does: [kind, arg], where arg is           *)
               (* [issue, fields, status]                                  *)

ASSUME ClientsAssumption ==
  /\ WorkerOf \in [Tasks -> Workers]
  /\ MaxRetries \in Nat /\ MaxFaults \in Nat /\ MaxMoves \in Nat
  /\ Tasks \cap {"none", "people", "useless"} = {}
  /\ \A s \in Scenarios, t \in Tasks :
       /\ s[t].arg.fields \subseteq {"summary", "description", "status", "comment"}
       /\ s[t].arg.issue \in Nat /\ s[t].arg.status \in Statuses

VARIABLES
  work,        (* what each task does, chosen at the start                 *)
  manager,     (* per worker, CheckpointerManager: [initialized, pool, saver] *)
  pool,        (* the pool that each task has made                         *)
  session,     (* per worker, ADOIntegration.session                       *)
  effects,     (* the tasks whose request has had its effect in Azure DevOps *)
  client,      (* per worker, JiraIntegration.client is there              *)
  issues,      (* the issues of Jira: who made them and their status       *)
  changelog,   (* what was written to issues: [issue, field, by]           *)
  call,        (* the call of each task                                    *)
  faults, moves

postgres == <<manager, pool>>
azure == <<session, effects>>
jira == <<client, issues, changelog>>
clientVars == <<work, postgres, azure, jira, call, faults, moves>>

None == "none"
People == "people"

CheckpointOps == {"save", "load", "delete", "list"}
ManagerOps == CheckpointOps \cup {"initialize", "close_manager"}
AdoReads == {"get_pipeline_run", "get_pipeline_logs", "get_release", "get_build"}
AdoWrites == {"trigger_pipeline", "create_work_item"}
AdoOps == AdoReads \cup AdoWrites \cup {"close_session"}
JiraOps == {"create_ticket", "update_ticket", "get_ticket"}

Kind(t) == work[t].kind
Arg(t) == work[t].arg

\* pc: "returned", "raised", or "swallowed" when the call answers None, False
\* or nothing for a request that has failed.  on: the pool of the saver that a
\* call of the manager has got, and the status that an update has read.  todo:
\* the fields that it has still to write.  sent: how often its request was
\* sent again.  late: when the call began, another of the worker's manager had
\* ended.
NoCall == [pc |-> "idle", result |-> <<>>, on |-> None, todo |-> <<>>, sent |-> 0,
           late |-> FALSE]

Ends == {"returned", "raised", "swallowed"}
At(t, ops, pc) == Kind(t) \in ops /\ call[t].pc = pc
To(t, pc) == call' = [call EXCEPT ![t].pc = pc]
Returns(t, result) == call' = [call EXCEPT ![t].pc = "returned", ![t].result = result]
Raises(t) == To(t, "raised")
Fails == faults < MaxFaults /\ faults' = faults + 1
FailsOr(broken) == Fails \/ (broken /\ UNCHANGED faults)
Over(t) == call[t].pc \in Ends
UnderWay(t) == call[t].pc # "idle" /\ ~Over(t)

\* The event loop of the task's worker is not held by a call of Jira.
Runs(t) ==
  \A u \in Tasks \ {t} : WorkerOf[u] = WorkerOf[t] /\ Kind(u) \in JiraOps => ~UnderWay(u)

NoManager == [initialized |-> FALSE, pool |-> None, saver |-> None]

ClientsInit ==
  /\ work \in Scenarios
  /\ manager = [w \in Workers |-> NoManager]
  /\ pool = [t \in Tasks |-> None]
  /\ session = [w \in Workers |-> None]
  /\ effects = <<>>
  /\ client = [w \in Workers |-> FALSE]
  /\ issues \in {<<[by |-> People, status |-> s]>> : s \in Statuses}
  /\ changelog = <<>>
  /\ call = [t \in Tasks |-> NoCall]
  /\ faults = 0 /\ moves = 0

-----------------------------------------------------------------------------
(* CheckpointerManager                                                     *)

Manager(t) == manager[WorkerOf[t]]
SetManager(t, m) == manager' = [manager EXCEPT ![WorkerOf[t]] = m]

\* Whether a call of the manager has ended in the worker.
SomeEnded(w) ==
  \E u \in Tasks : WorkerOf[u] = w /\ Kind(u) \in CheckpointOps \cup {"initialize"} /\ Over(u)

\* Of the calls that fail, a save and an initialize raise.
GivesUp(t) == To(t, IF Kind(t) \in {"save", "initialize"} THEN "raised" ELSE "swallowed")

Begun(t) == [NoCall EXCEPT !.late = SomeEnded(WorkerOf[t])]

\* What a call does with the saver of an initialized manager, without an await:
\* initialize gives it, and the others fail before they send a request, since
\* the saver's put wants one argument more, its get_tuple refuses the thread
\* of the event loop, its list cannot be iterated with async for, and delete
\* it has none.
UseSaver(t, saver) ==
  [Begun(t) EXCEPT !.on = saver,
     !.pc = CASE Kind(t) = "initialize" -> "returned"
              [] Kind(t) = "save" -> "raised"
              [] OTHER -> "swallowed"]

\* Mutant: the manager is initialized from the moment that it has a pool.
InitializedEarly(t) ==
  /\ Kind(t) \in CheckpointOps \cup {"initialize"} /\ call[t].pc = "idle"
  /\ IF Manager(t).initialized
       THEN /\ call' = [call EXCEPT ![t] = UseSaver(t, Manager(t).saver)]
            /\ UNCHANGED <<manager, pool>>
       ELSE /\ call' = [call EXCEPT ![t] = [Begun(t) EXCEPT !.pc = "wait"]]
            /\ pool' = [pool EXCEPT ![t] = "open"]
            /\ SetManager(t, [Manager(t) EXCEPT !.pool = t, !.initialized = TRUE])
  /\ UNCHANGED <<work, azure, jira, faults, moves>>

\* get_checkpointer and initialize up to the first await: an initialized
\* manager gives its saver, whatever that is, and another gets a new pool in
\* place of the one that it has.
GetCheckpointer(t) ==
  LET m == Manager(t)
      ready == m.initialized /\ (Kind(t) = "initialize" => m.saver # None)
  IN  /\ Kind(t) \in CheckpointOps \cup {"initialize"} /\ call[t].pc = "idle"
      /\ IF ready
           THEN /\ call' = [call EXCEPT ![t] = UseSaver(t, m.saver)]
                /\ UNCHANGED <<manager, pool>>
           ELSE /\ call' = [call EXCEPT ![t] = [Begun(t) EXCEPT !.pc = "wait"]]
                /\ pool' = [pool EXCEPT ![t] = "open"]
                /\ SetManager(t, [m EXCEPT !.pool = t])
      /\ UNCHANGED <<work, azure, jira, faults, moves>>

\* The wait for the task's own pool is over; the saver is made on the pool
\* that the manager has by now, and none makes one that raises at once.
PoolReady(t) ==
  LET p == Manager(t).pool
  IN  /\ At(t, ManagerOps, "wait") /\ pool[t] = "open"
      /\ SetManager(t, [Manager(t) EXCEPT !.saver = IF p = None THEN "useless" ELSE p])
      /\ IF p = None THEN GivesUp(t)
         ELSE call' = [call EXCEPT ![t].pc = "setup", ![t].on = p]
      /\ UNCHANGED <<work, pool, azure, jira, faults, moves>>

\* A pool whose wait times out closes; a closed one never gets ready.
PoolFails(t) ==
  /\ At(t, ManagerOps, "wait")
  /\ FailsOr(pool[t] = "closed")
  /\ pool' = [pool EXCEPT ![t] = "closed"]
  /\ GivesUp(t)
  /\ UNCHANGED <<work, manager, azure, jira, moves>>

IsOpen(p) == p \in Tasks /\ pool[p] = "open"

\* The manager is initialized, and the health check it would start raises.
SetupEnds(t) ==
  /\ At(t, ManagerOps, "setup") /\ IsOpen(call[t].on)
  /\ SetManager(t, [Manager(t) EXCEPT !.initialized = TRUE])
  /\ GivesUp(t)
  /\ UNCHANGED <<work, pool, azure, jira, faults, moves>>

SetupFails(t) ==
  /\ At(t, ManagerOps, "setup")
  /\ FailsOr(~IsOpen(call[t].on))
  /\ GivesUp(t)
  /\ UNCHANGED <<work, postgres, azure, jira, moves>>

\* close: the pool takes no more requests while its end is awaited.
CloseManager(t) ==
  /\ At(t, {"close_manager"}, "idle")
  /\ LET p == Manager(t).pool
     IN  IF p = None
           THEN Returns(t, <<>>) /\ SetManager(t, NoManager) /\ UNCHANGED pool
           ELSE To(t, "closing") /\ pool' = [pool EXCEPT ![p] = "closed"] /\ UNCHANGED manager
  /\ UNCHANGED <<work, azure, jira, faults, moves>>

ManagerClosed(t) ==
  /\ At(t, {"close_manager"}, "closing")
  /\ \/ Returns(t, <<>>) /\ SetManager(t, NoManager) /\ UNCHANGED faults
     \/ Fails /\ To(t, "swallowed") /\ UNCHANGED manager
  /\ UNCHANGED <<work, pool, azure, jira, moves>>

-----------------------------------------------------------------------------
(* ADOIntegration                                                          *)

\* _get_session: whatever the session is, once there is one.
CallAzure(t) ==
  /\ Kind(t) \in AdoReads \cup AdoWrites /\ call[t].pc = "idle"
  /\ session' = [session EXCEPT ![WorkerOf[t]] = IF @ = None THEN "open" ELSE @]
  /\ To(t, "request")
  /\ UNCHANGED <<work, postgres, effects, jira, faults, moves>>

\* A closed session raises, and so does a request that fails; only
\* get_pipeline_logs answers with an empty list.
AzureRaises(t) == To(t, IF Kind(t) = "get_pipeline_logs" THEN "swallowed" ELSE "raised")

EffectsAfter(t) == IF Kind(t) \in AdoWrites THEN Append(effects, t) ELSE effects

\* A status of success comes with data; of any other, whose text is logged, a
\* call answers none, although the server may have failed after the effect.
AzureAnswers(t) ==
  /\ At(t, AdoOps, "request") /\ session[WorkerOf[t]] = "open"
  /\ \/ effects' = EffectsAfter(t) /\ Returns(t, <<"data">>)
     \/ effects' \in {effects, EffectsAfter(t)} /\ Returns(t, <<>>)
  /\ UNCHANGED <<work, postgres, session, jira, faults, moves>>

\* Mutant: a write that fails is sent once more.
AzureFailsRetried(t) ==
  /\ At(t, AdoOps, "request")
  /\ \/ session[WorkerOf[t]] = "closed" /\ AzureRaises(t) /\ UNCHANGED <<faults, effects>>
     \/ /\ session[WorkerOf[t]] = "open" /\ Fails
        /\ effects' \in {effects, EffectsAfter(t)}
        /\ UNCHANGED call
  /\ UNCHANGED <<work, postgres, session, jira, moves>>

AzureFails(t) ==
  /\ At(t, AdoOps, "request")
  /\ \/ session[WorkerOf[t]] = "closed" /\ UNCHANGED <<faults, effects>>
     \/ session[WorkerOf[t]] = "open" /\ Fails /\ effects' \in {effects, EffectsAfter(t)}
  /\ AzureRaises(t)
  /\ UNCHANGED <<work, postgres, session, jira, moves>>

\* close leaves the closed session in its field.
CloseSession(t) ==
  /\ At(t, {"close_session"}, "idle")
  /\ session' = [session EXCEPT ![WorkerOf[t]] = IF @ = None THEN @ ELSE "closed"]
  /\ Returns(t, <<>>)
  /\ UNCHANGED <<work, postgres, effects, jira, faults, moves>>

-----------------------------------------------------------------------------
(* JiraIntegration                                                         *)

Wanted(t, field) == IF field \in Arg(t).fields THEN <<field>> ELSE <<>>

\* Mutant: the comment is written before the other fields.
CommentFirst(t) ==
  Wanted(t, "comment") \o Wanted(t, "summary") \o Wanted(t, "description") \o Wanted(t, "status")

\* The fields that an update writes, in its order.
Asked(t) ==
  Wanted(t, "summary") \o Wanted(t, "description") \o Wanted(t, "status") \o Wanted(t, "comment")

JiraFails(t) == To(t, IF Kind(t) = "create_ticket" THEN "raised" ELSE "swallowed")

\* _get_client, whose constructor asks the server; an update then reads its
\* issue.
CallJira(t) ==
  LET w == WorkerOf[t]
  IN  /\ Kind(t) \in JiraOps /\ call[t].pc = "idle"
      /\ \/ /\ client' = [client EXCEPT ![w] = TRUE]
            /\ call' = [call EXCEPT ![t].pc = "request",
                 ![t].todo = IF Kind(t) = "update_ticket" THEN Asked(t) ELSE <<>>]
            /\ UNCHANGED faults
         \/ ~client[w] /\ Fails /\ JiraFails(t) /\ UNCHANGED client
      /\ UNCHANGED <<work, postgres, azure, issues, changelog, moves>>

\* _create_ticket, of create_ticket_from_analysis and of
\* create_escalation_ticket.
CreateIssue(t) ==
  /\ At(t, {"create_ticket"}, "request")
  /\ \E s \in Statuses : issues' = Append(issues, [by |-> t, status |-> s])
  /\ Returns(t, <<Len(issues) + 1>>)
  /\ UNCHANGED <<work, postgres, azure, client, changelog, faults, moves>>

Writes(t, field) ==
  changelog' = Append(changelog, [issue |-> Arg(t).issue, field |-> field, by |-> t])

NextField(t) == call[t].todo[1]
FieldDone(t) ==
  call' = [call EXCEPT ![t].todo = Tail(@), ![t].on = None, ![t].sent = 0]

\* An update of the summary, of the description, or a comment.
WriteField(t) ==
  /\ At(t, {"update_ticket"}, "request") /\ call[t].todo # <<>>
  /\ NextField(t) # "status"
  /\ Writes(t, NextField(t))
  /\ FieldDone(t)
  /\ UNCHANGED <<work, postgres, azure, client, issues, faults, moves>>

\* The transitions that the issue has are read: a status that none of them is
\* named for, the issue's own or one that its workflow does not lead to from
\* there, is passed over in silence; ...
ReadTransitions(t) ==
  /\ At(t, {"update_ticket"}, "request") /\ call[t].todo # <<>>
  /\ NextField(t) = "status" /\ call[t].on = None
  /\ \/ FieldDone(t)
     \/ call' = [call EXCEPT ![t].on = issues[Arg(t).issue].status, ![t].sent = 0]
  /\ UNCHANGED <<work, postgres, azure, jira, faults, moves>>

\* ... and the one that is asked for is taken, which Jira may refuse to an
\* issue that has moved since.
TransitionIssue(t) ==
  LET i == Arg(t).issue
  IN  /\ At(t, {"update_ticket"}, "request") /\ call[t].on # None
      /\ \/ /\ issues' = [issues EXCEPT ![i].status = Arg(t).status]
            /\ Writes(t, "status")
            /\ FieldDone(t)
         \/ /\ issues[i].status # call[t].on
            /\ JiraFails(t)
            /\ UNCHANGED <<issues, changelog>>
      /\ UNCHANGED <<work, postgres, azure, client, faults, moves>>

Changing(t) ==
  \/ At(t, {"create_ticket"}, "request")
  \/ At(t, {"update_ticket"}, "request") /\ call[t].todo # <<>>

\* A request that gets no answer, or an error, may have had its effect.
Unanswered(t) ==
  LET i == Arg(t).issue
  IN  /\ Changing(t) /\ Fails
      /\ \/ UNCHANGED <<issues, changelog>>
         \/ /\ Kind(t) = "create_ticket"
            /\ \E s \in Statuses : issues' = Append(issues, [by |-> t, status |-> s])
            /\ UNCHANGED changelog
         \/ /\ Kind(t) = "update_ticket" /\ NextField(t) # "status"
            /\ Writes(t, NextField(t)) /\ UNCHANGED issues
         \/ /\ Kind(t) = "update_ticket" /\ call[t].on # None
            /\ issues' = [issues EXCEPT ![i].status = Arg(t).status]
            /\ Writes(t, "status")
      /\ UNCHANGED <<work, postgres, azure, client, moves>>

\* The session of the Jira library sends it again, ...
JiraResends(t) ==
  /\ Unanswered(t)
  /\ call[t].sent < MaxRetries /\ call' = [call EXCEPT ![t].sent = @ + 1]

\* ... or the call fails, at an error or after the last retry.
JiraGivesUp(t) == Unanswered(t) /\ JiraFails(t)

Updated(t) ==
  /\ At(t, {"update_ticket"}, "request") /\ call[t].todo = <<>>
  /\ Returns(t, <<>>)
  /\ UNCHANGED <<work, postgres, azure, jira, faults, moves>>

GetTicket(t) ==
  /\ At(t, {"get_ticket"}, "request")
  /\ \/ Returns(t, <<issues[Arg(t).issue].status>>) /\ UNCHANGED faults
     \/ Fails /\ JiraFails(t)
  /\ UNCHANGED <<work, postgres, azure, jira, moves>>

\* People move issues.
Move ==
  /\ moves < MaxMoves /\ moves' = moves + 1
  /\ \E i \in DOMAIN issues, s \in Statuses : issues' = [issues EXCEPT ![i].status = s]
  /\ UNCHANGED <<work, postgres, azure, client, changelog, call, faults>>

-----------------------------------------------------------------------------

Step(t) ==
  /\ Runs(t)
  /\ \/ GetCheckpointer(t) \/ PoolReady(t) \/ PoolFails(t) \/ SetupEnds(t) \/ SetupFails(t)
     \/ CloseManager(t) \/ ManagerClosed(t)
     \/ CallAzure(t) \/ AzureAnswers(t) \/ AzureFails(t) \/ CloseSession(t)
     \/ CallJira(t) \/ CreateIssue(t) \/ WriteField(t) \/ ReadTransitions(t)
     \/ TransitionIssue(t) \/ JiraResends(t) \/ JiraGivesUp(t) \/ Updated(t) \/ GetTicket(t)

ClientsNext == Move \/ \E t \in Tasks : Step(t)

ClientsSpec == ClientsInit /\ [][ClientsNext]_clientVars

-----------------------------------------------------------------------------
(* Properties                                                              *)

\* An initialisation of the manager raises at its end in any case, and others
\* beside it put their own pool in its place.  Even so, when no request fails
\* and the worker does not close the manager, every call of a checkpoint that
\* begins after another call has ended finds a saver, and its pool is open.
FindsOpenPool ==
  faults = 0 =>
    \A t \in Tasks :
      /\ Kind(t) \in CheckpointOps /\ call[t].late
      /\ \A u \in Tasks : WorkerOf[u] = WorkerOf[t] /\ Kind(u) = "close_manager"
                            => call[u].pc = "idle"
      => IsOpen(call[t].on)

Made(t) == {i \in DOMAIN issues : issues[i].by = t}
EffectsOf(t) == {i \in DOMAIN effects : effects[i] = t}
Written(t) == {changelog[i].field : i \in {j \in DOMAIN changelog : changelog[j].by = t}}

\* However often the Jira library sends it, a request for a ticket makes one
\* issue per try at most, and answers with one that it made itself.  A trigger
\* or a work item of Azure DevOps is done once at most, and once if the call
\* answers with data.
OneEffect ==
  \A t \in Tasks :
    /\ Kind(t) = "create_ticket" =>
         /\ Cardinality(Made(t)) <= 1 + call[t].sent
         /\ call[t].pc = "returned" => call[t].result[1] \in Made(t)
    /\ Kind(t) \in AdoWrites =>
         /\ Cardinality(EffectsOf(t)) <= 1
         /\ Len(call[t].result) <= Cardinality(EffectsOf(t))

\* An update that answers True has written what it was asked to, except the
\* status, of which it cannot tell; and whoever sees its comment sees the rest.
UpdateIsWhole ==
  \A t \in Tasks :
    /\ Kind(t) = "update_ticket"
    /\ call[t].pc = "returned" \/ "comment" \in Written(t)
    => Arg(t).fields \ {"status"} \subseteq Written(t)
=============================================================================
