---------------------------- MODULE AgentHarness ----------------------------
(***************************************************************************)
(* One task that runs under the Agent harness: AgentHarness.execute        *)
(* (backend/app/harness/service.py), the command approvals its agents wait *)
(* for (ApprovalService, backend/app/approvals/service.py), and the        *)
(* executor and queue around them as far as they start the run again.      *)
(*                                                                         *)
(* The agents of a run are coroutines of one worker process; operators     *)
(* resolve approvals in the API process, so the read and the write of a    *)
(* resolution interleave with the polling of the agent that waits.         *)
(***************************************************************************)
EXTENDS Integers, Sequences, FiniteSets

CONSTANTS
  Investigators, Executor, Reviewers, \* roles of the profile
  Operators,         \* concurrent callers of the resolve endpoint
  Gateway,           \* the waiting agent itself, when its window expires
  MaxParallelAgents, \* harness_max_parallel_agents
  MaxCrashes,        \* bound on the crashes of the worker process
  MaxRequests        \* bound on the approval requests of the task

ASSUME Roles ==
  /\ Investigators # {} /\ Reviewers # {}
  /\ Executor \notin Investigators \union Reviewers
  /\ Investigators \intersect Reviewers = {}
  /\ IsFiniteSet(Investigators) /\ IsFiniteSet(Reviewers)
  /\ Gateway \notin Operators
ASSUME BoundsType ==
  MaxParallelAgents \in Nat \ {0} /\ MaxCrashes \in Nat /\ MaxRequests \in Nat

VARIABLES
  taskStatus, \* Task.status
  crashes,    \* crashes so far
  run,        \* HarnessRun.status, "none" before the row exists
  phase,      \* control state of AgentHarness.execute
  agent,      \* AgentRun.status by role, with the progress of its coroutine
  requests,   \* ApprovalRequests with the decision returned to the runtime
  resolving   \* resolution whose transaction has read the request

vars == <<taskStatus, crashes, run, phase, agent, requests, resolving>>

Agents == Investigators \union {Executor} \union Reviewers
Resolvers == Operators \union {Gateway}
Members == [investigate |-> Investigators, execute |-> {Executor}, review |-> Reviewers]
Alive == phase # "idle"
Member(r) == phase \in DOMAIN Members /\ r \in Members[phase]
Nothing == [request |-> 0, status |-> "none"]

\* "left": the coroutine has raised while the row stays queued or running;
\* "unannounced": it has raised after its row was committed as completed.
AgentStates == {"none", "unprepared", "queued", "running", "reported", "completed",
                "failed", "left", "unannounced"}
Finished == {"unprepared", "completed", "failed", "left", "unannounced"}
Policies == {"allow", "approval_required", "deny"}
Answers == {"none", "accept", "decline", "error"}
Request == [role : Agents, status : {"pending", "approved", "denied"}, answer : Answers]

\* The values of the rows and of the control state of one harness task.
TypeOK ==
  /\ taskStatus \in {"queued", "running", "waiting_approval", "completed", "failed"}
  /\ crashes \in 0..MaxCrashes
  /\ run \in {"none", "running", "completed", "completed_with_warnings"}
  /\ phase \in {"idle", "begin", "returned", "raised"} \union DOMAIN Members
  /\ agent \in [Agents -> AgentStates]
  /\ requests \in Seq(Request)
  /\ resolving \in [Resolvers -> [request : 0..MaxRequests,
                                  status : {"none", "approved", "denied"}]]

Init ==
  /\ taskStatus = "queued"
  /\ crashes = 0
  /\ run = "none"
  /\ phase = "idle"
  /\ agent = [r \in Agents |-> "none"]
  /\ requests = << >>
  /\ resolving = [o \in Resolvers |-> Nothing]

-----------------------------------------------------------------------------
(* The task around the run *)

\* The queue leases the item and TaskExecutor.execute sets the task running.
StartTask ==
  /\ phase = "idle" /\ taskStatus = "queued"
  /\ taskStatus' = "running"
  /\ phase' = "begin"
  /\ UNCHANGED <<crashes, run, agent, requests, resolving>>

\* What the executor does with the result or the exception of the harness.
EndTask ==
  /\ phase \in {"returned", "raised"}
  /\ taskStatus' = IF phase = "returned" THEN "completed" ELSE "failed"
  /\ phase' = "idle"
  /\ UNCHANGED <<crashes, run, agent, requests, resolving>>

\* The worker process dies; its open transaction is rolled back.
Crash ==
  /\ Alive /\ crashes < MaxCrashes
  /\ crashes' = crashes + 1
  /\ phase' = "idle"
  /\ resolving' = [resolving EXCEPT ![Gateway] = Nothing]
  /\ UNCHANGED <<taskStatus, run, agent, requests>>

\* The worker dies before it closes the item of a failed task: it runs again.
RepeatFailed ==
  /\ phase = "idle" /\ taskStatus = "failed" /\ crashes < MaxCrashes
  /\ crashes' = crashes + 1
  /\ taskStatus' = "running"
  /\ phase' = "begin"
  /\ UNCHANGED <<run, agent, requests, resolving>>

\* Mutant: the queue does not count a task that waits for approval as active.
RequeueRunning ==
  /\ phase = "idle" /\ taskStatus = "running"
  /\ taskStatus' = "queued"
  /\ UNCHANGED <<crashes, run, phase, agent, requests, resolving>>

\* The queue gives back the item of a dead worker; recovery counts no crashes.
Requeue ==
  /\ phase = "idle" /\ taskStatus \in {"running", "waiting_approval"}
  /\ taskStatus' = "queued"
  /\ UNCHANGED <<crashes, run, phase, agent, requests, resolving>>

-----------------------------------------------------------------------------
(* AgentHarness.execute *)

\* The HarnessRun of a task is unique: a second insert raises, and so may the
\* events that announce the run once its row is committed.
BeginRun ==
  /\ phase = "begin"
  /\ IF run = "none" THEN run' = "running" /\ phase' \in {"investigate", "raised"}
     ELSE phase' = "raised" /\ UNCHANGED run
  /\ UNCHANGED <<taskStatus, crashes, agent, requests, resolving>>

\* Mutant: asyncio.gather without return_exceptions.
SynthesizeEarly ==
  /\ phase = "investigate"
  /\ \/ \A r \in Investigators : agent[r] \in Finished
     \/ \E r \in Investigators : agent[r] \in {"unprepared", "failed"}
  /\ phase' \in {"execute", "raised"}
  /\ UNCHANGED <<taskStatus, crashes, run, agent, requests, resolving>>

\* asyncio.gather ends when every investigator has, failed or not.  The event of
\* the synthesis may raise, and ends the run.
Synthesize ==
  /\ phase = "investigate"
  /\ \A r \in Investigators : agent[r] \in Finished
  /\ phase' \in {"execute", "raised"}
  /\ UNCHANGED <<taskStatus, crashes, run, agent, requests, resolving>>

\* The Executor ends; its failure is the failure of the run.
LeaveExecute ==
  /\ phase = "execute" /\ agent[Executor] \in Finished
  /\ phase' = IF agent[Executor] = "completed" THEN "review" ELSE "raised"
  /\ UNCHANGED <<taskStatus, crashes, run, agent, requests, resolving>>

\* gather hands over an exception for every review that did not return.
Verdict == IF \A r \in Reviewers : agent[r] = "completed" THEN "completed"
           ELSE "completed_with_warnings"

\* Mutant: the run is closed by the first review.
FinishRunEarly ==
  /\ phase = "review" /\ \E r \in Reviewers : agent[r] \in Finished
  /\ run' = Verdict
  /\ phase' \in {"returned", "raised"}
  /\ UNCHANGED <<taskStatus, crashes, agent, requests, resolving>>

\* The run is closed; the event that announces it may raise.
FinishRun ==
  /\ phase = "review" /\ \A r \in Reviewers : agent[r] \in Finished
  /\ run' = Verdict
  /\ phase' \in {"returned", "raised"}
  /\ UNCHANGED <<taskStatus, crashes, agent, requests, resolving>>

-----------------------------------------------------------------------------
(* AgentHarness._run_agent *)

SetAgent(r, s) ==
  /\ agent' = [agent EXCEPT ![r] = s]
  /\ UNCHANGED <<taskStatus, crashes, run, phase, requests, resolving>>

\* The workspace of an investigator cannot be prepared: it never gets a row.
PrepareFails(r) == r \in Investigators /\ Member(r) /\ agent[r] = "none" /\ SetAgent(r, "unprepared")

QueueAgent(r) == Member(r) /\ agent[r] = "none" /\ SetAgent(r, "queued")

Parallelism == IF MaxParallelAgents < Cardinality(Investigators)
               THEN MaxParallelAgents ELSE Cardinality(Investigators)

\* The semaphore admits the agent to the runtime; the Executor has its own.
StartAgent(r) ==
  /\ Member(r) /\ agent[r] = "queued"
  /\ r = Executor \/ Cardinality({s \in Agents : agent[s] = "running"}) < Parallelism
  /\ SetAgent(r, "running")

Waits(r) == \E i \in DOMAIN requests : requests[i].role = r /\ requests[i].answer = "none"
InRuntime(r) == Member(r) /\ agent[r] = "running" /\ resolving[Gateway] = Nothing

\* The runtime returns and the semaphore is released before the row is closed.
ReportAgent(r) == InRuntime(r) /\ ~Waits(r) /\ SetAgent(r, "reported")

\* The row is closed with its report, and the event that announces it may raise.
CompleteAgent(r) ==
  /\ Member(r) /\ agent[r] = "reported"
  /\ \E s \in {"completed", "unannounced"} : SetAgent(r, s)

\* The runtime raises or the budget of the agent is over, even while it waits.
FailAgent(r) == InRuntime(r) /\ SetAgent(r, "failed")

\* The event that announces a queued or a started agent lies outside the try and
\* raises, or a commit of the row does: the coroutine ends and the row is left.
LeaveOpen(r) ==
  /\ Member(r) /\ (agent[r] \in {"queued", "reported"} \/ InRuntime(r))
  /\ SetAgent(r, "left")

-----------------------------------------------------------------------------
(* ApprovalService *)

Decision(r, policy) ==
  IF r # Executor /\ policy = "approval_required" THEN "allow" ELSE policy


AnswerOf(status) == IF status = "approved" THEN "accept" ELSE "decline"

\* The commit that stores a request; a pending one suspends the task.
NewRequest(r, policy) ==
  LET d == Decision(r, policy)
      status == IF d = "allow" THEN "approved" ELSE "denied"
  IN  /\ InRuntime(r) /\ ~Waits(r)
      /\ Len(requests) < MaxRequests
      /\ IF d = "approval_required"
         THEN /\ requests' = Append(requests,
                                     [role |-> r, status |-> "pending", answer |-> "none"])
              /\ taskStatus' = "waiting_approval"
         ELSE /\ requests' = Append(requests,
                                     [role |-> r, status |-> status, answer |-> AnswerOf(status)])
              /\ UNCHANGED taskStatus
      /\ UNCHANGED <<crashes, run, phase, agent, resolving>>

Awaited(i) == InRuntime(requests[i].role) /\ requests[i].answer = "none"

\* The waiting agent finds its request resolved.
PollRequest(i) ==
  /\ Awaited(i) /\ requests[i].status # "pending"
  /\ requests' = [requests EXCEPT ![i].answer = AnswerOf(requests[i].status)]
  /\ taskStatus' = "running"
  /\ UNCHANGED <<crashes, run, phase, agent, resolving>>

\* Mutant: resolve does not look at the status of the request.
ReadAnyRequest(o, i, status) ==
  /\ resolving[o] = Nothing
  /\ resolving' = [resolving EXCEPT ![o] = [request |-> i, status |-> status]]
  /\ UNCHANGED <<taskStatus, crashes, run, phase, agent, requests>>

\* resolve reads the request without a lock ...
ReadRequest(o, i, status) ==
  /\ resolving[o] = Nothing
  /\ requests[i].status = "pending"
  /\ resolving' = [resolving EXCEPT ![o] = [request |-> i, status |-> status]]
  /\ UNCHANGED <<taskStatus, crashes, run, phase, agent, requests>>

\* ... and commits what it decided.
WriteRequest(o) ==
  LET i == resolving[o].request
  IN  /\ resolving[o] # Nothing
      /\ requests' = IF o = Gateway
                     THEN [requests EXCEPT ![i].status = "denied", ![i].answer = "decline"]
                     ELSE [requests EXCEPT ![i].status = resolving[o].status]
      /\ resolving' = [resolving EXCEPT ![o] = Nothing]
      /\ UNCHANGED <<taskStatus, crashes, run, phase, agent>>

\* The approval window expires: the waiting agent denies its own request.
ExpireWindow(i) == Awaited(i) /\ ReadRequest(Gateway, i, "denied")

\* It has just been resolved: the ValueError ends the agent.
ExpireTooLate(i) ==
  /\ Awaited(i) /\ requests[i].status # "pending"
  /\ requests' = [requests EXCEPT ![i].answer = "error"]
  /\ agent' = [agent EXCEPT ![requests[i].role] = "failed"]
  /\ UNCHANGED <<taskStatus, crashes, run, phase, resolving>>

-----------------------------------------------------------------------------
TaskStep == StartTask \/ EndTask \/ Crash \/ RepeatFailed \/ Requeue
RunStep == BeginRun \/ Synthesize \/ LeaveExecute \/ FinishRun
AgentStep(r) ==
  \/ PrepareFails(r) \/ QueueAgent(r) \/ StartAgent(r)
  \/ ReportAgent(r) \/ CompleteAgent(r) \/ FailAgent(r) \/ LeaveOpen(r)
  \/ \E p \in Policies : NewRequest(r, p)
RequestStep(i) ==
  \/ PollRequest(i) \/ ExpireWindow(i) \/ ExpireTooLate(i)
  \/ \E o \in Operators, s \in {"approved", "denied"} : ReadRequest(o, i, s)

Next ==
  \/ TaskStep \/ RunStep
  \/ \E r \in Agents : AgentStep(r)
  \/ \E i \in DOMAIN requests : RequestStep(i)
  \/ \E o \in Resolvers : WriteRequest(o)

Spec == Init /\ [][Next]_vars

\* A live process goes on, the budget of an agent runs out, and the queue finds
\* and gives back the work of dead workers.  Nobody has to resolve a request.
Fairness ==
  /\ WF_vars(StartTask) /\ WF_vars(EndTask) /\ WF_vars(Requeue) /\ WF_vars(RunStep)
  /\ WF_vars(WriteRequest(Gateway))
  /\ \A r \in Agents :
       /\ WF_vars(PrepareFails(r) \/ QueueAgent(r)) /\ WF_vars(StartAgent(r))
       /\ WF_vars(ReportAgent(r) \/ FailAgent(r)) /\ WF_vars(CompleteAgent(r))

FairSpec == Spec /\ Fairness

-----------------------------------------------------------------------------
(* Properties *)

Terminal == {"completed", "failed"}

\* While the Executor writes, no investigator or reviewer of the run is active,
\* whatever agents failed before (agent-harness.md: reviews start after it).
WriterAlone ==
  Alive /\ agent[Executor] \in {"queued", "running", "reported"} =>
    \A r \in Agents \ {Executor} : agent[r] \in {"none"} \union Finished

\* When a task is completed its run is closed, its Executor has completed, and no
\* agent of the run is still at work; a run without warnings has every review
\* completed.  This holds through crashes, repeated attempts, failed agents and
\* events that raise after the commit they announce.
CompletedTasksCloseTheirRun ==
  taskStatus = "completed" =>
    /\ run \in {"completed", "completed_with_warnings"}
    /\ agent[Executor] = "completed"
    /\ \A r \in Agents : agent[r] \in Finished
    /\ run = "completed" => \A r \in Reviewers : agent[r] = "completed"

\* With one operator, a command that was let run stays recorded as approved.
AcceptedStaysApproved ==
  \A i \in DOMAIN requests : requests[i].answer = "accept" => requests[i].status = "approved"

\* Every harness task reaches an outcome although nobody answers its requests.
HarnessTaskEnds == <>(taskStatus \in Terminal)

\* No agent row of a completed task is queued or running.  This is false in the
\* code: gather swallows the exception of an agent whose row is left open.
CompletedTasksLeaveNoRowOpen ==
  taskStatus = "completed" => \A r \in Agents : agent[r] # "left"

\* ADR 0018: a recovered attempt takes up the work, so a run fails only when
\* its Executor does.
OnlyTheExecutorFailsTheRun ==
  phase = "raised" => agent[Executor] \in {"failed", "left", "unannounced"}

\* test_harness.py: resolving a resolved request is refused.
ResolutionIsFinal ==
  [][\A i \in DOMAIN requests :
       requests[i].status # "pending" => requests'[i].status = requests[i].status]_vars
=============================================================================
