------------------------- MODULE AgentHarnessProofs -------------------------
(* Proofs about AgentHarness for every set of roles and every bound.        *)
EXTENDS AgentHarness, TLAPS

-----------------------------------------------------------------------------
(* The inductive invariant, in named parts. *)

\* The list of requests keeps its bound.
Bounded == Len(requests) <= MaxRequests

\* What has happened in a run, kept through a crash in the rows of its agents.
RowOrder ==
  /\ run = "none" => \A r \in Agents : agent[r] = "none"
  /\ agent[Executor] # "none" => \A r \in Investigators : agent[r] \in Finished
  /\ \A r \in Reviewers : agent[r] # "none" => agent[Executor] = "completed"

\* What the control state of a live run says about those rows.
PhaseRows ==
  /\ phase \in DOMAIN Members => run = "running"
  /\ phase = "investigate" => agent[Executor] = "none"
  /\ phase \in {"execute", "review"} => \A r \in Investigators : agent[r] \in Finished
  /\ phase = "review" => agent[Executor] = "completed"
  /\ phase = "returned" =>
       /\ run \in {"completed", "completed_with_warnings"}
       /\ agent[Executor] = "completed"
       /\ \A r \in Agents : agent[r] \in Finished
       /\ run = "completed" => \A r \in Reviewers : agent[r] = "completed"
  /\ taskStatus \in {"queued", "completed", "failed"} => phase = "idle"

RunInv == TypeOK /\ Bounded /\ RowOrder /\ PhaseRows /\ CompletedTasksCloseTheirRun

-----------------------------------------------------------------------------
\* The rows and control states a new run starts from.
LEMMA RunInvInit == Init => RunInv
  <1> SUFFICES ASSUME Init PROVE RunInv  OBVIOUS
  <1> USE DEF Init
  <1>1. TypeOK
    BY BoundsType DEF TypeOK, AgentStates, Nothing, Members, Request
  <1>2. Bounded  BY BoundsType DEF Bounded
  <1>3. RowOrder /\ PhaseRows /\ CompletedTasksCloseTheirRun
    BY DEF RowOrder, PhaseRows, CompletedTasksCloseTheirRun, Agents, Members
  <1> QED BY <1>1, <1>2, <1>3 DEF RunInv

\* Starting, ending, losing and giving back the task keeps the invariant.
LEMMA TaskStepInv == RunInv /\ TaskStep => RunInv'
  <1> SUFFICES ASSUME RunInv, TaskStep PROVE RunInv'  OBVIOUS
  <1> USE DEF RunInv
  <1>1. CASE StartTask
    BY <1>1, BoundsType DEF StartTask, TypeOK, Bounded, RowOrder, PhaseRows,
       CompletedTasksCloseTheirRun, Members
  <1>2. CASE EndTask
    BY <1>2 DEF EndTask, TypeOK, Bounded, RowOrder, PhaseRows,
       CompletedTasksCloseTheirRun, Members
  <1>3. CASE Crash
    <2>1. TypeOK'
      BY <1>3, BoundsType DEF Crash, TypeOK, Nothing, Members, Resolvers
    <2>2. (Bounded /\ RowOrder /\ PhaseRows /\ CompletedTasksCloseTheirRun)'
      BY <1>3 DEF Crash, Bounded, RowOrder, PhaseRows, CompletedTasksCloseTheirRun, Members
    <2> QED BY <2>1, <2>2
  <1>4. CASE Requeue
    BY <1>4, BoundsType DEF Requeue, TypeOK, Bounded, RowOrder, PhaseRows,
       CompletedTasksCloseTheirRun, Members
  <1>5. CASE RepeatFailed
    BY <1>5, BoundsType DEF RepeatFailed, TypeOK, Bounded, RowOrder, PhaseRows,
       CompletedTasksCloseTheirRun, Members
  <1> QED BY <1>1, <1>2, <1>3, <1>4, <1>5 DEF TaskStep

\* The control steps of the run keep the invariant.
LEMMA RunStepInv == RunInv /\ RunStep => RunInv'
  <1> SUFFICES ASSUME RunInv, RunStep PROVE RunInv'  OBVIOUS
  <1> USE DEF RunInv
  <1>1. CASE BeginRun
    BY <1>1 DEF BeginRun, TypeOK, Bounded, RowOrder, PhaseRows,
       CompletedTasksCloseTheirRun, Members, Agents
  <1>2. CASE Synthesize
    BY <1>2 DEF Synthesize, TypeOK, Bounded, RowOrder, PhaseRows,
       CompletedTasksCloseTheirRun, Members, Agents
  <1>3. CASE LeaveExecute
    BY <1>3 DEF LeaveExecute, TypeOK, Bounded, RowOrder, PhaseRows,
       CompletedTasksCloseTheirRun, Members, Agents
  <1>4. CASE FinishRun
    <2>1. /\ Verdict \in {"completed", "completed_with_warnings"}
          /\ Verdict = "completed" => \A r \in Reviewers : agent[r] = "completed"
      BY DEF Verdict
    <2>2. \A r \in Agents : agent[r] \in Finished
      BY <1>4 DEF FinishRun, PhaseRows, Agents, Finished
    <2> QED BY <1>4, <2>1, <2>2 DEF FinishRun, TypeOK, Bounded, RowOrder, PhaseRows,
         CompletedTasksCloseTheirRun, Members
  <1> QED BY <1>1, <1>2, <1>3, <1>4 DEF RunStep

\* A member of the current phase changes its own row, and only forwards.
LEMMA AgentRowInv ==
  ASSUME RunInv, NEW r \in Agents, NEW s \in AgentStates, Member(r),
         agent' = [agent EXCEPT ![r] = s], agent[r] \notin Finished, s # "none",
         UNCHANGED <<taskStatus, crashes, run, phase, resolving>>,
         requests' \in Seq(Request), Len(requests') <= MaxRequests
  PROVE  RunInv'
  <1> USE DEF RunInv
  <1>0. phase \in DOMAIN Members /\ r \in Members[phase]  BY DEF Member
  <1>1. TypeOK'  BY DEF TypeOK
  <1>2. Bounded'  BY DEF Bounded
  <1>3. CASE phase = "investigate"
    <2>1. r \in Investigators /\ r # Executor /\ r \notin Reviewers
      BY <1>0, <1>3, Roles DEF Members
    <2>2. agent[Executor] = "none" /\ agent'[Executor] = "none"
      BY <1>3, <2>1 DEF PhaseRows, TypeOK, Agents
    <2>3. \A q \in Reviewers : agent'[q] = "none"
      BY <2>1, <2>2, Roles DEF RowOrder, TypeOK, Agents
    <2> QED BY <1>1, <1>2, <1>3, <2>2, <2>3
            DEF RowOrder, PhaseRows, CompletedTasksCloseTheirRun, Members
  <1>4. CASE phase = "execute"
    <2>1. r = Executor  BY <1>0, <1>4 DEF Members
    <2>2. \A q \in Investigators : agent'[q] = agent[q]
      BY <2>1, Roles DEF TypeOK, Agents
    <2>3. \A q \in Reviewers : agent'[q] = agent[q] /\ agent[q] = "none"
      BY <2>1, Roles DEF TypeOK, Agents, RowOrder, Finished
    <2> QED BY <1>1, <1>2, <1>4, <2>2, <2>3
            DEF RowOrder, PhaseRows, CompletedTasksCloseTheirRun, Members
  <1>5. CASE phase = "review"
    <2>1. r \in Reviewers  BY <1>0, <1>5 DEF Members
    <2>2. \A q \in Investigators \union {Executor} : agent'[q] = agent[q]
      BY <2>1, Roles DEF TypeOK, Agents
    <2> QED BY <1>1, <1>2, <1>5, <2>2
            DEF RowOrder, PhaseRows, CompletedTasksCloseTheirRun, Members
  <1> QED BY <1>0, <1>3, <1>4, <1>5 DEF Members

\* A member of the present phase that has not finished may change its row.
LEMMA SetAgentInv ==
  ASSUME RunInv, NEW r \in Agents, NEW s \in AgentStates, Member(r), SetAgent(r, s),
         agent[r] \notin Finished, s # "none"
  PROVE  RunInv'
  BY AgentRowInv DEF SetAgent, RunInv, TypeOK, Bounded

\* Every step of an agent keeps the invariant.
LEMMA AgentStepInv == ASSUME RunInv, NEW r \in Agents, AgentStep(r) PROVE RunInv'
  <1> USE DEF AgentStates, Finished
  <1>1. CASE PrepareFails(r)  BY <1>1, SetAgentInv DEF PrepareFails
  <1>2. CASE QueueAgent(r)  BY <1>2, SetAgentInv DEF QueueAgent
  <1>3. CASE StartAgent(r)  BY <1>3, SetAgentInv DEF StartAgent
  <1>4. CASE ReportAgent(r)  BY <1>4, SetAgentInv DEF ReportAgent, InRuntime
  <1>5. CASE CompleteAgent(r)  BY <1>5, SetAgentInv DEF CompleteAgent
  <1>6. CASE FailAgent(r)  BY <1>6, SetAgentInv DEF FailAgent, InRuntime
  <1>8. CASE LeaveOpen(r)  BY <1>8, SetAgentInv DEF LeaveOpen, InRuntime
  <1>7. ASSUME NEW p \in Policies, NewRequest(r, p) PROVE RunInv'
    <2>1. \A q \in {[role |-> r, status |-> st, answer |-> a] :
                      st \in {"pending", "approved", "denied"}, a \in Answers} :
            /\ q \in Request
            /\ Append(requests, q) \in Seq(Request)
            /\ Len(Append(requests, q)) = Len(requests) + 1
      BY DEF RunInv, TypeOK, Request
    <2>2. \E st \in {"pending", "approved", "denied"}, a \in Answers :
            requests' = Append(requests, [role |-> r, status |-> st, answer |-> a])
      BY <1>7 DEF NewRequest, AnswerOf, Answers
    <2>3. requests' \in Seq(Request) /\ Len(requests') <= MaxRequests
      <3>1. Len(requests) \in Nat /\ Len(requests) < MaxRequests
        BY <1>7 DEF NewRequest, RunInv, TypeOK
      <3> QED BY <2>1, <2>2, <3>1, BoundsType
    <2>4. phase \in DOMAIN Members /\ taskStatus' \in {taskStatus, "waiting_approval"}
      BY <1>7 DEF NewRequest, InRuntime, Member
    <2>5. taskStatus # "completed"
      BY <2>4 DEF RunInv, PhaseRows, Members
    <2>6. UNCHANGED <<crashes, run, phase, agent, resolving>>
      BY <1>7 DEF NewRequest
    <2>7. TypeOK' /\ Bounded'
      BY <2>3, <2>4, <2>6 DEF RunInv, TypeOK, Bounded
    <2> QED BY <2>4, <2>5, <2>6, <2>7
            DEF RunInv, RowOrder, PhaseRows, CompletedTasksCloseTheirRun
  <1> QED BY <1>1, <1>2, <1>3, <1>4, <1>5, <1>6, <1>7, <1>8 DEF AgentStep

\* Answers and resolutions keep the type of the list and its length.
LEMMA UpdatedRequests ==
  ASSUME requests \in Seq(Request), NEW i \in DOMAIN requests,
         NEW q \in Request, NEW new, new = [requests EXCEPT ![i] = q]
  PROVE  new \in Seq(Request) /\ Len(new) = Len(requests) /\ DOMAIN new = DOMAIN requests
  OBVIOUS

\* The steps of the approval service keep the invariant.
LEMMA RequestStepInv ==
  ASSUME RunInv, NEW i \in DOMAIN requests, RequestStep(i)
  PROVE  RunInv'
  <1> USE DEF RunInv
  <1>0. requests \in Seq(Request) /\ requests[i] \in Request /\ i \in 1..Len(requests)
        /\ Len(requests) \in Nat /\ i \in 0..MaxRequests
    BY BoundsType DEF TypeOK, Bounded
  <1>1. CASE PollRequest(i)
    <2>1. requests' \in Seq(Request) /\ Len(requests') = Len(requests)
      BY <1>0, <1>1 DEF PollRequest, Request, Answers, AnswerOf
    <2>2. phase \in DOMAIN Members  BY <1>1 DEF PollRequest, Awaited, InRuntime, Member
    <2> QED BY <1>1, <2>1, <2>2 DEF PollRequest, TypeOK, Bounded, RowOrder, PhaseRows,
         CompletedTasksCloseTheirRun, Members
  <1>2. CASE ExpireTooLate(i)
    <2>1. requests' \in Seq(Request) /\ Len(requests') = Len(requests)
      BY <1>0, <1>2 DEF ExpireTooLate, Request, Answers
    <2>2. requests[i].role \in Agents  BY <1>0 DEF Request
    <2>3. Member(requests[i].role) /\ agent[requests[i].role] = "running"
      BY <1>2 DEF ExpireTooLate, Awaited, InRuntime
    <2>4. Len(requests') <= MaxRequests  BY <2>1 DEF Bounded
    <2> QED BY <1>2, <2>1, <2>2, <2>3, <2>4, AgentRowInv DEF ExpireTooLate, AgentStates, Finished
  <1>3. ASSUME NEW o \in Resolvers, NEW s \in {"approved", "denied"}, ReadRequest(o, i, s)
        PROVE  RunInv'
    <2>1. resolving' \in [Resolvers -> [request : 0..MaxRequests,
                                        status : {"none", "approved", "denied"}]]
      BY <1>0, <1>3 DEF ReadRequest, TypeOK
    <2> QED BY <1>3, <2>1 DEF ReadRequest, TypeOK, Bounded, RowOrder, PhaseRows,
         CompletedTasksCloseTheirRun
  <1> QED BY <1>1, <1>2, <1>3 DEF RequestStep, ExpireWindow, Resolvers

-----------------------------------------------------------------------------
(* What a resolution in flight knows about its request. *)


\* A resolution in flight names a stored request and carries a decision.
ResolutionsAreNamed ==
  \A o \in Resolvers : resolving[o] # Nothing =>
    resolving[o].request \in DOMAIN requests /\ resolving[o].status \in {"approved", "denied"}

\* An operator finds the request it has read still pending, or declined by its
\* agent meanwhile; nothing else can have touched it.
OperatorsReadPending ==
  \A o \in Operators : resolving[o] # Nothing =>
    \/ requests[resolving[o].request].status = "pending"
    \/ requests[resolving[o].request].answer = "decline"

\* The write of a resolution keeps the run invariant.
LEMMA WriteRequestInv ==
  ASSUME RunInv, ResolutionsAreNamed, NEW o \in Resolvers, WriteRequest(o)
  PROVE  RunInv' /\ DOMAIN requests' = DOMAIN requests
  <1> DEFINE i == resolving[o].request
  <1>0. requests \in Seq(Request) /\ i \in DOMAIN requests /\ requests[i] \in Request
        /\ resolving[o].status \in {"approved", "denied"}
    BY DEF RunInv, TypeOK, WriteRequest, ResolutionsAreNamed
  <1>1. requests' \in Seq(Request) /\ Len(requests') = Len(requests)
        /\ DOMAIN requests' = DOMAIN requests
    <2>1. CASE o = Gateway  BY <1>0, <2>1 DEF WriteRequest, Request, Answers
    <2>2. CASE o # Gateway  BY <1>0, <2>2 DEF WriteRequest, Request
    <2> QED BY <2>1, <2>2
  <1>2. resolving' \in [Resolvers -> [request : 0..MaxRequests,
                                      status : {"none", "approved", "denied"}]]
    BY BoundsType DEF WriteRequest, RunInv, TypeOK, Nothing
  <1> QED BY <1>1, <1>2 DEF WriteRequest, RunInv, TypeOK, Bounded, RowOrder, PhaseRows,
       CompletedTasksCloseTheirRun

\* The list of requests only grows, and only WriteRequest ends a resolution
\* that ReadRequest did not begin.
LEMMA NamedStep ==
  ASSUME RunInv, ResolutionsAreNamed, [Next]_vars
  PROVE  ResolutionsAreNamed'
  <1> USE DEF ResolutionsAreNamed
  <1>0. requests \in Seq(Request) /\ resolving \in [Resolvers -> [request : 0..MaxRequests,
                                      status : {"none", "approved", "denied"}]]
    BY DEF RunInv, TypeOK
  <1>1. CASE UNCHANGED vars  BY <1>1 DEF vars
  <1>2. CASE TaskStep
    BY <1>0, <1>2 DEF TaskStep, StartTask, EndTask, Crash, RepeatFailed, Requeue, Resolvers
  <1>3. CASE RunStep
    BY <1>3 DEF RunStep, BeginRun, Synthesize, LeaveExecute, FinishRun
  <1>4. ASSUME NEW r \in Agents, AgentStep(r) PROVE ResolutionsAreNamed'
    <2>1. ASSUME NEW p \in Policies, NewRequest(r, p) PROVE ResolutionsAreNamed'
      <3>1. \E q : requests' = Append(requests, q)  BY <2>1 DEF NewRequest
      <3>2. \A j \in DOMAIN requests : j \in DOMAIN requests'  BY <1>0, <3>1
      <3> QED BY <2>1, <3>2 DEF NewRequest
    <2>2. CASE \A p \in Policies : ~NewRequest(r, p)
      BY <1>4, <2>2 DEF AgentStep, PrepareFails, QueueAgent, StartAgent, ReportAgent,
         CompleteAgent, FailAgent, LeaveOpen, SetAgent
    <2> QED BY <2>1, <2>2
  <1>5. ASSUME NEW i \in DOMAIN requests, RequestStep(i) PROVE ResolutionsAreNamed'
    <2>1. CASE PollRequest(i)  BY <1>0, <2>1 DEF PollRequest
    <2>2. CASE ExpireTooLate(i)  BY <1>0, <2>2 DEF ExpireTooLate
    <2>3. ASSUME NEW o \in Resolvers, NEW s \in {"approved", "denied"}, ReadRequest(o, i, s)
          PROVE  ResolutionsAreNamed'
      BY <1>0, <2>3 DEF ReadRequest
    <2> QED BY <1>5, <2>1, <2>2, <2>3 DEF RequestStep, ExpireWindow, Resolvers
  <1>6. ASSUME NEW o \in Resolvers, WriteRequest(o) PROVE ResolutionsAreNamed'
    BY <1>0, <1>6, WriteRequestInv DEF WriteRequest
  <1> QED BY <1>1, <1>2, <1>3, <1>4, <1>5, <1>6 DEF Next

\* One step of the specification keeps the run invariant.
LEMMA RunInvStep ==
  ASSUME RunInv, ResolutionsAreNamed, [Next]_vars
  PROVE  RunInv'
  <1>1. CASE UNCHANGED vars
    BY <1>1 DEF vars, RunInv, TypeOK, Bounded, RowOrder, PhaseRows, CompletedTasksCloseTheirRun
  <1> QED BY <1>1, TaskStepInv, RunStepInv, AgentStepInv, RequestStepInv, WriteRequestInv DEF Next

IInv == RunInv /\ ResolutionsAreNamed

\* The run invariant holds in every behaviour.
THEOREM HarnessInvariant == Spec => []IInv
  <1>1. Init => IInv
    BY RunInvInit DEF Init, IInv, ResolutionsAreNamed
  <1>2. IInv /\ [Next]_vars => IInv'
    BY RunInvStep, NamedStep DEF IInv
  <1> QED BY <1>1, <1>2, PTL DEF Spec

\* Every reachable state is well typed.
THEOREM HarnessTypeOK == Spec => []TypeOK
  <1>1. IInv => TypeOK  BY DEF IInv, RunInv
  <1> QED BY <1>1, HarnessInvariant, PTL

\* No other agent of a run is active while its Executor is, for every profile
\* and every pattern of failures and crashes.
THEOREM HarnessWriterAlone == Spec => []WriterAlone
  <1>1. IInv => WriterAlone
    <2> SUFFICES ASSUME IInv, Alive, agent[Executor] \in {"queued", "running", "reported"},
                        NEW r \in Agents \ {Executor}
                 PROVE  agent[r] \in {"none"} \union Finished
      BY DEF WriterAlone
    <2> QED BY DEF IInv, RunInv, RowOrder, Agents
  <1> QED BY <1>1, HarnessInvariant, PTL

\* A completed task has a closed run, a completed Executor and no agent at work,
\* and a run without warnings has had every review completed.
THEOREM HarnessCompleted == Spec => []CompletedTasksCloseTheirRun
  <1>1. IInv => CompletedTasksCloseTheirRun  BY DEF IInv, RunInv
  <1> QED BY <1>1, HarnessInvariant, PTL

-----------------------------------------------------------------------------
(* Approvals, for a deployment with one operator at a time. *)

OneOperator == \A o, p \in Operators : o = p

AnswerInv == OperatorsReadPending /\ AcceptedStaysApproved

\* With one operator the answers given stay those of the stored resolutions.
LEMMA AnswerStep ==
  ASSUME OneOperator, IInv, AnswerInv, [Next]_vars
  PROVE  AnswerInv'
  <1> USE DEF AnswerInv, OperatorsReadPending, AcceptedStaysApproved, IInv
  <1>0. /\ requests \in Seq(Request)
        /\ resolving \in [Resolvers -> [request : 0..MaxRequests,
                                      status : {"none", "approved", "denied"}]]
        /\ \A o \in Resolvers : resolving[o] # Nothing => resolving[o].request \in DOMAIN requests
    BY DEF RunInv, TypeOK, ResolutionsAreNamed
  <1>1. CASE UNCHANGED vars  BY <1>1 DEF vars
  <1>2. CASE TaskStep
    BY <1>0, <1>2, Roles DEF TaskStep, StartTask, EndTask, Crash, RepeatFailed, Requeue, Resolvers
  <1>3. CASE RunStep
    BY <1>3 DEF RunStep, BeginRun, Synthesize, LeaveExecute, FinishRun
  <1>4. ASSUME NEW r \in Agents, AgentStep(r) PROVE AnswerInv'
    <2>1. ASSUME NEW p \in Policies, NewRequest(r, p) PROVE AnswerInv'
      <3>1. \E q : requests' = Append(requests, q) /\ (q.answer = "accept" => q.status = "approved")
        BY <2>1 DEF NewRequest, AnswerOf
      <3>2. /\ \A j \in DOMAIN requests : j \in DOMAIN requests' /\ requests'[j] = requests[j]
            /\ \A j \in DOMAIN requests' :
                 j \in DOMAIN requests \/ (requests'[j].answer = "accept" =>
                                             requests'[j].status = "approved")
        BY <1>0, <3>1
      <3>3. AcceptedStaysApproved'  BY <3>2
      <3>4. OperatorsReadPending'
        BY <1>0, <2>1, <3>2 DEF NewRequest, Resolvers
      <3> QED BY <3>3, <3>4
    <2>2. CASE \A p \in Policies : ~NewRequest(r, p)
      BY <1>4, <2>2 DEF AgentStep, PrepareFails, QueueAgent, StartAgent, ReportAgent,
         CompleteAgent, FailAgent, LeaveOpen, SetAgent
    <2> QED BY <2>1, <2>2
  <1>5. ASSUME NEW i \in DOMAIN requests, RequestStep(i) PROVE AnswerInv'
    <2>0. requests[i] \in Request  BY <1>0
    <2>1. CASE PollRequest(i)
      <3>1. requests[i].status # "pending" /\ requests[i].answer = "none"
            /\ requests' = [requests EXCEPT ![i].answer = AnswerOf(requests[i].status)]
            /\ UNCHANGED resolving
        BY <2>1 DEF PollRequest, Awaited
      <3> QED BY <1>0, <2>0, <3>1 DEF AnswerOf, Request, Resolvers
    <2>2. CASE ExpireTooLate(i)
      <3>1. requests[i].status # "pending" /\ requests[i].answer = "none"
            /\ requests' = [requests EXCEPT ![i].answer = "error"]
            /\ UNCHANGED resolving
        BY <2>2 DEF ExpireTooLate, Awaited
      <3> QED BY <1>0, <2>0, <3>1 DEF Request, Resolvers
    <2>3. ASSUME NEW o \in Resolvers, NEW s \in {"approved", "denied"}, ReadRequest(o, i, s)
          PROVE  AnswerInv'
      BY <1>0, <2>3 DEF ReadRequest, Resolvers
    <2> QED BY <1>5, <2>1, <2>2, <2>3 DEF RequestStep, ExpireWindow, Resolvers
  <1>6. ASSUME NEW o \in Resolvers, WriteRequest(o) PROVE AnswerInv'
    <2> DEFINE i == resolving[o].request
    <2>0. resolving[o] # Nothing /\ i \in DOMAIN requests /\ requests[i] \in Request
          /\ resolving' = [resolving EXCEPT ![o] = Nothing]
      BY <1>0, <1>6 DEF WriteRequest
    <2>1. CASE o = Gateway
      <3>1. requests' = [requests EXCEPT ![i].status = "denied", ![i].answer = "decline"]
        BY <1>6, <2>1 DEF WriteRequest
      <3> QED BY <1>0, <2>0, <2>1, <3>1, Roles DEF Request, Resolvers
    <2>2. CASE o # Gateway
      <3>1. requests' = [requests EXCEPT ![i].status = resolving[o].status]
        BY <1>6, <2>2 DEF WriteRequest
      <3>2. o \in Operators /\ \A p \in Operators : p = o
        BY <2>2 DEF Resolvers, OneOperator
      <3>3. requests[i].answer # "accept"
        BY <2>0, <3>2
      <3> QED BY <1>0, <2>0, <3>1, <3>2, <3>3 DEF Request, Resolvers
    <2> QED BY <2>1, <2>2
  <1> QED BY <1>1, <1>2, <1>3, <1>4, <1>5, <1>6 DEF Next

\* With one operator at a time, a command that was let run stays approved on
\* record, whatever races between its window, its operator and a crash.
THEOREM HarnessAccepted == ASSUME OneOperator PROVE Spec => []AcceptedStaysApproved
  <1>1. Init => AnswerInv
    BY DEF Init, AnswerInv, OperatorsReadPending, AcceptedStaysApproved, Resolvers
  <1>2. IInv /\ AnswerInv /\ [Next]_vars => AnswerInv'
    BY OneOperator, AnswerStep
  <1>3. AnswerInv => AcceptedStaysApproved  BY DEF AnswerInv
  <1> QED BY <1>1, <1>2, <1>3, HarnessInvariant, PTL DEF Spec
=============================================================================
