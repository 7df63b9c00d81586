-------------------------- MODULE OperationalIssue --------------------------
(***************************************************************************)
(* The life cycle of one operational issue: failures are reported and      *)
(* grouped by fingerprint, jobs of the "operations" queue plan, review and *)
(* evaluate with the help of an AI runtime, administrators decide, and an  *)
(* approved internal issue becomes a Task.  No handler locks the row it    *)
(* loads: loading it, the later select of the newest revision and the      *)
(* commit are steps of their own, and the commit writes the columns that   *)
(* differ from those loaded.                                               *)
(***************************************************************************)
EXTENDS Naturals

CONSTANTS
  Workers,     \* loops of the operations queue
  Operators,   \* requests of administrators in progress at a time
  Slots,       \* open queue items of the issue at a time
  NoSlot,
  MaxEvents    \* bound on occurrences, requests, cancellations, failures and restarts

ASSUME IssueAssumption == NoSlot \notin Slots /\ MaxEvents \in Nat

VARIABLES
  issue,       \* the row of the issue
  jobs,        \* the open queue items of the issue
  worker,      \* what each loop executes, and the row its session has loaded
  operator,    \* what each administrator's request does
  plan,        \* the newest plan artifact and its review; stale: the row was
               \* not as loaded any more when the triage committed
  judgedGood,  \* the newest evaluation artifact says passed
  task,        \* the implementation Task
  events       \* what has come from outside so far

vars == <<issue, jobs, worker, operator, plan, judgedGood, task, events>>

Event == events < MaxEvents /\ events' = events + 1

-----------------------------------------------------------------------------
(* The row.  A column holds a class of values: boundary "external" is also   *)
(* credential; mode "people" is human_code, external or mixed, and "other"   *)
(* undetermined or out_of_scope; findings and brief drop number and text.    *)

Terminal == {"closed", "rejected", "out_of_scope"}
Reopenable == Terminal \union {"triage_failed", "plan_revision_required"}
Rejectable == {"waiting_approval", "plan_revision_required", "triage_failed",
               "waiting_external"}
Statuses == Reopenable \union Rejectable \union
            {"absent", "detected", "triaging", "implementing", "evaluating"}

Issue == [status : Statuses,
          judging : BOOLEAN, \* evaluation_status is queued or running
          linked : BOOLEAN,  \* implementation_task_id is set
          boundary : {"none", "internal", "external", "scope"},
          mode : {"none", "agent", "people", "other"},
          recommendation : {"none", "approve", "revise"},
          findings : {"none", "blocking"},
          brief : {"none", "open", "ready"}] \* decision_brief.approval_ready

\* _reset_for_reprocessing, which is also how a row begins.
Reset == [status |-> "detected", judging |-> FALSE, linked |-> FALSE,
          boundary |-> "none", mode |-> "none", recommendation |-> "none",
          findings |-> "none", brief |-> "none"]

Absent == [Reset EXCEPT !.status = "absent"]

\* What a session uses of the row it has loaded, or writes when it differs.
Status == {"status"}
Evaluation == {"status", "judging"}
Review == {"status", "mode", "recommendation", "findings", "brief"}
Planning == Review \union {"boundary"}
Loaded(columns) == [c \in DOMAIN issue |-> IF c \in columns THEN issue[c] ELSE Absent[c]]

\* A commit writes the columns in which the new object differs from the one
\* the session had loaded, and no others.
Written(read, new) ==
  [c \in DOMAIN issue |-> IF new[c] # read[c] THEN new[c] ELSE issue[c]]

\* Values of one of these classes may differ although the class is the same, so
\* a session that assigns such a column may write it in any case.
Classes == {"external", "people", "other", "blocking", "open", "ready"}
Assessed(read, new) ==
  {[c \in DOMAIN issue |-> IF c \in differing THEN new[c] ELSE Written(read, new)[c]] :
     differing \in SUBSET {c \in Planning : new[c] \in Classes}}

-----------------------------------------------------------------------------
(* Queue items of the issue.  A closed item plays no further part, so its   *)
(* slot is free again.                                                      *)

Free == [kind |-> "none", status |-> "closed", cancel |-> FALSE]
NewJob(kind) == [Free EXCEPT !.kind = kind, !.status = "queued"]

Active(i) == jobs[i].status # "closed"

\* _enqueue returns an active item of the kind, unless force_new is set.
Enqueue(kind, forceNew) ==
  IF ~forceNew /\ \E i \in Slots : jobs[i].kind = kind
  THEN UNCHANGED jobs
  ELSE \E i \in Slots : ~Active(i) /\ jobs' = [jobs EXCEPT ![i] = NewJob(kind)]

\* A mutant: the item is closed and keeps its place.
ClosedInPlace(i) == [jobs EXCEPT ![i].status = "completed"]

Closed(i) == [jobs EXCEPT ![i] = Free]

\* Leased items nobody works on any more; their leases run out.
Orphans == {i \in Slots : jobs[i].status = "leased"
                                /\ \A w \in Workers : worker[w].job # i}

\* _requeue_locked and _cancel_locked for each expired lease, and what they
\* do to the issue.
Recovered(lapsed) ==
  [i \in Slots |->
     IF i \notin lapsed THEN jobs[i]
     ELSE IF jobs[i].cancel THEN Free ELSE [jobs[i] EXCEPT !.status = "queued"]]

IssueAfter(lapsed) ==
  CASE \E i \in lapsed : jobs[i].cancel -> [issue EXCEPT !.status = "rejected"]
    [] lapsed # {} /\ (\A i \in lapsed : ~jobs[i].cancel)
         /\ issue.status \notin Terminal -> [issue EXCEPT !.status = "detected"]
    [] OTHER -> issue

Idle == [job |-> NoSlot, stage |-> "idle", overtaken |-> FALSE, read |-> Absent]
NoRequest == [act |-> "idle", read |-> Absent, overtaken |-> FALSE]

Init ==
  /\ issue = Absent
  /\ jobs = [i \in Slots |-> Free]
  /\ worker = [w \in Workers |-> Idle]
  /\ operator = [o \in Operators |-> NoRequest]
  /\ plan = [passed |-> FALSE, internal |-> FALSE, stale |-> FALSE] /\ judgedGood = FALSE
  /\ task = [status |-> "none", read |-> Absent]
  /\ events = 0

-----------------------------------------------------------------------------
(* capture and capture_external_failure: the row of the fingerprint is      *)
(* taken FOR UPDATE or inserted, and the item that triages it enqueued.     *)

Capture ==
  /\ Event
  /\ issue' = IF issue.status \in Terminal \union {"absent"} THEN Reset ELSE issue
  /\ Enqueue("triage", FALSE)
  /\ UNCHANGED <<worker, operator, plan, judgedGood, task>>

-----------------------------------------------------------------------------
(* The loops of the operations queue.                                      *)

Advance(w, stage) == worker' = [worker EXCEPT ![w].stage = stage]
Leave(w) == worker' = [worker EXCEPT ![w] = Idle]

\* claim_next recovers the leases that ran out and takes a queued item; the
\* backoff of requeued items and the priorities leave any of them possible.
Claim(w, i) ==
  /\ worker[w].stage = "idle" /\ jobs[i].status = "queued"
  /\ \E lapsed \in SUBSET Orphans :
       /\ issue' = IssueAfter(lapsed)
       /\ jobs' = [Recovered(lapsed) EXCEPT ![i].status = "leased"]
  /\ worker' = [worker EXCEPT ![w] = [Idle EXCEPT !.job = i, !.stage = "claimed"]]
  /\ UNCHANGED <<operator, plan, judgedGood, task>>

\* The same call when nothing can be claimed.
ClaimNothing(w) ==
  /\ worker[w].stage = "idle" /\ Orphans # {}
  /\ issue' = IssueAfter(Orphans) /\ jobs' = Recovered(Orphans)
  /\ UNCHANGED <<worker, operator, plan, judgedGood, task>>

Triages(w) == jobs[worker[w].job].kind = "triage"

\* The session of the next transaction loads the row.
Load(w) ==
  LET next == CASE worker[w].stage = "claimed" -> [stage |-> "opened", columns |-> Evaluation]
                [] worker[w].stage = "planning" -> [stage |-> "loaded", columns |-> Planning]
                [] worker[w].stage = "evaluating" -> [stage |-> "loaded", columns |-> Evaluation]
                [] OTHER -> [stage |-> "telling", columns |-> Review]
  IN /\ worker[w].stage \in {"claimed", "planning", "evaluating", "reporting"}
     /\ worker' = [worker EXCEPT ![w].stage = next.stage, ![w].read = Loaded(next.columns)]
     /\ UNCHANGED <<issue, jobs, operator, plan, judgedGood, task>>

\* A loop goes on without the session it had.
GoOn(w, stage) ==
  worker' = [worker EXCEPT ![w] = [Idle EXCEPT !.job = worker[w].job, !.stage = stage]]

Begin(w) ==
  LET read == worker[w].read
  IN /\ worker[w].stage = "opened"
     /\ IF Triages(w)
        THEN /\ issue' = Written(read, [read EXCEPT !.status = "triaging"])
             /\ GoOn(w, "planning")
        ELSE /\ issue' = Written(read, [read EXCEPT !.status = "evaluating", !.judging = TRUE])
             /\ GoOn(w, "evaluating")
     /\ UNCHANGED <<jobs, operator, plan, judgedGood, task>>

\* _classify and the planner choose a boundary, the planner proposes a mode.
Boundaries == {"internal", "external", "scope"}
Modes == {"agent", "human_code", "external", "mixed", "undetermined"}

DefaultMode(boundary) ==
  CASE boundary = "internal" -> "agent"
    [] boundary = "external" -> "external"
    [] OTHER -> "out_of_scope"

ReconcileMode(boundary, mode) ==
  CASE boundary = "scope" -> "out_of_scope"
    [] boundary = "external" -> IF mode = "mixed" THEN mode ELSE "external"
    [] boundary = "internal" /\ mode # "external" -> mode
    [] OTHER -> "undetermined"

\* What the planner and the reviewer may answer.  An invalid review counts as
\* a revision with a blocking finding.
Answers == {a \in [planned : BOOLEAN, reviewed : BOOLEAN, blocked : BOOLEAN,
                   boundary : Boundaries, mode : Modes,
                   recommendation : {"approve", "revise"}] :
              ~a.reviewed => a.recommendation = "revise" /\ a.blocked}

ModeOf(a) ==
  LET mode == IF a.planned THEN ReconcileMode(a.boundary, a.mode) ELSE DefaultMode(a.boundary)
  IN CASE mode = "agent" -> "agent"
       [] mode \in {"human_code", "external", "mixed"} -> "people"
       [] OTHER -> "other"

ApprovalReady(a) ==
  /\ a.planned /\ a.reviewed /\ a.recommendation = "approve" /\ ~a.blocked
  /\ ModeOf(a) \in {"agent", "people"}

\* A mutant: the findings of a review that recommends approval do not block it.
OutcomeByRecommendation(a) ==
  LET ready == ApprovalReady([a EXCEPT !.blocked = FALSE])
  IN [columns |-> [status |-> IF a.planned /\ a.boundary = "scope" THEN "out_of_scope" ELSE
                              IF ready THEN "waiting_approval" ELSE "plan_revision_required",
                   boundary |-> a.boundary, mode |-> ModeOf(a),
                   recommendation |-> a.recommendation,
                   findings |-> IF ready THEN "none" ELSE "blocking",
                   brief |-> IF ready THEN "ready" ELSE "open"],
      passed |-> a.recommendation = "approve" /\ ~a.blocked,
      internal |-> a.boundary = "internal"]

\* What a triage writes: the columns of the issue, and the plan with its review.
Outcome(a) ==
  LET ready == ApprovalReady(a)
  IN [columns |-> [status |-> IF a.planned /\ a.boundary = "scope" THEN "out_of_scope" ELSE
                              IF ready THEN "waiting_approval" ELSE "plan_revision_required",
                   boundary |-> a.boundary, mode |-> ModeOf(a),
                   recommendation |-> a.recommendation,
                   findings |-> IF a.blocked THEN "blocking" ELSE "none",
                   brief |-> IF ready THEN "ready" ELSE "open"],
      passed |-> a.recommendation = "approve" /\ ~a.blocked,
      internal |-> a.boundary = "internal"]

Outcomes == {Outcome(a) : a \in Answers}

\* _add_artifact selects the newest revision after the row was loaded ...
ReadRevision(w) ==
  /\ worker[w].stage = "loaded" /\ Advance(w, "numbered")
  /\ UNCHANGED <<issue, jobs, operator, plan, judgedGood, task>>

\* ... and the unique revision refuses an artifact when another of its type
\* was committed since: sessions that have the revision are overtaken.
Overtake(v, kind) ==
  IF worker[v].stage = "numbered" /\ jobs[worker[v].job].kind = kind
  THEN [worker[v] EXCEPT !.overtaken = TRUE] ELSE worker[v]

OvertakeRequest(o) ==
  IF operator[o].act = "judge" THEN [operator[o] EXCEPT !.overtaken = TRUE] ELSE operator[o]

Refused(w) == GoOn(w, "raised") /\ UNCHANGED <<issue, jobs, operator, plan, judgedGood>>

Executed(w, kind) ==
  worker' = [v \in Workers |-> IF v = w
               THEN [Idle EXCEPT !.job = worker[w].job, !.stage = "executed"]
               ELSE Overtake(v, kind)]

Replanned(read, columns) ==
  [c \in DOMAIN read |-> IF c \in Planning THEN columns[c] ELSE read[c]]

EndTriage(w) ==
  LET read == worker[w].read
  IN /\ worker[w].stage = "numbered" /\ Triages(w)
     /\ IF worker[w].overtaken THEN Refused(w)
        ELSE /\ \E o \in Outcomes :
                  /\ issue' \in Assessed(read, Replanned(read, o.columns))
                  /\ plan' = [passed |-> o.passed, internal |-> o.internal,
                              stale |-> read # Loaded(Planning)]
             /\ Executed(w, "triage")
             /\ UNCHANGED <<jobs, operator, judgedGood>>
     /\ UNCHANGED task

Judged(row, passed) ==
  [row EXCEPT !.judging = FALSE, !.status = IF passed THEN "closed" ELSE "detected"]

\* A mutant: a failed evaluation does not ask for another triage.
AddEvaluationQuietly(passed) == judgedGood' = passed /\ UNCHANGED jobs

AddEvaluation(passed) ==
  /\ judgedGood' = passed
  /\ IF passed THEN UNCHANGED jobs ELSE Enqueue("triage", TRUE)

EndEvaluation(w) ==
  LET read == worker[w].read
  IN /\ worker[w].stage = "numbered" /\ ~Triages(w)
     /\ IF worker[w].overtaken THEN Refused(w)
        ELSE /\ \E passed \in BOOLEAN :
                  issue' = Written(read, Judged(read, passed)) /\ AddEvaluation(passed)
             /\ Executed(w, "evaluation")
             /\ operator' = [o \in Operators |-> OvertakeRequest(o)]
             /\ UNCHANGED plan
     /\ UNCHANGED task

\* The runtime, the workspace or the registry fails, or the heartbeat sees a
\* cancellation and cancels the execution.
Raise(w) ==
  /\ worker[w].stage \in {"planning", "evaluating"} /\ GoOn(w, "raised") /\ Event
  /\ UNCHANGED <<issue, jobs, operator, plan, judgedGood, task>>

\* finish: cancellation first, then the status of the issue.
Finish(w) ==
  LET i == worker[w].job
  IN /\ worker[w].stage = "executed"
     /\ jobs' = Closed(i)
     /\ issue' = IF jobs[i].cancel THEN [issue EXCEPT !.status = "rejected"] ELSE issue
     /\ IF ~jobs[i].cancel /\ issue.status = "triage_failed"
        THEN GoOn(w, "reporting") ELSE Leave(w)
     /\ UNCHANGED <<operator, plan, judgedGood, task>>

\* The attempts are not counted: this one may have been the last.
Abandon(w) ==
  LET i == worker[w].job
  IN /\ worker[w].stage = "raised"
     /\ \/ issue' = IssueAfter({i}) /\ jobs' = Recovered({i}) /\ Leave(w)
        \/ ~jobs[i].cancel /\ UNCHANGED issue /\ jobs' = Closed(i) /\ GoOn(w, "reporting")
     /\ UNCHANGED <<operator, plan, judgedGood, task>>

\* A mutant: a failed item leaves the issue as it is.
ReportFailureQuietly(w) ==
  /\ worker[w].stage = "telling" /\ Leave(w)
  /\ UNCHANGED <<issue, jobs, operator, plan, judgedGood, task>>

\* capture_queue_failure for an item of the issue.
ReportFailure(w) ==
  LET read == worker[w].read
  IN /\ worker[w].stage = "telling"
     /\ issue' \in Assessed(read, [read EXCEPT !.status = "triage_failed", !.mode = "other",
          !.recommendation = "none", !.findings = "blocking", !.brief = "open"])
     /\ Leave(w)
     /\ UNCHANGED <<jobs, operator, plan, judgedGood, task>>

\* request_cancel through the queue endpoint.
CancelJob(i) ==
  /\ Active(i) /\ ~jobs[i].cancel /\ Event
  /\ IF jobs[i].status = "queued"
     THEN /\ jobs' = Closed(i)
          /\ issue' = [issue EXCEPT !.status = "rejected"]
     ELSE jobs' = [jobs EXCEPT ![i].cancel = TRUE] /\ UNCHANGED issue
  /\ UNCHANGED <<worker, operator, plan, judgedGood, task>>

-----------------------------------------------------------------------------
(* Requests of administrators: the check of what was loaded, and the commit. *)

Acts == {"approve", "reject", "implement", "evaluate", "reopen"}

Permits(act) ==
  CASE act = "approve" -> /\ issue.status = "waiting_approval" /\ issue.brief = "ready"
                          /\ issue.recommendation = "approve" /\ issue.findings = "none"
    [] act = "reject" -> issue.status \in Rejectable
    [] act = "implement" -> issue.status \in {"waiting_external", "implementing"}
    [] act = "evaluate" -> issue.status # "absent"
    [] act = "reopen" -> issue.status \in Reopenable

\* The columns a request uses, or writes back only when they change; a column it
\* always changes is not kept.
Used(act) ==
  CASE act = "approve" -> {"boundary", "mode"}
    [] act = "implement" -> {"judging"}
    [] act = "evaluate" -> Evaluation
    [] act = "reopen" -> (Planning \union {"judging", "linked"}) \ {"status"}
    [] OTHER -> {}

ReadIssue(o) ==
  /\ operator[o].act = "idle" /\ Event
  /\ \E act \in Acts :
       /\ Permits(act)
       /\ operator' = [operator EXCEPT ![o] =
            [NoRequest EXCEPT !.act = act, !.read = Loaded(Used(act))]]
  /\ UNCHANGED <<issue, jobs, worker, plan, judgedGood, task>>

Answered(o) == operator' = [operator EXCEPT ![o] = NoRequest]

\* approve hands the work to people by what the row said of these.
HandedOver(row) == row.boundary = "external" \/ row.mode = "people"

\* approve, first transaction.
Approve(o) ==
  LET read == operator[o].read
  IN /\ operator[o].act = "approve"
     /\ issue' = Written(read, [read EXCEPT
          !.status = IF HandedOver(read) THEN "waiting_external" ELSE "implementing"])
     /\ IF HandedOver(read) THEN Answered(o)
        ELSE operator' = [operator EXCEPT ![o] =
               [NoRequest EXCEPT !.act = "create"]]
     /\ UNCHANGED <<jobs, worker, plan, judgedGood, task>>

\* approve, second transaction: every Task of the issue has the same
\* idempotency key, which the unique constraint accepts once.
CreateTask(o) ==
  /\ operator[o].act = "create"
  /\ IF task.status = "none"
     THEN /\ task' = [task EXCEPT !.status = "queued"]
          /\ operator' = [operator EXCEPT ![o].act = "link"]
     ELSE /\ operator' = [operator EXCEPT ![o] = [NoRequest EXCEPT !.act = "refused"]]
          /\ UNCHANGED task
  /\ UNCHANGED <<issue, jobs, worker, plan, judgedGood>>

\* The unhandled IntegrityError is answered with status 500.
AnswerRefused(o) ==
  /\ operator[o].act = "refused" /\ Answered(o)
  /\ UNCHANGED <<issue, jobs, worker, plan, judgedGood, task>>

\* approve, third transaction.
LinkTask(o) ==
  /\ operator[o].act = "link"
  /\ issue' = [issue EXCEPT !.linked = TRUE]
  /\ Answered(o)
  /\ UNCHANGED <<jobs, worker, plan, judgedGood, task>>

Reject(o) ==
  LET read == operator[o].read
  IN /\ operator[o].act = "reject"
     /\ issue' = Written(read, [read EXCEPT !.status = "rejected"])
     /\ Answered(o)
     /\ UNCHANGED <<jobs, worker, plan, judgedGood, task>>

RecordManualImplementation(o) ==
  LET read == operator[o].read
  IN /\ operator[o].act = "implement"
     /\ issue' = Written(read, [read EXCEPT !.status = "evaluating", !.judging = TRUE])
     /\ Enqueue("evaluation", FALSE)
     /\ Answered(o)
     /\ UNCHANGED <<worker, plan, judgedGood, task>>

\* _add_artifact of record_manual_evaluation.
ReadRevisionFor(o) ==
  /\ operator[o].act = "evaluate"
  /\ operator' = [operator EXCEPT ![o].act = "judge"]
  /\ UNCHANGED <<issue, jobs, worker, plan, judgedGood, task>>

RecordManualEvaluation(o) ==
  LET read == operator[o].read
  IN /\ operator[o].act = "judge"
     /\ IF operator[o].overtaken
        THEN Answered(o) /\ UNCHANGED <<issue, jobs, worker, judgedGood>>
        ELSE /\ \E passed \in BOOLEAN :
                  issue' = Written(read, Judged(read, passed)) /\ AddEvaluation(passed)
             /\ worker' = [v \in Workers |-> Overtake(v, "evaluation")]
             /\ operator' = [p \in Operators |->
                  IF p = o THEN NoRequest ELSE OvertakeRequest(p)]
     /\ UNCHANGED <<plan, task>>

Reopen(o) ==
  /\ operator[o].act = "reopen"
  /\ issue' = Written(operator[o].read, Reset)
  /\ Enqueue("triage", TRUE)
  /\ Answered(o)
  /\ UNCHANGED <<worker, plan, judgedGood, task>>

-----------------------------------------------------------------------------
(* The implementation Task runs in its own queue; when it is closed its     *)
(* executor, or the loop of its item, tells the issue.                      *)

TaskEnds ==
  /\ task.status = "queued"
  /\ \E outcome \in {"completed", "failed"} : task' = [task EXCEPT !.status = outcome]
  /\ UNCHANGED <<issue, jobs, worker, operator, plan, judgedGood>>

\* The row is loaded: by the linked task, or by the id the failed task carries.
LoadForTask ==
  /\ \/ task.status = "completed" /\ issue.linked
        /\ task' = [status |-> "telling", read |-> Loaded(Evaluation)]
     \/ task.status = "completed" /\ ~issue.linked
        /\ task' = [task EXCEPT !.status = "told"]
     \/ task.status = "failed"
        /\ task' = [status |-> "excusing", read |-> Loaded(Status)]
  /\ UNCHANGED <<issue, jobs, worker, operator, plan, judgedGood>>

RecordImplementationCompleted ==
  /\ task.status = "telling"
  /\ issue' = Written(task.read, [task.read EXCEPT !.status = "evaluating", !.judging = TRUE])
  /\ Enqueue("evaluation", FALSE)
  /\ task' = [status |-> "told", read |-> Absent]
  /\ UNCHANGED <<worker, operator, plan, judgedGood>>

\* capture_queue_failure for the item of the task.
ReportTaskFailure ==
  /\ task.status = "excusing"
  /\ issue' = Written(task.read, [task.read EXCEPT !.status = "detected"])
  /\ Enqueue("triage", FALSE)
  /\ task' = [status |-> "told", read |-> Absent]
  /\ UNCHANGED <<worker, operator, plan, judgedGood>>

-----------------------------------------------------------------------------
(* The process ends anywhere and its supervisor starts it again; nothing    *)
(* happens between the two.  bootstrap gives an open issue without an       *)
(* active item a new one, and recovers leases that have run out by then.    *)

Restart ==
  /\ Event
  /\ worker' = [w \in Workers |-> Idle]
  /\ operator' = [o \in Operators |-> NoRequest]
  /\ task' = [status |-> IF task.status \in {"none", "queued"} THEN task.status ELSE "told",
              read |-> Absent]
  /\ IF /\ issue.status \in {"detected", "triaging", "evaluating"}
        /\ \A i \in Slots : ~Active(i)
     THEN /\ issue' = [issue EXCEPT !.status = IF issue.judging THEN "evaluating" ELSE "detected"]
          /\ Enqueue(IF issue.judging THEN "evaluation" ELSE "triage", TRUE)
     ELSE \E lapsed \in SUBSET {i \in Slots : jobs[i].status = "leased"} :
            issue' = IssueAfter(lapsed) /\ jobs' = Recovered(lapsed)
  /\ UNCHANGED <<plan, judgedGood>>

-----------------------------------------------------------------------------
WorkerStep(w) ==
  \/ \E i \in Slots : Claim(w, i)
  \/ ClaimNothing(w) \/ Load(w) \/ Begin(w) \/ ReadRevision(w) \/ EndTriage(w)
  \/ EndEvaluation(w) \/ Finish(w) \/ Abandon(w) \/ ReportFailure(w)

Decide(o) ==
  \/ Approve(o) \/ CreateTask(o) \/ AnswerRefused(o) \/ LinkTask(o) \/ Reject(o)
  \/ RecordManualImplementation(o) \/ ReadRevisionFor(o) \/ RecordManualEvaluation(o)
  \/ Reopen(o)

Next ==
  \/ /\ \/ \E w \in Workers : WorkerStep(w)
        \/ \E o \in Operators : Decide(o)
        \/ TaskEnds \/ LoadForTask \/ RecordImplementationCompleted \/ ReportTaskFailure
     /\ UNCHANGED events
  \/ \E w \in Workers : Raise(w)
  \/ \E o \in Operators : ReadIssue(o)
  \/ \E i \in Slots : CancelJob(i)
  \/ Capture \/ Restart

Spec == Init /\ [][Next]_vars

-----------------------------------------------------------------------------
(* Properties.                                                             *)

\* Every variable keeps its type.
TypeOK ==
  /\ issue \in Issue
  /\ jobs \in [Slots -> [kind : {"none", "triage", "evaluation"}, cancel : BOOLEAN,
                        status : {"closed", "queued", "leased"}]]
  /\ worker \in [Workers -> [job : Slots \union {NoSlot}, overtaken : BOOLEAN, read : Issue,
       stage : {"idle", "claimed", "opened", "planning", "evaluating", "loaded", "numbered",
                "executed", "raised", "reporting", "telling"}]]
  /\ operator \in [Operators ->
       [act : Acts \union {"idle", "judge", "create", "link", "refused"}, read : Issue,
        overtaken : BOOLEAN]]
  /\ plan \in [passed : BOOLEAN, internal : BOOLEAN, stale : BOOLEAN] /\ judgedGood \in BOOLEAN
  /\ task \in [status : {"none", "queued", "completed", "failed", "telling", "excusing", "told"},
               read : Issue]
  /\ events \in 0..MaxEvents

\* An issue does not rest closed against its newest evaluation: as long as the
\* last verdict was a failure, the item that verdict asked for is still open,
\* although the AI evaluator and administrators evaluate without a lock.
ClosedIssuePassed ==
  issue.status = "closed" => judgedGood \/ \E i \in Slots : Active(i)

\* ADR 0022: a failed evaluation restores the status detected.  False in the
\* code: the status loaded before another verdict is not written again.
FailedEvaluationReopens == issue.status = "closed" => judgedGood

\* Whenever the columns admit an approval, the newest plan is one its review
\* passed, and if the approval would start an Agent, one for work inside the
\* gateway: whatever captures, reopenings, evaluations, failures and requests
\* wrote over each other, as long as that plan's own triage committed onto the
\* row it had loaded.
ApprovableIsReviewed ==
  Permits("approve") /\ ~plan.stale =>
    plan.passed /\ (HandedOver(issue) \/ plan.internal)

\* The same of every plan.  False in the code: a reopening between the load and
\* the flush of a triage leaves columns empty that the triage did not change.
EveryApprovableIsReviewed ==
  Permits("approve") => plan.passed /\ (HandedOver(issue) \/ plan.internal)

\* An issue that says it is being triaged has an open queue item that will go
\* on with it, or its failure is about to be reported: also after restarts,
\* cancellations and requests of administrators in between.
TriageHasItem ==
  issue.status = "triaging" =>
    \/ \E i \in Slots : Active(i)
    \/ \E w \in Workers : worker[w].stage \in {"reporting", "telling"}

\* docs/api.md: approved internal issues create a standard Task.
ApprovalCreatesItsTask == \A o \in Operators : operator[o].act # "refused"

=============================================================================
