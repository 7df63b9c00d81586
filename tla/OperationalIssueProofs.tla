----------------------- MODULE OperationalIssueProofs -----------------------
(* Proofs about OperationalIssue for any number of loops, requests of        *)
(* administrators and open items.                                           *)
EXTENDS OperationalIssue, TLAPS

\* The stages in which a loop has an item of its own.
AtWork == {"claimed", "opened", "planning", "evaluating", "loaded", "numbered", "executed",
           "raised"}

\* A loop at work holds the lease of its item, and no other loop does.
WorkersHoldItems ==
  \A w \in Workers : worker[w].stage \in AtWork =>
    /\ worker[w].job \in Slots
    /\ jobs[worker[w].job].status = "leased"
    /\ \A v \in Workers : worker[v].stage \in AtWork /\ worker[v].job = worker[w].job => v = w

\* A loop that will not close its item and leave an issue in triage behind:
\* what it commits differs from the status it has loaded.
WillEndTriage(loop) ==
  /\ loop.stage # "executed"
  /\ loop.stage \in {"loaded", "numbered"} => loop.read.status = "triaging"

\* A loop that has its item before it, and will take the issue out of closed.
WillReopen(loop) ==
  loop.stage = "claimed" \/ (loop.stage = "opened" /\ loop.read.status = "closed")

KeepsTriage(i) ==
  \A w \in Workers : worker[w].stage \in AtWork /\ worker[w].job = i => WillEndTriage(worker[w])
KeepsVerdict(i) ==
  \A w \in Workers : worker[w].stage \in AtWork /\ worker[w].job = i => WillReopen(worker[w])

\* A loop that is about to report a failure, and has not read another status.
Reports(loop) ==
  loop.stage = "reporting" \/ (loop.stage = "telling" /\ loop.read.status = "triaging")

\* An issue in triage has an item that is not closed without a word to the
\* issue, or its failure is about to be reported.
TriageGoesOn ==
  issue.status = "triaging" =>
    (\E i \in Slots : Active(i) /\ KeepsTriage(i)) \/ \E w \in Workers : Reports(worker[w])

\* An issue closed against its newest evaluation has an item that reopens it.
VerdictGoesOn ==
  issue.status = "closed" /\ ~judgedGood => \E i \in Slots : Active(i) /\ KeepsVerdict(i)

Approvable(row) ==
  /\ row.status = "waiting_approval" /\ row.brief = "ready"
  /\ row.recommendation = "approve" /\ row.findings = "none"

\* The columns an approval looks at are those of the newest plan.
PlanClears ==
  Approvable(issue) /\ ~plan.stale => plan.passed /\ (plan.internal \/ issue.boundary = "external")

\* A reopening compares with a status that the row never has, and so always
\* writes its own.
ReopeningsWrite == \A o \in Operators : operator[o].act = "reopen" => operator[o].read.status = "absent"

IInv ==
  TypeOK /\ WorkersHoldItems /\ TriageGoesOn /\ VerdictGoesOn /\ PlanClears /\ ReopeningsWrite

-----------------------------------------------------------------------------
(* What the helpers of the model return.                                    *)

Job == [kind : {"none", "triage", "evaluation"}, cancel : BOOLEAN,
        status : {"closed", "queued", "leased"}]

Stages == AtWork \union {"idle", "reporting", "telling"}
Loop == [job : Slots \union {NoSlot}, overtaken : BOOLEAN, read : Issue, stage : Stages]

Requested == Acts \union {"idle", "judge", "create", "link", "refused"}
Request == [act : Requested, read : Issue, overtaken : BOOLEAN]

TaskStates == {"none", "queued", "completed", "failed", "telling", "excusing", "told"}
ImplementationTask == [status : TaskStates, read : Issue]

Columns == {"status", "judging", "linked", "boundary", "mode", "recommendation", "findings",
            "brief"}

\* The variables one by one.
LEMMA TypesOfVariables ==
  TypeOK <=> /\ issue \in Issue
             /\ jobs \in [Slots -> Job]
             /\ worker \in [Workers -> Loop]
             /\ operator \in [Operators -> Request]
             /\ plan \in [passed : BOOLEAN, internal : BOOLEAN, stale : BOOLEAN]
             /\ judgedGood \in BOOLEAN
             /\ task \in ImplementationTask
             /\ events \in 0..MaxEvents
  <1>1. Stages = {"idle", "claimed", "opened", "planning", "evaluating", "loaded", "numbered",
                  "executed", "raised", "reporting", "telling"}
    BY DEF Stages, AtWork
  <1> QED BY <1>1 DEF TypeOK, Job, Loop, Request, Requested, ImplementationTask, TaskStates

LEMMA TypesOfVariablesNext ==
  TypeOK' <=> /\ issue' \in Issue
              /\ jobs' \in [Slots -> Job]
              /\ worker' \in [Workers -> Loop]
              /\ operator' \in [Operators -> Request]
              /\ plan' \in [passed : BOOLEAN, internal : BOOLEAN, stale : BOOLEAN]
              /\ judgedGood' \in BOOLEAN
              /\ task' \in ImplementationTask
              /\ events' \in 0..MaxEvents
  <1>1. Stages = {"idle", "claimed", "opened", "planning", "evaluating", "loaded", "numbered",
                  "executed", "raised", "reporting", "telling"}
    BY DEF Stages, AtWork
  <1> QED BY <1>1 DEF TypeOK, Job, Loop, Request, Requested, ImplementationTask, TaskStates

\* Statuses that occur in the steps.
LEMMA SomeStatuses ==
  {"absent", "detected", "triaging", "implementing", "evaluating", "closed", "rejected",
   "out_of_scope", "triage_failed", "plan_revision_required", "waiting_approval",
   "waiting_external"} \subseteq Statuses
  BY DEF Statuses, Reopenable, Rejectable, Terminal

\* A reset row is a row.
LEMMA ResetIsIssue ==
  /\ Reset \in Issue /\ Reset.status = "detected"
  /\ Absent \in Issue /\ Absent.status = "absent"
  <1>1. Reset \in Issue /\ Reset.status = "detected"  BY SomeStatuses DEF Reset, Issue
  <1> QED BY <1>1, SomeStatuses DEF Absent, Issue

\* A row is a function of its columns.
LEMMA RowOfColumns ==
  ASSUME NEW row \in Issue
  PROVE  DOMAIN row = Columns
  BY DEF Issue, Columns

\* A row taken column by column from rows is a row.
LEMMA MixedRow ==
  ASSUME NEW mixed, mixed = [c \in Columns |-> mixed[c]],
         \A c \in Columns : \E row \in Issue : mixed[c] = row[c]
  PROVE  mixed \in Issue
  BY DEF Issue, Columns

\* What is loaded of the row is a row; the columns asked for are those of the row.
LEMMA LoadedColumns ==
  ASSUME TypeOK, NEW columns \in SUBSET Columns
  PROVE  /\ Loaded(columns) \in Issue
         /\ \A c \in columns : Loaded(columns)[c] = issue[c]
  <1>1. issue \in Issue  BY TypesOfVariables
  <1>2. Loaded(columns) = [c \in Columns |-> IF c \in columns THEN issue[c] ELSE Absent[c]]
    BY <1>1, RowOfColumns DEF Loaded
  <1>3. [c \in Columns |-> IF c \in columns THEN issue[c] ELSE Absent[c]] \in Issue
    BY <1>1, ResetIsIssue, MixedRow
  <1> QED BY <1>2, <1>3

\* A commit keeps each column that the handler did not change.
LEMMA WrittenColumns ==
  ASSUME TypeOK, NEW read \in Issue, NEW new \in Issue
  PROVE  /\ Written(read, new) \in Issue
         /\ \A c \in Columns :
              Written(read, new)[c] = IF new[c] # read[c] THEN new[c] ELSE issue[c]
  <1>1. issue \in Issue  BY TypesOfVariables
  <1>2. Written(read, new) = [c \in Columns |-> IF new[c] # read[c] THEN new[c] ELSE issue[c]]
    BY <1>1, RowOfColumns DEF Written
  <1>3. [c \in Columns |-> IF new[c] # read[c] THEN new[c] ELSE issue[c]] \in Issue
    BY <1>1, MixedRow
  <1> QED BY <1>2, <1>3

\* One that assigns columns of unknown content keeps a column, or gives it the
\* new value.
LEMMA AssessedColumns ==
  ASSUME TypeOK, NEW read \in Issue, NEW new \in Issue, NEW row \in Assessed(read, new)
  PROVE  /\ row \in Issue
         /\ \A c \in Columns :
              \/ row[c] = IF new[c] # read[c] THEN new[c] ELSE issue[c]
              \/ row[c] = new[c] /\ new[c] \in Classes /\ c \in Planning
  <1>1. issue \in Issue  BY TypesOfVariables
  <1>2. PICK differing \in SUBSET {c \in Planning : new[c] \in Classes} :
          row = [c \in DOMAIN issue |->
                   IF c \in differing THEN new[c] ELSE Written(read, new)[c]]
    BY DEF Assessed
  <1>3. row = [c \in Columns |-> IF c \in differing THEN new[c] ELSE Written(read, new)[c]]
    BY <1>1, <1>2, RowOfColumns
  <1>4. /\ Written(read, new) \in Issue
        /\ \A c \in Columns :
             Written(read, new)[c] = IF new[c] # read[c] THEN new[c] ELSE issue[c]
    BY WrittenColumns
  <1>5. [c \in Columns |-> IF c \in differing THEN new[c] ELSE Written(read, new)[c]] \in Issue
    BY <1>4, MixedRow
  <1>6. \A c \in differing : new[c] \in Classes /\ c \in Planning  OBVIOUS
  <1> QED BY <1>3, <1>4, <1>5, <1>6

\* The status of what a commit leaves, in the form in which it is used.
LEMMA WrittenStatus ==
  ASSUME TypeOK, NEW read \in Issue, NEW new \in Issue, NEW row \in Issue,
         row = Written(read, new) \/ (row \in Assessed(read, new) /\ new.status \notin Classes)
  PROVE  row.status = IF new.status # read.status THEN new.status ELSE issue.status
  <1>1. CASE row = Written(read, new)  BY <1>1, WrittenColumns DEF Columns
  <1>2. CASE row \in Assessed(read, new) /\ new.status \notin Classes
    BY <1>2, AssessedColumns DEF Columns
  <1> QED BY <1>1, <1>2

\* A commit that changes the status, if anything an approval looks at, leaves
\* nothing approvable that was not.
LEMMA WrittenApprovable ==
  ASSUME TypeOK, NEW read \in Issue, NEW new \in Issue, new.status # "waiting_approval",
         \/ new.status # read.status
         \/ /\ new.boundary = read.boundary /\ new.brief = read.brief
            /\ new.recommendation = read.recommendation /\ new.findings = read.findings,
         Approvable(Written(read, new))
  PROVE  Approvable(issue) /\ Written(read, new).boundary = issue.boundary
  BY WrittenColumns DEF Approvable, Columns

\* One place of the workers is another.
LEMMA SetLoop ==
  ASSUME TypeOK, NEW w \in Workers, NEW loop \in Loop, worker' = [worker EXCEPT ![w] = loop]
  PROVE  /\ worker' \in [Workers -> Loop]
         /\ worker'[w] = loop
         /\ \A v \in Workers \ {w} : worker'[v] = worker[v]
  BY TypesOfVariables

\* A loop that goes on keeps its item, and has no session.
LEMMA GoOnKeepsItem ==
  ASSUME TypeOK, NEW w \in Workers, NEW stage \in Stages, GoOn(w, stage)
  PROVE  /\ worker' \in [Workers -> Loop]
         /\ worker'[w].stage = stage /\ worker'[w].job = worker[w].job
         /\ \A v \in Workers \ {w} : worker'[v] = worker[v]
  <1> DEFINE loop == [Idle EXCEPT !.job = worker[w].job, !.stage = stage]
  <1>1. loop \in Loop /\ loop.stage = stage /\ loop.job = worker[w].job
    BY TypesOfVariables, ResetIsIssue DEF Idle, Loop
  <1>2. worker' = [worker EXCEPT ![w] = loop]  BY DEF GoOn
  <1> QED BY <1>1, <1>2, SetLoop

\* A loop that leaves its item is idle.
LEMMA IdleIsLoop == Idle \in Loop /\ Idle.stage = "idle"
  BY ResetIsIssue DEF Idle, Loop, Stages

LEMMA LeaveIsIdle ==
  ASSUME TypeOK, NEW w \in Workers, Leave(w)
  PROVE  /\ worker' \in [Workers -> Loop]
         /\ worker'[w].stage = "idle"
         /\ \A v \in Workers \ {w} : worker'[v] = worker[v]
  BY IdleIsLoop, SetLoop DEF Leave

\* Being overtaken changes nothing else of a loop or of a request.
LEMMA OvertakenKeepsRest ==
  ASSUME TypeOK
  PROVE  /\ \A v \in Workers : \A kind \in {"triage", "evaluation"} :
              /\ Overtake(v, kind) \in Loop
              /\ Overtake(v, kind).job = worker[v].job
              /\ Overtake(v, kind).stage = worker[v].stage
              /\ Overtake(v, kind).read = worker[v].read
         /\ \A o \in Operators : OvertakeRequest(o) \in Request
  <1>1. /\ \A v \in Workers : worker[v] \in Loop
        /\ \A o \in Operators : operator[o] \in Request
    BY TypesOfVariables
  <1> QED BY <1>1 DEF Overtake, OvertakeRequest, Loop, Request

\* A loop that has committed its result: others of its kind are overtaken.
LEMMA ExecutedKeepsItems ==
  ASSUME TypeOK, NEW w \in Workers, NEW kind \in {"triage", "evaluation"}, Executed(w, kind)
  PROVE  /\ worker' \in [Workers -> Loop]
         /\ worker'[w].stage = "executed" /\ worker'[w].job = worker[w].job
         /\ \A v \in Workers \ {w} :
              /\ worker'[v].job = worker[v].job /\ worker'[v].stage = worker[v].stage
              /\ worker'[v].read = worker[v].read
  <1> DEFINE loop == [Idle EXCEPT !.job = worker[w].job, !.stage = "executed"]
  <1>1. loop \in Loop /\ loop.stage = "executed" /\ loop.job = worker[w].job
    BY TypesOfVariables, ResetIsIssue DEF Idle, Loop, Stages, AtWork
  <1>2. worker' = [v \in Workers |-> IF v = w THEN loop ELSE Overtake(v, kind)]
    BY DEF Executed
  <1> QED BY <1>1, <1>2, OvertakenKeepsRest

\* A request that ends is idle.
LEMMA NoRequestIsRequest ==
  /\ NoRequest \in Request
  /\ \A act \in Requested :
       /\ [NoRequest EXCEPT !.act = act] \in Request
       /\ \A read \in Issue : [NoRequest EXCEPT !.act = act, !.read = read] \in Request
  BY ResetIsIssue DEF NoRequest, Request, Requested

\* What Enqueue does, with force_new and without.
Enqueued(kind) ==
  UNCHANGED jobs \/ \E i \in Slots : ~Active(i) /\ jobs' = [jobs EXCEPT ![i] = NewJob(kind)]

\* A new item takes a free place, so the open items stay as they are.
LEMMA EnqueueKeepsOpenItems ==
  ASSUME TypeOK, NEW kind \in {"triage", "evaluation"}, Enqueued(kind)
  PROVE  /\ jobs' \in [Slots -> Job]
         /\ \A i \in Slots : Active(i) => jobs'[i] = jobs[i]
  <1>1. CASE UNCHANGED jobs  BY <1>1, TypesOfVariables DEF Active
  <1>2. ASSUME NEW i \in Slots, ~Active(i), jobs' = [jobs EXCEPT ![i] = NewJob(kind)]
        PROVE  /\ jobs' \in [Slots -> Job]
               /\ \A j \in Slots : Active(j) => jobs'[j] = jobs[j]
    <2>1. NewJob(kind) \in Job  BY DEF NewJob, Free, Job
    <2> QED BY <1>2, <2>1, TypesOfVariables DEF Active
  <1> QED BY <1>1, <1>2 DEF Enqueued

\* Recovery of leases changes the status only: it never closes an issue, ends a
\* triage, and leaves the items of a closed issue in the queue.
LEMMA RecoveryOfLeases ==
  ASSUME TypeOK, NEW lapsed \in SUBSET Slots
  PROVE  /\ Recovered(lapsed) \in [Slots -> Job]
         /\ \A i \in Slots \ lapsed : Recovered(lapsed)[i] = jobs[i]
         /\ IssueAfter(lapsed) \in Issue
         /\ Approvable(IssueAfter(lapsed)) =>
              Approvable(issue) /\ IssueAfter(lapsed).boundary = issue.boundary
         /\ IssueAfter(lapsed).status = "closed" =>
              /\ issue.status = "closed"
              /\ \A i \in lapsed : Recovered(lapsed)[i].status = "queued"
         /\ IssueAfter(lapsed).status = "triaging" => lapsed = {} /\ issue.status = "triaging"
  <1>1. jobs \in [Slots -> Job] /\ issue \in Issue  BY TypesOfVariables
  <1>2. Recovered(lapsed) \in [Slots -> Job] /\ \A i \in Slots \ lapsed : Recovered(lapsed)[i] = jobs[i]
    BY <1>1 DEF Recovered, Free, Job
  <1>3. \A i \in lapsed : ~jobs[i].cancel => Recovered(lapsed)[i].status = "queued"
    BY <1>1 DEF Recovered, Job
  <1>4. CASE \E i \in lapsed : jobs[i].cancel
    <2>1. IssueAfter(lapsed) = [issue EXCEPT !.status = "rejected"]  BY <1>4 DEF IssueAfter
    <2> QED BY <1>1, <1>2, <2>1, SomeStatuses DEF Issue, Approvable
  <1>5. CASE ~\E i \in lapsed : jobs[i].cancel
    <2>1. \/ IssueAfter(lapsed) = [issue EXCEPT !.status = "detected"]
          \/ IssueAfter(lapsed) = issue /\ (lapsed = {} \/ issue.status \in Terminal)
      BY <1>5 DEF IssueAfter
    <2>2. "triaging" \notin Terminal  BY DEF Terminal
    <2> QED BY <1>1, <1>2, <1>3, <1>5, <2>1, <2>2, SomeStatuses DEF Issue, Approvable
  <1> QED BY <1>4, <1>5

\* An approvable outcome of a triage carries a plan that its review passed,
\* and one inside the gateway or for an external system.
LEMMA OutcomeIsReviewed ==
  ASSUME NEW o \in Outcomes
  PROVE  /\ o.columns \in [status : {"out_of_scope", "waiting_approval", "plan_revision_required"},
                          boundary : Boundaries, mode : {"agent", "people", "other"},
                          recommendation : {"approve", "revise"}, findings : {"none", "blocking"},
                          brief : {"open", "ready"}]
         /\ o.passed \in BOOLEAN /\ o.internal \in BOOLEAN
         /\ o.columns.brief = "ready" => o.passed /\ (o.internal \/ o.columns.boundary = "external")
  <1>1. PICK a \in Answers : o = Outcome(a)  BY DEF Outcomes
  <1>2. a.planned \in BOOLEAN /\ a.reviewed \in BOOLEAN /\ a.blocked \in BOOLEAN
        /\ a.boundary \in Boundaries /\ a.mode \in Modes
        /\ a.recommendation \in {"approve", "revise"}
    BY <1>1 DEF Answers
  <1>3. ModeOf(a) \in {"agent", "people", "other"}  BY DEF ModeOf
  <1>4. ApprovalReady(a) => a.recommendation = "approve" /\ ~a.blocked
    BY DEF ApprovalReady
  <1>5. ApprovalReady(a) => a.boundary \in {"internal", "external"}
    BY <1>2 DEF ApprovalReady, ModeOf, ReconcileMode, Boundaries
  <1> QED BY <1>1, <1>2, <1>3, <1>4, <1>5 DEF Outcome

-----------------------------------------------------------------------------
(* What keeps each part of the invariant.                                   *)

\* Items stay held when loops only go on with them or leave them.
LEMMA HeldItemsStay ==
  ASSUME IInv,
         \A w \in Workers : worker'[w].stage \in AtWork =>
           /\ worker[w].stage \in AtWork /\ worker'[w].job = worker[w].job
           /\ jobs'[worker[w].job].status = "leased"
  PROVE  WorkersHoldItems'
  BY DEF IInv, WorkersHoldItems

\* A triage goes on while its items stay open, no loop turns to closing one of
\* them without a word, and reports are not forgotten.
LEMMA TriageStays ==
  ASSUME IInv, issue'.status = "triaging" => issue.status = "triaging",
         \A i \in Slots : Active(i) /\ KeepsTriage(i) => Active(i)',
         \A w \in Workers : worker'[w].stage \in AtWork =>
           \/ WillEndTriage(worker'[w])
           \/ /\ worker[w].stage \in AtWork /\ worker'[w].job = worker[w].job
              /\ ~WillEndTriage(worker[w]),
         \A w \in Workers : Reports(worker[w]) => Reports(worker'[w])
  PROVE  TriageGoesOn'
  <1> SUFFICES ASSUME issue'.status = "triaging"
      PROVE  (\E i \in Slots : Active(i)' /\ KeepsTriage(i)') \/ \E w \in Workers : Reports(worker'[w])
    BY DEF TriageGoesOn
  <1>1. \A i \in Slots : KeepsTriage(i) => KeepsTriage(i)'
    BY DEF KeepsTriage
  <1> QED BY <1>1 DEF IInv, TriageGoesOn

\* A verdict against a closed issue keeps the item it asked for.
LEMMA VerdictStays ==
  ASSUME IInv, issue'.status = "closed" => issue.status = "closed", UNCHANGED judgedGood,
         \A i \in Slots : Active(i) /\ KeepsVerdict(i) => Active(i)',
         \A w \in Workers : worker'[w].stage \in AtWork =>
           \/ WillReopen(worker'[w])
           \/ /\ worker[w].stage \in AtWork /\ worker'[w].job = worker[w].job
              /\ ~WillReopen(worker[w])
  PROVE  VerdictGoesOn'
  <1>1. \A i \in Slots : KeepsVerdict(i) => KeepsVerdict(i)'
    BY DEF KeepsVerdict
  <1> QED BY <1>1 DEF IInv, VerdictGoesOn

\* Only a triage changes the plan or makes an issue approvable.
LEMMA ClearanceStays ==
  ASSUME IInv, UNCHANGED plan,
         Approvable(issue') =>
           Approvable(issue) /\ issue'.boundary \in {issue.boundary, "external"}
  PROVE  PlanClears'
  BY DEF IInv, PlanClears

-----------------------------------------------------------------------------
(* The steps.                                                               *)

\* Captures enqueue and reset.
LEMMA CaptureInv == ASSUME IInv, Capture PROVE IInv'
  <1>1. /\ issue' = Reset \/ issue' = issue
        /\ UNCHANGED <<worker, operator, plan, judgedGood, task>>
        /\ events' \in 0..MaxEvents
    BY IssueAssumption, TypesOfVariables DEF Capture, Event, IInv
  <1>2. jobs' \in [Slots -> Job] /\ \A i \in Slots : Active(i) => jobs'[i] = jobs[i]
    <2>1. Enqueued("triage")  BY DEF Capture, Enqueue, Enqueued
    <2> QED BY <2>1, EnqueueKeepsOpenItems DEF IInv
  <1>3. TypeOK'
    BY <1>1, <1>2, ResetIsIssue, TypesOfVariables, TypesOfVariablesNext DEF IInv
  <1>4. WorkersHoldItems'  BY <1>1, <1>2, HeldItemsStay DEF IInv, WorkersHoldItems, Active
  <1>5. TriageGoesOn'  BY <1>1, <1>2, TriageStays, ResetIsIssue DEF Active
  <1>6. VerdictGoesOn'  BY <1>1, <1>2, VerdictStays, ResetIsIssue DEF Active
  <1>7. PlanClears'  BY <1>1, ClearanceStays, ResetIsIssue DEF Approvable
  <1>8. ReopeningsWrite'  BY <1>1 DEF IInv, ReopeningsWrite
  <1> QED BY <1>3, <1>4, <1>5, <1>6, <1>7, <1>8 DEF IInv

\* A loop that claims recovers orphaned items and takes a queued one.
LEMMA ClaimInv ==
  ASSUME IInv, NEW w \in Workers, (\E i \in Slots : Claim(w, i)) \/ ClaimNothing(w), UNCHANGED events
  PROVE  IInv'
  <1>1. PICK lapsed \in SUBSET Orphans, i \in Slots :
          /\ worker[w].stage = "idle"
          /\ issue' = IssueAfter(lapsed)
          /\ UNCHANGED <<operator, plan, judgedGood, task>>
          /\ \/ /\ jobs[i].status = "queued"
                /\ jobs' = [Recovered(lapsed) EXCEPT ![i].status = "leased"]
                /\ worker' = [worker EXCEPT ![w] = [Idle EXCEPT !.job = i, !.stage = "claimed"]]
             \/ jobs' = Recovered(lapsed) /\ UNCHANGED worker
    BY DEF Claim, ClaimNothing, Orphans
  <1>2. lapsed \in SUBSET Slots  BY DEF Orphans
  <1>3. /\ Recovered(lapsed) \in [Slots -> Job]
        /\ \A j \in Slots \ lapsed : Recovered(lapsed)[j] = jobs[j]
        /\ issue' \in Issue
        /\ Approvable(issue') => Approvable(issue) /\ issue'.boundary = issue.boundary
        /\ issue'.status = "closed" =>
             /\ issue.status = "closed"
             /\ \A j \in lapsed : Recovered(lapsed)[j].status = "queued"
        /\ issue'.status = "triaging" => lapsed = {} /\ issue.status = "triaging"
    BY <1>1, <1>2, RecoveryOfLeases DEF IInv
  <1> DEFINE loop == [Idle EXCEPT !.job = i, !.stage = "claimed"]
  <1>4. loop \in Loop /\ loop.stage = "claimed" /\ loop.job = i
    BY IdleIsLoop DEF Loop, Idle, Stages, AtWork
  <1>5. worker \in [Workers -> Loop] /\ jobs \in [Slots -> Job]  BY TypesOfVariables DEF IInv
  <1>6. /\ worker' \in [Workers -> Loop]
        /\ worker'[w] = worker[w] \/ (worker'[w] = loop /\ jobs'[i].status = "leased"
                                        /\ jobs[i].status = "queued")
        /\ \A v \in Workers \ {w} : worker'[v] = worker[v]
    BY <1>1, <1>3, <1>4, <1>5 DEF Job
  <1>7. /\ jobs' \in [Slots -> Job]
        /\ \A j \in Slots : jobs'[j] = Recovered(lapsed)[j]
                             \/ (j = i /\ jobs[i].status = "queued" /\ jobs'[j].status = "leased")
    <2>1. [Recovered(lapsed)[i] EXCEPT !.status = "leased"] \in Job  BY <1>3 DEF Job
    <2> QED BY <1>1, <1>3, <2>1 DEF Job
  <1>8. TypeOK'
    BY <1>1, <1>3, <1>6, <1>7, TypesOfVariables, TypesOfVariablesNext DEF IInv
  <1>9. \A v \in Workers : worker[v].stage \in AtWork =>
          /\ worker[v].job \in Slots \ lapsed
          /\ jobs'[worker[v].job].status = "leased"
          /\ worker[v].job # i \/ jobs[i].status # "queued"
    BY <1>1, <1>3, <1>7 DEF IInv, WorkersHoldItems, Orphans, AtWork
  <1>10. worker[w].stage \notin AtWork  BY <1>1 DEF AtWork
  <1>11. WorkersHoldItems'
    <2>1. CASE worker'[w] = worker[w]
      <3>1. \A v \in Workers : worker'[v] = worker[v]  BY <2>1, <1>6
      <3> QED BY <3>1, <1>9, HeldItemsStay
    <2>2. CASE worker'[w] = loop /\ jobs'[i].status = "leased" /\ jobs[i].status = "queued"
      <3>1. worker'[w].job = i  BY <2>2, <1>4
      <3>2. \A v \in Workers \ {w} : worker'[v].stage \in AtWork =>
              /\ worker'[v].job \in Slots /\ worker'[v].job # i
              /\ jobs'[worker'[v].job].status = "leased"
              /\ \A u \in Workers \ {w} :
                   worker'[u].stage \in AtWork /\ worker'[u].job = worker'[v].job => u = v
        BY <2>2, <1>6, <1>9 DEF IInv, WorkersHoldItems
      <3>3. jobs'[i].status = "leased"  BY <2>2
      <3> HIDE DEF loop
      <3> SUFFICES ASSUME NEW v \in Workers, worker'[v].stage \in AtWork
          PROVE  /\ worker'[v].job \in Slots
                 /\ jobs'[worker'[v].job].status = "leased"
                 /\ \A u \in Workers :
                      worker'[u].stage \in AtWork /\ worker'[u].job = worker'[v].job => u = v
        BY DEF WorkersHoldItems
      <3>4. CASE v = w  BY <3>1, <3>2, <3>3, <3>4
      <3>5. CASE v # w  BY <3>1, <3>2, <3>5
      <3> QED BY <3>4, <3>5
    <2> QED BY <1>6, <2>1, <2>2
  <1>12. TriageGoesOn'
    <2> SUFFICES ASSUME issue'.status = "triaging" PROVE TriageGoesOn'  BY DEF TriageGoesOn
    <2>1. \A j \in Slots : Active(j) => Active(j)'  BY <1>3, <1>7 DEF Active
    <2>2. WillEndTriage(loop) /\ ~Reports(worker[w])  BY <1>1, <1>4 DEF WillEndTriage, Reports
    <2> QED BY <1>3, <1>6, <1>10, <2>1, <2>2, TriageStays
  <1>13. VerdictGoesOn'
    <2> SUFFICES ASSUME issue'.status = "closed" PROVE VerdictGoesOn'  BY DEF VerdictGoesOn
    <2>1. \A j \in Slots : Active(j) => Active(j)'  BY <1>3, <1>7 DEF Active
    <2>2. WillReopen(loop)  BY <1>4 DEF WillReopen
    <2> QED BY <1>1, <1>3, <1>6, <1>10, <2>1, <2>2, VerdictStays
  <1>14. PlanClears'  BY <1>1, <1>3, ClearanceStays
  <1>15. ReopeningsWrite'  BY <1>1 DEF IInv, ReopeningsWrite
  <1> QED BY <1>8, <1>11, <1>12, <1>13, <1>14, <1>15 DEF IInv

\* A loop loads the row as it is, so the status it has loaded is the current one.
LEMMA LoadInv == ASSUME IInv, NEW w \in Workers, Load(w), UNCHANGED events PROVE IInv'
  <1>1. PICK stage \in {"opened", "loaded", "telling"}, columns \in SUBSET Columns :
          /\ "status" \in columns
          /\ worker' = [worker EXCEPT ![w].stage = stage, ![w].read = Loaded(columns)]
          /\ \/ worker[w].stage = "claimed" /\ stage = "opened"
             \/ worker[w].stage \in {"planning", "evaluating"} /\ stage = "loaded"
             \/ worker[w].stage = "reporting" /\ stage = "telling"
    <2>1. /\ Evaluation \in SUBSET Columns /\ "status" \in Evaluation
          /\ Planning \in SUBSET Columns /\ "status" \in Planning
          /\ Review \in SUBSET Columns /\ "status" \in Review
      BY DEF Columns, Evaluation, Planning, Review
    <2>2. worker[w].stage \in {"claimed", "planning", "evaluating", "reporting"}  BY DEF Load
    <2>3. CASE worker[w].stage = "claimed"
      <3>1. worker' = [worker EXCEPT ![w].stage = "opened", ![w].read = Loaded(Evaluation)]
        BY <2>3 DEF Load
      <3> QED BY <2>1, <2>3, <3>1
    <2>4. CASE worker[w].stage = "planning"
      <3>1. worker' = [worker EXCEPT ![w].stage = "loaded", ![w].read = Loaded(Planning)]
        BY <2>4 DEF Load
      <3> QED BY <2>1, <2>4, <3>1
    <2>5. CASE worker[w].stage = "evaluating"
      <3>1. worker' = [worker EXCEPT ![w].stage = "loaded", ![w].read = Loaded(Evaluation)]
        BY <2>5 DEF Load
      <3> QED BY <2>1, <2>5, <3>1
    <2>6. CASE worker[w].stage = "reporting"
      <3>1. worker' = [worker EXCEPT ![w].stage = "telling", ![w].read = Loaded(Review)]
        BY <2>6 DEF Load
      <3> QED BY <2>1, <2>6, <3>1
    <2> QED BY <2>2, <2>3, <2>4, <2>5, <2>6
  <1>2. UNCHANGED <<issue, jobs, operator, plan, judgedGood, task>>  BY DEF Load
  <1>3. Loaded(columns) \in Issue /\ Loaded(columns).status = issue.status
    BY <1>1, LoadedColumns DEF IInv
  <1> DEFINE loop == [worker[w] EXCEPT !.stage = stage, !.read = Loaded(columns)]
  <1>4. /\ loop \in Loop /\ loop.stage = stage /\ loop.job = worker[w].job
        /\ loop.read = Loaded(columns)
    BY <1>3, TypesOfVariables DEF IInv, Loop, Stages, AtWork
  <1>5. worker \in [Workers -> Loop]  BY TypesOfVariables DEF IInv
  <1>6. worker' = [worker EXCEPT ![w] = loop]  BY <1>1, <1>5
  <1>7. /\ worker' \in [Workers -> Loop] /\ worker'[w] = loop
        /\ \A v \in Workers \ {w} : worker'[v] = worker[v]
    BY <1>4, <1>6, SetLoop DEF IInv
  <1>8. TypeOK'
    BY <1>2, <1>7, TypesOfVariables, TypesOfVariablesNext DEF IInv
  <1>9. worker'[w].stage \in AtWork => worker[w].stage \in AtWork /\ worker'[w].job = worker[w].job
    BY <1>1, <1>4, <1>7 DEF AtWork
  <1>10. WorkersHoldItems'
    BY <1>2, <1>7, <1>9, HeldItemsStay DEF IInv, WorkersHoldItems
  <1>11. TriageGoesOn'
    <2> SUFFICES ASSUME issue'.status = "triaging" PROVE TriageGoesOn'  BY DEF TriageGoesOn
    <2>1. WillEndTriage(loop)  BY <1>1, <1>2, <1>3, <1>4 DEF WillEndTriage
    <2>2. Reports(worker[w]) => Reports(loop)
      BY <1>1, <1>2, <1>3, <1>4 DEF Reports
    <2> QED BY <1>2, <1>7, <2>1, <2>2, TriageStays DEF Active
  <1>12. VerdictGoesOn'
    <2> SUFFICES ASSUME issue'.status = "closed" PROVE VerdictGoesOn'  BY DEF VerdictGoesOn
    <2>1. worker'[w].stage \in AtWork => WillReopen(loop) \/ ~WillReopen(worker[w])
      BY <1>1, <1>2, <1>3, <1>4 DEF WillReopen
    <2> QED BY <1>2, <1>7, <1>9, <2>1, VerdictStays DEF Active
  <1>13. PlanClears'  BY <1>2, ClearanceStays
  <1>14. ReopeningsWrite'  BY <1>2 DEF IInv, ReopeningsWrite
  <1> QED BY <1>8, <1>10, <1>11, <1>12, <1>13, <1>14 DEF IInv
\* A loop begins with the item it holds, which keeps a new triage going.
LEMMA BeginInv == ASSUME IInv, NEW w \in Workers, Begin(w), UNCHANGED events PROVE IInv'
  <1> DEFINE read == worker[w].read
  <1>1. read \in Issue /\ worker[w].stage = "opened" /\ UNCHANGED <<jobs, operator, plan, judgedGood, task>>
    BY TypesOfVariables DEF Begin, IInv, Loop
  <1>2. PICK stage \in {"planning", "evaluating"}, new \in Issue :
          /\ GoOn(w, stage)
          /\ issue' = Written(read, new)
          /\ new.status \in {"triaging", "evaluating"}
          /\ new.boundary = read.boundary /\ new.brief = read.brief
          /\ new.recommendation = read.recommendation /\ new.findings = read.findings
    <2> DEFINE triage == [read EXCEPT !.status = "triaging"]
               judge == [read EXCEPT !.status = "evaluating", !.judging = TRUE]
    <2>1. /\ triage \in Issue /\ triage.status = "triaging"
          /\ triage.boundary = read.boundary /\ triage.brief = read.brief
          /\ triage.recommendation = read.recommendation /\ triage.findings = read.findings
      BY <1>1, SomeStatuses DEF Issue
    <2>2. /\ judge \in Issue /\ judge.status = "evaluating"
          /\ judge.boundary = read.boundary /\ judge.brief = read.brief
          /\ judge.recommendation = read.recommendation /\ judge.findings = read.findings
      BY <1>1, SomeStatuses DEF Issue
    <2>3. \/ issue' = Written(read, triage) /\ GoOn(w, "planning")
          \/ issue' = Written(read, judge) /\ GoOn(w, "evaluating")
      BY DEF Begin
    <2> QED BY <2>1, <2>2, <2>3
  <1>3. /\ issue' \in Issue
        /\ issue'.status = IF new.status # read.status THEN new.status ELSE issue.status
    BY <1>1, <1>2, WrittenColumns DEF IInv, Columns
  <1>4. /\ worker' \in [Workers -> Loop]
        /\ worker'[w].stage = stage /\ worker'[w].job = worker[w].job
        /\ \A v \in Workers \ {w} : worker'[v] = worker[v]
    BY <1>2, GoOnKeepsItem DEF IInv, Stages, AtWork
  <1>5. TypeOK'
    BY <1>1, <1>3, <1>4, TypesOfVariables, TypesOfVariablesNext DEF IInv
  <1>6. WorkersHoldItems'
    BY <1>1, <1>4, HeldItemsStay DEF IInv, WorkersHoldItems, AtWork
  <1>7. TriageGoesOn'
    <2>1. PICK i \in Slots : i = worker[w].job /\ jobs[i].status = "leased"
      BY <1>1 DEF IInv, WorkersHoldItems, AtWork
    <2>2. Active(i)'  BY <1>1, <2>1 DEF Active
    <2>3. WillEndTriage(worker'[w])  BY <1>4 DEF WillEndTriage
    <2>4. worker'[w].stage \in AtWork  BY <1>4 DEF AtWork
    <2>5. KeepsTriage(i)'
      BY <1>4, <1>6, <2>1, <2>3, <2>4 DEF WorkersHoldItems, KeepsTriage
    <2> QED BY <2>2, <2>5 DEF TriageGoesOn
  <1>8. VerdictGoesOn'
    <2> SUFFICES ASSUME issue'.status = "closed" PROVE VerdictGoesOn'  BY DEF VerdictGoesOn
    <2>1. read.status # "closed"  BY <1>2, <1>3
    <2>2. ~WillReopen(worker[w]) /\ worker[w].stage \in AtWork
      BY <1>1, <2>1 DEF WillReopen, AtWork
    <2> QED BY <1>1, <1>2, <1>3, <1>4, <2>2, VerdictStays DEF Active
  <1>9. PlanClears'  BY <1>1, <1>2, WrittenApprovable, ClearanceStays DEF IInv
  <1>10. ReopeningsWrite'  BY <1>1 DEF IInv, ReopeningsWrite
  <1> QED BY <1>5, <1>6, <1>7, <1>8, <1>9, <1>10 DEF IInv

\* A loop that selects the newest revision, is refused or fails, changes its
\* stage only.
LEMMA StageInv ==
  ASSUME IInv, NEW w \in Workers,
         \/ ReadRevision(w) /\ UNCHANGED events
         \/ Raise(w)
         \/ worker[w].stage = "numbered" /\ Refused(w) /\ UNCHANGED <<task, events>>
  PROVE  IInv'
  <1>1. /\ worker[w].stage \in {"planning", "evaluating", "loaded", "numbered"}
        /\ UNCHANGED <<issue, jobs, operator, plan, judgedGood, task>>
        /\ events' \in 0..MaxEvents
    BY IssueAssumption, TypesOfVariables DEF ReadRevision, Raise, Refused, Event, IInv
  <1>2. /\ worker' \in [Workers -> Loop] /\ worker'[w].job = worker[w].job
        /\ \/ worker'[w].stage = "raised"
           \/ /\ worker[w].stage = "loaded" /\ worker'[w].stage = "numbered"
              /\ worker'[w].read = worker[w].read
        /\ \A v \in Workers \ {w} : worker'[v] = worker[v]
    <2>1. CASE GoOn(w, "raised")
      BY <2>1, GoOnKeepsItem DEF IInv, Stages, AtWork
    <2>2. CASE ReadRevision(w)
      <3> DEFINE loop == [worker[w] EXCEPT !.stage = "numbered"]
      <3>1. loop \in Loop /\ loop.stage = "numbered" /\ loop.job = worker[w].job
            /\ loop.read = worker[w].read
        BY TypesOfVariables DEF IInv, Loop, Stages, AtWork
      <3>2. worker' = [worker EXCEPT ![w] = loop]  BY <2>2 DEF ReadRevision, Advance
      <3> QED BY <2>2, <3>1, <3>2, SetLoop DEF ReadRevision, IInv
    <2> QED BY <2>1, <2>2 DEF Raise, Refused
  <1>3. TypeOK'  BY <1>1, <1>2, TypesOfVariables, TypesOfVariablesNext DEF IInv
  <1>4. worker[w].stage \in AtWork  BY <1>1 DEF AtWork
  <1>5. WorkersHoldItems'
    BY <1>1, <1>2, <1>4, HeldItemsStay DEF IInv, WorkersHoldItems
  <1>6. TriageGoesOn'
    <2>1. WillEndTriage(worker'[w]) \/ ~WillEndTriage(worker[w])  BY <1>2 DEF WillEndTriage
    <2>2. ~Reports(worker[w])  BY <1>1 DEF Reports
    <2> QED BY <1>1, <1>2, <1>4, <2>1, <2>2, TriageStays DEF Active
  <1>7. VerdictGoesOn'
    <2>1. ~WillReopen(worker[w])  BY <1>1 DEF WillReopen
    <2> QED BY <1>1, <1>2, <1>4, <2>1, VerdictStays DEF Active
  <1>8. PlanClears'  BY <1>1, ClearanceStays
  <1>9. ReopeningsWrite'  BY <1>1 DEF IInv, ReopeningsWrite
  <1> QED BY <1>3, <1>5, <1>6, <1>7, <1>8, <1>9 DEF IInv

\* The end of a triage writes the plan, and what it clears unless the row was
\* changed since it was loaded; that it was is noted with the plan.
LEMMA EndTriageInv == ASSUME IInv, NEW w \in Workers, EndTriage(w), UNCHANGED events PROVE IInv'
  <1>0. CASE worker[w].overtaken  BY <1>0, StageInv DEF EndTriage
  <1>a. CASE ~worker[w].overtaken
    <2> DEFINE read == worker[w].read
    <2>1. /\ worker[w].stage = "numbered" /\ read \in Issue
          /\ Executed(w, "triage") /\ UNCHANGED <<jobs, operator, judgedGood, task, events>>
      BY <1>a, TypesOfVariables DEF EndTriage, IInv, Loop
    <2>2. PICK o \in Outcomes :
            /\ issue' \in Assessed(read, Replanned(read, o.columns))
            /\ plan' = [passed |-> o.passed, internal |-> o.internal,
                        stale |-> read # Loaded(Planning)]
      BY <1>a DEF EndTriage
    <2> DEFINE new == Replanned(read, o.columns)
    <2>3. /\ new \in Issue
          /\ \A c \in Planning : new[c] = o.columns[c]
      <3>1. new = [c \in Columns |-> IF c \in Planning THEN o.columns[c] ELSE read[c]]
        BY <2>1, RowOfColumns DEF Replanned
      <3>2. Planning = {"status", "mode", "recommendation", "findings", "brief", "boundary"}
        BY DEF Planning, Review
      <3>3. /\ new.status = o.columns.status /\ new.boundary = o.columns.boundary
            /\ new.mode = o.columns.mode /\ new.recommendation = o.columns.recommendation
            /\ new.findings = o.columns.findings /\ new.brief = o.columns.brief
            /\ new.judging = read.judging /\ new.linked = read.linked
        BY <3>1, <3>2 DEF Columns
      <3>4. /\ o.columns.status \in Statuses
            /\ o.columns.boundary \in {"none", "internal", "external", "scope"}
            /\ o.columns.mode \in {"none", "agent", "people", "other"}
            /\ o.columns.recommendation \in {"none", "approve", "revise"}
            /\ o.columns.findings \in {"none", "blocking"}
            /\ o.columns.brief \in {"none", "open", "ready"}
        BY OutcomeIsReviewed, SomeStatuses DEF Boundaries
      <3>5. new = [c \in Columns |-> new[c]]  BY <3>1
      <3>6. new \in Issue  BY <2>1, <3>3, <3>4, <3>5 DEF Issue, Columns
      <3> QED BY <3>1, <3>2, <3>6 DEF Columns
    <2>4. /\ issue' \in Issue
          /\ \A c \in Planning : issue'[c] = new[c] \/ (new[c] = read[c] /\ issue'[c] = issue[c])
      BY <2>1, <2>2, <2>3, AssessedColumns DEF IInv, Planning, Review, Columns
    <2>5. issue'.status = new.status \/ (new.status = read.status /\ issue'.status = issue.status)
      BY <2>4 DEF Planning, Review
    <2>6. new.status \in {"out_of_scope", "waiting_approval", "plan_revision_required"}
      BY <2>3, OutcomeIsReviewed DEF Planning, Review
    <2>7. /\ worker' \in [Workers -> Loop]
          /\ worker'[w].stage = "executed" /\ worker'[w].job = worker[w].job
          /\ \A v \in Workers \ {w} :
               /\ worker'[v].job = worker[v].job /\ worker'[v].stage = worker[v].stage
               /\ worker'[v].read = worker[v].read
      BY <2>1, ExecutedKeepsItems DEF IInv
    <2>8. TypeOK'
      <3>1. (read # Loaded(Planning)) \in BOOLEAN  OBVIOUS
      <3>2. plan' \in [passed : BOOLEAN, internal : BOOLEAN, stale : BOOLEAN]
        BY <2>2, <3>1, OutcomeIsReviewed
      <3> QED BY <2>1, <2>4, <2>7, <3>2, TypesOfVariables, TypesOfVariablesNext DEF IInv
    <2>9. worker[w].stage \in AtWork  BY <2>1 DEF AtWork
    <2>10. WorkersHoldItems'
      BY <2>1, <2>7, <2>9, HeldItemsStay DEF IInv, WorkersHoldItems
    <2>11. TriageGoesOn'
      <3> SUFFICES ASSUME issue'.status = "triaging" PROVE TriageGoesOn'  BY DEF TriageGoesOn
      <3>1. issue.status = "triaging" /\ ~WillEndTriage(worker[w])
        BY <2>1, <2>5, <2>6 DEF WillEndTriage
      <3>2. \A v \in Workers \ {w} :
              /\ WillEndTriage(worker'[v]) <=> WillEndTriage(worker[v])
              /\ Reports(worker'[v]) <=> Reports(worker[v])
        BY <2>7 DEF WillEndTriage, Reports
      <3>3. ~Reports(worker[w])  BY <2>1 DEF Reports
      <3> QED BY <2>1, <2>7, <2>9, <3>1, <3>2, <3>3, TriageStays DEF Active
    <2>12. VerdictGoesOn'
      <3>1. issue'.status = "closed" => issue.status = "closed"  BY <2>5, <2>6
      <3>2. ~WillReopen(worker[w])  BY <2>1 DEF WillReopen
      <3>3. \A v \in Workers \ {w} : WillReopen(worker'[v]) <=> WillReopen(worker[v])
        BY <2>7 DEF WillReopen
      <3> QED BY <2>1, <2>7, <2>9, <3>1, <3>2, <3>3, VerdictStays DEF Active
    <2>13. PlanClears'
      <3> SUFFICES ASSUME Approvable(issue'), ~plan'.stale
          PROVE  plan'.passed /\ (plan'.internal \/ issue'.boundary = "external")
        BY DEF PlanClears
      <3>1. /\ plan'.passed = o.passed /\ plan'.internal = o.internal
            /\ read = Loaded(Planning)
        BY <2>2
      <3>2. \A c \in Planning : read[c] = issue[c]
        BY <3>1, LoadedColumns DEF IInv, Planning, Review, Columns
      <3>3. \A c \in Planning : issue'[c] = o.columns[c]  BY <2>3, <2>4, <3>2
      <3>4. o.columns.brief = "ready" /\ issue'.boundary = o.columns.boundary
        BY <3>3 DEF Approvable, Planning, Review
      <3> QED BY <3>1, <3>4, OutcomeIsReviewed
    <2>14. ReopeningsWrite'  BY <2>1 DEF IInv, ReopeningsWrite
    <2> QED BY <2>8, <2>10, <2>11, <2>12, <2>13, <2>14 DEF IInv
  <1> QED BY <1>0, <1>a

\* The verdict of an evaluation: a failed one has asked for an item when it is
\* committed, and does not leave a triage that it has loaded.
LEMMA JudgementInv ==
  ASSUME IInv, NEW read \in Issue, NEW passed \in BOOLEAN,
         issue' = Written(read, Judged(read, passed)), AddEvaluation(passed), UNCHANGED plan,
         \A v \in Workers : worker'[v].stage \in AtWork =>
           worker[v].stage \in AtWork /\ worker'[v].job = worker[v].job
  PROVE  /\ issue' \in Issue /\ judgedGood' \in BOOLEAN
         /\ jobs' \in [Slots -> Job] /\ \A i \in Slots : Active(i) => jobs'[i] = jobs[i]
         /\ issue'.status = "triaging" => issue.status = "triaging" /\ read.status # "triaging"
         /\ VerdictGoesOn' /\ PlanClears' /\ WorkersHoldItems'
  <1> DEFINE new == Judged(read, passed)
  <1>1. /\ new \in Issue /\ new.status \in {"closed", "detected"}
        /\ new.boundary = read.boundary /\ new.brief = read.brief
        /\ new.recommendation = read.recommendation /\ new.findings = read.findings
    BY SomeStatuses DEF Judged, Issue
  <1>2. /\ issue' \in Issue
        /\ issue'.status = IF new.status # read.status THEN new.status ELSE issue.status
    BY <1>1, WrittenColumns DEF IInv, Columns
  <1>3. judgedGood' = passed /\ judgedGood' \in BOOLEAN  BY DEF AddEvaluation
  <1>4. jobs' \in [Slots -> Job] /\ \A i \in Slots : Active(i) => jobs'[i] = jobs[i]
    <2>1. Enqueued("triage")  BY DEF AddEvaluation, Enqueue, Enqueued
    <2> QED BY <2>1, EnqueueKeepsOpenItems DEF IInv
  <1>5. WorkersHoldItems'
    BY <1>4, HeldItemsStay DEF IInv, WorkersHoldItems, Active
  <1>6. VerdictGoesOn'
    <2>1. CASE passed  BY <1>3, <2>1 DEF VerdictGoesOn
    <2>2. CASE ~passed
      <3>1. PICK i \in Slots : ~Active(i) /\ jobs' = [jobs EXCEPT ![i] = NewJob("triage")]
        BY <2>2 DEF AddEvaluation, Enqueue
      <3>2. Active(i)'
        BY <3>1, TypesOfVariables DEF Active, NewJob, Free, IInv
      <3>3. KeepsVerdict(i)'
        BY <3>1 DEF IInv, WorkersHoldItems, Active, KeepsVerdict
      <3> QED BY <3>2, <3>3 DEF VerdictGoesOn
    <2> QED BY <2>1, <2>2
  <1>7. PlanClears'  BY <1>1, WrittenApprovable, ClearanceStays DEF IInv
  <1> QED BY <1>1, <1>2, <1>3, <1>4, <1>5, <1>6, <1>7

\* An evaluation by a loop.
LEMMA EndEvaluationInv == ASSUME IInv, NEW w \in Workers, EndEvaluation(w), UNCHANGED events PROVE IInv'
  <1>0. CASE worker[w].overtaken  BY <1>0, StageInv DEF EndEvaluation
  <1>a. CASE ~worker[w].overtaken
    <2> DEFINE read == worker[w].read
    <2>1. /\ worker[w].stage = "numbered" /\ read \in Issue
          /\ Executed(w, "evaluation") /\ UNCHANGED <<plan, task, events>>
          /\ operator' = [o \in Operators |-> OvertakeRequest(o)]
      BY <1>a, TypesOfVariables DEF EndEvaluation, IInv, Loop
    <2>2. PICK passed \in BOOLEAN :
            issue' = Written(read, Judged(read, passed)) /\ AddEvaluation(passed)
      BY <1>a DEF EndEvaluation
    <2>3. /\ worker' \in [Workers -> Loop]
          /\ worker'[w].stage = "executed" /\ worker'[w].job = worker[w].job
          /\ \A v \in Workers \ {w} :
               /\ worker'[v].job = worker[v].job /\ worker'[v].stage = worker[v].stage
               /\ worker'[v].read = worker[v].read
      BY <2>1, ExecutedKeepsItems DEF IInv
    <2>4. worker[w].stage \in AtWork  BY <2>1 DEF AtWork
    <2>5. /\ issue' \in Issue /\ judgedGood' \in BOOLEAN
          /\ jobs' \in [Slots -> Job] /\ \A i \in Slots : Active(i) => jobs'[i] = jobs[i]
          /\ issue'.status = "triaging" => issue.status = "triaging" /\ read.status # "triaging"
          /\ VerdictGoesOn' /\ PlanClears' /\ WorkersHoldItems'
      BY <2>1, <2>2, <2>3, <2>4, JudgementInv
    <2>6. TypeOK'
      <3>1. operator' \in [Operators -> Request]  BY <2>1, OvertakenKeepsRest DEF IInv
      <3> QED BY <2>1, <2>3, <2>5, <3>1, TypesOfVariables, TypesOfVariablesNext DEF IInv
    <2>7. TriageGoesOn'
      <3> SUFFICES ASSUME issue'.status = "triaging" PROVE TriageGoesOn'  BY DEF TriageGoesOn
      <3>1. issue.status = "triaging" /\ ~WillEndTriage(worker[w])
        BY <2>1, <2>5 DEF WillEndTriage
      <3>2. \A v \in Workers \ {w} :
              /\ WillEndTriage(worker'[v]) <=> WillEndTriage(worker[v])
              /\ Reports(worker'[v]) <=> Reports(worker[v])
        BY <2>3 DEF WillEndTriage, Reports
      <3>3. ~Reports(worker[w])  BY <2>1 DEF Reports
      <3>4. \A i \in Slots : Active(i) => Active(i)'  BY <2>5 DEF Active
      <3> QED BY <2>3, <2>4, <3>1, <3>2, <3>3, <3>4, TriageStays
    <2>8. ReopeningsWrite'
      <3>1. \A o \in Operators : operator'[o].act = operator[o].act /\ operator'[o].read = operator[o].read
        BY <2>1, TypesOfVariables DEF OvertakeRequest, IInv, Request
      <3> QED BY <3>1 DEF IInv, ReopeningsWrite
    <2> QED BY <2>5, <2>6, <2>7, <2>8 DEF IInv
  <1> QED BY <1>0, <1>a
\* The end of an item: the triage it may have left is told to the issue.
LEMMA FinishInv == ASSUME IInv, NEW w \in Workers, Finish(w), UNCHANGED events PROVE IInv'
  <1> DEFINE i == worker[w].job
  <1>1. /\ worker[w].stage = "executed" /\ jobs' = [jobs EXCEPT ![i] = Free]
        /\ issue' = issue \/ issue' = [issue EXCEPT !.status = "rejected"]
        /\ GoOn(w, "reporting") \/ Leave(w)
        /\ UNCHANGED <<operator, plan, judgedGood, task>>
    BY DEF Finish, Closed
  <1>2. /\ worker' \in [Workers -> Loop] /\ worker'[w].stage \in {"idle", "reporting"}
        /\ \A v \in Workers \ {w} : worker'[v] = worker[v]
    BY <1>1, GoOnKeepsItem, LeaveIsIdle DEF IInv, Stages
  <1>3. /\ issue' \in Issue
        /\ issue' = issue \/ issue'.status = "rejected"
    BY <1>1, SomeStatuses, TypesOfVariables DEF IInv, Issue
  <1>4. /\ i \in Slots /\ worker[w].stage \in AtWork /\ worker'[w].stage \notin AtWork
        /\ \A v \in Workers \ {w} : worker[v].stage \in AtWork => worker[v].job # i
    BY <1>1, <1>2 DEF IInv, WorkersHoldItems, AtWork
  <1>5. jobs' \in [Slots -> Job] /\ \A j \in Slots \ {i} : jobs'[j] = jobs[j]
    BY <1>1, <1>4, TypesOfVariables DEF IInv, Job, Free
  <1>6. TypeOK'
    BY <1>1, <1>2, <1>3, <1>5, TypesOfVariables, TypesOfVariablesNext DEF IInv
  <1>7. WorkersHoldItems'
    BY <1>2, <1>4, <1>5, HeldItemsStay DEF IInv, WorkersHoldItems
  <1>8. TriageGoesOn'
    <2> SUFFICES ASSUME issue'.status = "triaging" PROVE TriageGoesOn'  BY DEF TriageGoesOn
    <2>1. ~KeepsTriage(i)  BY <1>1, <1>4 DEF KeepsTriage, WillEndTriage
    <2>2. \A j \in Slots : Active(j) /\ KeepsTriage(j) => Active(j)'
      BY <1>5, <2>1 DEF Active
    <2>3. ~Reports(worker[w])  BY <1>1 DEF Reports
    <2>4. issue.status = "triaging"  BY <1>3
    <2>5. \A v \in Workers : worker'[v].stage \in AtWork => worker'[v] = worker[v]
      BY <1>2, <1>4
    <2>6. \A v \in Workers : Reports(worker[v]) => Reports(worker'[v])  BY <1>2, <2>3
    <2> QED BY <2>2, <2>4, <2>5, <2>6, TriageStays
  <1>9. VerdictGoesOn'
    <2>1. ~KeepsVerdict(i)  BY <1>1, <1>4 DEF KeepsVerdict, WillReopen
    <2>2. \A j \in Slots : Active(j) /\ KeepsVerdict(j) => Active(j)'
      BY <1>5, <2>1 DEF Active
    <2>3. issue'.status = "closed" => issue.status = "closed"  BY <1>3
    <2>4. \A v \in Workers : worker'[v].stage \in AtWork => worker'[v] = worker[v]
      BY <1>2, <1>4
    <2> QED BY <1>1, <2>2, <2>3, <2>4, VerdictStays
  <1>10. PlanClears'  BY <1>1, <1>3, ClearanceStays DEF Approvable
  <1>11. ReopeningsWrite'  BY <1>1 DEF IInv, ReopeningsWrite
  <1> QED BY <1>6, <1>7, <1>8, <1>9, <1>10, <1>11 DEF IInv

\* An abandoned item goes back to the queue and its triage is taken back, or
\* its failure will be reported.
LEMMA AbandonInv == ASSUME IInv, NEW w \in Workers, Abandon(w), UNCHANGED events PROVE IInv'
  <1> DEFINE i == worker[w].job
  <1>1. /\ worker[w].stage = "raised"
        /\ UNCHANGED <<operator, plan, judgedGood, task>>
        /\ \/ issue' = IssueAfter({i}) /\ jobs' = Recovered({i}) /\ Leave(w)
           \/ UNCHANGED issue /\ jobs' = [jobs EXCEPT ![i] = Free] /\ GoOn(w, "reporting")
    BY DEF Abandon, Closed
  <1>2. /\ i \in Slots /\ worker[w].stage \in AtWork
        /\ \A v \in Workers \ {w} : worker[v].stage \in AtWork => worker[v].job # i
    BY <1>1 DEF IInv, WorkersHoldItems, AtWork
  <1>3. /\ worker' \in [Workers -> Loop] /\ worker'[w].stage \in {"idle", "reporting"}
        /\ \A v \in Workers \ {w} : worker'[v] = worker[v]
    BY <1>1, GoOnKeepsItem, LeaveIsIdle DEF IInv, Stages
  <1>4. /\ issue' \in Issue
        /\ Approvable(issue') => Approvable(issue) /\ issue'.boundary = issue.boundary
        /\ issue'.status = "closed" => issue.status = "closed"
        /\ issue'.status = "triaging" => worker'[w].stage = "reporting"
        /\ jobs' \in [Slots -> Job] /\ \A j \in Slots \ {i} : jobs'[j] = jobs[j]
    <2>1. CASE issue' = IssueAfter({i}) /\ jobs' = Recovered({i}) /\ Leave(w)
      BY <2>1, <1>2, RecoveryOfLeases DEF IInv
    <2>2. CASE UNCHANGED issue /\ jobs' = [jobs EXCEPT ![i] = Free] /\ GoOn(w, "reporting")
      <3>1. worker'[w].stage = "reporting"  BY <2>2, GoOnKeepsItem DEF IInv, Stages
      <3> QED BY <2>2, <3>1, <1>2, TypesOfVariables DEF IInv, Job, Free
    <2> QED BY <1>1, <2>1, <2>2
  <1>5. worker'[w].stage \notin AtWork  BY <1>3 DEF AtWork
  <1>6. TypeOK'
    BY <1>1, <1>3, <1>4, TypesOfVariables, TypesOfVariablesNext DEF IInv
  <1>7. WorkersHoldItems'
    BY <1>2, <1>3, <1>4, <1>5, HeldItemsStay DEF IInv, WorkersHoldItems
  <1>8. TriageGoesOn'  BY <1>4 DEF TriageGoesOn, Reports
  <1>9. VerdictGoesOn'
    <2>1. ~KeepsVerdict(i)  BY <1>1, <1>2 DEF KeepsVerdict, WillReopen
    <2>2. \A j \in Slots : Active(j) /\ KeepsVerdict(j) => Active(j)'
      BY <1>4, <2>1 DEF Active
    <2>3. \A v \in Workers : worker'[v].stage \in AtWork => worker'[v] = worker[v]
      BY <1>3, <1>5
    <2> QED BY <1>1, <1>4, <2>2, <2>3, VerdictStays
  <1>10. PlanClears'  BY <1>1, <1>4, ClearanceStays
  <1>11. ReopeningsWrite'  BY <1>1 DEF IInv, ReopeningsWrite
  <1> QED BY <1>6, <1>7, <1>8, <1>9, <1>10, <1>11 DEF IInv

\* The report of a failure ends the triage it has read.
LEMMA ReportFailureInv == ASSUME IInv, NEW w \in Workers, ReportFailure(w), UNCHANGED events PROVE IInv'
  <1> DEFINE read == worker[w].read
             new == [read EXCEPT !.status = "triage_failed", !.mode = "other",
                       !.recommendation = "none", !.findings = "blocking", !.brief = "open"]
  <1>1. /\ worker[w].stage = "telling" /\ Leave(w) /\ read \in Issue
        /\ issue' \in Assessed(read, new)
        /\ UNCHANGED <<jobs, operator, plan, judgedGood, task>>
    BY TypesOfVariables DEF ReportFailure, IInv, Loop
  <1>2. /\ worker' \in [Workers -> Loop] /\ worker'[w].stage = "idle"
        /\ \A v \in Workers \ {w} : worker'[v] = worker[v]
    BY <1>1, LeaveIsIdle DEF IInv
  <1>3. /\ new \in Issue /\ new.status = "triage_failed" /\ new.boundary = read.boundary
        /\ new.recommendation = "none" /\ new.findings = "blocking" /\ new.brief = "open"
    BY <1>1, SomeStatuses DEF Issue
  <1>4. issue' \in Issue  BY <1>1, <1>3, AssessedColumns DEF IInv
  <1>5. issue'.status = IF new.status # read.status THEN new.status ELSE issue.status
    <2>1. "triage_failed" \notin Classes  BY DEF Classes
    <2> QED BY <1>1, <1>3, <1>4, <2>1, WrittenStatus DEF IInv
  <1>6. Approvable(issue') => Approvable(issue) /\ issue'.boundary \in {issue.boundary, "external"}
    <2> HIDE DEF new
    <2>1. \A c \in {"status", "recommendation", "findings", "brief", "boundary"} :
            \/ issue'[c] = IF new[c] # read[c] THEN new[c] ELSE issue[c]
            \/ issue'[c] = new[c] /\ new[c] \in Classes
      BY <1>1, <1>3, AssessedColumns DEF IInv, Columns
    <2>2. new.boundary \in Classes => new.boundary = "external"
      BY <1>3 DEF Classes, Issue
    <2> QED BY <1>3, <1>5, <2>1, <2>2 DEF Approvable
  <1>7. TypeOK'
    BY <1>1, <1>2, <1>4, TypesOfVariables, TypesOfVariablesNext DEF IInv
  <1>8. \A v \in Workers : worker'[v].stage \in AtWork => worker'[v] = worker[v]
    BY <1>2 DEF AtWork
  <1>9. WorkersHoldItems'
    BY <1>1, <1>8, HeldItemsStay DEF IInv, WorkersHoldItems
  <1>10. TriageGoesOn'
    <2> SUFFICES ASSUME issue'.status = "triaging" PROVE TriageGoesOn'  BY DEF TriageGoesOn
    <2>1. issue.status = "triaging" /\ read.status # "triaging"  BY <1>3, <1>5
    <2>2. ~Reports(worker[w])  BY <1>1, <2>1 DEF Reports
    <2>3. \A v \in Workers : Reports(worker[v]) => Reports(worker'[v])  BY <1>2, <2>2
    <2> QED BY <1>1, <1>8, <2>1, <2>3, TriageStays DEF Active
  <1>11. VerdictGoesOn'  BY <1>1, <1>3, <1>5, <1>8, VerdictStays DEF Active
  <1>12. PlanClears'  BY <1>1, <1>6, ClearanceStays
  <1>13. ReopeningsWrite'  BY <1>1 DEF IInv, ReopeningsWrite
  <1> QED BY <1>7, <1>9, <1>10, <1>11, <1>12, <1>13 DEF IInv

\* A queued item is closed together with the issue, a leased one is marked.
LEMMA CancelJobInv == ASSUME IInv, NEW i \in Slots, CancelJob(i) PROVE IInv'
  <1>1. /\ UNCHANGED <<worker, operator, plan, judgedGood, task>>
        /\ events' \in 0..MaxEvents
        /\ \/ /\ jobs[i].status = "queued" /\ jobs' = [jobs EXCEPT ![i] = Free]
              /\ issue' = [issue EXCEPT !.status = "rejected"]
           \/ jobs' = [jobs EXCEPT ![i].cancel = TRUE] /\ UNCHANGED issue
    BY IssueAssumption, TypesOfVariables DEF CancelJob, Closed, Event, IInv
  <1>2. /\ issue' \in Issue
        /\ issue' = issue \/ issue'.status = "rejected"
    BY <1>1, SomeStatuses, TypesOfVariables DEF IInv, Issue
  <1>3. /\ jobs' \in [Slots -> Job]
        /\ \A j \in Slots : jobs[j].status = "leased" => jobs'[j].status = "leased"
        /\ issue'.status # "rejected" => \A j \in Slots : jobs'[j].status = jobs[j].status
    <2>0. jobs \in [Slots -> Job]  BY TypesOfVariables DEF IInv
    <2>1. CASE jobs' = [jobs EXCEPT ![i].cancel = TRUE]
      <3>1. /\ [jobs[i] EXCEPT !.cancel = TRUE] \in Job
            /\ [jobs[i] EXCEPT !.cancel = TRUE].status = jobs[i].status
        BY <2>0 DEF Job
      <3>2. jobs' = [jobs EXCEPT ![i] = [jobs[i] EXCEPT !.cancel = TRUE]]  BY <2>1
      <3> QED BY <2>0, <3>1, <3>2
    <2>2. CASE /\ jobs[i].status = "queued" /\ jobs' = [jobs EXCEPT ![i] = Free]
               /\ issue' = [issue EXCEPT !.status = "rejected"]
      BY <2>0, <2>2, TypesOfVariables DEF IInv, Job, Free, Issue
    <2> QED BY <1>1, <2>1, <2>2
  <1>4. TypeOK'
    BY <1>1, <1>2, <1>3, TypesOfVariables, TypesOfVariablesNext DEF IInv
  <1>5. WorkersHoldItems'  BY <1>1, <1>3, HeldItemsStay DEF IInv, WorkersHoldItems
  <1>6. TriageGoesOn'
    <2> SUFFICES ASSUME issue'.status = "triaging" PROVE TriageGoesOn'  BY DEF TriageGoesOn
    <2>1. \A j \in Slots : Active(j) => Active(j)'  BY <1>3 DEF Active
    <2> QED BY <1>1, <1>2, <2>1, TriageStays
  <1>7. VerdictGoesOn'
    <2> SUFFICES ASSUME issue'.status = "closed" PROVE VerdictGoesOn'  BY DEF VerdictGoesOn
    <2>1. \A j \in Slots : Active(j) => Active(j)'  BY <1>3 DEF Active
    <2> QED BY <1>1, <1>2, <2>1, VerdictStays
  <1>8. PlanClears'  BY <1>1, <1>2, ClearanceStays DEF Approvable
  <1>9. ReopeningsWrite'  BY <1>1 DEF IInv, ReopeningsWrite
  <1> QED BY <1>4, <1>5, <1>6, <1>7, <1>8, <1>9 DEF IInv

\* What neither ends a triage nor closes an issue, and leaves the loops alone.
LEMMA OutsideInv ==
  ASSUME IInv,
         issue' \in Issue,
         Approvable(issue') => Approvable(issue) /\ issue'.boundary = issue.boundary,
         issue'.status \in {"closed", "triaging"} => issue.status = issue'.status,
         jobs' \in [Slots -> Job], \A i \in Slots : Active(i) => jobs'[i] = jobs[i],
         operator' \in [Operators -> Request], ReopeningsWrite',
         task' \in ImplementationTask, events' \in 0..MaxEvents,
         UNCHANGED <<worker, plan, judgedGood>>
  PROVE  IInv'
  <1>1. TypeOK'  BY TypesOfVariables, TypesOfVariablesNext DEF IInv
  <1>2. WorkersHoldItems'  BY HeldItemsStay DEF IInv, WorkersHoldItems, Active
  <1>3. TriageGoesOn'  BY TriageStays DEF Active
  <1>4. VerdictGoesOn'  BY VerdictStays DEF Active
  <1>5. PlanClears'  BY ClearanceStays
  <1> QED BY <1>1, <1>2, <1>3, <1>4, <1>5 DEF IInv

\* The same of a request of an administrator that goes on or ends.
LEMMA RequestInv ==
  ASSUME IInv, NEW o \in Operators, NEW r \in Request, r.act = "reopen" => r.read.status = "absent",
         operator' = [operator EXCEPT ![o] = r],
         issue' \in Issue,
         Approvable(issue') => Approvable(issue) /\ issue'.boundary = issue.boundary,
         issue'.status \in {"closed", "triaging"} => issue.status = issue'.status,
         jobs' \in [Slots -> Job], \A i \in Slots : Active(i) => jobs'[i] = jobs[i],
         task' \in ImplementationTask, events' \in 0..MaxEvents,
         UNCHANGED <<worker, plan, judgedGood>>
  PROVE  IInv'
  <1>1. operator \in [Operators -> Request]  BY TypesOfVariables DEF IInv
  <1>2. operator' \in [Operators -> Request] /\ ReopeningsWrite'
    BY <1>1 DEF IInv, ReopeningsWrite
  <1> QED BY <1>2, OutsideInv

\* A commit of columns other than those of a plan, with a status that is
\* neither closed nor that of a triage.
LEMMA DecidedRow ==
  ASSUME TypeOK, NEW read \in Issue, NEW new \in Issue, issue' = Written(read, new),
         new.status \notin {"closed", "triaging", "waiting_approval"},
         \/ new.status # read.status
         \/ /\ new.boundary = read.boundary /\ new.brief = read.brief
            /\ new.recommendation = read.recommendation /\ new.findings = read.findings
  PROVE  /\ issue' \in Issue
         /\ Approvable(issue') => Approvable(issue) /\ issue'.boundary = issue.boundary
         /\ issue'.status \in {"closed", "triaging"} => issue.status = issue'.status
  <1>1. issue' \in Issue  BY WrittenColumns
  <1>2. issue'.status = IF new.status # read.status THEN new.status ELSE issue.status
    BY WrittenColumns DEF Columns
  <1> QED BY <1>1, <1>2, WrittenApprovable

\* A status, alone or with the judging column.
LEMMA NewStatus ==
  ASSUME NEW read \in Issue, NEW status \in Statuses
  PROVE  /\ LET new == [read EXCEPT !.status = status]
            IN /\ new \in Issue /\ new.status = status
               /\ new.boundary = read.boundary /\ new.brief = read.brief
               /\ new.recommendation = read.recommendation /\ new.findings = read.findings
         /\ LET new == [read EXCEPT !.status = status, !.judging = TRUE]
            IN /\ new \in Issue /\ new.status = status
               /\ new.boundary = read.boundary /\ new.brief = read.brief
               /\ new.recommendation = read.recommendation /\ new.findings = read.findings
  BY DEF Issue
\* A request begins with what it has loaded.
LEMMA ReadIssueInv == ASSUME IInv, NEW o \in Operators, ReadIssue(o) PROVE IInv'
  <1>1. PICK act \in Acts :
          operator' = [operator EXCEPT ![o] =
            [NoRequest EXCEPT !.act = act, !.read = Loaded(Used(act))]]
    BY DEF ReadIssue
  <1>2. UNCHANGED <<issue, jobs, worker, plan, judgedGood, task>> /\ events' \in 0..MaxEvents
    BY IssueAssumption, TypesOfVariables DEF ReadIssue, Event, IInv
  <1>3. Used(act) \in SUBSET Columns
    BY DEF Used, Evaluation, Planning, Review, Columns
  <1>4. Loaded(Used(act)) \in Issue  BY <1>3, LoadedColumns DEF IInv
  <1> DEFINE r == [NoRequest EXCEPT !.act = act, !.read = Loaded(Used(act))]
  <1>5. r \in Request /\ r.act = act /\ r.read = Loaded(Used(act))
    BY <1>4, NoRequestIsRequest DEF Requested, NoRequest
  <1>6. act = "reopen" => Loaded(Used(act)).status = "absent"
    <2> SUFFICES ASSUME act = "reopen" PROVE Loaded(Used(act)).status = "absent"  OBVIOUS
    <2>1. "status" \notin Used("reopen")  BY DEF Used, Planning, Review
    <2>2. "status" \in DOMAIN issue
      BY TypesOfVariables, RowOfColumns DEF IInv, Columns
    <2> QED BY <2>1, <2>2, ResetIsIssue DEF Loaded
  <1> HIDE DEF r
  <1>7. operator' = [operator EXCEPT ![o] = r]  BY <1>1 DEF r
  <1>8. /\ issue' \in Issue /\ jobs' \in [Slots -> Job] /\ task' \in ImplementationTask
        /\ UNCHANGED <<issue, jobs>>
    BY <1>2, TypesOfVariables DEF IInv
  <1>9. r.act = "reopen" => r.read.status = "absent"  BY <1>5, <1>6
  <1> QED BY <1>2, <1>5, <1>7, <1>8, <1>9, RequestInv

\* The request that goes on as another, or ends.
LEMMA AnsweredRequest ==
  /\ NoRequest \in Request /\ NoRequest.act = "idle"
  /\ \A act \in Requested \ {"reopen"} :
       LET r == [NoRequest EXCEPT !.act = act] IN r \in Request /\ r.act # "reopen"
  BY NoRequestIsRequest DEF NoRequest

\* The first transaction of an approval, a rejection, a report of manual work
\* and a reopening commit a row.
LEMMA DecisionInv ==
  ASSUME IInv, NEW o \in Operators,
         Approve(o) \/ Reject(o) \/ RecordManualImplementation(o) \/ Reopen(o),
         UNCHANGED events
  PROVE  IInv'
  <1> DEFINE read == operator[o].read
  <1>1. read \in Issue /\ task \in ImplementationTask /\ events \in 0..MaxEvents
    BY TypesOfVariables DEF IInv, Request
  <1>2. PICK new \in Issue :
          /\ issue' = Written(read, new)
          /\ new.status \notin {"closed", "triaging", "waiting_approval"}
          /\ \/ new.status # read.status
             \/ /\ new.boundary = read.boundary /\ new.brief = read.brief
                /\ new.recommendation = read.recommendation /\ new.findings = read.findings
    <2>1. CASE Approve(o)
      <3>1. PICK status \in {"waiting_external", "implementing"} :
              issue' = Written(read, [read EXCEPT !.status = status])
        BY <2>1 DEF Approve
      <3> DEFINE new == [read EXCEPT !.status = status]
      <3>2. status \in Statuses  BY SomeStatuses
      <3>3. /\ new \in Issue /\ new.status = status
            /\ new.boundary = read.boundary /\ new.brief = read.brief
            /\ new.recommendation = read.recommendation /\ new.findings = read.findings
        BY <1>1, <3>2, NewStatus
      <3> HIDE DEF new
      <3> QED BY <3>1, <3>3 DEF new
    <2>2. CASE Reject(o)
      <3>1. issue' = Written(read, [read EXCEPT !.status = "rejected"])  BY <2>2 DEF Reject
      <3> DEFINE new == [read EXCEPT !.status = "rejected"]
      <3>2. "rejected" \in Statuses  BY SomeStatuses
      <3>3. /\ new \in Issue /\ new.status = "rejected"
            /\ new.boundary = read.boundary /\ new.brief = read.brief
            /\ new.recommendation = read.recommendation /\ new.findings = read.findings
        BY <1>1, <3>2, NewStatus
      <3> QED BY <3>1, <3>3
    <2>3. CASE RecordManualImplementation(o)
      <3>1. issue' = Written(read, [read EXCEPT !.status = "evaluating", !.judging = TRUE])
        BY <2>3 DEF RecordManualImplementation
      <3> DEFINE new == [read EXCEPT !.status = "evaluating", !.judging = TRUE]
      <3>2. "evaluating" \in Statuses  BY SomeStatuses
      <3>3. /\ new \in Issue /\ new.status = "evaluating"
            /\ new.boundary = read.boundary /\ new.brief = read.brief
            /\ new.recommendation = read.recommendation /\ new.findings = read.findings
        BY <1>1, <3>2, NewStatus
      <3> QED BY <3>1, <3>3
    <2>4. CASE Reopen(o)
      <3>1. issue' = Written(read, Reset) /\ operator[o].act = "reopen"  BY <2>4 DEF Reopen
      <3>2. read.status = "absent"  BY <3>1 DEF IInv, ReopeningsWrite
      <3> QED BY <3>1, <3>2, ResetIsIssue
    <2> QED BY <2>1, <2>2, <2>3, <2>4
  <1>3. /\ issue' \in Issue
        /\ Approvable(issue') => Approvable(issue) /\ issue'.boundary = issue.boundary
        /\ issue'.status \in {"closed", "triaging"} => issue.status = issue'.status
    BY <1>1, <1>2, DecidedRow DEF IInv
  <1>4. jobs' \in [Slots -> Job] /\ \A i \in Slots : Active(i) => jobs'[i] = jobs[i]
    <2>1. Enqueued("evaluation") \/ Enqueued("triage")
      BY DEF Approve, Reject, RecordManualImplementation, Reopen, Enqueue, Enqueued
    <2>2. CASE Enqueued("evaluation")  BY <2>2, EnqueueKeepsOpenItems DEF IInv
    <2>3. CASE Enqueued("triage")  BY <2>3, EnqueueKeepsOpenItems DEF IInv
    <2> QED BY <2>1, <2>2, <2>3
  <1>5. PICK r \in Request : r.act # "reopen" /\ operator' = [operator EXCEPT ![o] = r]
    <2>1. "create" \in Requested \ {"reopen"}  BY DEF Requested
    <2>2. \/ operator' = [operator EXCEPT ![o] = NoRequest]
          \/ operator' = [operator EXCEPT ![o] = [NoRequest EXCEPT !.act = "create"]]
      BY DEF Approve, Reject, RecordManualImplementation, Reopen, Answered
    <2> QED BY <2>1, <2>2, AnsweredRequest
  <1>6. UNCHANGED <<worker, plan, judgedGood, task>>
    BY DEF Approve, Reject, RecordManualImplementation, Reopen
  <1> QED BY <1>1, <1>3, <1>4, <1>5, <1>6, RequestInv

\* The creation of the Task, its refusal, its link to the issue, and the
\* revision of a manual evaluation.
LEMMA CreateTaskInv ==
  ASSUME IInv, NEW o \in Operators,
         CreateTask(o) \/ AnswerRefused(o) \/ LinkTask(o) \/ ReadRevisionFor(o),
         UNCHANGED events
  PROVE  IInv'
  <1>0. /\ issue \in Issue /\ jobs \in [Slots -> Job] /\ operator[o] \in Request
        /\ task \in ImplementationTask /\ events \in 0..MaxEvents
    BY TypesOfVariables DEF IInv
  <1>1. PICK r \in Request : r.act # "reopen" /\ operator' = [operator EXCEPT ![o] = r]
    <2>1. \A act \in {"link", "judge"} :
            LET r == [operator[o] EXCEPT !.act = act] IN r \in Request /\ r.act # "reopen"
      BY <1>0 DEF Request, Requested
    <2>2. "refused" \in Requested \ {"reopen"}  BY DEF Requested
    <2>3. \/ operator' = [operator EXCEPT ![o] = NoRequest]
          \/ operator' = [operator EXCEPT ![o] = [NoRequest EXCEPT !.act = "refused"]]
          \/ operator' = [operator EXCEPT ![o].act = "link"]
          \/ operator' = [operator EXCEPT ![o].act = "judge"]
      BY DEF CreateTask, AnswerRefused, LinkTask, ReadRevisionFor, Answered
    <2>4. \A act : [operator EXCEPT ![o].act = act]
                     = [operator EXCEPT ![o] = [operator[o] EXCEPT !.act = act]]
      OBVIOUS
    <2> QED BY <2>1, <2>2, <2>3, <2>4, AnsweredRequest
  <1>2. /\ issue' = issue \/ issue' = [issue EXCEPT !.linked = TRUE]
        /\ UNCHANGED <<jobs, worker, plan, judgedGood>>
        /\ task' = task \/ task' = [task EXCEPT !.status = "queued"]
    BY DEF CreateTask, AnswerRefused, LinkTask, ReadRevisionFor
  <1>3. /\ issue' \in Issue /\ issue'.status = issue.status /\ issue'.boundary = issue.boundary
        /\ Approvable(issue') => Approvable(issue)
    BY <1>0, <1>2 DEF Issue, Approvable
  <1>4. task' \in ImplementationTask  BY <1>0, <1>2 DEF ImplementationTask, TaskStates
  <1> QED BY <1>0, <1>1, <1>2, <1>3, <1>4, RequestInv

\* A manual evaluation of an issue.
LEMMA RecordManualEvaluationInv ==
  ASSUME IInv, NEW o \in Operators, RecordManualEvaluation(o), UNCHANGED events
  PROVE  IInv'
  <1>0. /\ issue \in Issue /\ jobs \in [Slots -> Job] /\ operator[o] \in Request
        /\ task \in ImplementationTask /\ events \in 0..MaxEvents
        /\ operator \in [Operators -> Request] /\ worker \in [Workers -> Loop]
    BY TypesOfVariables DEF IInv
  <1>1. CASE operator[o].overtaken
    <2>1. operator' = [operator EXCEPT ![o] = NoRequest]
          /\ UNCHANGED <<issue, jobs, worker, plan, judgedGood, task>>
      BY <1>1 DEF RecordManualEvaluation, Answered
    <2>2. NoRequest.act # "reopen"  BY AnsweredRequest
    <2> QED BY <1>0, <2>1, <2>2, AnsweredRequest, RequestInv
  <1>2. CASE ~operator[o].overtaken
    <2> DEFINE read == operator[o].read
    <2>1. PICK passed \in BOOLEAN :
            issue' = Written(read, Judged(read, passed)) /\ AddEvaluation(passed)
      BY <1>2 DEF RecordManualEvaluation
    <2>2. /\ worker' = [v \in Workers |-> Overtake(v, "evaluation")]
          /\ operator' = [p \in Operators |-> IF p = o THEN NoRequest ELSE OvertakeRequest(p)]
          /\ UNCHANGED <<plan, task, events>>
      BY <1>2 DEF RecordManualEvaluation
    <2>3. /\ worker' \in [Workers -> Loop]
          /\ \A v \in Workers :
               /\ worker'[v].job = worker[v].job /\ worker'[v].stage = worker[v].stage
               /\ worker'[v].read = worker[v].read
      BY <2>2, OvertakenKeepsRest DEF IInv
    <2>4. /\ issue' \in Issue /\ judgedGood' \in BOOLEAN
          /\ jobs' \in [Slots -> Job] /\ \A i \in Slots : Active(i) => jobs'[i] = jobs[i]
          /\ issue'.status = "triaging" => issue.status = "triaging" /\ read.status # "triaging"
          /\ VerdictGoesOn' /\ PlanClears' /\ WorkersHoldItems'
      <3>1. read \in Issue  BY <1>0 DEF Request
      <3> QED BY <2>1, <2>2, <2>3, <3>1, JudgementInv
    <2>5. operator' \in [Operators -> Request]
      BY <2>2, OvertakenKeepsRest, AnsweredRequest DEF IInv
    <2>6. TypeOK'
      BY <2>2, <2>3, <2>4, <2>5, TypesOfVariables, TypesOfVariablesNext DEF IInv
    <2>7. TriageGoesOn'
      <3>1. \A v \in Workers :
              /\ WillEndTriage(worker'[v]) <=> WillEndTriage(worker[v])
              /\ Reports(worker'[v]) <=> Reports(worker[v])
        BY <2>3 DEF WillEndTriage, Reports
      <3>2. \A i \in Slots : Active(i) => Active(i)'  BY <2>4 DEF Active
      <3> QED BY <2>3, <2>4, <3>1, <3>2, TriageStays
    <2>8. ReopeningsWrite'
      <3>1. \A p \in Operators \ {o} :
              operator'[p].act = operator[p].act /\ operator'[p].read = operator[p].read
        BY <1>0, <2>2 DEF OvertakeRequest, Request
      <3>2. operator'[o].act # "reopen"  BY <2>2, AnsweredRequest
      <3> QED BY <3>1, <3>2 DEF IInv, ReopeningsWrite
    <2> QED BY <2>4, <2>6, <2>7, <2>8 DEF IInv
  <1> QED BY <1>1, <1>2

\* The Task ends and the issue is told.
LEMMA TaskInv ==
  ASSUME IInv, TaskEnds \/ LoadForTask \/ RecordImplementationCompleted \/ ReportTaskFailure,
         UNCHANGED events
  PROVE  IInv'
  <1>0. /\ issue \in Issue /\ jobs \in [Slots -> Job] /\ operator \in [Operators -> Request]
        /\ task \in ImplementationTask /\ events \in 0..MaxEvents
    BY TypesOfVariables DEF IInv
  <1>1. UNCHANGED <<worker, operator, plan, judgedGood>>
    BY DEF TaskEnds, LoadForTask, RecordImplementationCompleted, ReportTaskFailure
  <1>2. ReopeningsWrite'  BY <1>1 DEF IInv, ReopeningsWrite
  <1>3. CASE TaskEnds \/ LoadForTask
    <2>1. UNCHANGED <<issue, jobs>>  BY <1>3 DEF TaskEnds, LoadForTask
    <2>2. task' \in ImplementationTask
      <3>1. Loaded(Evaluation) \in Issue /\ Loaded(Status) \in Issue
        <4>1. Evaluation \in SUBSET Columns /\ Status \in SUBSET Columns
          BY DEF Evaluation, Status, Columns
        <4> QED BY <4>1, LoadedColumns DEF IInv
      <3> QED BY <1>0, <1>3, <3>1 DEF TaskEnds, LoadForTask, ImplementationTask, TaskStates
    <2> QED BY <1>0, <1>1, <1>2, <2>1, <2>2, OutsideInv
  <1>4. CASE RecordImplementationCompleted \/ ReportTaskFailure
    <2> DEFINE read == task.read
    <2>1. read \in Issue  BY <1>0 DEF ImplementationTask
    <2>2. PICK new \in Issue :
            /\ issue' = Written(read, new)
            /\ new.status \notin {"closed", "triaging", "waiting_approval"}
            /\ new.boundary = read.boundary /\ new.brief = read.brief
            /\ new.recommendation = read.recommendation /\ new.findings = read.findings
      <3> DEFINE judge == [read EXCEPT !.status = "evaluating", !.judging = TRUE]
                 again == [read EXCEPT !.status = "detected"]
      <3>1. issue' = Written(read, judge) \/ issue' = Written(read, again)
        BY <1>4 DEF RecordImplementationCompleted, ReportTaskFailure
      <3>2. "evaluating" \in Statuses /\ "detected" \in Statuses  BY SomeStatuses
      <3>3. /\ judge \in Issue /\ judge.status = "evaluating"
            /\ judge.boundary = read.boundary /\ judge.brief = read.brief
            /\ judge.recommendation = read.recommendation /\ judge.findings = read.findings
        BY <2>1, <3>2, NewStatus
      <3>4. /\ again \in Issue /\ again.status = "detected"
            /\ again.boundary = read.boundary /\ again.brief = read.brief
            /\ again.recommendation = read.recommendation /\ again.findings = read.findings
        BY <2>1, <3>2, NewStatus
      <3> QED BY <3>1, <3>3, <3>4
    <2>3. /\ issue' \in Issue
          /\ Approvable(issue') => Approvable(issue) /\ issue'.boundary = issue.boundary
          /\ issue'.status \in {"closed", "triaging"} => issue.status = issue'.status
      BY <2>1, <2>2, DecidedRow DEF IInv
    <2>4. jobs' \in [Slots -> Job] /\ \A i \in Slots : Active(i) => jobs'[i] = jobs[i]
      <3>1. Enqueued("evaluation") \/ Enqueued("triage")
        BY <1>4 DEF RecordImplementationCompleted, ReportTaskFailure, Enqueue, Enqueued
      <3>2. CASE Enqueued("evaluation")  BY <3>2, EnqueueKeepsOpenItems DEF IInv
      <3>3. CASE Enqueued("triage")  BY <3>3, EnqueueKeepsOpenItems DEF IInv
      <3> QED BY <3>1, <3>2, <3>3
    <2>5. task' \in ImplementationTask
      <3>1. task' = [status |-> "told", read |-> Absent]
        BY <1>4 DEF RecordImplementationCompleted, ReportTaskFailure
      <3> QED BY <3>1, ResetIsIssue DEF ImplementationTask, TaskStates
    <2> QED BY <1>0, <1>1, <1>2, <2>3, <2>4, <2>5, OutsideInv
  <1> QED BY <1>3, <1>4

\* A restart gives an issue in triage without an item a new one, and starts it again.
LEMMA RestartInv == ASSUME IInv, Restart PROVE IInv'
  <1>0. /\ issue \in Issue /\ jobs \in [Slots -> Job] /\ task \in ImplementationTask
    BY TypesOfVariables DEF IInv
  <1>1. /\ worker' = [w \in Workers |-> Idle]
        /\ operator' = [o \in Operators |-> NoRequest]
        /\ task' = [status |-> IF task.status \in {"none", "queued"} THEN task.status ELSE "told",
                    read |-> Absent]
        /\ UNCHANGED <<plan, judgedGood>> /\ events' \in 0..MaxEvents
    BY IssueAssumption, TypesOfVariables DEF Restart, Event, IInv
  <1>2. /\ worker' \in [Workers -> Loop] /\ \A w \in Workers : worker'[w].stage = "idle"
        /\ operator' \in [Operators -> Request] /\ \A o \in Operators : operator'[o].act = "idle"
        /\ task' \in ImplementationTask
    BY <1>0, <1>1, IdleIsLoop, AnsweredRequest, ResetIsIssue DEF ImplementationTask, TaskStates
  <1>3. /\ jobs' \in [Slots -> Job] /\ issue' \in Issue
        /\ Approvable(issue') => Approvable(issue) /\ issue'.boundary = issue.boundary
        /\ issue'.status = "closed" =>
             issue.status = "closed" /\ \A i \in Slots : Active(i) => Active(i)'
        /\ issue'.status = "triaging" => \E i \in Slots : Active(i)'
    <2>1. CASE /\ issue.status \in {"detected", "triaging", "evaluating"}
               /\ \A i \in Slots : ~Active(i)
      <3>1. PICK status \in {"evaluating", "detected"} : issue' = [issue EXCEPT !.status = status]
        BY <2>1 DEF Restart
      <3>2. Enqueued("evaluation") \/ Enqueued("triage")
        BY <2>1 DEF Restart, Enqueue, Enqueued
      <3>3. jobs' \in [Slots -> Job]
        <4>1. CASE Enqueued("evaluation")  BY <4>1, EnqueueKeepsOpenItems DEF IInv
        <4>2. CASE Enqueued("triage")  BY <4>2, EnqueueKeepsOpenItems DEF IInv
        <4> QED BY <3>2, <4>1, <4>2
      <3> QED BY <1>0, <3>1, <3>3, SomeStatuses DEF Issue, Approvable
    <2>2. CASE ~(/\ issue.status \in {"detected", "triaging", "evaluating"}
                 /\ \A i \in Slots : ~Active(i))
      <3>1. PICK lapsed \in SUBSET {i \in Slots : jobs[i].status = "leased"} :
              issue' = IssueAfter(lapsed) /\ jobs' = Recovered(lapsed)
        BY <2>2 DEF Restart
      <3>2. lapsed \in SUBSET Slots  OBVIOUS
      <3>3. /\ jobs' \in [Slots -> Job] /\ \A i \in Slots \ lapsed : jobs'[i] = jobs[i]
            /\ issue' \in Issue
            /\ Approvable(issue') => Approvable(issue) /\ issue'.boundary = issue.boundary
            /\ issue'.status = "closed" =>
                 issue.status = "closed" /\ \A i \in lapsed : jobs'[i].status = "queued"
            /\ issue'.status = "triaging" => lapsed = {} /\ issue.status = "triaging"
        BY <3>1, <3>2, RecoveryOfLeases DEF IInv
      <3> QED BY <2>2, <3>3 DEF Active
    <2> QED BY <2>1, <2>2
  <1>4. TypeOK'
    BY <1>1, <1>2, <1>3, TypesOfVariables, TypesOfVariablesNext DEF IInv
  <1>5. \A w \in Workers : worker'[w].stage \notin AtWork  BY <1>2 DEF AtWork
  <1>6. WorkersHoldItems'  BY <1>5 DEF WorkersHoldItems
  <1>7. TriageGoesOn'  BY <1>3, <1>5 DEF TriageGoesOn, KeepsTriage
  <1>8. VerdictGoesOn'
    <2> SUFFICES ASSUME issue'.status = "closed" PROVE VerdictGoesOn'  BY DEF VerdictGoesOn
    <2> QED BY <1>1, <1>3, <1>5, VerdictStays
  <1>9. PlanClears'  BY <1>1, <1>3, ClearanceStays
  <1>10. ReopeningsWrite'  BY <1>2 DEF ReopeningsWrite
  <1> QED BY <1>4, <1>6, <1>7, <1>8, <1>9, <1>10 DEF IInv

-----------------------------------------------------------------------------
(* The results.                                                             *)

\* The invariant holds in every behaviour.
THEOREM IssueInvariant == Spec => []IInv
  <1>1. Init => IInv
    <2> SUFFICES ASSUME Init PROVE IInv  OBVIOUS
    <2>1. \A w \in Workers : worker[w] = Idle  BY DEF Init
    <2>2. Free \in Job  BY DEF Free, Job
    <2>3. TypeOK
      <3>1. issue \in Issue /\ jobs \in [Slots -> Job] /\ worker \in [Workers -> Loop]
        BY <2>2, IdleIsLoop, ResetIsIssue DEF Init
      <3>2. operator \in [Operators -> Request]  BY AnsweredRequest DEF Init
      <3>3. task \in ImplementationTask
        BY ResetIsIssue DEF Init, ImplementationTask, TaskStates
      <3>4. plan \in [passed : BOOLEAN, internal : BOOLEAN, stale : BOOLEAN] /\ judgedGood \in BOOLEAN
        BY DEF Init
      <3>5. events \in 0..MaxEvents  BY IssueAssumption DEF Init
      <3> QED BY <3>1, <3>2, <3>3, <3>4, <3>5, TypesOfVariables
    <2>4. issue.status = "absent"  BY ResetIsIssue DEF Init
    <2>5. \A o \in Operators : operator[o].act = "idle"  BY AnsweredRequest DEF Init
    <2>6. WorkersHoldItems  BY <2>1, IdleIsLoop DEF WorkersHoldItems, AtWork
    <2> QED BY <2>3, <2>4, <2>5, <2>6
          DEF IInv, TriageGoesOn, VerdictGoesOn, PlanClears, Approvable, ReopeningsWrite
  <1>2. IInv /\ [Next]_vars => IInv'
    <2> SUFFICES ASSUME IInv, [Next]_vars PROVE IInv'  OBVIOUS
    <2>1. ASSUME NEW w \in Workers, WorkerStep(w), UNCHANGED events PROVE IInv'
      <3>1. CASE ReadRevision(w)  BY <2>1, <3>1, StageInv
      <3> QED BY <2>1, <3>1, ClaimInv, LoadInv, BeginInv, EndTriageInv, EndEvaluationInv,
            FinishInv, AbandonInv, ReportFailureInv DEF WorkerStep
    <2>2. ASSUME NEW o \in Operators, Decide(o), UNCHANGED events PROVE IInv'
      BY <2>2, CreateTaskInv, DecisionInv, RecordManualEvaluationInv DEF Decide
    <2>3. CASE UNCHANGED vars
      BY <2>3 DEF vars, IInv, TypeOK, WorkersHoldItems, TriageGoesOn, VerdictGoesOn, Active,
         KeepsTriage, KeepsVerdict, PlanClears, ReopeningsWrite
    <2>4. ASSUME NEW w \in Workers, Raise(w) PROVE IInv'  BY <2>4, StageInv
    <2> QED BY <2>1, <2>2, <2>3, <2>4, ReadIssueInv, CancelJobInv, CaptureInv, TaskInv, RestartInv
          DEF Next
  <1> QED BY <1>1, <1>2, PTL DEF Spec

\* Every variable keeps its type.
THEOREM IssueTypeOK == Spec => []TypeOK
  <1>1. IInv => TypeOK  BY DEF IInv
  <1> QED BY <1>1, IssueInvariant, PTL

\* An issue does not rest closed against its newest evaluation, however many
\* loops and administrators evaluate without a lock.
THEOREM IssueClosedPassed == Spec => []ClosedIssuePassed
  <1>1. IInv => ClosedIssuePassed  BY DEF IInv, VerdictGoesOn, ClosedIssuePassed
  <1> QED BY <1>1, IssueInvariant, PTL

\* What can be approved was cleared by the review of the newest plan, if that
\* plan was committed onto the row its triage had loaded.
THEOREM IssueApprovableIsReviewed == Spec => []ApprovableIsReviewed
  <1>1. IInv => ApprovableIsReviewed
    BY DEF IInv, PlanClears, Approvable, ApprovableIsReviewed, Permits, HandedOver
  <1> QED BY <1>1, IssueInvariant, PTL

\* An issue in triage has an open item, or its failure is about to be reported.
THEOREM IssueTriageHasItem == Spec => []TriageHasItem
  <1>1. IInv => TriageHasItem  BY DEF IInv, TriageGoesOn, TriageHasItem, Reports
  <1> QED BY <1>1, IssueInvariant, PTL
=============================================================================
