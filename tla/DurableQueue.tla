---------------------------- MODULE DurableQueue ----------------------------
(***************************************************************************)
(* The durable work queue of the gateway for Agent tasks: QueueService     *)
(* (backend/app/queue/service.py), the worker loops of QueueCoordinator    *)
(* (backend/app/queue/coordinator.py) and TaskExecutor.execute             *)
(* (backend/app/tasks/executor.py), which the workers run.                 *)
(*                                                                         *)
(* A task and its QueueItem are one to one, so both are indexed by task.   *)
(* Each action is one committed database transaction together with the     *)
(* in-memory step of the asyncio program that issues it.  An execution is  *)
(* named by <<task, attempt>>: claim_next numbers the leases of an item.   *)
(***************************************************************************)
EXTENDS Integers, FiniteSets

CONSTANTS
  Tasks,            \* tasks, each with at most one queue item
  Workers,          \* worker loops of the interactive pool
  Procs,            \* operating system processes running worker loops
  ProcOf,           \* [Workers -> Procs]
  Conv,             \* [Tasks -> conversation or NoConv]
  NoConv,           \* a task outside every Conversation
  NoWorker,
  NoTask,
  Legacy,           \* tasks that exist from the start without a queue item
  MaxAttempts,      \* QueueItem.max_attempts
  AttemptCap,       \* bound on the number of leases of one item
  MaxFaults,        \* bound on crashes, stops and failed heartbeats
  LeaseCanLapse,    \* a lease may expire although its worker is alive
  HeartbeatCanFail, \* the heartbeat of a worker may raise
  LoopCanDie        \* any other transaction of a worker loop may raise

ASSUME DistinctNulls == NoWorker \notin Workers /\ NoTask \notin Tasks
ASSUME ProcOfType == ProcOf \in [Workers -> Procs]
ASSUME TasksFinite == IsFiniteSet(Tasks)
ASSUME LegacyTasks == Legacy \subseteq Tasks
ASSUME BoundsType ==
  /\ MaxAttempts \in Nat \ {0}
  /\ AttemptCap \in Nat
  /\ MaxFaults \in Nat
ASSUME FaultSwitches ==
  /\ LeaseCanLapse \in BOOLEAN
  /\ HeartbeatCanFail \in BOOLEAN
  /\ LoopCanDie \in BOOLEAN

VARIABLES
  itemStatus,   \* QueueItem.status, "absent" before the row exists
  leaseOwner,   \* QueueItem.lease_owner
  lease,        \* lease_expires_at: none, in the future or in the past
  attempts,     \* QueueItem.attempt_count
  available,    \* available_at <= now
  cancel,       \* cancel_requested_at: none, not after completed_at, after it
  createdAt,    \* QueueItem.created_at (0: no row)
  nextAt,       \* the clock that stamps created_at
  taskStatus,   \* Task.status
  completedAt,  \* Task.completed_at IS NOT NULL
  report,       \* Task.final_report IS NOT NULL
  exec,         \* progress of the execution <<task, attempt>>
  runner,       \* worker whose process runs that execution
  wpc,          \* control state of a worker loop
  heldTask,     \* task of the item a worker loop is executing
  heldAttempt,  \* and the attempt it claimed
  procState,    \* process: down, up or stopping
  faults

itemVars == <<itemStatus, leaseOwner, lease, attempts, available, cancel,
              createdAt, nextAt>>
taskVars == <<taskStatus, completedAt, report>>
execVars == <<exec, runner>>
workerVars == <<wpc, heldTask, heldAttempt>>
procVars == <<procState, faults>>
vars == <<itemVars, taskVars, execVars, workerVars, procVars>>

Attempts == 1..AttemptCap
ItemTerminal == {"completed", "failed", "cancelled"}
ItemActive == {"queued", "leased"}
TaskTerminal == {"completed", "failed", "cancelled"}
TaskActive == {"preparing", "running"}
AlivePhases == {"start", "prep", "run", "report"}
DonePhases == {"returned", "raised"}
Supervising == {"busy", "cancelling"}
Holding == Supervising \union {"abandoning"}

\* The values of the columns of queue items and tasks, and of the loops.
TypeOK ==
  /\ itemStatus \in [Tasks -> {"absent"} \union ItemActive \union ItemTerminal]
  /\ leaseOwner \in [Tasks -> Workers \union {NoWorker}]
  /\ lease \in [Tasks -> {"none", "live", "expired"}]
  /\ attempts \in [Tasks -> 0..AttemptCap]
  /\ available \in [Tasks -> BOOLEAN]
  /\ cancel \in [Tasks -> {"none", "first", "late"}]
  /\ createdAt \in [Tasks -> Nat]
  /\ nextAt \in Nat
  /\ taskStatus \in [Tasks -> {"absent", "queued"} \union TaskActive \union TaskTerminal]
  /\ completedAt \in [Tasks -> BOOLEAN]
  /\ report \in [Tasks -> BOOLEAN]
  /\ exec \in [Tasks -> [Attempts -> {"off"} \union AlivePhases \union DonePhases]]
  /\ runner \in [Tasks -> [Attempts -> Workers \union {NoWorker}]]
  /\ wpc \in [Workers -> {"down", "idle"} \union Holding]
  /\ heldTask \in [Workers -> Tasks \union {NoTask}]
  /\ heldAttempt \in [Workers -> 0..AttemptCap]
  /\ procState \in [Procs -> {"down", "up", "stopping"}]
  /\ faults \in 0..MaxFaults

Init ==
  /\ itemStatus = [t \in Tasks |-> "absent"]
  /\ leaseOwner = [t \in Tasks |-> NoWorker]
  /\ lease = [t \in Tasks |-> "none"]
  /\ attempts = [t \in Tasks |-> 0]
  /\ available = [t \in Tasks |-> TRUE]
  /\ cancel = [t \in Tasks |-> "none"]
  /\ createdAt = [t \in Tasks |-> 0]
  /\ nextAt = 1
  /\ taskStatus \in [Tasks -> {"absent", "queued", "running"}]
  /\ \A t \in Tasks : taskStatus[t] # "absent" <=> t \in Legacy
  /\ completedAt = [t \in Tasks |-> FALSE]
  /\ report = [t \in Tasks |-> FALSE]
  /\ exec = [t \in Tasks |-> [n \in Attempts |-> "off"]]
  /\ runner = [t \in Tasks |-> [n \in Attempts |-> NoWorker]]
  /\ wpc = [w \in Workers |-> "down"]
  /\ heldTask = [w \in Workers |-> NoTask]
  /\ heldAttempt = [w \in Workers |-> 0]
  /\ procState = [p \in Procs |-> "down"]
  /\ faults = 0

-----------------------------------------------------------------------------
(* QueueItem and Task transitions shared by the transactions. *)

\* Two tasks of one Conversation; tasks outside a Conversation are unrelated.
SameConv(t, u) == t # u /\ Conv[t] # NoConv /\ Conv[t] = Conv[u]

\* u was enqueued before t in the same Conversation.
Earlier(u, t) == SameConv(t, u) /\ createdAt[u] < createdAt[t]

\* Mutant: nobody recovers a lease.
ExpiredIgnored == {}

Expired == {t \in Tasks : itemStatus[t] = "leased" /\ lease[t] = "expired"}

\* _cancellation_precedes_completion
CancelPrecedes(t) == cancel[t] = "first"

\* _cancel_locked overwrites the task unless it completed before the request.
CancelsTask(t) == taskStatus[t] \notin TaskTerminal \/ CancelPrecedes(t)

\* _requeue_locked turns into _cancel_locked when a cancellation is pending.
Cancelling(S) == {t \in S : cancel[t] # "none"}
Requeueing(S) == S \ Cancelling(S)

\* The item status after _requeue_locked ran on every item of S.
RequeuedStatus(S) ==
  [t \in Tasks |-> IF t \in Cancelling(S) THEN "cancelled"
                   ELSE IF t \in S THEN "queued" ELSE itemStatus[t]]

\* Mutant: a cancelled task keeps the report committed before.
KeepReport(S) == report

\* The reports after _cancel_locked cleared those of the tasks in S.
ReportWithout(S) == [t \in Tasks |-> report[t] /\ t \notin S]

\* _requeue_locked with the resource updates it makes.  The backoff leaves
\* available_at in the future.
RequeueTask(S) ==
  LET cancels  == {t \in Cancelling(S) : CancelsTask(t)}
      requeues == {t \in Requeueing(S) : taskStatus[t] \notin TaskTerminal}
  IN  /\ taskStatus' = [t \in Tasks |-> IF t \in cancels THEN "cancelled"
                                        ELSE IF t \in requeues THEN "queued"
                                        ELSE taskStatus[t]]
      /\ completedAt' = [t \in Tasks |-> (completedAt[t] \/ t \in cancels)
                                         /\ t \notin requeues]
      /\ report' = ReportWithout(cancels)
      /\ cancel' = [t \in Tasks |-> IF t \in cancels THEN "first" ELSE cancel[t]]

\* The fields _requeue_locked and _cancel_locked clear on every item of S.
ReleasedOwner(S) == [t \in Tasks |-> IF t \in S THEN NoWorker ELSE leaseOwner[t]]
ReleasedLease(S) == [t \in Tasks |-> IF t \in S THEN "none" ELSE lease[t]]
BackedOff(S) == [t \in Tasks |-> available[t] /\ t \notin Requeueing(S)]

\* A transaction that only runs _requeue_locked on the items of S.
Requeue(S) ==
  /\ itemStatus' = RequeuedStatus(S)
  /\ leaseOwner' = ReleasedOwner(S)
  /\ lease' = ReleasedLease(S)
  /\ available' = BackedOff(S)
  /\ RequeueTask(S)

-----------------------------------------------------------------------------
(* API process *)

\* TaskService.create_task: task, first event and QueueItem in one transaction.
\* The audit cursor lock makes created_at follow the commit order.
CreateTask(t) ==
  /\ taskStatus[t] = "absent"
  /\ taskStatus' = [taskStatus EXCEPT ![t] = "queued"]
  /\ itemStatus' = [itemStatus EXCEPT ![t] = "queued"]
  /\ createdAt' = [createdAt EXCEPT ![t] = nextAt]
  /\ nextAt' = nextAt + 1
  /\ UNCHANGED <<leaseOwner, lease, attempts, available, cancel, completedAt,
                 report, execVars, workerVars, procVars>>

\* request_cancel on a queued item cancels it at once, with its task.
CancelQueued(t) ==
  /\ itemStatus[t] = "queued"
  /\ itemStatus' = [itemStatus EXCEPT ![t] = "cancelled"]
  /\ IF taskStatus[t] \in TaskTerminal
     THEN /\ cancel' = [cancel EXCEPT ![t] = "late"]
          /\ UNCHANGED taskVars
     ELSE /\ cancel' = [cancel EXCEPT ![t] = "first"]
          /\ taskStatus' = [taskStatus EXCEPT ![t] = "cancelled"]
          /\ completedAt' = [completedAt EXCEPT ![t] = TRUE]
          /\ report' = [report EXCEPT ![t] = FALSE]
  /\ UNCHANGED <<leaseOwner, lease, attempts, available, createdAt, nextAt,
                 execVars, workerVars, procVars>>

\* request_cancel on a leased item records the request; a repeated request
\* overwrites the time of the first one.
CancelLeased(t) ==
  /\ itemStatus[t] = "leased"
  /\ cancel' = [cancel EXCEPT ![t] = IF completedAt[t] THEN "late" ELSE "first"]
  /\ UNCHANGED <<itemStatus, leaseOwner, lease, attempts, available, createdAt,
                 nextAt, taskVars, execVars, workerVars, procVars>>

-----------------------------------------------------------------------------
(* Worker loop *)

\* Mutant: the Conversation order is not looked at.
EligibleUnordered(status, t) ==
  status[t] = "queued" /\ available[t] /\ t \notin Expired

\* Mutant: an earlier item in its backoff does not hold back a later one.
EligibleWhileQueued(status, t) ==
  /\ status[t] = "queued"
  /\ available[t]
  /\ t \notin Expired
  /\ \A u \in Tasks : Earlier(u, t) => status[u] # "leased"

EligibleIn(status, t) ==
  /\ status[t] = "queued"
  /\ available[t]
  /\ t \notin Expired
  /\ \A u \in Tasks : Earlier(u, t) => status[u] \notin ItemActive

\* The items claim_next may select after it recovered the expired leases.
Eligible == {t \in Tasks : EligibleIn(RequeuedStatus(Expired), t)}

\* claim_next: recover every expired lease, then lease the oldest eligible item.
Claim(w, t) ==
  /\ wpc[w] = "idle"
  /\ t \in Eligible
  /\ \A u \in Eligible : createdAt[t] <= createdAt[u]
  /\ attempts[t] < AttemptCap
  /\ itemStatus' = [RequeuedStatus(Expired) EXCEPT ![t] = "leased"]
  /\ leaseOwner' = [ReleasedOwner(Expired) EXCEPT ![t] = w]
  /\ lease' = [ReleasedLease(Expired) EXCEPT ![t] = "live"]
  /\ available' = BackedOff(Expired)
  /\ RequeueTask(Expired)
  /\ attempts' = [attempts EXCEPT ![t] = @ + 1]
  /\ exec' = [exec EXCEPT ![t][attempts[t] + 1] = "start"]
  /\ runner' = [runner EXCEPT ![t][attempts[t] + 1] = w]
  /\ wpc' = [wpc EXCEPT ![w] = "busy"]
  /\ heldTask' = [heldTask EXCEPT ![w] = t]
  /\ heldAttempt' = [heldAttempt EXCEPT ![w] = attempts[t] + 1]
  /\ UNCHANGED <<createdAt, nextAt, procVars>>

\* claim_next when nothing is eligible still recovers the expired leases.
ClaimNothing(w) ==
  /\ wpc[w] = "idle"
  /\ Eligible = {}
  /\ Expired # {}
  /\ Requeue(Expired)
  /\ UNCHANGED <<attempts, createdAt, nextAt, execVars, workerVars, procVars>>

PhaseOf(w) == exec[heldTask[w]][heldAttempt[w]]

\* The execution <<t, n>> is gone from memory.
DropExec(t, n) ==
  /\ exec' = [exec EXCEPT ![t][n] = "off"]
  /\ runner' = [runner EXCEPT ![t][n] = NoWorker]

\* heartbeat finds the item only while it is leased by this worker.
OwnsLease(w) ==
  /\ itemStatus[heldTask[w]] = "leased"
  /\ leaseOwner[heldTask[w]] = w

\* heartbeat: renew the lease; TRUE (stop) when cancelled or no longer owned.
Heartbeat(w) ==
  /\ wpc[w] = "busy"
  /\ PhaseOf(w) \in AlivePhases
  /\ lease' = IF OwnsLease(w) THEN [lease EXCEPT ![heldTask[w]] = "live"] ELSE lease
  /\ wpc' = IF OwnsLease(w) /\ cancel[heldTask[w]] = "none"
            THEN wpc ELSE [wpc EXCEPT ![w] = "cancelling"]
  /\ UNCHANGED <<itemStatus, leaseOwner, attempts, available, cancel, createdAt,
                 nextAt, taskVars, execVars, heldTask, heldAttempt, procVars>>

\* The loop resumes after a TRUE heartbeat: it cancels the execution, unless
\* the execution returned or raised meanwhile.
StopExecution(w) ==
  /\ wpc[w] = "cancelling"
  /\ IF PhaseOf(w) \in AlivePhases
     THEN /\ wpc' = [wpc EXCEPT ![w] = "abandoning"]
          /\ DropExec(heldTask[w], heldAttempt[w])
     ELSE /\ wpc' = [wpc EXCEPT ![w] = "busy"]
          /\ UNCHANGED execVars
  /\ UNCHANGED <<itemVars, taskVars, heldTask, heldAttempt, procVars>>

\* A heartbeat that raises reaches `except Exception` of _execute_item, which
\* abandons the item and leaves the shielded execution running.
HeartbeatRaises(w) ==
  /\ HeartbeatCanFail
  /\ faults < MaxFaults
  /\ wpc[w] = "busy"
  /\ PhaseOf(w) \in AlivePhases
  /\ wpc' = [wpc EXCEPT ![w] = "abandoning"]
  /\ faults' = faults + 1
  /\ UNCHANGED <<itemVars, taskVars, execVars, heldTask, heldAttempt, procState>>

\* The execution raised: _execute_item goes on to abandon the item.
ObserveRaise(w) ==
  /\ wpc[w] = "busy"
  /\ PhaseOf(w) = "raised"
  /\ wpc' = [wpc EXCEPT ![w] = "abandoning"]
  /\ DropExec(heldTask[w], heldAttempt[w])
  /\ UNCHANGED <<itemVars, taskVars, heldTask, heldAttempt, procVars>>

\* The worker goes back to claiming, or ends when its process is stopping.
Release(w) ==
  /\ wpc' = [wpc EXCEPT ![w] = IF procState[ProcOf[w]] = "stopping" THEN "down" ELSE "idle"]
  /\ heldTask' = [heldTask EXCEPT ![w] = NoTask]
  /\ heldAttempt' = [heldAttempt EXCEPT ![w] = 0]


\* _fail_locked
FailItem(t) ==
  /\ itemStatus' = [itemStatus EXCEPT ![t] = "failed"]
  /\ leaseOwner' = [leaseOwner EXCEPT ![t] = NoWorker]
  /\ lease' = [lease EXCEPT ![t] = "none"]
  /\ IF taskStatus[t] \in TaskTerminal
     THEN UNCHANGED <<taskStatus, completedAt>>
     ELSE /\ taskStatus' = [taskStatus EXCEPT ![t] = "failed"]
          /\ completedAt' = [completedAt EXCEPT ![t] = TRUE]
  /\ UNCHANGED <<available, cancel, report>>

\* abandon: give the item back while attempts remain, else fail it.  Without
\* the lease it does nothing.
Abandon(w) ==
  /\ wpc[w] = "abandoning"
  /\ LET t == heldTask[w]
     IN  IF leaseOwner[t] # w THEN UNCHANGED <<itemVars, taskVars>>
         ELSE /\ IF cancel[t] # "none" \/ attempts[t] < MaxAttempts
                 THEN Requeue({t}) ELSE FailItem(t)
              /\ UNCHANGED <<attempts, createdAt, nextAt>>
  /\ Release(w)
  /\ UNCHANGED <<execVars, procVars>>


\* The item status finish derives from _resource_status.
ClosedStatus(t) ==
  IF taskStatus[t] \in {"completed", "cancelled"} THEN taskStatus[t] ELSE "failed"

\* finish: close the item by the status of its task.  The code checks neither
\* the lease owner nor the item status.
Finish(w) ==
  /\ wpc[w] = "busy"
  /\ PhaseOf(w) = "returned"
  /\ LET t == heldTask[w]
     IN  IF CancelPrecedes(t) THEN Requeue({t})
         ELSE /\ itemStatus' = [itemStatus EXCEPT ![t] = ClosedStatus(t)]
              /\ leaseOwner' = ReleasedOwner({t})
              /\ lease' = ReleasedLease({t})
              /\ UNCHANGED <<available, cancel, taskVars>>
  /\ Release(w)
  /\ DropExec(heldTask[w], heldAttempt[w])
  /\ UNCHANGED <<attempts, createdAt, nextAt, procVars>>

-----------------------------------------------------------------------------
(* TaskExecutor.execute, one action per committed transaction *)

\* The first transaction: PREPARING, whatever the status was.
ExecPrepare(t, n) ==
  /\ exec[t][n] = "start"
  /\ exec' = [exec EXCEPT ![t][n] = "prep"]
  /\ taskStatus' = [taskStatus EXCEPT ![t] = "preparing"]
  /\ UNCHANGED <<itemVars, completedAt, report, runner, workerVars, procVars>>

\* The workspace is ready.
ExecRun(t, n) ==
  /\ exec[t][n] = "prep"
  /\ exec' = [exec EXCEPT ![t][n] = "run"]
  /\ taskStatus' = [taskStatus EXCEPT ![t] = "running"]
  /\ UNCHANGED <<itemVars, completedAt, report, runner, workerVars, procVars>>

\* The runtime returned: the report is committed before memory and learning.
ExecReport(t, n) ==
  /\ exec[t][n] = "run"
  /\ exec' = [exec EXCEPT ![t][n] = "report"]
  /\ report' = [report EXCEPT ![t] = TRUE]
  /\ UNCHANGED <<itemVars, taskStatus, completedAt, runner, workerVars, procVars>>

\* A cancellation recorded before completed_at := now precedes it.
StampedCancel(t) == [cancel EXCEPT ![t] = IF @ = "none" THEN "none" ELSE "first"]

\* Mutant: the task is completed in a transaction of its own.
ExecCompleteTaskOnly(t, n) ==
  /\ exec[t][n] = "report"
  /\ exec' = [exec EXCEPT ![t][n] = "returned"]
  /\ taskStatus' = [taskStatus EXCEPT ![t] = "completed"]
  /\ completedAt' = [completedAt EXCEPT ![t] = TRUE]
  /\ cancel' = StampedCancel(t)
  /\ UNCHANGED <<itemStatus, leaseOwner, lease, attempts, available, createdAt,
                 nextAt, report, runner, workerVars, procVars>>

\* Task and queue item are completed in one transaction.
ExecComplete(t, n) ==
  /\ exec[t][n] = "report"
  /\ exec' = [exec EXCEPT ![t][n] = "returned"]
  /\ taskStatus' = [taskStatus EXCEPT ![t] = "completed"]
  /\ completedAt' = [completedAt EXCEPT ![t] = TRUE]
  /\ cancel' = StampedCancel(t)
  /\ itemStatus' = [itemStatus EXCEPT ![t] = "completed"]
  /\ leaseOwner' = [leaseOwner EXCEPT ![t] = NoWorker]
  /\ lease' = [lease EXCEPT ![t] = "none"]
  /\ UNCHANGED <<attempts, available, createdAt, nextAt, report, runner,
                 workerVars, procVars>>

\* _fail_task closes the task alone; the item stays leased until finish.
ExecFail(t, n) ==
  /\ exec[t][n] \in {"prep", "run"}
  /\ exec' = [exec EXCEPT ![t][n] = "returned"]
  /\ taskStatus' = [taskStatus EXCEPT ![t] = "failed"]
  /\ completedAt' = [completedAt EXCEPT ![t] = TRUE]
  /\ cancel' = StampedCancel(t)
  /\ UNCHANGED <<itemStatus, leaseOwner, lease, attempts, available, createdAt,
                 nextAt, report, runner, workerVars, procVars>>

\* A transaction of the executor raises and execute propagates it.
ExecRaise(t, n) ==
  /\ exec[t][n] \in AlivePhases
  /\ exec' = [exec EXCEPT ![t][n] = "raised"]
  /\ UNCHANGED <<itemVars, taskVars, runner, workerVars, procVars>>

-----------------------------------------------------------------------------
(* Time and processes *)

Supervised(t) ==
  \E w \in Workers : heldTask[w] = t /\ heldAttempt[w] = attempts[t]

\* lease_expires_at passes; under a live worker only if LeaseCanLapse.
LeaseExpires(t) ==
  /\ lease[t] = "live"
  /\ \/ ~Supervised(t)
     \/ LeaseCanLapse
  /\ lease' = [lease EXCEPT ![t] = "expired"]
  /\ UNCHANGED <<itemStatus, leaseOwner, attempts, available, cancel, createdAt,
                 nextAt, taskVars, execVars, workerVars, procVars>>

\* available_at passes.
BackoffElapses(t) ==
  /\ ~available[t]
  /\ available' = [available EXCEPT ![t] = TRUE]
  /\ UNCHANGED <<itemStatus, leaseOwner, lease, attempts, cancel, createdAt,
                 nextAt, taskVars, execVars, workerVars, procVars>>

\* Unfinished tasks without a queue item.
Missing == {t \in Tasks : itemStatus[t] = "absent"
                          /\ taskStatus[t] \notin TaskTerminal \union {"absent"}}

\* Mutant: bootstrap trusts every closed item.
InconsistentIgnored == {}

\* Closed items whose task is not closed.
Inconsistent == {t \in Tasks : itemStatus[t] \in ItemTerminal
                               /\ taskStatus[t] \notin TaskTerminal}

\* Missing items are created in the order of the tasks, which is unknown here.
Orders == {pos \in [Tasks -> 1..Cardinality(Tasks)] :
             /\ \A t, u \in Missing : pos[t] = pos[u] => t = u
             /\ \A t \in Tasks \ Missing : pos[t] = 1}

\* QueueCoordinator.start: bootstrap in one transaction, then the worker loops.
\* Expired items go through _requeue_locked; inconsistent items are reset with
\* their created_at and attempt_count unchanged.
Start(p) ==
  /\ procState[p] = "down"
  /\ \E pos \in Orders :
       createdAt' = [t \in Tasks |-> IF t \in Missing THEN nextAt + pos[t]
                                     ELSE createdAt[t]]
  /\ nextAt' = IF Missing = {} THEN nextAt ELSE nextAt + Cardinality(Tasks) + 1
  /\ LET reset == Missing \union Inconsistent
         cancels == {t \in Cancelling(Expired) : CancelsTask(t)}
         requeues == {t \in Requeueing(Expired) : taskStatus[t] \notin TaskTerminal}
         again == reset \union requeues
     IN  /\ itemStatus' = [t \in Tasks |-> IF t \in reset THEN "queued"
                                           ELSE RequeuedStatus(Expired)[t]]
         /\ leaseOwner' = ReleasedOwner(Expired \union reset)
         /\ lease' = ReleasedLease(Expired \union reset)
         /\ available' = [t \in Tasks |-> t \in reset \/ BackedOff(Expired)[t]]
         /\ cancel' = [t \in Tasks |-> IF t \in Inconsistent THEN "none"
                                       ELSE IF t \in cancels THEN "first" ELSE cancel[t]]
         /\ taskStatus' = [t \in Tasks |-> IF t \in again THEN "queued"
                                           ELSE IF t \in cancels THEN "cancelled"
                                           ELSE taskStatus[t]]
         /\ completedAt' = [t \in Tasks |-> (completedAt[t] \/ t \in cancels)
                                            /\ t \notin again]
         /\ report' = ReportWithout(cancels)
  /\ procState' = [procState EXCEPT ![p] = "up"]
  /\ wpc' = [w \in Workers |-> IF ProcOf[w] = p THEN "idle" ELSE wpc[w]]
  /\ UNCHANGED <<attempts, execVars, heldTask, heldAttempt, faults>>

\* The execution <<t, n>> runs in process p, supervised or not.
RunsIn(p, t, n) == runner[t][n] # NoWorker /\ ProcOf[runner[t][n]] = p

\* The end of process p: its loops and executions vanish, the rows stay.
EndProcess(p) ==
  /\ procState' = [procState EXCEPT ![p] = "down"]
  /\ exec' = [t \in Tasks |-> [n \in Attempts |->
                IF RunsIn(p, t, n) THEN "off" ELSE exec[t][n]]]
  /\ runner' = [t \in Tasks |-> [n \in Attempts |->
                  IF RunsIn(p, t, n) THEN NoWorker ELSE runner[t][n]]]
  /\ wpc' = [w \in Workers |-> IF ProcOf[w] = p THEN "down" ELSE wpc[w]]
  /\ heldTask' = [w \in Workers |-> IF ProcOf[w] = p THEN NoTask ELSE heldTask[w]]
  /\ heldAttempt' = [w \in Workers |-> IF ProcOf[w] = p THEN 0 ELSE heldAttempt[w]]
  /\ UNCHANGED <<itemVars, taskVars>>

Crash(p) ==
  /\ procState[p] # "down"
  /\ faults < MaxFaults
  /\ faults' = faults + 1
  /\ EndProcess(p)

\* QueueCoordinator.stop sets the stop event.
Stop(p) ==
  /\ procState[p] = "up"
  /\ faults < MaxFaults
  /\ faults' = faults + 1
  /\ procState' = [procState EXCEPT ![p] = "stopping"]
  /\ UNCHANGED <<itemVars, taskVars, execVars, workerVars>>

\* An idle loop sees the stop event; a claim in flight may still come first.
IdleExit(w) ==
  /\ wpc[w] = "idle"
  /\ procState[ProcOf[w]] = "stopping"
  /\ wpc' = [wpc EXCEPT ![w] = "down"]
  /\ UNCHANGED <<itemVars, taskVars, execVars, heldTask, heldAttempt, procVars>>

\* claim_next, abandon or finish raises: _worker_loop logs the error and ends
\* for good, the process stays up.
LoopDies(w) ==
  /\ LoopCanDie
  /\ faults < MaxFaults
  /\ \/ wpc[w] \in {"idle", "abandoning"}
     \/ wpc[w] = "busy" /\ PhaseOf(w) = "returned"
  /\ IF wpc[w] = "busy" THEN DropExec(heldTask[w], heldAttempt[w])
     ELSE UNCHANGED execVars
  /\ wpc' = [wpc EXCEPT ![w] = "down"]
  /\ heldTask' = [heldTask EXCEPT ![w] = NoTask]
  /\ heldAttempt' = [heldAttempt EXCEPT ![w] = 0]
  /\ faults' = faults + 1
  /\ UNCHANGED <<itemVars, taskVars, procState>>

\* shutdown_seconds passed: stop cancels a worker, which cancels its execution.
ShutdownCancel(w) ==
  /\ procState[ProcOf[w]] = "stopping"
  /\ wpc[w] \in Supervising
  /\ PhaseOf(w) \in AlivePhases
  /\ wpc' = [wpc EXCEPT ![w] = "abandoning"]
  /\ DropExec(heldTask[w], heldAttempt[w])
  /\ UNCHANGED <<itemVars, taskVars, heldTask, heldAttempt, procVars>>

\* stop has gathered every worker and the process exits.
Exit(p) ==
  /\ procState[p] = "stopping"
  /\ \A w \in Workers : ProcOf[w] = p => wpc[w] = "down"
  /\ EndProcess(p)
  /\ UNCHANGED faults

-----------------------------------------------------------------------------
WorkerStep(w) ==
  \/ \E t \in Tasks : Claim(w, t)
  \/ ClaimNothing(w)
  \/ Heartbeat(w)
  \/ StopExecution(w)
  \/ HeartbeatRaises(w)
  \/ ObserveRaise(w)
  \/ Abandon(w)
  \/ Finish(w)
  \/ ShutdownCancel(w)
  \/ IdleExit(w)
  \/ LoopDies(w)

ExecStep(t, n) ==
  \/ ExecPrepare(t, n)
  \/ ExecRun(t, n)
  \/ ExecReport(t, n)
  \/ ExecComplete(t, n)
  \/ ExecFail(t, n)
  \/ ExecRaise(t, n)

ApiStep(t) ==
  \/ CreateTask(t)
  \/ CancelQueued(t)
  \/ CancelLeased(t)

TimeStep(t) == LeaseExpires(t) \/ BackoffElapses(t)

ProcessStep(p) == Start(p) \/ Crash(p) \/ Stop(p) \/ Exit(p)

Next ==
  \/ \E w \in Workers : WorkerStep(w)
  \/ \E t \in Tasks, n \in Attempts : ExecStep(t, n)
  \/ \E t \in Tasks : ApiStep(t) \/ TimeStep(t)
  \/ \E p \in Procs : ProcessStep(p)

Spec == Init /\ [][Next]_vars

\* What the event loop, the passing of time and the supervisor guarantee: loops
\* and executions go on (runtime calls have timeouts), leases and backoffs run
\* out, a process that ended is started again.  Nothing makes a heartbeat, a
\* cancellation or a fault happen.
Fairness ==
  /\ \A w \in Workers :
       /\ WF_vars(\E t \in Tasks : Claim(w, t))
       /\ WF_vars(ClaimNothing(w))
       /\ WF_vars(StopExecution(w))
       /\ WF_vars(ObserveRaise(w))
       /\ WF_vars(Abandon(w))
       /\ WF_vars(Finish(w))
       /\ WF_vars(ShutdownCancel(w))
       /\ WF_vars(IdleExit(w))
  /\ \A t \in Tasks :
       /\ WF_vars(TimeStep(t))
       /\ \A n \in Attempts : WF_vars(ExecStep(t, n))
  /\ \A p \in Procs : WF_vars(Start(p)) /\ WF_vars(Exit(p))

FairSpec == Spec /\ Fairness

-----------------------------------------------------------------------------
(* The inductive invariant behind the safety properties.  It holds while        *)
(* heartbeats are punctual: no lease lapses under a live worker, none raises.   *)

\* A loop that executes an item knows its task and its current attempt; the
\* other loops hold nothing, and the loops of a process that is down are down.
LoopsConsistent ==
  \A w \in Workers :
    /\ IF wpc[w] \in Holding
       THEN /\ heldTask[w] \in Tasks
            /\ heldAttempt[w] \in Attempts
            /\ heldAttempt[w] = attempts[heldTask[w]]
       ELSE heldTask[w] = NoTask
    /\ procState[ProcOf[w]] = "down" => wpc[w] = "down"

\* A held item is leased by its holder, and its lease is live, until the
\* execution completes it.
HeldItems ==
  \A w \in Workers : wpc[w] \in Holding =>
    LET t == heldTask[w]
    IN  \/ itemStatus[t] = "leased" /\ leaseOwner[t] = w /\ lease[t] = "live"
        \/ /\ itemStatus[t] = "completed"
           /\ wpc[w] \in Supervising
           /\ PhaseOf(w) = "returned"
           /\ taskStatus[t] = "completed"

OneHolder ==
  \A v, w \in Workers :
    wpc[v] \in Holding /\ wpc[w] \in Holding /\ heldTask[v] = heldTask[w] => v = w

\* Every execution is supervised by the loop that claimed it.
NoOrphans ==
  \A t \in Tasks : \A n \in Attempts : exec[t][n] # "off" =>
    /\ runner[t][n] \in Workers
    /\ wpc[runner[t][n]] \in Supervising
    /\ heldTask[runner[t][n]] = t
    /\ heldAttempt[runner[t][n]] = n

\* What an execution has committed when it has got so far.
ExecProgress ==
  \A t \in Tasks : \A n \in Attempts :
    /\ exec[t][n] = "returned" => taskStatus[t] \in TaskTerminal
    /\ exec[t][n] = "report" => report[t]

\* Only a closed item has a completed or cancelled task.
OpenItemsUnfinished ==
  \A t \in Tasks : itemStatus[t] \notin ItemTerminal =>
    taskStatus[t] \notin {"completed", "cancelled"}

\* A queue item is created with its task.
AbsentTogether ==
  \A t \in Tasks : taskStatus[t] = "absent" => itemStatus[t] = "absent"

\* created_at numbers the items in the order of their creation.
CreationOrder ==
  /\ nextAt > 0
  /\ \A t \in Tasks : createdAt[t] < nextAt
  /\ \A t, u \in Tasks :
       t # u /\ itemStatus[t] # "absent" /\ itemStatus[u] # "absent"
         => createdAt[t] # createdAt[u]

-----------------------------------------------------------------------------
(* Properties *)

\* At most one execution is running per task and per Conversation: a crash, a
\* restart, a recovered lease or a cancellation never leaves two executions
\* side by side (claim_next, heartbeat and abandon together).
OneExecutionPerConversation ==
  \A t, u \in Tasks : \A n, m \in Attempts :
    /\ exec[t][n] \in AlivePhases
    /\ exec[u][m] \in AlivePhases
    /\ t = u \/ SameConv(t, u)
    => t = u /\ n = m

\* While an item is leased no earlier item of its Conversation is queued or
\* leased, however often items were requeued, reset or recovered since.
LeaseOrder ==
  \A t, u \in Tasks :
    itemStatus[t] = "leased" /\ Earlier(u, t) => itemStatus[u] \notin ItemActive

\* A closed item never hides unfinished work: it has the outcome of its task.
\* The one difference is a task that failed before the cancellation was requested.
ClosedItemsAgree ==
  \A t \in Tasks :
    /\ itemStatus[t] \in {"completed", "failed"} => taskStatus[t] = itemStatus[t]
    /\ itemStatus[t] = "cancelled" =>
         \/ taskStatus[t] = "cancelled"
         \/ taskStatus[t] = "failed" /\ cancel[t] = "late"

\* Outcomes that are never taken back, although execute() sets PREPARING
\* without looking at the status: CANCELLED is final, and COMPLETED is left
\* only to honour a cancellation requested before the completion.
OutcomesAreFinal ==
  [][\A t \in Tasks :
       /\ taskStatus[t] = "cancelled" => taskStatus'[t] = "cancelled"
       /\ taskStatus[t] = "completed" =>
            \/ taskStatus'[t] = "completed"
            \/ taskStatus'[t] = "cancelled" /\ cancel[t] = "first"]_vars

\* A completed task has its report; a cancelled one shows none, even when the
\* cancellation overtook a committed report.
ReportMatchesOutcome ==
  \A t \in Tasks :
    /\ taskStatus[t] = "completed" => report[t]
    /\ taskStatus[t] = "cancelled" => ~report[t]

\* Item, task and report tell the same outcome, although three transactions of
\* two writers record it.
OutcomesMatch == ClosedItemsAgree /\ ReportMatchesOutcome

\* The order promised by ConversationFifo, with an item as a job: waiting while
\* queued, active while leased, accepted by created_at.
Fifo == INSTANCE ConversationFifo WITH
  Jobs <- Tasks,
  phase <- [t \in Tasks |->
              IF itemStatus[t] = "absent" THEN "absent"
              ELSE IF itemStatus[t] = "queued" THEN "waiting"
              ELSE IF itemStatus[t] = "leased" THEN "active" ELSE "closed"],
  position <- createdAt

\* Leases are granted as ConversationFifo prescribes: no requeue, recovery,
\* restart or late finish takes an item out of turn or reopens a closed one.
ImplementsFifo == Fifo!FifoSpec

IInv ==
  /\ TypeOK
  /\ LoopsConsistent
  /\ HeldItems
  /\ OneHolder
  /\ NoOrphans
  /\ ExecProgress
  /\ OpenItemsUnfinished
  /\ AbsentTogether
  /\ CreationOrder
  /\ LeaseOrder
  /\ ClosedItemsAgree
  /\ ReportMatchesOutcome

\* Whatever faults happened before, bootstrap leaves no unfinished task
\* without an active queue item.
RestartRepairs ==
  [][\A p \in Procs : procState[p] = "down" /\ procState'[p] = "up" =>
       \A t \in Tasks :
         taskStatus'[t] \notin TaskTerminal \union {"absent"}
           => itemStatus'[t] \in ItemActive]_vars

\* Every accepted task reaches an outcome and its item is closed, through
\* crashes, restarts and failed executions.
AcceptedWorkCloses ==
  \A t \in Tasks :
    taskStatus[t] # "absent" ~> itemStatus[t] \in ItemTerminal

\* ADR 0018: a task that shares its Conversation with a running one waits.
TasksOfConversationAreSerial ==
  \A t, u \in Tasks : \A n, m \in Attempts :
    exec[t][n] \in AlivePhases /\ exec[u][m] \in AlivePhases => ~SameConv(t, u)

\* docs/api.md: a cancellation accepted while the item is leased ends in a
\* cancelled task once no worker executes it any more.
AcceptedCancelReachesCancelled ==
  \A t \in Tasks :
    /\ cancel[t] = "first"
    /\ itemStatus[t] \in ItemTerminal
    /\ \A w \in Workers : heldTask[w] # t
    => taskStatus[t] = "cancelled"
=============================================================================
