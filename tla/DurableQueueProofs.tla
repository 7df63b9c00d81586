------------------------- MODULE DurableQueueProofs -------------------------
(* Theorems about DurableQueue for every value of its constants. *)
EXTENDS DurableQueue, FiniteSetTheorems, TLAPS

\* The number of tasks is a natural number, so created_at stays one.
LEMMA CardTasks == Cardinality(Tasks) \in Nat
  BY TasksFinite, FS_CardinalityType

USE DEF Attempts, ItemTerminal, ItemActive, TaskTerminal, TaskActive, AlivePhases,
        DonePhases, Supervising, Holding

\* What _requeue_locked writes has the types of the columns.
LEMMA RequeueType ==
  ASSUME TypeOK, NEW S
  PROVE  /\ RequeuedStatus(S) \in [Tasks -> {"absent"} \union ItemActive \union ItemTerminal]
         /\ ReleasedOwner(S) \in [Tasks -> Workers \union {NoWorker}]
         /\ ReleasedLease(S) \in [Tasks -> {"none", "live", "expired"}]
         /\ BackedOff(S) \in [Tasks -> BOOLEAN]
         /\ RequeueTask(S) =>
              /\ taskStatus' \in [Tasks -> {"absent", "queued"} \union TaskActive
                                             \union TaskTerminal]
              /\ completedAt' \in [Tasks -> BOOLEAN]
              /\ report' \in [Tasks -> BOOLEAN]
              /\ cancel' \in [Tasks -> {"none", "first", "late"}]
  <1>1. /\ RequeuedStatus(S) \in [Tasks -> {"absent"} \union ItemActive \union ItemTerminal]
        /\ ReleasedOwner(S) \in [Tasks -> Workers \union {NoWorker}]
        /\ ReleasedLease(S) \in [Tasks -> {"none", "live", "expired"}]
    BY DEF TypeOK, RequeuedStatus, ReleasedOwner, ReleasedLease
  <1>2. BackedOff(S) \in [Tasks -> BOOLEAN]
    BY DEF TypeOK, BackedOff
  <1>3. ASSUME RequeueTask(S)
        PROVE  /\ taskStatus' \in [Tasks -> {"absent", "queued"} \union TaskActive
                                             \union TaskTerminal]
               /\ completedAt' \in [Tasks -> BOOLEAN]
               /\ report' \in [Tasks -> BOOLEAN]
               /\ cancel' \in [Tasks -> {"none", "first", "late"}]
    BY <1>3 DEF TypeOK, RequeueTask, ReportWithout
  <1>4. QED
    BY <1>1, <1>2, <1>3

\* Dropping an execution keeps the types of the execution variables.
LEMMA DropType ==
  ASSUME TypeOK, NEW t, NEW n, DropExec(t, n)
  PROVE  /\ exec' \in [Tasks -> [Attempts -> {"off"} \union AlivePhases \union DonePhases]]
         /\ runner' \in [Tasks -> [Attempts -> Workers \union {NoWorker}]]
  BY DEF TypeOK, DropExec

\* Every variable keeps its type along the steps of the API and of time.
LEMMA ApiTimeType ==
  ASSUME TypeOK, NEW t \in Tasks, ApiStep(t) \/ TimeStep(t)
  PROVE  TypeOK'
  <1> USE DEF itemVars, taskVars, execVars, workerVars, procVars
  <1>1. CASE CreateTask(t)
    BY <1>1 DEF TypeOK, CreateTask
  <1>2. CASE CancelQueued(t)
    <2>1. CASE taskStatus[t] \in TaskTerminal
      BY <1>2, <2>1 DEF TypeOK, CancelQueued
    <2>2. CASE taskStatus[t] \notin TaskTerminal
      <3> /\ completedAt' = [completedAt EXCEPT ![t] = TRUE]
          /\ report' = [report EXCEPT ![t] = FALSE]
          /\ taskStatus' = [taskStatus EXCEPT ![t] = "cancelled"]
          /\ cancel' = [cancel EXCEPT ![t] = "first"]
          /\ itemStatus' = [itemStatus EXCEPT ![t] = "cancelled"]
        BY <1>2, <2>2, Zenon DEF CancelQueued
      <3>1. completedAt' \in [Tasks -> BOOLEAN] /\ report' \in [Tasks -> BOOLEAN]
        BY DEF TypeOK
      <3>2. /\ itemStatus' \in [Tasks -> {"absent"} \union ItemActive \union ItemTerminal]
            /\ cancel' \in [Tasks -> {"none", "first", "late"}]
            /\ taskStatus' \in [Tasks -> {"absent", "queued"} \union TaskActive
                                             \union TaskTerminal]
        BY DEF TypeOK
      <3>3. UNCHANGED <<leaseOwner, lease, attempts, available, createdAt, nextAt,
                        execVars, workerVars, procVars>>
        BY <1>2 DEF CancelQueued
      <3>4. QED
        BY <3>1, <3>2, <3>3 DEF TypeOK
    <2>3. QED
      BY <2>1, <2>2
  <1>3. CASE CancelLeased(t)
    BY <1>3 DEF TypeOK, CancelLeased
  <1>4. CASE LeaseExpires(t)
    BY <1>4 DEF TypeOK, LeaseExpires
  <1>5. CASE BackoffElapses(t)
    BY <1>5 DEF TypeOK, BackoffElapses
  <1>6. QED
    BY <1>1, <1>2, <1>3, <1>4, <1>5 DEF ApiStep, TimeStep

\* The same for the steps of an execution.
LEMMA ExecType ==
  ASSUME TypeOK, NEW t \in Tasks, NEW n \in Attempts, ExecStep(t, n)
  PROVE  TypeOK'
  <1> USE DEF itemVars, taskVars, execVars, workerVars, procVars
  <1>1. CASE ExecPrepare(t, n)
    BY <1>1 DEF TypeOK, ExecPrepare
  <1>2. CASE ExecRun(t, n)
    BY <1>2 DEF TypeOK, ExecRun
  <1>3. CASE ExecReport(t, n)
    BY <1>3 DEF TypeOK, ExecReport
  <1>4. CASE ExecComplete(t, n)
    BY <1>4 DEF TypeOK, ExecComplete, StampedCancel
  <1>5. CASE ExecFail(t, n)
    BY <1>5 DEF TypeOK, ExecFail, StampedCancel
  <1>6. CASE ExecRaise(t, n)
    BY <1>6 DEF TypeOK, ExecRaise
  <1>7. QED
    BY <1>1, <1>2, <1>3, <1>4, <1>5, <1>6 DEF ExecStep

\* The same for the steps of a worker loop.
LEMMA WorkerType ==
  ASSUME TypeOK, NEW w \in Workers, WorkerStep(w)
  PROVE  TypeOK'
  <1> USE DEF itemVars, taskVars, execVars, workerVars, procVars
  <1>0. Expired \in SUBSET Tasks
    BY DEF Expired
  <1>1. ASSUME NEW t \in Tasks, Claim(w, t)
        PROVE  TypeOK'
    <2>1. attempts[t] + 1 \in Attempts
      BY <1>1, BoundsType DEF TypeOK, Claim
    <2>2. /\ itemStatus' \in [Tasks -> {"absent"} \union ItemActive \union ItemTerminal]
          /\ leaseOwner' \in [Tasks -> Workers \union {NoWorker}]
          /\ lease' \in [Tasks -> {"none", "live", "expired"}]
          /\ available' \in [Tasks -> BOOLEAN]
      BY <1>0, <1>1, RequeueType DEF Claim
    <2>3. /\ taskStatus' \in [Tasks -> {"absent", "queued"} \union TaskActive
                                           \union TaskTerminal]
          /\ completedAt' \in [Tasks -> BOOLEAN]
          /\ report' \in [Tasks -> BOOLEAN]
          /\ cancel' \in [Tasks -> {"none", "first", "late"}]
      BY <1>0, <1>1, RequeueType DEF Claim
    <2>4. /\ attempts' \in [Tasks -> 0..AttemptCap]
          /\ exec' \in [Tasks -> [Attempts -> {"off"} \union AlivePhases \union DonePhases]]
          /\ runner' \in [Tasks -> [Attempts -> Workers \union {NoWorker}]]
      BY <1>1, <2>1 DEF Claim, TypeOK
    <2>5. /\ wpc' \in [Workers -> {"down", "idle"} \union Holding]
          /\ heldTask' \in [Workers -> Tasks \union {NoTask}]
          /\ heldAttempt' \in [Workers -> 0..AttemptCap]
      BY <1>1, <2>1 DEF Claim, TypeOK
    <2>6. UNCHANGED <<createdAt, nextAt, procVars>>
      BY <1>1 DEF Claim
    <2>7. QED
      BY <2>2, <2>3, <2>4, <2>5, <2>6 DEF TypeOK
  <1>2. CASE ClaimNothing(w)
    BY <1>0, <1>2, RequeueType DEF ClaimNothing, Requeue, TypeOK
  <1>3. CASE Heartbeat(w)
    BY <1>3 DEF Heartbeat, TypeOK
  <1>4. CASE StopExecution(w)
    <2>1. CASE PhaseOf(w) \in AlivePhases
      BY <1>4, <2>1, DropType DEF StopExecution, TypeOK
    <2>2. CASE PhaseOf(w) \notin AlivePhases
      BY <1>4, <2>2 DEF StopExecution, TypeOK
    <2>3. QED
      BY <2>1, <2>2
  <1>5. CASE HeartbeatRaises(w)
    BY <1>5, BoundsType DEF HeartbeatRaises, TypeOK
  <1>6. CASE ObserveRaise(w)
    BY <1>6 DEF ObserveRaise, DropExec, TypeOK
  <1>7. CASE Abandon(w)
    <2> DEFINE t == heldTask[w]
    <2>1. wpc' \in [Workers -> {"down", "idle"} \union Holding]
          /\ heldTask' \in [Workers -> Tasks \union {NoTask}]
          /\ heldAttempt' \in [Workers -> 0..AttemptCap]
          /\ UNCHANGED <<attempts, createdAt, nextAt, execVars, procVars>>
      BY <1>7, BoundsType DEF Abandon, Release, TypeOK
    <2>2. CASE leaseOwner[t] # w
      BY <1>7, <2>1, <2>2 DEF Abandon, TypeOK
    <2>3. CASE Requeue({t})
      BY <2>1, <2>3, RequeueType DEF Requeue, TypeOK
    <2>4. CASE FailItem(t)
      <3>1. taskStatus' \in [Tasks -> {"absent", "queued"} \union TaskActive
                                             \union TaskTerminal]
        BY <2>4 DEF FailItem, TypeOK
      <3> \/ completedAt' = completedAt
          \/ completedAt' = [completedAt EXCEPT ![t] = TRUE]
        BY <2>4, Zenon DEF FailItem
      <3>3. completedAt' \in [Tasks -> BOOLEAN]
        BY DEF TypeOK
      <3>2. QED
        BY <2>1, <2>4, <3>1, <3>3 DEF FailItem, TypeOK
    <2>5. QED
      BY <1>7, <2>2, <2>3, <2>4 DEF Abandon
  <1>8. CASE Finish(w)
    <2> DEFINE t == heldTask[w]
    <2>1. wpc' \in [Workers -> {"down", "idle"} \union Holding]
          /\ heldTask' \in [Workers -> Tasks \union {NoTask}]
          /\ heldAttempt' \in [Workers -> 0..AttemptCap]
          /\ UNCHANGED <<attempts, createdAt, nextAt, procVars>>
      BY <1>8, BoundsType DEF Finish, Release, TypeOK
    <2>2. /\ exec' \in [Tasks -> [Attempts -> {"off"} \union AlivePhases \union DonePhases]]
          /\ runner' \in [Tasks -> [Attempts -> Workers \union {NoWorker}]]
      BY <1>8, DropType DEF Finish
    <2>3. CASE Requeue({t})
      BY <2>1, <2>2, <2>3, RequeueType DEF Requeue, TypeOK
    <2>4. CASE ~CancelPrecedes(t)
      <3>1. itemStatus' \in [Tasks -> {"absent"} \union ItemActive \union ItemTerminal]
            /\ UNCHANGED <<available, cancel, taskVars>>
        BY <1>8, <2>4 DEF Finish, ClosedStatus, TypeOK
      <3>2. lease' \in [Tasks -> {"none", "live", "expired"}]
            /\ leaseOwner' \in [Tasks -> Workers \union {NoWorker}]
        BY <1>8, <2>4, RequeueType DEF Finish
      <3>3. QED
        BY <2>1, <2>2, <3>1, <3>2 DEF TypeOK
    <2>5. QED
      BY <1>8, <2>3, <2>4 DEF Finish
  <1>9. CASE ShutdownCancel(w)
    BY <1>9 DEF ShutdownCancel, DropExec, TypeOK
  <1>10. CASE IdleExit(w)
    BY <1>10 DEF IdleExit, TypeOK
  <1>11. CASE LoopDies(w)
    <2>1. CASE wpc[w] = "busy"
      BY <1>11, <2>1, BoundsType, DropType DEF LoopDies, TypeOK
    <2>2. CASE wpc[w] # "busy"
      BY <1>11, <2>2, BoundsType DEF LoopDies, TypeOK
    <2>3. QED
      BY <2>1, <2>2
  <1>12. QED
    BY <1>1, <1>2, <1>3, <1>4, <1>5, <1>6, <1>7, <1>8, <1>9, <1>10, <1>11
       DEF WorkerStep

\* The same for the start and the end of a process.
LEMMA ProcessType ==
  ASSUME TypeOK, NEW p \in Procs, ProcessStep(p)
  PROVE  TypeOK'
  <1> USE DEF itemVars, taskVars, execVars, workerVars, procVars
  <1>0. Expired \in SUBSET Tasks
    BY DEF Expired
  <1>1. CASE Start(p)
    <2>1. createdAt' \in [Tasks -> Nat] /\ nextAt' \in Nat
      BY <1>1, CardTasks DEF Start, Orders, TypeOK
    <2>2. /\ itemStatus' \in [Tasks -> {"absent"} \union ItemActive \union ItemTerminal]
          /\ lease' \in [Tasks -> {"none", "live", "expired"}]
          /\ leaseOwner' \in [Tasks -> Workers \union {NoWorker}]
      <3>1. /\ ReleasedOwner(Expired \union Missing \union Inconsistent)
                 \in [Tasks -> Workers \union {NoWorker}]
            /\ ReleasedLease(Expired \union Missing \union Inconsistent)
                 \in [Tasks -> {"none", "live", "expired"}]
        BY RequeueType
      <3>2. lease' \in [Tasks -> {"none", "live", "expired"}]
            /\ leaseOwner' \in [Tasks -> Workers \union {NoWorker}]
        BY <1>1 DEF Start, TypeOK, ReleasedOwner, ReleasedLease
      <3>3. itemStatus' \in [Tasks -> {"absent"} \union ItemActive \union ItemTerminal]
        BY <1>1, RequeueType DEF Start
      <3>4. QED
        BY <3>2, <3>3
    <2>3. available' \in [Tasks -> BOOLEAN]
      BY <1>1 DEF Start
    <2>4. /\ cancel' \in [Tasks -> {"none", "first", "late"}]
          /\ taskStatus' \in [Tasks -> {"absent", "queued"} \union TaskActive
                                           \union TaskTerminal]
      BY <1>1 DEF Start, TypeOK
    <2>5. completedAt' \in [Tasks -> BOOLEAN] /\ report' \in [Tasks -> BOOLEAN]
      BY <1>1 DEF Start, ReportWithout
    <2>6. /\ procState' \in [Procs -> {"down", "up", "stopping"}]
          /\ wpc' \in [Workers -> {"down", "idle"} \union Holding]
      BY <1>1 DEF Start, TypeOK
    <2>7. UNCHANGED <<attempts, execVars, heldTask, heldAttempt, faults>>
      BY <1>1 DEF Start
    <2>8. QED
      BY <2>1, <2>2, <2>3, <2>4, <2>5, <2>6, <2>7 DEF TypeOK
  <1>2. ASSUME EndProcess(p), faults' \in 0..MaxFaults
        PROVE  TypeOK'
    BY <1>2, BoundsType DEF EndProcess, TypeOK
  <1>3. CASE Crash(p)
    BY <1>2, <1>3, BoundsType DEF Crash, TypeOK
  <1>4. CASE Stop(p)
    BY <1>4, BoundsType DEF Stop, TypeOK
  <1>5. CASE Exit(p)
    BY <1>2, <1>5 DEF Exit, TypeOK
  <1>6. QED
    BY <1>1, <1>3, <1>4, <1>5 DEF ProcessStep

\* Every variable has its type in every reachable state.
THEOREM QueueTypeOK == Spec => []TypeOK
  <1>1. Init => TypeOK
    BY BoundsType DEF Init, TypeOK
  <1>2. TypeOK /\ [Next]_vars => TypeOK'
    <2> SUFFICES ASSUME TypeOK, [Next]_vars PROVE TypeOK'
      OBVIOUS
    <2>1. CASE UNCHANGED vars
      BY <2>1 DEF TypeOK, vars, itemVars, taskVars, execVars, workerVars, procVars
    <2>2. CASE Next
      BY <2>2, ApiTimeType, ExecType, WorkerType, ProcessType DEF Next
    <2>3. QED
      BY <2>1, <2>2
  <1>3. QED
    BY <1>1, <1>2, PTL DEF Spec

-----------------------------------------------------------------------------
(* The inductive invariant under punctual heartbeats, and the safety           *)
(* properties that follow from it.                                            *)

Punctual == ~LeaseCanLapse /\ ~HeartbeatCanFail

\* An execution in memory is the current attempt of an item its loop holds, and
\* the item is leased unless the execution has completed it.
LEMMA RunningHeld ==
  ASSUME IInv, NEW t \in Tasks, NEW n \in Attempts, exec[t][n] # "off"
  PROVE  /\ runner[t][n] \in Workers
         /\ wpc[runner[t][n]] \in Supervising
         /\ heldTask[runner[t][n]] = t
         /\ heldAttempt[runner[t][n]] = n
         /\ n = attempts[t]
         /\ exec[t][n] # "returned" => itemStatus[t] = "leased" /\ lease[t] = "live"
         /\ itemStatus[t] \in {"leased", "completed"}
         /\ itemStatus[t] = "completed" => taskStatus[t] = "completed"
  BY DEF IInv, NoOrphans, LoopsConsistent, HeldItems, PhaseOf

\* Nobody executes or holds a task whose item is neither leased nor completed,
\* or whose lease is not live.
Unheld(t) ==
  \/ itemStatus[t] \notin {"leased", "completed"}
  \/ itemStatus[t] = "leased" /\ lease[t] # "live"

\* An item nobody holds is not being executed.
LEMMA NotRunning ==
  ASSUME IInv, NEW t \in Tasks, Unheld(t)
  PROVE  \A n \in Attempts : exec[t][n] = "off"
  <1> SUFFICES ASSUME NEW n \in Attempts, exec[t][n] # "off" PROVE FALSE
    OBVIOUS
  <1>1. \/ exec[t][n] # "returned" /\ itemStatus[t] = "leased" /\ lease[t] = "live"
        \/ exec[t][n] = "returned"
    BY RunningHeld
  <1>2. runner[t][n] \in Workers /\ wpc[runner[t][n]] \in Supervising
        /\ heldTask[runner[t][n]] = t
    BY RunningHeld
  <1>3. QED
    BY <1>1, <1>2 DEF IInv, HeldItems, Unheld

\* An item nobody holds is the item of no loop.
LEMMA NotHeld ==
  ASSUME IInv, NEW t \in Tasks, Unheld(t)
  PROVE  \A w \in Workers : heldTask[w] # t
  BY DistinctNulls DEF IInv, HeldItems, LoopsConsistent, Unheld

\* A bootstrap in a state of the invariant finds nothing to repair.
LEMMA NothingInconsistent ==
  ASSUME IInv
  PROVE  Inconsistent = {}
  BY DEF IInv, ClosedItemsAgree, Inconsistent, TypeOK

\* The pointwise effect of dropping one execution.
LEMMA ExecDropped ==
  ASSUME TypeOK, NEW t \in Tasks, NEW n \in Attempts, DropExec(t, n)
  PROVE  \A u \in Tasks : \A m \in Attempts :
           /\ exec'[u][m] = IF u = t /\ m = n THEN "off" ELSE exec[u][m]
           /\ runner'[u][m] = IF u = t /\ m = n THEN NoWorker ELSE runner[u][m]
  BY DEF TypeOK, DropExec

\* A step inside one execution keeps the loops and their items consistent.
LEMMA ExecCommon ==
  ASSUME IInv, NEW t \in Tasks, NEW n \in Attempts,
         NEW v \in AlivePhases \union DonePhases,
         exec[t][n] \in AlivePhases,
         exec' = [exec EXCEPT ![t][n] = v],
         UNCHANGED <<runner, workerVars, procVars, attempts, createdAt, nextAt>>,
         \A u \in Tasks \ {t} : /\ itemStatus'[u] = itemStatus[u]
                                /\ leaseOwner'[u] = leaseOwner[u]
                                /\ lease'[u] = lease[u]
                                /\ taskStatus'[u] = taskStatus[u],
         \/ /\ itemStatus'[t] = itemStatus[t]
            /\ leaseOwner'[t] = leaseOwner[t]
            /\ lease'[t] = lease[t]
         \/ itemStatus'[t] = "completed" /\ taskStatus'[t] = "completed" /\ v = "returned"
  PROVE  LoopsConsistent' /\ OneHolder' /\ NoOrphans' /\ HeldItems'
  <1> USE DEF workerVars, procVars
  <1>1. \A u \in Tasks : \A m \in Attempts :
           exec'[u][m] = IF u = t /\ m = n THEN v ELSE exec[u][m]
    <2>1. exec \in [Tasks -> [Attempts -> {"off"} \union AlivePhases \union DonePhases]]
      BY DEF IInv, TypeOK
    <2>2. QED
      BY <2>1
  <1>2. LoopsConsistent' /\ OneHolder'
    BY DEF IInv, LoopsConsistent, OneHolder
  <1>3. NoOrphans'
    BY <1>1 DEF IInv, NoOrphans
  <1>4. ASSUME NEW w \in Workers, wpc[w] \in Holding
        PROVE  LET u == heldTask[w]
               IN  \/ itemStatus'[u] = "leased" /\ leaseOwner'[u] = w /\ lease'[u] = "live"
                   \/ /\ itemStatus'[u] = "completed"
                      /\ wpc[w] \in Supervising
                      /\ exec'[u][heldAttempt[w]] = "returned"
                      /\ taskStatus'[u] = "completed"
    <2>1. heldTask[w] \in Tasks /\ heldAttempt[w] = attempts[heldTask[w]]
      BY <1>4 DEF IInv, LoopsConsistent
    <2>2. CASE heldTask[w] = t
      <3>1. runner[t][n] = w /\ heldAttempt[w] = n /\ wpc[w] \in Supervising
        BY <1>4, <2>2, RunningHeld DEF IInv, OneHolder
      <3>2. itemStatus[t] = "leased" /\ leaseOwner[t] = w /\ lease[t] = "live"
        BY <1>4, <2>2, <3>1 DEF IInv, HeldItems, PhaseOf
      <3>3. QED
        BY <1>1, <2>2, <3>1, <3>2
    <2>3. CASE heldTask[w] # t
      <3>1. CASE itemStatus[heldTask[w]] = "leased"
        BY <1>4, <2>1, <2>3, <3>1 DEF IInv, HeldItems
      <3>2. CASE itemStatus[heldTask[w]] # "leased"
        <4>1. exec[heldTask[w]][heldAttempt[w]] = "returned"
          BY <1>4, <3>2 DEF IInv, HeldItems, PhaseOf
        <4>2. heldAttempt[w] \in Attempts
          BY <1>4 DEF IInv, LoopsConsistent
        <4>3. QED
          BY <1>1, <1>4, <2>1, <2>3, <3>2, <4>1, <4>2 DEF IInv, HeldItems
      <3>3. QED
        BY <3>1, <3>2
    <2>4. QED
      BY <2>2, <2>3
  <1>5. HeldItems'
    BY <1>4 DEF HeldItems, PhaseOf
  <1>6. QED
    BY <1>2, <1>3, <1>5
\* Steps of the executor keep the invariant.
LEMMA ExecPrepareInv ==
  ASSUME IInv, NEW t \in Tasks, NEW n \in Attempts, ExecPrepare(t, n)
  PROVE  IInv'
  <1> USE DEF itemVars, taskVars, execVars, workerVars, procVars
  <1>1. /\ itemStatus[t] = "leased"
        /\ \A m \in Attempts : exec[t][m] # "off" => m = n
    BY RunningHeld DEF ExecPrepare
  <1>2. TypeOK'
    BY ExecType DEF IInv, ExecStep
  <1>3. \A u \in Tasks : \A m \in Attempts :
          exec'[u][m] = IF u = t /\ m = n THEN "prep" ELSE exec[u][m]
    BY DEF ExecPrepare, IInv, TypeOK
  <1>4. LoopsConsistent' /\ OneHolder' /\ NoOrphans' /\ HeldItems'
    <2>1. exec[t][n] \in AlivePhases
      BY DEF ExecPrepare
    <2>2. /\ exec' = [exec EXCEPT ![t][n] = "prep"]
          /\ UNCHANGED <<runner, workerVars, procVars, attempts, createdAt, nextAt>>
      BY DEF ExecPrepare
    <2>3. /\ \A u \in Tasks \ {t} : /\ itemStatus'[u] = itemStatus[u]
                                    /\ leaseOwner'[u] = leaseOwner[u]
                                    /\ lease'[u] = lease[u]
                                    /\ taskStatus'[u] = taskStatus[u]
          /\ \/ /\ itemStatus'[t] = itemStatus[t]
                /\ leaseOwner'[t] = leaseOwner[t]
                /\ lease'[t] = lease[t]
             \/ /\ itemStatus'[t] = "completed"
                /\ taskStatus'[t] = "completed"
                /\ "prep" = "returned"
      BY DEF ExecPrepare, IInv, TypeOK
    <2>4. QED
      BY <2>1, <2>2, <2>3, ExecCommon
  <1>5. ExecProgress'
    BY <1>1, <1>3 DEF ExecPrepare, IInv, TypeOK, ExecProgress
  <1>6. OpenItemsUnfinished' /\ ClosedItemsAgree' /\ AbsentTogether'
    BY <1>1 DEF ExecPrepare, IInv, TypeOK, OpenItemsUnfinished,
              ClosedItemsAgree, AbsentTogether
  <1>7. CreationOrder' /\ LeaseOrder'
    BY <1>1 DEF ExecPrepare, IInv, TypeOK, CreationOrder, LeaseOrder, Earlier, SameConv
  <1>8. ReportMatchesOutcome'
    BY <1>1 DEF ExecPrepare, IInv, TypeOK, ReportMatchesOutcome, ExecProgress,
              OpenItemsUnfinished
  <1>9. QED
    BY <1>2, <1>4, <1>5, <1>6, <1>7, <1>8 DEF IInv

\* Entering RUNNING keeps the invariant.
LEMMA ExecRunInv ==
  ASSUME IInv, NEW t \in Tasks, NEW n \in Attempts, ExecRun(t, n)
  PROVE  IInv'
  <1> USE DEF itemVars, taskVars, execVars, workerVars, procVars
  <1>1. /\ itemStatus[t] = "leased"
        /\ \A m \in Attempts : exec[t][m] # "off" => m = n
    BY RunningHeld DEF ExecRun
  <1>2. TypeOK'
    BY ExecType DEF IInv, ExecStep
  <1>3. \A u \in Tasks : \A m \in Attempts :
          exec'[u][m] = IF u = t /\ m = n THEN "run" ELSE exec[u][m]
    BY DEF ExecRun, IInv, TypeOK
  <1>4. LoopsConsistent' /\ OneHolder' /\ NoOrphans' /\ HeldItems'
    <2>1. exec[t][n] \in AlivePhases
      BY DEF ExecRun
    <2>2. /\ exec' = [exec EXCEPT ![t][n] = "run"]
          /\ UNCHANGED <<runner, workerVars, procVars, attempts, createdAt, nextAt>>
      BY DEF ExecRun
    <2>3. /\ \A u \in Tasks \ {t} : /\ itemStatus'[u] = itemStatus[u]
                                    /\ leaseOwner'[u] = leaseOwner[u]
                                    /\ lease'[u] = lease[u]
                                    /\ taskStatus'[u] = taskStatus[u]
          /\ \/ /\ itemStatus'[t] = itemStatus[t]
                /\ leaseOwner'[t] = leaseOwner[t]
                /\ lease'[t] = lease[t]
             \/ /\ itemStatus'[t] = "completed"
                /\ taskStatus'[t] = "completed"
                /\ "run" = "returned"
      BY DEF ExecRun, IInv, TypeOK
    <2>4. QED
      BY <2>1, <2>2, <2>3, ExecCommon
  <1>5. ExecProgress'
    BY <1>1, <1>3 DEF ExecRun, IInv, TypeOK, ExecProgress
  <1>6. OpenItemsUnfinished' /\ ClosedItemsAgree' /\ AbsentTogether'
    BY <1>1 DEF ExecRun, IInv, TypeOK, OpenItemsUnfinished,
              ClosedItemsAgree, AbsentTogether
  <1>7. CreationOrder' /\ LeaseOrder'
    BY <1>1 DEF ExecRun, IInv, TypeOK, CreationOrder, LeaseOrder, Earlier, SameConv
  <1>8. ReportMatchesOutcome'
    BY <1>1 DEF ExecRun, IInv, TypeOK, ReportMatchesOutcome, ExecProgress,
              OpenItemsUnfinished
  <1>9. QED
    BY <1>2, <1>4, <1>5, <1>6, <1>7, <1>8 DEF IInv

\* Committing the report keeps the invariant.
LEMMA ExecReportInv ==
  ASSUME IInv, NEW t \in Tasks, NEW n \in Attempts, ExecReport(t, n)
  PROVE  IInv'
  <1> USE DEF itemVars, taskVars, execVars, workerVars, procVars
  <1>1. /\ itemStatus[t] = "leased"
        /\ \A m \in Attempts : exec[t][m] # "off" => m = n
    BY RunningHeld DEF ExecReport
  <1>2. TypeOK'
    BY ExecType DEF IInv, ExecStep
  <1>3. \A u \in Tasks : \A m \in Attempts :
          exec'[u][m] = IF u = t /\ m = n THEN "report" ELSE exec[u][m]
    BY DEF ExecReport, IInv, TypeOK
  <1>4. LoopsConsistent' /\ OneHolder' /\ NoOrphans' /\ HeldItems'
    <2>1. exec[t][n] \in AlivePhases
      BY DEF ExecReport
    <2>2. /\ exec' = [exec EXCEPT ![t][n] = "report"]
          /\ UNCHANGED <<runner, workerVars, procVars, attempts, createdAt, nextAt>>
      BY DEF ExecReport
    <2>3. /\ \A u \in Tasks \ {t} : /\ itemStatus'[u] = itemStatus[u]
                                    /\ leaseOwner'[u] = leaseOwner[u]
                                    /\ lease'[u] = lease[u]
                                    /\ taskStatus'[u] = taskStatus[u]
          /\ \/ /\ itemStatus'[t] = itemStatus[t]
                /\ leaseOwner'[t] = leaseOwner[t]
                /\ lease'[t] = lease[t]
             \/ /\ itemStatus'[t] = "completed"
                /\ taskStatus'[t] = "completed"
                /\ "report" = "returned"
      BY DEF ExecReport, IInv, TypeOK
    <2>4. QED
      BY <2>1, <2>2, <2>3, ExecCommon
  <1>5. ExecProgress'
    BY <1>1, <1>3 DEF ExecReport, IInv, TypeOK, ExecProgress
  <1>6. OpenItemsUnfinished' /\ ClosedItemsAgree' /\ AbsentTogether'
    BY <1>1 DEF ExecReport, IInv, TypeOK, OpenItemsUnfinished,
              ClosedItemsAgree, AbsentTogether
  <1>7. CreationOrder' /\ LeaseOrder'
    BY <1>1 DEF ExecReport, IInv, TypeOK, CreationOrder, LeaseOrder, Earlier, SameConv
  <1>8. ReportMatchesOutcome'
    BY <1>1 DEF ExecReport, IInv, TypeOK, ReportMatchesOutcome, ExecProgress,
              OpenItemsUnfinished
  <1>9. QED
    BY <1>2, <1>4, <1>5, <1>6, <1>7, <1>8 DEF IInv

\* Completing task and item together keeps the invariant.
LEMMA ExecCompleteInv ==
  ASSUME IInv, NEW t \in Tasks, NEW n \in Attempts, ExecComplete(t, n)
  PROVE  IInv'
  <1> USE DEF itemVars, taskVars, execVars, workerVars, procVars
  <1>1. /\ itemStatus[t] = "leased"
        /\ \A m \in Attempts : exec[t][m] # "off" => m = n
    BY RunningHeld DEF ExecComplete
  <1>2. TypeOK'
    BY ExecType DEF IInv, ExecStep
  <1>3. \A u \in Tasks : \A m \in Attempts :
          exec'[u][m] = IF u = t /\ m = n THEN "returned" ELSE exec[u][m]
    BY DEF ExecComplete, IInv, TypeOK
  <1>4. LoopsConsistent' /\ OneHolder' /\ NoOrphans' /\ HeldItems'
    <2>1. exec[t][n] \in AlivePhases
      BY DEF ExecComplete
    <2>2. /\ exec' = [exec EXCEPT ![t][n] = "returned"]
          /\ UNCHANGED <<runner, workerVars, procVars, attempts, createdAt, nextAt>>
      BY DEF ExecComplete
    <2>3. /\ \A u \in Tasks \ {t} : /\ itemStatus'[u] = itemStatus[u]
                                    /\ leaseOwner'[u] = leaseOwner[u]
                                    /\ lease'[u] = lease[u]
                                    /\ taskStatus'[u] = taskStatus[u]
          /\ \/ /\ itemStatus'[t] = itemStatus[t]
                /\ leaseOwner'[t] = leaseOwner[t]
                /\ lease'[t] = lease[t]
             \/ /\ itemStatus'[t] = "completed"
                /\ taskStatus'[t] = "completed"
                /\ "returned" = "returned"
      BY DEF ExecComplete, IInv, TypeOK
    <2>4. QED
      BY <2>1, <2>2, <2>3, ExecCommon
  <1>5. ExecProgress'
    BY <1>1, <1>3 DEF ExecComplete, StampedCancel, IInv, TypeOK, ExecProgress
  <1>6. OpenItemsUnfinished' /\ ClosedItemsAgree' /\ AbsentTogether'
    BY <1>1 DEF ExecComplete, StampedCancel, IInv, TypeOK, OpenItemsUnfinished,
              ClosedItemsAgree, AbsentTogether
  <1>7. CreationOrder' /\ LeaseOrder'
    BY <1>1 DEF ExecComplete, StampedCancel, IInv, TypeOK, CreationOrder, LeaseOrder, Earlier, SameConv
  <1>8. ReportMatchesOutcome'
    BY <1>1 DEF ExecComplete, StampedCancel, IInv, TypeOK, ReportMatchesOutcome, ExecProgress,
              OpenItemsUnfinished
  <1>9. QED
    BY <1>2, <1>4, <1>5, <1>6, <1>7, <1>8 DEF IInv

\* _fail_task keeps the invariant: the item stays leased until finish.
LEMMA ExecFailInv ==
  ASSUME IInv, NEW t \in Tasks, NEW n \in Attempts, ExecFail(t, n)
  PROVE  IInv'
  <1> USE DEF itemVars, taskVars, execVars, workerVars, procVars
  <1>1. /\ itemStatus[t] = "leased"
        /\ \A m \in Attempts : exec[t][m] # "off" => m = n
    BY RunningHeld DEF ExecFail
  <1>2. TypeOK'
    BY ExecType DEF IInv, ExecStep
  <1>3. \A u \in Tasks : \A m \in Attempts :
          exec'[u][m] = IF u = t /\ m = n THEN "returned" ELSE exec[u][m]
    BY DEF ExecFail, IInv, TypeOK
  <1>4. LoopsConsistent' /\ OneHolder' /\ NoOrphans' /\ HeldItems'
    <2>1. exec[t][n] \in AlivePhases
      BY DEF ExecFail
    <2>2. /\ exec' = [exec EXCEPT ![t][n] = "returned"]
          /\ UNCHANGED <<runner, workerVars, procVars, attempts, createdAt, nextAt>>
      BY DEF ExecFail
    <2>3. /\ \A u \in Tasks \ {t} : /\ itemStatus'[u] = itemStatus[u]
                                    /\ leaseOwner'[u] = leaseOwner[u]
                                    /\ lease'[u] = lease[u]
                                    /\ taskStatus'[u] = taskStatus[u]
          /\ \/ /\ itemStatus'[t] = itemStatus[t]
                /\ leaseOwner'[t] = leaseOwner[t]
                /\ lease'[t] = lease[t]
             \/ /\ itemStatus'[t] = "completed"
                /\ taskStatus'[t] = "completed"
                /\ "returned" = "returned"
      BY DEF ExecFail, IInv, TypeOK
    <2>4. QED
      BY <2>1, <2>2, <2>3, ExecCommon
  <1>5. ExecProgress'
    BY <1>1, <1>3 DEF ExecFail, StampedCancel, IInv, TypeOK, ExecProgress
  <1>6. OpenItemsUnfinished' /\ ClosedItemsAgree' /\ AbsentTogether'
    BY <1>1 DEF ExecFail, StampedCancel, IInv, TypeOK, OpenItemsUnfinished,
              ClosedItemsAgree, AbsentTogether
  <1>7. CreationOrder' /\ LeaseOrder'
    BY <1>1 DEF ExecFail, StampedCancel, IInv, TypeOK, CreationOrder, LeaseOrder, Earlier, SameConv
  <1>8. ReportMatchesOutcome'
    BY <1>1 DEF ExecFail, StampedCancel, IInv, TypeOK, ReportMatchesOutcome, ExecProgress,
              OpenItemsUnfinished
  <1>9. QED
    BY <1>2, <1>4, <1>5, <1>6, <1>7, <1>8 DEF IInv

\* An execution that raises keeps the invariant.
LEMMA ExecRaiseInv ==
  ASSUME IInv, NEW t \in Tasks, NEW n \in Attempts, ExecRaise(t, n)
  PROVE  IInv'
  <1> USE DEF itemVars, taskVars, execVars, workerVars, procVars
  <1>1. /\ itemStatus[t] = "leased"
        /\ \A m \in Attempts : exec[t][m] # "off" => m = n
    BY RunningHeld DEF ExecRaise
  <1>2. TypeOK'
    BY ExecType DEF IInv, ExecStep
  <1>3. \A u \in Tasks : \A m \in Attempts :
          exec'[u][m] = IF u = t /\ m = n THEN "raised" ELSE exec[u][m]
    BY DEF ExecRaise, IInv, TypeOK
  <1>4. LoopsConsistent' /\ OneHolder' /\ NoOrphans' /\ HeldItems'
    <2>1. exec[t][n] \in AlivePhases
      BY DEF ExecRaise
    <2>2. /\ exec' = [exec EXCEPT ![t][n] = "raised"]
          /\ UNCHANGED <<runner, workerVars, procVars, attempts, createdAt, nextAt>>
      BY DEF ExecRaise
    <2>3. /\ \A u \in Tasks \ {t} : /\ itemStatus'[u] = itemStatus[u]
                                    /\ leaseOwner'[u] = leaseOwner[u]
                                    /\ lease'[u] = lease[u]
                                    /\ taskStatus'[u] = taskStatus[u]
          /\ \/ /\ itemStatus'[t] = itemStatus[t]
                /\ leaseOwner'[t] = leaseOwner[t]
                /\ lease'[t] = lease[t]
             \/ /\ itemStatus'[t] = "completed"
                /\ taskStatus'[t] = "completed"
                /\ "raised" = "returned"
      BY DEF ExecRaise, IInv, TypeOK
    <2>4. QED
      BY <2>1, <2>2, <2>3, ExecCommon
  <1>5. ExecProgress'
    BY <1>1, <1>3 DEF ExecRaise, IInv, TypeOK, ExecProgress
  <1>6. OpenItemsUnfinished' /\ ClosedItemsAgree' /\ AbsentTogether'
    BY <1>1 DEF ExecRaise, IInv, TypeOK, OpenItemsUnfinished,
              ClosedItemsAgree, AbsentTogether
  <1>7. CreationOrder' /\ LeaseOrder'
    BY <1>1 DEF ExecRaise, IInv, TypeOK, CreationOrder, LeaseOrder, Earlier, SameConv
  <1>8. ReportMatchesOutcome'
    BY <1>1 DEF ExecRaise, IInv, TypeOK, ReportMatchesOutcome, ExecProgress,
              OpenItemsUnfinished
  <1>9. QED
    BY <1>2, <1>4, <1>5, <1>6, <1>7, <1>8 DEF IInv

\* Steps of the API and of time keep the invariant.
LEMMA CreateTaskInv ==
  ASSUME IInv, NEW t \in Tasks, CreateTask(t)
  PROVE  IInv'
  <1> USE DEF itemVars, taskVars, execVars, workerVars, procVars
  <1>1. TypeOK'
    BY ApiTimeType DEF IInv, ApiStep
  <1>2. /\ itemStatus[t] = "absent"
        /\ \A n \in Attempts : exec[t][n] = "off"
        /\ \A w \in Workers : heldTask[w] # t
    <2>1. itemStatus[t] = "absent"
      BY DEF CreateTask, IInv, AbsentTogether
    <2>2. Unheld(t)
      BY <2>1 DEF Unheld
    <2>3. QED
      BY <2>1, <2>2, NotRunning, NotHeld
  <1>3. LoopsConsistent' /\ OneHolder' /\ NoOrphans'
    BY DEF CreateTask, IInv, LoopsConsistent, OneHolder, NoOrphans
  <1>4. HeldItems'
    BY <1>2 DEF CreateTask, IInv, TypeOK, HeldItems, LoopsConsistent, PhaseOf
  <1>5. ExecProgress'
    BY <1>2 DEF CreateTask, IInv, TypeOK, ExecProgress
  <1>6. OpenItemsUnfinished' /\ ClosedItemsAgree' /\ ReportMatchesOutcome' /\ AbsentTogether'
    BY DEF CreateTask, IInv, TypeOK, OpenItemsUnfinished, ClosedItemsAgree,
           ReportMatchesOutcome, AbsentTogether
  <1>7. CreationOrder' /\ LeaseOrder'
    BY DEF CreateTask, IInv, TypeOK, CreationOrder, LeaseOrder, Earlier, SameConv
  <1>8. QED
    BY <1>1, <1>3, <1>4, <1>5, <1>6, <1>7 DEF IInv

\* request_cancel on a queued item keeps the invariant.
LEMMA CancelQueuedInv ==
  ASSUME IInv, NEW t \in Tasks, CancelQueued(t)
  PROVE  IInv'
  <1> USE DEF itemVars, taskVars, execVars, workerVars, procVars
  <1>1. TypeOK'
    BY ApiTimeType DEF IInv, ApiStep
  <1>2. /\ \A n \in Attempts : exec[t][n] = "off"
        /\ \A w \in Workers : heldTask[w] # t
    <2>1. Unheld(t)
      BY DEF Unheld, CancelQueued
    <2>2. QED
      BY <2>1, NotRunning, NotHeld
  <1>3. LoopsConsistent' /\ OneHolder' /\ NoOrphans'
    BY DEF CancelQueued, IInv, LoopsConsistent, OneHolder, NoOrphans
  <1>4. HeldItems'
    BY <1>2 DEF CancelQueued, IInv, TypeOK, HeldItems, LoopsConsistent, PhaseOf
  <1>5. /\ \A u \in Tasks \ {t} : /\ taskStatus'[u] = taskStatus[u]
                                 /\ report'[u] = report[u]
                                 /\ cancel'[u] = cancel[u]
        /\ \/ taskStatus'[t] = "cancelled" /\ ~report'[t] /\ cancel'[t] = "first"
           \/ /\ taskStatus'[t] = "failed" /\ taskStatus[t] = "failed"
              /\ report'[t] = report[t] /\ cancel'[t] = "late"
    <2>1. CASE taskStatus[t] \in TaskTerminal
      <3>1. taskStatus[t] = "failed"
        BY <2>1 DEF CancelQueued, IInv, OpenItemsUnfinished
      <3>2. UNCHANGED <<taskStatus, report>> /\ cancel' = [cancel EXCEPT ![t] = "late"]
        BY <2>1 DEF CancelQueued
      <3>3. QED
        BY <3>1, <3>2 DEF IInv, TypeOK
    <2>2. CASE taskStatus[t] \notin TaskTerminal
      <3>1. /\ report' = [report EXCEPT ![t] = FALSE]
            /\ taskStatus' = [taskStatus EXCEPT ![t] = "cancelled"]
            /\ cancel' = [cancel EXCEPT ![t] = "first"]
        BY <2>2, Zenon DEF CancelQueued
      <3>2. QED
        BY <3>1 DEF IInv, TypeOK
    <2>3. QED
      BY <2>1, <2>2
  <1>6. itemStatus[t] = "queued" /\ itemStatus' = [itemStatus EXCEPT ![t] = "cancelled"]
    BY DEF CancelQueued
  <1>7. ExecProgress'
    BY <1>2, <1>5 DEF CancelQueued, IInv, ExecProgress
  <1>8. OpenItemsUnfinished' /\ ClosedItemsAgree' /\ AbsentTogether'
    BY <1>5, <1>6 DEF CancelQueued, IInv, TypeOK, OpenItemsUnfinished, ClosedItemsAgree,
              AbsentTogether
  <1>9. ReportMatchesOutcome'
    BY <1>5 DEF IInv, ReportMatchesOutcome
  <1>10. CreationOrder' /\ LeaseOrder'
    BY DEF CancelQueued, IInv, TypeOK, CreationOrder, LeaseOrder, Earlier, SameConv
  <1>11. QED
    BY <1>1, <1>3, <1>4, <1>7, <1>8, <1>9, <1>10 DEF IInv

\* request_cancel on a leased item keeps the invariant.
LEMMA CancelLeasedInv ==
  ASSUME IInv, NEW t \in Tasks, CancelLeased(t)
  PROVE  IInv'
  <1> USE DEF itemVars, taskVars, execVars, workerVars, procVars
  <1>1. TypeOK'
    BY ApiTimeType DEF IInv, ApiStep
  <1>2. LoopsConsistent' /\ HeldItems' /\ OneHolder' /\ NoOrphans'
    BY DEF CancelLeased, IInv, LoopsConsistent, HeldItems, PhaseOf, OneHolder, NoOrphans
  <1>3. ExecProgress' /\ OpenItemsUnfinished' /\ ClosedItemsAgree' /\ ReportMatchesOutcome' /\ AbsentTogether'
    BY DEF CancelLeased, IInv, TypeOK, ExecProgress, OpenItemsUnfinished,
           ClosedItemsAgree, ReportMatchesOutcome, AbsentTogether
  <1>4. CreationOrder' /\ LeaseOrder'
    BY DEF CancelLeased, IInv, CreationOrder, LeaseOrder, Earlier, SameConv
  <1>5. QED
    BY <1>1, <1>2, <1>3, <1>4 DEF IInv

\* A lease that runs out, which under Punctual is one nobody holds.
LEMMA LeaseExpiresInv ==
  ASSUME Punctual, IInv, NEW t \in Tasks, LeaseExpires(t)
  PROVE  IInv'
  <1> USE DEF itemVars, taskVars, execVars, workerVars, procVars
  <1>1. TypeOK'
    BY ApiTimeType DEF IInv, TimeStep
  <1>2. \A w \in Workers : wpc[w] \in Holding => heldTask[w] # t
    BY DEF LeaseExpires, Supervised, Punctual, IInv, LoopsConsistent
  <1>3. HeldItems'
    BY <1>2 DEF LeaseExpires, IInv, TypeOK, HeldItems, PhaseOf
  <1>4. LoopsConsistent' /\ OneHolder' /\ NoOrphans'
    BY DEF LeaseExpires, IInv, LoopsConsistent, OneHolder, NoOrphans
  <1>5. ExecProgress' /\ OpenItemsUnfinished' /\ ClosedItemsAgree' /\ ReportMatchesOutcome' /\ AbsentTogether'
    BY DEF LeaseExpires, IInv, ExecProgress, OpenItemsUnfinished,
           ClosedItemsAgree, ReportMatchesOutcome, AbsentTogether
  <1>6. CreationOrder' /\ LeaseOrder'
    BY DEF LeaseExpires, IInv, CreationOrder, LeaseOrder, Earlier, SameConv
  <1>7. QED
    BY <1>1, <1>3, <1>4, <1>5, <1>6 DEF IInv

\* The end of a backoff keeps the invariant.
LEMMA BackoffElapsesInv ==
  ASSUME IInv, NEW t \in Tasks, BackoffElapses(t)
  PROVE  IInv'
  <1> USE DEF itemVars, taskVars, execVars, workerVars, procVars
  <1>1. TypeOK'
    BY ApiTimeType DEF IInv, TimeStep
  <1>2. LoopsConsistent' /\ HeldItems' /\ OneHolder' /\ NoOrphans'
    BY DEF BackoffElapses, IInv, LoopsConsistent, HeldItems, PhaseOf, OneHolder, NoOrphans
  <1>3. ExecProgress' /\ OpenItemsUnfinished' /\ ClosedItemsAgree' /\ ReportMatchesOutcome' /\ AbsentTogether'
    BY DEF BackoffElapses, IInv, ExecProgress, OpenItemsUnfinished,
           ClosedItemsAgree, ReportMatchesOutcome, AbsentTogether
  <1>4. CreationOrder' /\ LeaseOrder'
    BY DEF BackoffElapses, IInv, CreationOrder, LeaseOrder, Earlier, SameConv
  <1>5. QED
    BY <1>1, <1>2, <1>3, <1>4 DEF IInv

-----------------------------------------------------------------------------
(* Steps of a worker loop keep the invariant. *)

\* heartbeat keeps the invariant, whether it renews or stops.
LEMMA HeartbeatInv ==
  ASSUME IInv, NEW w \in Workers, Heartbeat(w)
  PROVE  IInv'
  <1> USE DEF itemVars, taskVars, execVars, workerVars, procVars
  <1>1. TypeOK'
    BY WorkerType DEF IInv, WorkerStep
  <1>2. /\ wpc[w] = "busy" /\ heldTask[w] \in Tasks
        /\ \A v \in Workers : wpc'[v] = wpc[v] \/ (v = w /\ wpc'[v] \in Supervising)
        /\ \A u \in Tasks : lease'[u] = lease[u] \/ lease'[u] = "live"
    <2>1. wpc[w] = "busy" /\ heldTask[w] \in Tasks
      BY DEF Heartbeat, IInv, LoopsConsistent
    <2>2. wpc' = wpc \/ wpc' = [wpc EXCEPT ![w] = "cancelling"]
      BY Zenon DEF Heartbeat
    <2>3. lease' = lease \/ lease' = [lease EXCEPT ![heldTask[w]] = "live"]
      BY Zenon DEF Heartbeat
    <2>4. wpc \in [Workers -> {"down", "idle"} \union Holding]
          /\ lease \in [Tasks -> {"none", "live", "expired"}]
      BY DEF IInv, TypeOK
    <2>5. \A v \in Workers : wpc'[v] = wpc[v] \/ (v = w /\ wpc'[v] \in Supervising)
      <3>1. CASE wpc' = wpc
        BY <3>1
      <3>2. CASE wpc' = [wpc EXCEPT ![w] = "cancelling"]
        BY <2>4, <3>2
      <3>3. QED
        BY <2>2, <3>1, <3>2
    <2>6. \A u \in Tasks : lease'[u] = lease[u] \/ lease'[u] = "live"
      BY <2>3, <2>4
    <2>7. QED
      BY <2>1, <2>5, <2>6
  <1>3. LoopsConsistent' /\ OneHolder' /\ NoOrphans'
    BY <1>2 DEF Heartbeat, IInv, LoopsConsistent, OneHolder, NoOrphans
  <1>4. HeldItems'
    BY <1>2 DEF Heartbeat, IInv, HeldItems, PhaseOf, LoopsConsistent
  <1>5. ExecProgress' /\ OpenItemsUnfinished' /\ ClosedItemsAgree' /\ AbsentTogether'
        /\ ReportMatchesOutcome'
    BY DEF Heartbeat, IInv, ExecProgress, OpenItemsUnfinished, ClosedItemsAgree,
           AbsentTogether, ReportMatchesOutcome
  <1>6. CreationOrder' /\ LeaseOrder'
    BY DEF Heartbeat, IInv, CreationOrder, LeaseOrder, Earlier, SameConv
  <1>7. QED
    BY <1>1, <1>3, <1>4, <1>5, <1>6 DEF IInv

\* A loop that drops its unfinished execution and goes on to abandon the item.
LEMMA DropToAbandonInv ==
  ASSUME IInv, TypeOK', NEW w \in Workers,
         wpc[w] \in Supervising,
         PhaseOf(w) # "returned",
         wpc' = [wpc EXCEPT ![w] = "abandoning"],
         DropExec(heldTask[w], heldAttempt[w]),
         UNCHANGED <<itemVars, taskVars, heldTask, heldAttempt, procState>>
  PROVE  IInv'
  <1> USE DEF itemVars, taskVars
  <1>1. /\ heldTask[w] \in Tasks /\ heldAttempt[w] \in Attempts
        /\ procState[ProcOf[w]] # "down"
    BY DEF IInv, LoopsConsistent
  <1>2. \A u \in Tasks : \A m \in Attempts :
          /\ exec'[u][m] = IF u = heldTask[w] /\ m = heldAttempt[w] THEN "off" ELSE exec[u][m]
          /\ runner'[u][m] = IF u = heldTask[w] /\ m = heldAttempt[w] THEN NoWorker
                             ELSE runner[u][m]
    BY <1>1, ExecDropped DEF IInv
  <1>3. \A v \in Workers : wpc'[v] = IF v = w THEN "abandoning" ELSE wpc[v]
    BY DEF IInv, TypeOK
  <1>4. LoopsConsistent' /\ OneHolder'
    BY <1>1, <1>3 DEF IInv, LoopsConsistent, OneHolder
  <1>5. NoOrphans'
    <2> SUFFICES ASSUME NEW u \in Tasks, NEW m \in Attempts, exec'[u][m] # "off"
                 PROVE  /\ runner'[u][m] \in Workers
                        /\ wpc'[runner'[u][m]] \in Supervising
                        /\ heldTask'[runner'[u][m]] = u
                        /\ heldAttempt'[runner'[u][m]] = m
      BY DEF NoOrphans
    <2>1. ~(u = heldTask[w] /\ m = heldAttempt[w])
          /\ exec[u][m] # "off" /\ runner'[u][m] = runner[u][m]
      BY <1>2
    <2>2. runner[u][m] # w
      BY <2>1 DEF IInv, NoOrphans
    <2>3. QED
      BY <1>3, <2>1, <2>2 DEF IInv, NoOrphans
  <1>6. HeldItems'
    <2> SUFFICES ASSUME NEW v \in Workers, wpc'[v] \in Holding
                 PROVE  LET t == heldTask[v]
                        IN  \/ itemStatus[t] = "leased" /\ leaseOwner[t] = v /\ lease[t] = "live"
                            \/ /\ itemStatus[t] = "completed"
                               /\ wpc'[v] \in Supervising
                               /\ exec'[t][heldAttempt[v]] = "returned"
                               /\ taskStatus[t] = "completed"
      BY DEF HeldItems, PhaseOf
    <2>1. CASE v = w
      BY <1>3, <2>1 DEF IInv, HeldItems
    <2>2. CASE v # w
      <3>1. wpc'[v] = wpc[v] /\ heldTask[v] # heldTask[w]
            /\ heldTask[v] \in Tasks /\ heldAttempt[v] \in Attempts
        BY <1>3, <2>2 DEF IInv, OneHolder, LoopsConsistent
      <3>2. exec'[heldTask[v]][heldAttempt[v]] = PhaseOf(v)
        BY <1>2, <3>1 DEF PhaseOf
      <3>3. QED
        BY <3>1, <3>2 DEF IInv, HeldItems
    <2>3. QED
      BY <2>1, <2>2
  <1>7. ExecProgress'
    BY <1>2 DEF IInv, ExecProgress
  <1>8. OpenItemsUnfinished' /\ ClosedItemsAgree' /\ AbsentTogether' /\ ReportMatchesOutcome'
    BY DEF IInv, OpenItemsUnfinished, ClosedItemsAgree, AbsentTogether, ReportMatchesOutcome
  <1>9. CreationOrder' /\ LeaseOrder'
    BY DEF IInv, CreationOrder, LeaseOrder, Earlier, SameConv
  <1>10. QED
    BY <1>4, <1>5, <1>6, <1>7, <1>8, <1>9 DEF IInv

\* A step that changes the control state of one loop inside "busy"/"cancelling"
\* or ends an idle one, and nothing else the invariant looks at.
LEMMA ControlStepInv ==
  ASSUME IInv, TypeOK', NEW w \in Workers,
         \/ wpc[w] \in Supervising /\ wpc' = [wpc EXCEPT ![w] = "busy"]
         \/ wpc[w] = "idle" /\ wpc' = [wpc EXCEPT ![w] = "down"],
         UNCHANGED <<itemVars, taskVars, execVars, heldTask, heldAttempt, procState>>
  PROVE  IInv'
  <1> USE DEF itemVars, taskVars, execVars
  <1>1. \A v \in Workers : \/ wpc'[v] = wpc[v]
                           \/ wpc[v] \in Supervising /\ wpc'[v] = "busy"
                           \/ wpc[v] = "idle" /\ wpc'[v] = "down"
    BY DEF IInv, TypeOK
  <1>2. LoopsConsistent' /\ OneHolder'
    BY <1>1 DEF IInv, LoopsConsistent, OneHolder
  <1>3. NoOrphans' /\ HeldItems'
    BY <1>1 DEF IInv, NoOrphans, HeldItems, PhaseOf
  <1>4. ExecProgress' /\ OpenItemsUnfinished' /\ ClosedItemsAgree' /\ AbsentTogether'
        /\ ReportMatchesOutcome'
    BY DEF IInv, ExecProgress, OpenItemsUnfinished, ClosedItemsAgree,
           AbsentTogether, ReportMatchesOutcome
  <1>5. CreationOrder' /\ LeaseOrder'
    BY DEF IInv, CreationOrder, LeaseOrder, Earlier, SameConv
  <1>6. QED
    BY <1>2, <1>3, <1>4, <1>5 DEF IInv

\* A stopped execution is dropped before its item is abandoned.
LEMMA StopExecutionInv ==
  ASSUME IInv, NEW w \in Workers, StopExecution(w)
  PROVE  IInv'
  <1> USE DEF procVars
  <1>1. TypeOK'
    BY WorkerType DEF IInv, WorkerStep
  <1>2. CASE PhaseOf(w) \in AlivePhases
    BY <1>1, <1>2, DropToAbandonInv DEF StopExecution
  <1>3. CASE PhaseOf(w) \notin AlivePhases
    BY <1>1, <1>3, ControlStepInv DEF StopExecution
  <1>4. QED
    BY <1>2, <1>3

\* A raised execution is dropped before its item is abandoned.
LEMMA ObserveRaiseInv ==
  ASSUME IInv, NEW w \in Workers, ObserveRaise(w)
  PROVE  IInv'
  <1>1. TypeOK'
    BY WorkerType DEF IInv, WorkerStep
  <1>2. QED
    BY <1>1, DropToAbandonInv DEF ObserveRaise, procVars

\* A shutdown drops the execution before its item is abandoned.
LEMMA ShutdownCancelInv ==
  ASSUME IInv, NEW w \in Workers, ShutdownCancel(w)
  PROVE  IInv'
  <1>1. TypeOK'
    BY WorkerType DEF IInv, WorkerStep
  <1>2. QED
    BY <1>1, DropToAbandonInv DEF ShutdownCancel, procVars

\* An idle loop that ends keeps the invariant.
LEMMA IdleExitInv ==
  ASSUME IInv, NEW w \in Workers, IdleExit(w)
  PROVE  IInv'
  <1>1. TypeOK'
    BY WorkerType DEF IInv, WorkerStep
  <1>2. QED
    BY <1>1, ControlStepInv DEF IdleExit, procVars

\* A loop that lets go of its item, with its execution: the executions and the
\* other loops stay consistent whatever happens to the item.
LEMMA ReleaseCommon ==
  ASSUME IInv, NEW w \in Workers, NEW v \in {"down", "idle"},
         wpc[w] # "down",
         wpc' = [wpc EXCEPT ![w] = v],
         heldTask' = [heldTask EXCEPT ![w] = NoTask],
         heldAttempt' = [heldAttempt EXCEPT ![w] = 0],
         IF wpc[w] \in Supervising THEN DropExec(heldTask[w], heldAttempt[w])
         ELSE UNCHANGED <<exec, runner>>,
         UNCHANGED <<procState, attempts>>,
         \A u \in Tasks : u # heldTask[w] =>
           /\ itemStatus'[u] = itemStatus[u]
           /\ leaseOwner'[u] = leaseOwner[u]
           /\ lease'[u] = lease[u]
           /\ taskStatus'[u] = taskStatus[u]
           /\ report[u] => report'[u]
  PROVE  LoopsConsistent' /\ HeldItems' /\ OneHolder' /\ NoOrphans' /\ ExecProgress'
  <1>1. /\ procState[ProcOf[w]] # "down"
        /\ wpc[w] \in Supervising =>
             heldTask[w] \in Tasks /\ heldAttempt[w] \in Attempts
    BY DEF IInv, LoopsConsistent
  <1>2. \A x \in Workers :
          /\ wpc'[x] = IF x = w THEN v ELSE wpc[x]
          /\ heldTask'[x] = IF x = w THEN NoTask ELSE heldTask[x]
          /\ heldAttempt'[x] = IF x = w THEN 0 ELSE heldAttempt[x]
    BY DEF IInv, TypeOK
  <1>3. LoopsConsistent' /\ OneHolder'
    BY <1>1, <1>2 DEF IInv, LoopsConsistent, OneHolder
  <1>4. ASSUME NEW u \in Tasks, NEW m \in Attempts, exec'[u][m] # "off"
        PROVE  /\ exec[u][m] = exec'[u][m] /\ runner'[u][m] = runner[u][m]
               /\ runner[u][m] # w /\ u # heldTask[w]
    <2>1. /\ exec'[u][m] = exec[u][m] /\ runner'[u][m] = runner[u][m]
          /\ ~(wpc[w] \in Supervising /\ u = heldTask[w] /\ m = heldAttempt[w])
      <3>1. CASE wpc[w] \in Supervising
        <4>1. \A a \in Tasks : \A b \in Attempts :
                /\ exec'[a][b] = IF a = heldTask[w] /\ b = heldAttempt[w] THEN "off"
                                 ELSE exec[a][b]
                /\ runner'[a][b] = IF a = heldTask[w] /\ b = heldAttempt[w] THEN NoWorker
                                   ELSE runner[a][b]
          BY <1>1, <3>1, ExecDropped DEF IInv
        <4>2. QED
          BY <1>4, <4>1
      <3>2. CASE wpc[w] \notin Supervising
        BY <3>2
      <3>3. QED
        BY <3>1, <3>2
    <2>2. /\ runner[u][m] \in Workers /\ wpc[runner[u][m]] \in Supervising
          /\ heldTask[runner[u][m]] = u /\ heldAttempt[runner[u][m]] = m
      BY <1>4, <2>1 DEF IInv, NoOrphans
    <2>3. runner[u][m] # w
      BY <2>1, <2>2
    <2>4. u # heldTask[w]
      <3>1. CASE wpc[w] \in Holding
        BY <2>2, <2>3, <3>1 DEF IInv, OneHolder
      <3>2. CASE wpc[w] \notin Holding
        BY <3>2, DistinctNulls DEF IInv, LoopsConsistent
      <3>3. QED
        BY <3>1, <3>2
    <2>5. QED
      BY <2>1, <2>3, <2>4
  <1>5. NoOrphans'
    BY <1>2, <1>4 DEF IInv, NoOrphans
  <1>6. HeldItems'
    <2> SUFFICES ASSUME NEW x \in Workers, wpc'[x] \in Holding
                 PROVE  LET t == heldTask'[x]
                        IN  \/ itemStatus'[t] = "leased" /\ leaseOwner'[t] = x /\ lease'[t] = "live"
                            \/ /\ itemStatus'[t] = "completed"
                               /\ wpc'[x] \in Supervising
                               /\ exec'[t][heldAttempt'[x]] = "returned"
                               /\ taskStatus'[t] = "completed"
      BY DEF HeldItems, PhaseOf
    <2>1. /\ x # w /\ wpc[x] \in Holding /\ wpc'[x] = wpc[x]
          /\ heldTask'[x] = heldTask[x] /\ heldAttempt'[x] = heldAttempt[x]
      BY <1>2
    <2>2. heldTask[x] \in Tasks /\ heldAttempt[x] \in Attempts
      BY <2>1 DEF IInv, LoopsConsistent
    <2>3. heldTask[x] # heldTask[w]
      <3>1. CASE wpc[w] \in Holding
        BY <2>1, <3>1 DEF IInv, OneHolder
      <3>2. CASE wpc[w] \notin Holding
        BY <2>2, <3>2, DistinctNulls DEF IInv, LoopsConsistent
      <3>3. QED
        BY <3>1, <3>2
    <2>4. exec'[heldTask[x]][heldAttempt[x]] = exec[heldTask[x]][heldAttempt[x]]
      <3>1. CASE wpc[w] \in Supervising
        BY <1>1, <2>2, <2>3, <3>1, ExecDropped DEF IInv
      <3>2. CASE wpc[w] \notin Supervising
        BY <3>2
      <3>3. QED
        BY <3>1, <3>2
    <2>5. QED
      BY <2>1, <2>2, <2>3, <2>4 DEF IInv, HeldItems, PhaseOf
  <1>7. ExecProgress'
    <2> SUFFICES ASSUME NEW u \in Tasks, NEW m \in Attempts
                 PROVE  /\ exec'[u][m] = "returned" => taskStatus'[u] \in TaskTerminal
                        /\ exec'[u][m] = "report" => report'[u]
      BY DEF ExecProgress
    <2>1. CASE exec'[u][m] = "off"
      BY <2>1
    <2>2. CASE exec'[u][m] # "off"
      BY <1>4, <2>2 DEF IInv, ExecProgress
    <2>3. QED
      BY <2>1, <2>2
  <1>8. QED
    BY <1>3, <1>5, <1>6, <1>7

\* A loop that dies takes its execution with it and leaves the lease behind.
LEMMA LoopDiesInv ==
  ASSUME IInv, NEW w \in Workers, LoopDies(w)
  PROVE  IInv'
  <1> USE DEF itemVars, taskVars, execVars
  <1>1. TypeOK'
    BY WorkerType DEF IInv, WorkerStep
  <1>2. /\ wpc[w] # "down"
        /\ wpc' = [wpc EXCEPT ![w] = "down"]
        /\ heldTask' = [heldTask EXCEPT ![w] = NoTask]
        /\ heldAttempt' = [heldAttempt EXCEPT ![w] = 0]
        /\ IF wpc[w] \in Supervising THEN DropExec(heldTask[w], heldAttempt[w])
           ELSE UNCHANGED <<exec, runner>>
        /\ UNCHANGED <<procState, attempts, itemStatus, leaseOwner, lease, taskStatus, report>>
    BY DEF LoopDies
  <1>3. LoopsConsistent' /\ HeldItems' /\ OneHolder' /\ NoOrphans' /\ ExecProgress'
    BY <1>2, ReleaseCommon
  <1>4. OpenItemsUnfinished' /\ ClosedItemsAgree' /\ AbsentTogether' /\ ReportMatchesOutcome'
    BY DEF LoopDies, IInv, OpenItemsUnfinished, ClosedItemsAgree, AbsentTogether,
           ReportMatchesOutcome
  <1>5. CreationOrder' /\ LeaseOrder'
    BY DEF LoopDies, IInv, CreationOrder, LeaseOrder, Earlier, SameConv
  <1>6. QED
    BY <1>1, <1>3, <1>4, <1>5 DEF IInv

-----------------------------------------------------------------------------
(* Steps that give back or close items. *)

\* Task and item of u have an outcome the invariant admits, in the next state.
AgreesNext(u) ==
  \/ itemStatus'[u] = "queued" /\ taskStatus'[u] \in {"queued", "failed"}
  \/ itemStatus'[u] = "cancelled" /\ taskStatus'[u] = "cancelled" /\ ~report'[u]
  \/ itemStatus'[u] = "cancelled" /\ taskStatus'[u] = "failed" /\ cancel'[u] = "late"
  \/ itemStatus'[u] = "failed" /\ taskStatus'[u] = "failed"
  \/ itemStatus'[u] = "completed" /\ taskStatus'[u] = "completed" /\ report'[u]

SameOutcome(u) ==
  /\ itemStatus'[u] = itemStatus[u]
  /\ taskStatus'[u] = taskStatus[u]
  /\ report'[u] = report[u]
  /\ cancel'[u] = cancel[u]

\* An item is leased and its task stays as it was.
TakenUp(u) ==
  /\ itemStatus[u] = "queued" /\ itemStatus'[u] = "leased"
  /\ taskStatus'[u] = taskStatus[u]
  /\ report'[u] = report[u]

\* Items, tasks and reports agree after a step that keeps, closes or takes up
\* each item.
LEMMA OutcomesAgree ==
  ASSUME IInv, \A u \in Tasks : SameOutcome(u) \/ AgreesNext(u) \/ TakenUp(u)
  PROVE  OpenItemsUnfinished' /\ ClosedItemsAgree' /\ AbsentTogether' /\ ReportMatchesOutcome'
  <1>1. OpenItemsUnfinished' /\ ClosedItemsAgree'
    BY DEF IInv, SameOutcome, AgreesNext, TakenUp, OpenItemsUnfinished, ClosedItemsAgree
  <1>2. AbsentTogether' /\ ReportMatchesOutcome'
    BY DEF IInv, SameOutcome, AgreesNext, TakenUp, AbsentTogether, ReportMatchesOutcome
  <1>3. QED
    BY <1>1, <1>2

\* Giving back or closing items that were active disturbs no order.
LEMMA OrderKept ==
  ASSUME IInv, UNCHANGED <<createdAt, nextAt>>,
         \A u \in Tasks : \/ itemStatus'[u] = itemStatus[u]
                          \/ itemStatus[u] \in ItemActive /\ itemStatus'[u] = "queued"
                          \/ itemStatus[u] # "absent" /\ itemStatus'[u] \in ItemTerminal
  PROVE  CreationOrder' /\ LeaseOrder'
  <1>1. CreationOrder'
    BY DEF IInv, CreationOrder
  <1>2. LeaseOrder'
    BY DEF IInv, LeaseOrder, Earlier, SameConv
  <1>3. QED
    BY <1>1, <1>2

\* What _requeue_locked on the items of S does to the task u.
RequeuesTaskOf(S, u) ==
  LET cancels == u \in S /\ cancel[u] # "none" /\ CancelsTask(u)
      requeues == u \in S /\ cancel[u] = "none" /\ taskStatus[u] \notin TaskTerminal
  IN  /\ taskStatus'[u] = IF cancels THEN "cancelled" ELSE IF requeues THEN "queued"
                          ELSE taskStatus[u]
      /\ report'[u] = (report[u] /\ ~cancels)
      /\ cancel'[u] = IF cancels THEN "first" ELSE cancel[u]

\* _requeue_locked on leased items, and on completed ones whose cancellation
\* precedes the completion.
LEMMA RequeueOutcomeOf ==
  ASSUME IInv, NEW S \in SUBSET Tasks, NEW u \in Tasks, RequeuesTaskOf(S, u),
         u \in S => \/ itemStatus[u] = "leased"
                    \/ itemStatus[u] = "completed" /\ cancel[u] = "first"
  PROVE  /\ u \notin S => /\ RequeuedStatus(S)[u] = itemStatus[u]
                          /\ taskStatus'[u] = taskStatus[u]
                          /\ report'[u] = report[u]
                          /\ cancel'[u] = cancel[u]
         /\ u \in S =>
              \/ /\ RequeuedStatus(S)[u] = "queued" /\ itemStatus[u] = "leased"
                 /\ taskStatus'[u] \in {"queued", "failed"}
              \/ /\ RequeuedStatus(S)[u] = "cancelled"
                 /\ \/ taskStatus'[u] = "cancelled" /\ ~report'[u]
                    \/ taskStatus'[u] = "failed" /\ cancel'[u] = "late"
  <1> DEFINE cancels == u \in S /\ cancel[u] # "none" /\ CancelsTask(u)
             requeues == u \in S /\ cancel[u] = "none" /\ taskStatus[u] \notin TaskTerminal
  <1>1. RequeuedStatus(S)[u] = IF u \in S /\ cancel[u] # "none" THEN "cancelled"
                               ELSE IF u \in S THEN "queued" ELSE itemStatus[u]
    BY DEF RequeuedStatus, Cancelling
  <1>2. taskStatus'[u] = IF cancels THEN "cancelled" ELSE IF requeues THEN "queued"
                         ELSE taskStatus[u]
    BY DEF RequeuesTaskOf
  <1>3. report'[u] = (report[u] /\ ~cancels)
    BY DEF RequeuesTaskOf
  <1>4. cancel'[u] = IF cancels THEN "first" ELSE cancel[u]
    BY DEF RequeuesTaskOf
  <1>5. CASE u \notin S
    <2>1. report[u] \in BOOLEAN
      BY DEF IInv, TypeOK
    <2>2. QED
      BY <1>1, <1>2, <1>3, <1>4, <1>5, <2>1
  <1>6. CASE u \in S /\ cancel[u] = "none"
    <2>1. itemStatus[u] = "leased"
      BY <1>6
    <2>2. taskStatus'[u] \in {"queued", "failed"}
      BY <1>2, <1>6, <2>1 DEF IInv, OpenItemsUnfinished
    <2>3. QED
      BY <1>1, <1>6, <2>1, <2>2
  <1>7. CASE u \in S /\ cancel[u] # "none"
    <2>1. CASE CancelsTask(u)
      BY <1>1, <1>2, <1>3, <1>7, <2>1
    <2>2. CASE ~CancelsTask(u)
      <3>1. cancel[u] = "late" /\ taskStatus[u] \in TaskTerminal
        BY <1>7, <2>2 DEF CancelsTask, CancelPrecedes, IInv, TypeOK
      <3>2. taskStatus[u] = "failed"
        BY <1>7, <3>1 DEF IInv, OpenItemsUnfinished
      <3>3. QED
        BY <1>1, <1>2, <1>4, <1>7, <2>2, <3>1, <3>2
    <2>3. QED
      BY <2>1, <2>2
  <1>8. QED
    BY <1>5, <1>6, <1>7

\* What _requeue_locked makes of the items it runs on, and of the others.
LEMMA RequeueOutcome ==
  ASSUME IInv, NEW S \in SUBSET Tasks, RequeueTask(S),
         \A u \in S : \/ itemStatus[u] = "leased"
                      \/ itemStatus[u] = "completed" /\ cancel[u] = "first"
  PROVE  \A u \in Tasks :
           /\ u \notin S => /\ RequeuedStatus(S)[u] = itemStatus[u]
                            /\ taskStatus'[u] = taskStatus[u]
                            /\ report'[u] = report[u]
                            /\ cancel'[u] = cancel[u]
           /\ u \in S =>
                \/ /\ RequeuedStatus(S)[u] = "queued" /\ itemStatus[u] = "leased"
                   /\ taskStatus'[u] \in {"queued", "failed"}
                \/ /\ RequeuedStatus(S)[u] = "cancelled"
                   /\ \/ taskStatus'[u] = "cancelled" /\ ~report'[u]
                      \/ taskStatus'[u] = "failed" /\ cancel'[u] = "late"
  <1>1. \A u \in Tasks : RequeuesTaskOf(S, u)
    BY DEF RequeuesTaskOf, RequeueTask, ReportWithout, Cancelling, Requeueing
  <1>2. QED
    BY <1>1, RequeueOutcomeOf

\* abandon keeps the invariant.
LEMMA AbandonInv ==
  ASSUME IInv, NEW w \in Workers, Abandon(w)
  PROVE  IInv'
  <1> DEFINE t == heldTask[w]
  <1>1. TypeOK'
    BY WorkerType DEF IInv, WorkerStep
  <1>2. t \in Tasks /\ itemStatus[t] = "leased" /\ leaseOwner[t] = w
    BY DEF Abandon, IInv, LoopsConsistent, HeldItems
  <1>3. \A u \in Tasks : u # t => SameOutcome(u) /\ leaseOwner'[u] = leaseOwner[u]
                                  /\ lease'[u] = lease[u]
    <2>1. CASE Requeue({t})
      BY <1>2, <2>1, RequeueOutcome
         DEF Requeue, ReleasedOwner, ReleasedLease, SameOutcome
    <2>2. CASE FailItem(t)
      BY <1>2, <2>2 DEF FailItem, SameOutcome, IInv, TypeOK
    <2>3. QED
      BY <1>2, <2>1, <2>2 DEF Abandon
  <1>4. AgreesNext(t)
    <2>1. CASE Requeue({t})
      BY <1>2, <2>1, RequeueOutcome DEF Requeue, AgreesNext
    <2>2. CASE FailItem(t)
      <3>1. taskStatus[t] \in TaskTerminal => taskStatus[t] = "failed"
        BY <1>2 DEF IInv, OpenItemsUnfinished
      <3>2. taskStatus'[t] = "failed" /\ itemStatus'[t] = "failed"
        BY <1>2, <2>2, <3>1 DEF FailItem, IInv, TypeOK
      <3>3. QED
        BY <3>2 DEF AgreesNext
    <2>3. QED
      BY <1>2, <2>1, <2>2 DEF Abandon
  <1>5. LoopsConsistent' /\ HeldItems' /\ OneHolder' /\ NoOrphans' /\ ExecProgress'
    <2>1. wpc[w] = "abandoning" /\ UNCHANGED <<exec, runner, procState, attempts>>
      BY <1>2 DEF Abandon, execVars, procVars
    <2>2. PICK v \in {"down", "idle"} : wpc' = [wpc EXCEPT ![w] = v]
      BY DEF Abandon, Release
    <2>3. heldTask' = [heldTask EXCEPT ![w] = NoTask]
          /\ heldAttempt' = [heldAttempt EXCEPT ![w] = 0]
      BY DEF Abandon, Release
    <2>4. QED
      BY <1>3, <2>1, <2>2, <2>3, ReleaseCommon DEF SameOutcome
  <1>6. OpenItemsUnfinished' /\ ClosedItemsAgree' /\ AbsentTogether' /\ ReportMatchesOutcome'
    BY <1>3, <1>4, OutcomesAgree
  <1>7. CreationOrder' /\ LeaseOrder'
    <2>1. UNCHANGED <<createdAt, nextAt>>
      BY <1>2 DEF Abandon
    <2>2. \A u \in Tasks : \/ itemStatus'[u] = itemStatus[u]
                           \/ itemStatus[u] \in ItemActive /\ itemStatus'[u] = "queued"
                           \/ itemStatus[u] # "absent" /\ itemStatus'[u] \in ItemTerminal
      BY <1>2, <1>3, <1>4 DEF AgreesNext, SameOutcome
    <2>3. QED
      BY <2>1, <2>2, OrderKept
  <1>8. QED
    BY <1>1, <1>5, <1>6, <1>7 DEF IInv

\* finish keeps the invariant.
LEMMA FinishInv ==
  ASSUME IInv, NEW w \in Workers, Finish(w)
  PROVE  IInv'
  <1> DEFINE t == heldTask[w]
  <1>1. TypeOK'
    BY WorkerType DEF IInv, WorkerStep
  <1>2. /\ t \in Tasks /\ heldAttempt[w] \in Attempts
        /\ taskStatus[t] \in TaskTerminal
        /\ \/ itemStatus[t] = "leased"
           \/ itemStatus[t] = "completed" /\ taskStatus[t] = "completed"
    <2>1. t \in Tasks /\ heldAttempt[w] \in Attempts
      BY DEF Finish, IInv, LoopsConsistent
    <2>2. exec[t][heldAttempt[w]] = "returned"
      BY DEF Finish, PhaseOf
    <2>3. taskStatus[t] \in TaskTerminal
      BY <2>1, <2>2 DEF IInv, ExecProgress
    <2>4. \/ itemStatus[t] = "leased"
          \/ itemStatus[t] = "completed" /\ taskStatus[t] = "completed"
      BY DEF Finish, IInv, HeldItems
    <2>5. QED
      BY <2>1, <2>3, <2>4
  <1>3. \A u \in Tasks : u # t => SameOutcome(u) /\ leaseOwner'[u] = leaseOwner[u]
                                  /\ lease'[u] = lease[u]
    <2>1. CASE CancelPrecedes(t)
      <3>1. Requeue({t}) /\ cancel[t] = "first"
        BY <2>1 DEF Finish, CancelPrecedes
      <3>2. QED
        BY <1>2, <3>1, RequeueOutcome
           DEF Requeue, ReleasedOwner, ReleasedLease, SameOutcome
    <2>2. CASE ~CancelPrecedes(t)
      <3>1. /\ itemStatus' = [itemStatus EXCEPT ![t] = ClosedStatus(t)]
            /\ leaseOwner' = ReleasedOwner({t})
            /\ lease' = ReleasedLease({t})
            /\ UNCHANGED <<available, cancel, taskVars>>
        BY <2>2 DEF Finish
      <3>2. QED
        BY <3>1 DEF ReleasedOwner, ReleasedLease, taskVars, SameOutcome, IInv, TypeOK
    <2>3. QED
      BY <2>1, <2>2
  <1>4. AgreesNext(t) /\ (itemStatus'[t] = "queued" => itemStatus[t] = "leased")
    <2>1. CASE CancelPrecedes(t)
      <3>1. Requeue({t}) /\ cancel[t] = "first"
        BY <2>1 DEF Finish, CancelPrecedes
      <3>2. \/ /\ RequeuedStatus({t})[t] = "queued" /\ itemStatus[t] = "leased"
               /\ taskStatus'[t] \in {"queued", "failed"}
            \/ /\ RequeuedStatus({t})[t] = "cancelled"
               /\ \/ taskStatus'[t] = "cancelled" /\ ~report'[t]
                  \/ taskStatus'[t] = "failed" /\ cancel'[t] = "late"
        <4>1. {t} \in SUBSET Tasks /\ t \in {t} /\ RequeueTask({t})
          BY <1>2, <3>1 DEF Requeue
        <4>2. \A u \in {t} : \/ itemStatus[u] = "leased"
                             \/ itemStatus[u] = "completed" /\ cancel[u] = "first"
          BY <1>2, <3>1
        <4> HIDE DEF t
        <4>3. QED
          BY <1>2, <4>1, <4>2, RequeueOutcome
      <3>3. itemStatus' = RequeuedStatus({t})
        BY <3>1 DEF Requeue
      <3>4. QED
        BY <3>2, <3>3 DEF AgreesNext
    <2>2. CASE ~CancelPrecedes(t)
      <3>1. /\ itemStatus' = [itemStatus EXCEPT ![t] = ClosedStatus(t)]
            /\ UNCHANGED <<cancel, taskVars>>
        BY <2>2 DEF Finish
      <3>2. itemStatus'[t] = ClosedStatus(t)
        BY <1>2, <3>1 DEF IInv, TypeOK
      <3>3. CASE itemStatus[t] = "leased"
        <4>1. taskStatus[t] = "failed"
          BY <1>2, <3>3 DEF IInv, OpenItemsUnfinished
        <4>2. QED
          BY <3>1, <3>2, <4>1 DEF ClosedStatus, AgreesNext, taskVars
      <3>4. CASE taskStatus[t] = "completed"
        <4>1. report[t]
          BY <1>2, <3>4 DEF IInv, ReportMatchesOutcome
        <4>2. QED
          BY <3>1, <3>2, <3>4, <4>1 DEF ClosedStatus, AgreesNext, taskVars
      <3>5. QED
        BY <1>2, <3>3, <3>4
    <2>3. QED
      BY <2>1, <2>2
  <1>5. LoopsConsistent' /\ HeldItems' /\ OneHolder' /\ NoOrphans' /\ ExecProgress'
    <2>1. wpc[w] = "busy" /\ DropExec(t, heldAttempt[w]) /\ UNCHANGED <<procState, attempts>>
      BY DEF Finish, procVars
    <2>2. PICK v \in {"down", "idle"} : wpc' = [wpc EXCEPT ![w] = v]
      BY DEF Finish, Release
    <2>3. heldTask' = [heldTask EXCEPT ![w] = NoTask]
          /\ heldAttempt' = [heldAttempt EXCEPT ![w] = 0]
      BY DEF Finish, Release
    <2>4. QED
      BY <1>3, <2>1, <2>2, <2>3, ReleaseCommon DEF SameOutcome
  <1>6. OpenItemsUnfinished' /\ ClosedItemsAgree' /\ AbsentTogether' /\ ReportMatchesOutcome'
    BY <1>3, <1>4, OutcomesAgree
  <1>7. CreationOrder' /\ LeaseOrder'
    <2>1. UNCHANGED <<createdAt, nextAt>>
      BY DEF Finish
    <2>2. \A u \in Tasks : \/ itemStatus'[u] = itemStatus[u]
                           \/ itemStatus[u] \in ItemActive /\ itemStatus'[u] = "queued"
                           \/ itemStatus[u] # "absent" /\ itemStatus'[u] \in ItemTerminal
      BY <1>2, <1>3, <1>4 DEF AgreesNext, SameOutcome
    <2>3. QED
      BY <2>1, <2>2, OrderKept
  <1>8. QED
    BY <1>1, <1>5, <1>6, <1>7 DEF IInv

\* Nobody works on an item whose lease expired.
LEMMA ExpiredUnheld ==
  ASSUME IInv
  PROVE  /\ Expired \in SUBSET Tasks
         /\ \A u \in Expired : /\ itemStatus[u] = "leased"
                               /\ \A n \in Attempts : exec[u][n] = "off"
                               /\ \A v \in Workers : heldTask[v] # u
  <1>1. \A u \in Expired : u \in Tasks /\ itemStatus[u] = "leased" /\ Unheld(u)
    BY DEF Expired, Unheld
  <1>2. QED
    BY <1>1, NotRunning, NotHeld

\* Recovering expired leases keeps the invariant.
LEMMA ClaimNothingInv ==
  ASSUME IInv, NEW w \in Workers, ClaimNothing(w)
  PROVE  IInv'
  <1> USE DEF execVars, workerVars, procVars
  <1>1. TypeOK'
    BY WorkerType DEF IInv, WorkerStep
  <1>2. \A u \in Tasks :
          /\ u \notin Expired => SameOutcome(u) /\ leaseOwner'[u] = leaseOwner[u]
                                 /\ lease'[u] = lease[u]
          /\ u \in Expired => AgreesNext(u) /\ itemStatus[u] = "leased"
    BY RequeueOutcome, ExpiredUnheld
       DEF ClaimNothing, Requeue, ReleasedOwner, ReleasedLease, SameOutcome, AgreesNext
  <1>3. LoopsConsistent' /\ OneHolder' /\ NoOrphans'
    BY DEF ClaimNothing, IInv, LoopsConsistent, OneHolder, NoOrphans
  <1>4. HeldItems'
    <2>1. \A v \in Workers : wpc[v] \in Holding => heldTask[v] \in Tasks \ Expired
      BY ExpiredUnheld DEF IInv, LoopsConsistent
    <2>2. QED
      BY <1>2, <2>1 DEF ClaimNothing, IInv, HeldItems, PhaseOf, SameOutcome
  <1>5. ExecProgress'
    BY <1>2, ExpiredUnheld DEF ClaimNothing, IInv, ExecProgress, SameOutcome
  <1>6. OpenItemsUnfinished' /\ ClosedItemsAgree' /\ AbsentTogether' /\ ReportMatchesOutcome'
    BY <1>2, OutcomesAgree
  <1>7. CreationOrder' /\ LeaseOrder'
    <2>1. \A u \in Tasks : \/ itemStatus'[u] = itemStatus[u]
                           \/ itemStatus[u] \in ItemActive /\ itemStatus'[u] = "queued"
                           \/ itemStatus[u] # "absent" /\ itemStatus'[u] \in ItemTerminal
      BY <1>2 DEF AgreesNext, SameOutcome
    <2>2. QED
      BY <2>1, OrderKept DEF ClaimNothing
  <1>8. QED
    BY <1>1, <1>3, <1>4, <1>5, <1>6, <1>7 DEF IInv

\* claim_next keeps the invariant: the item it leases is executed by nobody.
LEMMA ClaimInv ==
  ASSUME IInv, NEW w \in Workers, NEW t \in Tasks, Claim(w, t)
  PROVE  IInv'
  <1> USE DEF procVars
  <1> DEFINE n == attempts[t] + 1
  <1>1. TypeOK'
    BY WorkerType DEF IInv, WorkerStep
  <1>2. n \in Attempts /\ n # 0
    BY BoundsType DEF Claim, IInv, TypeOK
  <1>3. /\ t \notin Expired /\ itemStatus[t] = "queued"
        /\ \A u \in Tasks : Earlier(u, t) => RequeuedStatus(Expired)[u] \notin ItemActive
    <2>1. EligibleIn(RequeuedStatus(Expired), t)
      BY DEF Claim, Eligible
    <2>2. QED
      BY <2>1 DEF EligibleIn, RequeuedStatus, Cancelling
  <1>4. /\ \A m \in Attempts : exec[t][m] = "off"
        /\ \A v \in Workers : heldTask[v] # t
    <2>1. Unheld(t)
      BY <1>3 DEF Unheld
    <2>2. QED
      BY <2>1, NotRunning, NotHeld
  <1>5. /\ \A u \in Tasks : u # t => /\ itemStatus'[u] = RequeuedStatus(Expired)[u]
                                     /\ leaseOwner'[u] = ReleasedOwner(Expired)[u]
                                     /\ lease'[u] = ReleasedLease(Expired)[u]
                                     /\ attempts'[u] = attempts[u]
        /\ itemStatus'[t] = "leased" /\ leaseOwner'[t] = w /\ lease'[t] = "live"
        /\ attempts'[t] = n
    <2>1. /\ RequeuedStatus(Expired) \in [Tasks -> {"absent"} \union ItemActive \union ItemTerminal]
          /\ ReleasedOwner(Expired) \in [Tasks -> Workers \union {NoWorker}]
          /\ ReleasedLease(Expired) \in [Tasks -> {"none", "live", "expired"}]
          /\ attempts \in [Tasks -> 0..AttemptCap]
      BY RequeueType DEF IInv, TypeOK
    <2>2. QED
      BY <2>1 DEF Claim
  <1>6. /\ \A u \in Tasks \ {t} :
             /\ u \notin Expired => SameOutcome(u) /\ leaseOwner'[u] = leaseOwner[u]
                                    /\ lease'[u] = lease[u]
             /\ u \in Expired => AgreesNext(u) /\ itemStatus[u] = "leased"
                                 /\ itemStatus'[u] # "leased"
        /\ TakenUp(t)
    <2>1. RequeueTask(Expired)
      BY DEF Claim
    <2>2. \A u \in Tasks :
             /\ u \notin Expired => /\ RequeuedStatus(Expired)[u] = itemStatus[u]
                                    /\ taskStatus'[u] = taskStatus[u]
                                    /\ report'[u] = report[u]
                                    /\ cancel'[u] = cancel[u]
             /\ u \in Expired =>
                  \/ /\ RequeuedStatus(Expired)[u] = "queued" /\ itemStatus[u] = "leased"
                     /\ taskStatus'[u] \in {"queued", "failed"}
                  \/ /\ RequeuedStatus(Expired)[u] = "cancelled"
                     /\ \/ taskStatus'[u] = "cancelled" /\ ~report'[u]
                        \/ taskStatus'[u] = "failed" /\ cancel'[u] = "late"
      BY <2>1, RequeueOutcome, ExpiredUnheld
    <2>3. TakenUp(t)
      BY <1>3, <1>5, <2>2 DEF TakenUp
    <2>4. ASSUME NEW u \in Tasks \ {t}, u \notin Expired
          PROVE  SameOutcome(u) /\ leaseOwner'[u] = leaseOwner[u] /\ lease'[u] = lease[u]
      BY <1>5, <2>2, <2>4 DEF SameOutcome, ReleasedOwner, ReleasedLease
    <2>5. ASSUME NEW u \in Tasks \ {t}, u \in Expired
          PROVE  AgreesNext(u) /\ itemStatus[u] = "leased" /\ itemStatus'[u] # "leased"
      BY <1>5, <2>2, <2>5, ExpiredUnheld DEF AgreesNext
    <2>6. QED
      BY <2>3, <2>4, <2>5
  <1>7. /\ wpc[w] = "idle"
        /\ \A v \in Workers : /\ wpc'[v] = IF v = w THEN "busy" ELSE wpc[v]
                              /\ heldTask'[v] = IF v = w THEN t ELSE heldTask[v]
                              /\ heldAttempt'[v] = IF v = w THEN n ELSE heldAttempt[v]
    BY DEF Claim, IInv, TypeOK
  <1>8. \A u \in Tasks : \A m \in Attempts :
          /\ exec'[u][m] = IF u = t /\ m = n THEN "start" ELSE exec[u][m]
          /\ runner'[u][m] = IF u = t /\ m = n THEN w ELSE runner[u][m]
    <2>1. /\ exec \in [Tasks -> [Attempts -> {"off"} \union AlivePhases \union DonePhases]]
          /\ runner \in [Tasks -> [Attempts -> Workers \union {NoWorker}]]
      BY DEF IInv, TypeOK
    <2>2. exec' = [exec EXCEPT ![t][n] = "start"] /\ runner' = [runner EXCEPT ![t][n] = w]
      BY DEF Claim
    <2>3. QED
      BY <1>2, <2>1, <2>2
  <1>9. procState' = procState /\ procState[ProcOf[w]] # "down"
    BY <1>7 DEF Claim, IInv, LoopsConsistent
  <1>10. LoopsConsistent' /\ OneHolder'
    BY <1>2, <1>4, <1>5, <1>7, <1>9 DEF IInv, LoopsConsistent, OneHolder
  <1>11. NoOrphans'
    <2> SUFFICES ASSUME NEW u \in Tasks, NEW m \in Attempts, exec'[u][m] # "off"
                 PROVE  /\ runner'[u][m] \in Workers
                        /\ wpc'[runner'[u][m]] \in Supervising
                        /\ heldTask'[runner'[u][m]] = u
                        /\ heldAttempt'[runner'[u][m]] = m
      BY DEF NoOrphans
    <2>1. CASE u = t /\ m = n
      BY <1>7, <1>8, <2>1
    <2>2. CASE ~(u = t /\ m = n)
      <3>1. exec[u][m] # "off" /\ runner'[u][m] = runner[u][m]
        BY <1>8, <2>2
      <3>2. QED
        BY <1>7, <3>1 DEF IInv, NoOrphans
    <2>3. QED
      BY <2>1, <2>2
  <1>12. HeldItems'
    <2> SUFFICES ASSUME NEW v \in Workers, wpc'[v] \in Holding
                 PROVE  LET u == heldTask'[v]
                        IN  \/ itemStatus'[u] = "leased" /\ leaseOwner'[u] = v /\ lease'[u] = "live"
                            \/ /\ itemStatus'[u] = "completed"
                               /\ wpc'[v] \in Supervising
                               /\ exec'[u][heldAttempt'[v]] = "returned"
                               /\ taskStatus'[u] = "completed"
      BY DEF HeldItems, PhaseOf
    <2>1. CASE v = w
      BY <1>5, <1>7, <2>1
    <2>2. CASE v # w
      <3>1. /\ wpc[v] \in Holding /\ wpc'[v] = wpc[v]
            /\ heldTask'[v] = heldTask[v] /\ heldAttempt'[v] = heldAttempt[v]
        BY <1>7, <2>2
      <3>2. /\ heldTask[v] \in Tasks \ {t} /\ heldTask[v] \notin Expired
            /\ heldAttempt[v] \in Attempts
        BY <1>4, <3>1, ExpiredUnheld DEF IInv, LoopsConsistent
      <3>3. exec'[heldTask[v]][heldAttempt[v]] = PhaseOf(v)
        BY <1>8, <3>2 DEF PhaseOf
      <3>4. SameOutcome(heldTask[v]) /\ leaseOwner'[heldTask[v]] = leaseOwner[heldTask[v]]
            /\ lease'[heldTask[v]] = lease[heldTask[v]]
        BY <1>6, <3>2
      <3>5. QED
        BY <3>1, <3>3, <3>4 DEF IInv, HeldItems, SameOutcome
    <2>3. QED
      BY <2>1, <2>2
  <1>13. ExecProgress'
    <2> SUFFICES ASSUME NEW u \in Tasks, NEW m \in Attempts,
                        exec'[u][m] \in {"returned", "report"}
                 PROVE  /\ exec'[u][m] = "returned" => taskStatus'[u] \in TaskTerminal
                        /\ exec'[u][m] = "report" => report'[u]
      BY DEF ExecProgress
    <2>1. exec'[u][m] = exec[u][m]
      BY <1>8
    <2>2. u # t /\ u \notin Expired
      BY <1>4, <2>1, ExpiredUnheld
    <2>3. SameOutcome(u)
      BY <1>6, <2>2
    <2>4. QED
      BY <2>1, <2>3 DEF IInv, ExecProgress, SameOutcome
  <1>14. OpenItemsUnfinished' /\ ClosedItemsAgree' /\ AbsentTogether' /\ ReportMatchesOutcome'
    BY <1>6, OutcomesAgree
  <1>15. CreationOrder'
    <2>1. UNCHANGED <<createdAt, nextAt>>
      BY DEF Claim
    <2>2. \A u \in Tasks : itemStatus'[u] # "absent" => itemStatus[u] # "absent"
      BY <1>6 DEF SameOutcome, TakenUp
    <2>3. QED
      BY <2>1, <2>2 DEF IInv, CreationOrder
  <1>16. LeaseOrder'
    <2> SUFFICES ASSUME NEW x \in Tasks, NEW u \in Tasks,
                        itemStatus'[x] = "leased", Earlier(u, x)
                 PROVE  itemStatus'[u] \notin ItemActive
      BY DEF LeaseOrder, Earlier, SameConv, Claim
    <2>1. u # x
      BY DEF Earlier, SameConv
    <2>2. CASE x = t
      BY <1>3, <1>5, <2>1, <2>2
    <2>3. CASE x # t
      <3>1. itemStatus[x] = "leased"
        BY <1>6, <2>3 DEF SameOutcome
      <3>2. itemStatus[u] \notin ItemActive
        BY <3>1 DEF IInv, LeaseOrder
      <3>3. u # t /\ u \notin Expired
        BY <1>3, <3>2, ExpiredUnheld
      <3>4. QED
        BY <1>6, <3>2, <3>3 DEF SameOutcome
    <2>4. QED
      BY <2>2, <2>3
  <1>17. QED
    BY <1>1, <1>10, <1>11, <1>12, <1>13, <1>14, <1>15, <1>16 DEF IInv

-----------------------------------------------------------------------------
(* Steps of a process keep the invariant. *)

\* The stop event keeps the invariant.
LEMMA StopInv ==
  ASSUME IInv, NEW p \in Procs, Stop(p)
  PROVE  IInv'
  <1> USE DEF itemVars, taskVars, execVars, workerVars
  <1>1. TypeOK'
    BY ProcessType DEF IInv, ProcessStep
  <1>2. \A q \in Procs : procState'[q] = "down" => procState[q] = "down"
    BY DEF Stop, IInv, TypeOK
  <1>3. LoopsConsistent'
    BY <1>2, ProcOfType DEF Stop, IInv, LoopsConsistent
  <1>4. OneHolder' /\ NoOrphans' /\ HeldItems'
    BY DEF Stop, IInv, OneHolder, NoOrphans, HeldItems, PhaseOf
  <1>5. ExecProgress' /\ OpenItemsUnfinished' /\ ClosedItemsAgree' /\ AbsentTogether'
        /\ ReportMatchesOutcome'
    BY DEF Stop, IInv, ExecProgress, OpenItemsUnfinished, ClosedItemsAgree,
           AbsentTogether, ReportMatchesOutcome
  <1>6. CreationOrder' /\ LeaseOrder'
    BY DEF Stop, IInv, CreationOrder, LeaseOrder, Earlier, SameConv
  <1>7. QED
    BY <1>1, <1>3, <1>4, <1>5, <1>6 DEF IInv

\* A process that ends takes its loops and executions along.
LEMMA EndProcessInv ==
  ASSUME IInv, TypeOK', NEW p \in Procs, EndProcess(p)
  PROVE  IInv'
  <1> USE DEF itemVars, taskVars
  <1>1. /\ \A q \in Procs : procState'[q] = IF q = p THEN "down" ELSE procState[q]
        /\ \A w \in Workers :
             /\ wpc'[w] = IF ProcOf[w] = p THEN "down" ELSE wpc[w]
             /\ heldTask'[w] = IF ProcOf[w] = p THEN NoTask ELSE heldTask[w]
             /\ heldAttempt'[w] = IF ProcOf[w] = p THEN 0 ELSE heldAttempt[w]
    BY DEF EndProcess, IInv, TypeOK
  <1>2. \A u \in Tasks : \A m \in Attempts :
          /\ exec'[u][m] = IF RunsIn(p, u, m) THEN "off" ELSE exec[u][m]
          /\ runner'[u][m] = IF RunsIn(p, u, m) THEN NoWorker ELSE runner[u][m]
    BY DEF EndProcess
  <1>3. LoopsConsistent' /\ OneHolder'
    BY <1>1, ProcOfType, DistinctNulls DEF EndProcess, IInv, LoopsConsistent, OneHolder
  <1>4. NoOrphans'
    <2> SUFFICES ASSUME NEW u \in Tasks, NEW m \in Attempts, exec'[u][m] # "off"
                 PROVE  /\ runner'[u][m] \in Workers
                        /\ wpc'[runner'[u][m]] \in Supervising
                        /\ heldTask'[runner'[u][m]] = u
                        /\ heldAttempt'[runner'[u][m]] = m
      BY DEF NoOrphans
    <2>1. ~RunsIn(p, u, m) /\ exec[u][m] # "off" /\ runner'[u][m] = runner[u][m]
      BY <1>2
    <2>2. /\ runner[u][m] \in Workers /\ ProcOf[runner[u][m]] # p
          /\ wpc[runner[u][m]] \in Supervising
          /\ heldTask[runner[u][m]] = u
          /\ heldAttempt[runner[u][m]] = m
      BY <2>1, DistinctNulls DEF IInv, NoOrphans, RunsIn
    <2>3. QED
      BY <1>1, <2>1, <2>2
  <1>5. HeldItems'
    <2> SUFFICES ASSUME NEW v \in Workers, wpc'[v] \in Holding
                 PROVE  LET u == heldTask'[v]
                        IN  \/ itemStatus[u] = "leased" /\ leaseOwner[u] = v /\ lease[u] = "live"
                            \/ /\ itemStatus[u] = "completed"
                               /\ wpc'[v] \in Supervising
                               /\ exec'[u][heldAttempt'[v]] = "returned"
                               /\ taskStatus[u] = "completed"
      BY DEF HeldItems, PhaseOf, EndProcess
    <2> DEFINE u == heldTask[v]
               m == heldAttempt[v]
    <2>1. /\ ProcOf[v] # p /\ wpc'[v] = wpc[v] /\ wpc[v] \in Holding
          /\ heldTask'[v] = u /\ heldAttempt'[v] = m
      BY <1>1
    <2>2. u \in Tasks /\ m \in Attempts
      BY <2>1 DEF IInv, LoopsConsistent
    <2>3. exec[u][m] # "off" => ~RunsIn(p, u, m)
      BY <2>1, <2>2 DEF IInv, NoOrphans, OneHolder, RunsIn
    <2>4. exec'[u][m] = exec[u][m]
      BY <1>2, <2>2, <2>3
    <2>5. QED
      BY <2>1, <2>4 DEF IInv, HeldItems, PhaseOf
  <1>6. ExecProgress'
    BY <1>2 DEF EndProcess, IInv, ExecProgress
  <1>7. OpenItemsUnfinished' /\ ClosedItemsAgree' /\ AbsentTogether' /\ ReportMatchesOutcome'
    BY DEF EndProcess, IInv, OpenItemsUnfinished, ClosedItemsAgree,
           AbsentTogether, ReportMatchesOutcome
  <1>8. CreationOrder' /\ LeaseOrder'
    BY DEF EndProcess, IInv, CreationOrder, LeaseOrder, Earlier, SameConv
  <1>9. QED
    BY <1>3, <1>4, <1>5, <1>6, <1>7, <1>8 DEF IInv

\* bootstrap keeps the invariant.
LEMMA StartInv ==
  ASSUME IInv, NEW p \in Procs, Start(p)
  PROVE  IInv'
  <1>1. TypeOK'
    BY ProcessType DEF IInv, ProcessStep
  <1>2. /\ Inconsistent = {} /\ Missing \in SUBSET Tasks /\ Expired \in SUBSET Tasks
        /\ \A u \in Missing : itemStatus[u] = "absent" /\ u \notin Expired
    BY NothingInconsistent, ExpiredUnheld DEF Missing
  <1>3. ASSUME NEW u \in Missing
        PROVE  itemStatus'[u] = "queued" /\ taskStatus'[u] = "queued"
    BY <1>2, <1>3 DEF Start
  <1>4. ASSUME NEW u \in Tasks \ Missing
        PROVE  /\ itemStatus'[u] = RequeuedStatus(Expired)[u]
               /\ leaseOwner'[u] = ReleasedOwner(Expired)[u]
               /\ lease'[u] = ReleasedLease(Expired)[u]
               /\ RequeuesTaskOf(Expired, u)
    <2>1. /\ itemStatus'[u] = RequeuedStatus(Expired)[u]
          /\ leaseOwner'[u] = ReleasedOwner(Expired)[u]
          /\ lease'[u] = ReleasedLease(Expired)[u]
      BY <1>2, <1>4 DEF Start, ReleasedOwner, ReleasedLease
    <2>2. RequeuesTaskOf(Expired, u)
      BY <1>2, <1>4
         DEF Start, ReportWithout, Cancelling, Requeueing, RequeuesTaskOf, CancelsTask
    <2>3. QED
      BY <2>1, <2>2
  <1>5. /\ \A u \in Tasks \ (Missing \union Expired) :
             SameOutcome(u) /\ leaseOwner'[u] = leaseOwner[u] /\ lease'[u] = lease[u]
        /\ \A u \in Expired : AgreesNext(u) /\ itemStatus[u] = "leased"
                              /\ itemStatus'[u] # "leased"
        /\ \A u \in Missing : AgreesNext(u)
    <2>1. ASSUME NEW u \in Tasks \ (Missing \union Expired)
          PROVE  SameOutcome(u) /\ leaseOwner'[u] = leaseOwner[u] /\ lease'[u] = lease[u]
      <3>1. SameOutcome(u)
        BY <1>2, <1>4, <2>1, RequeueOutcomeOf DEF SameOutcome
      <3>2. QED
        BY <1>4, <2>1, <3>1 DEF ReleasedOwner, ReleasedLease
    <2>2. ASSUME NEW u \in Expired
          PROVE  AgreesNext(u) /\ itemStatus[u] = "leased" /\ itemStatus'[u] # "leased"
      <3>1. u \in Tasks \ Missing /\ itemStatus[u] = "leased"
        BY <1>2, <2>2, ExpiredUnheld
      <3>2. QED
        BY <1>2, <1>4, <2>2, <3>1, RequeueOutcomeOf DEF AgreesNext
    <2>3. QED
      BY <1>3, <2>1, <2>2 DEF AgreesNext
  <1>6. /\ procState[p] = "down"
        /\ \A q \in Procs : procState'[q] = IF q = p THEN "up" ELSE procState[q]
        /\ \A v \in Workers : wpc'[v] = IF ProcOf[v] = p THEN "idle" ELSE wpc[v]
        /\ UNCHANGED <<attempts, exec, runner, heldTask, heldAttempt>>
    BY DEF Start, IInv, TypeOK, execVars
  <1>7. \A v \in Workers : ProcOf[v] = p => wpc[v] = "down"
    BY <1>6 DEF IInv, LoopsConsistent
  <1>8. LoopsConsistent' /\ OneHolder' /\ NoOrphans'
    <2>1. LoopsConsistent' /\ OneHolder'
      BY <1>6, <1>7, ProcOfType DEF IInv, LoopsConsistent, OneHolder
    <2>2. NoOrphans'
      BY <1>6, <1>7 DEF IInv, NoOrphans
    <2>3. QED
      BY <2>1, <2>2
  <1>9. HeldItems'
    <2> SUFFICES ASSUME NEW v \in Workers, wpc'[v] \in Holding
                 PROVE  LET u == heldTask[v]
                        IN  \/ itemStatus'[u] = "leased" /\ leaseOwner'[u] = v /\ lease'[u] = "live"
                            \/ /\ itemStatus'[u] = "completed"
                               /\ wpc'[v] \in Supervising
                               /\ exec[u][heldAttempt[v]] = "returned"
                               /\ taskStatus'[u] = "completed"
      BY <1>6 DEF HeldItems, PhaseOf
    <2>1. wpc[v] \in Holding /\ wpc'[v] = wpc[v]
      BY <1>6
    <2>2. heldTask[v] \in Tasks \ (Missing \union Expired)
      BY <1>2, <2>1, ExpiredUnheld DEF IInv, LoopsConsistent, HeldItems
    <2>3. QED
      BY <1>5, <2>1, <2>2 DEF IInv, HeldItems, PhaseOf, SameOutcome
  <1>10. ExecProgress'
    <2> SUFFICES ASSUME NEW u \in Tasks, NEW m \in Attempts, exec[u][m] # "off"
                 PROVE  /\ exec[u][m] = "returned" => taskStatus'[u] \in TaskTerminal
                        /\ exec[u][m] = "report" => report'[u]
      BY <1>6 DEF ExecProgress
    <2>1. u \notin Missing /\ u \notin Expired
      BY <1>2, ExpiredUnheld, RunningHeld
    <2>2. QED
      BY <1>5, <2>1 DEF IInv, ExecProgress, SameOutcome
  <1>11. OpenItemsUnfinished' /\ ClosedItemsAgree' /\ AbsentTogether' /\ ReportMatchesOutcome'
    BY <1>5, OutcomesAgree
  <1>12. PICK pos \in Orders :
           createdAt' = [u \in Tasks |-> IF u \in Missing THEN nextAt + pos[u]
                                         ELSE createdAt[u]]
    BY DEF Start
  <1>13. /\ \A u \in Tasks : pos[u] \in Nat /\ pos[u] > 0 /\ pos[u] <= Cardinality(Tasks)
         /\ \A u, x \in Missing : pos[u] = pos[x] => u = x
    BY CardTasks DEF Orders
  <1>14. nextAt \in Nat /\ \A u \in Tasks : createdAt[u] \in Nat /\ createdAt[u] < nextAt
    BY DEF IInv, TypeOK, CreationOrder
  <1>15. CreationOrder'
    <2>1. nextAt' > 0 /\ \A u \in Tasks : createdAt'[u] < nextAt'
      <3>1. CASE Missing = {}
        BY <1>12, <1>14, <3>1 DEF Start, IInv, CreationOrder
      <3>2. CASE Missing # {}
        <4>1. nextAt' = nextAt + Cardinality(Tasks) + 1
          BY <3>2 DEF Start
        <4>2. QED
          BY <1>12, <1>13, <1>14, <4>1, CardTasks
      <3>3. QED
        BY <3>1, <3>2
    <2>2. ASSUME NEW u \in Tasks, NEW x \in Tasks, u # x,
                 itemStatus'[u] # "absent", itemStatus'[x] # "absent"
          PROVE  createdAt'[u] # createdAt'[x]
      <3>1. \A y \in Tasks \ Missing : itemStatus'[y] # "absent" => itemStatus[y] # "absent"
        BY <1>5 DEF SameOutcome
      <3>2. CASE u \in Missing /\ x \in Missing
        BY <1>12, <1>13, <1>14, <2>2, <3>2
      <3>3. CASE u \in Missing /\ x \notin Missing
        BY <1>12, <1>13, <1>14, <2>2, <3>3
      <3>4. CASE u \notin Missing /\ x \in Missing
        BY <1>12, <1>13, <1>14, <2>2, <3>4
      <3>5. CASE u \notin Missing /\ x \notin Missing
        BY <1>12, <2>2, <3>1, <3>5 DEF IInv, CreationOrder
      <3>6. QED
        BY <3>2, <3>3, <3>4, <3>5
    <2>3. QED
      BY <2>1, <2>2 DEF CreationOrder
  <1>16. LeaseOrder'
    <2> SUFFICES ASSUME NEW x \in Tasks, NEW u \in Tasks, itemStatus'[x] = "leased",
                        SameConv(x, u), createdAt'[u] < createdAt'[x]
                 PROVE  itemStatus'[u] \notin ItemActive
      BY DEF LeaseOrder, Earlier, SameConv
    <2>1. x \notin Missing /\ x \notin Expired
      BY <1>3, <1>5
    <2>2. itemStatus[x] = "leased"
      BY <1>5, <2>1 DEF SameOutcome
    <2>3. u \notin Missing
      BY <1>12, <1>13, <1>14, <2>1
    <2>4. createdAt[u] < createdAt[x]
      BY <1>12, <2>1, <2>3
    <2>5. itemStatus[u] \notin ItemActive
      BY <2>2, <2>4 DEF IInv, LeaseOrder, Earlier
    <2>6. u \notin Expired
      BY <2>5, ExpiredUnheld
    <2>7. QED
      BY <1>5, <2>3, <2>5, <2>6 DEF SameOutcome
  <1>17. QED
    BY <1>1, <1>8, <1>9, <1>10, <1>11, <1>15, <1>16 DEF IInv

-----------------------------------------------------------------------------
(* The theorems. *)

\* The invariant holds initially.
LEMMA InitInv == Init => IInv
  <1> SUFFICES ASSUME Init PROVE IInv
    OBVIOUS
  <1>1. TypeOK
    BY BoundsType DEF Init, TypeOK
  <1>2. LoopsConsistent /\ HeldItems /\ OneHolder /\ NoOrphans /\ ExecProgress
    BY DistinctNulls
       DEF Init, LoopsConsistent, HeldItems, OneHolder, NoOrphans, ExecProgress
  <1>3. OpenItemsUnfinished /\ AbsentTogether /\ CreationOrder
    BY DEF Init, OpenItemsUnfinished, AbsentTogether, CreationOrder
  <1>4. LeaseOrder /\ ClosedItemsAgree /\ ReportMatchesOutcome
    BY DEF Init, LeaseOrder, ClosedItemsAgree, ReportMatchesOutcome
  <1>5. QED
    BY <1>1, <1>2, <1>3, <1>4 DEF IInv

\* Every step keeps the invariant.
LEMMA NextInv ==
  ASSUME Punctual, IInv, [Next]_vars
  PROVE  IInv'
  <1>1. CASE UNCHANGED vars
    <2> USE <1>1 DEF vars, itemVars, taskVars, execVars, workerVars, procVars
    <2>1. TypeOK'
      BY DEF IInv, TypeOK
    <2>2. LoopsConsistent' /\ HeldItems' /\ OneHolder' /\ NoOrphans' /\ ExecProgress'
      BY DEF IInv, LoopsConsistent, HeldItems, PhaseOf, OneHolder, NoOrphans, ExecProgress
    <2>3. OpenItemsUnfinished' /\ AbsentTogether' /\ CreationOrder'
      BY DEF IInv, OpenItemsUnfinished, AbsentTogether, CreationOrder
    <2>4. LeaseOrder' /\ ClosedItemsAgree' /\ ReportMatchesOutcome'
      BY DEF IInv, LeaseOrder, Earlier, SameConv, ClosedItemsAgree, ReportMatchesOutcome
    <2>5. QED
      BY <2>1, <2>2, <2>3, <2>4 DEF IInv
  <1>2. ASSUME NEW w \in Workers, WorkerStep(w)
        PROVE  IInv'
    <2>1. ~HeartbeatRaises(w)
      BY DEF HeartbeatRaises, Punctual
    <2>2. QED
      BY <1>2, <2>1, ClaimInv, ClaimNothingInv, HeartbeatInv, StopExecutionInv,
         ObserveRaiseInv, AbandonInv, FinishInv, ShutdownCancelInv, IdleExitInv,
         LoopDiesInv DEF WorkerStep
  <1>3. ASSUME NEW t \in Tasks, NEW n \in Attempts, ExecStep(t, n)
        PROVE  IInv'
    BY <1>3, ExecPrepareInv, ExecRunInv, ExecReportInv, ExecCompleteInv, ExecFailInv,
       ExecRaiseInv DEF ExecStep
  <1>4. ASSUME NEW t \in Tasks, ApiStep(t) \/ TimeStep(t)
        PROVE  IInv'
    BY <1>4, CreateTaskInv, CancelQueuedInv, CancelLeasedInv, LeaseExpiresInv,
       BackoffElapsesInv DEF ApiStep, TimeStep
  <1>5. ASSUME NEW p \in Procs, ProcessStep(p)
        PROVE  IInv'
    <2>1. TypeOK'
      BY <1>5, ProcessType DEF IInv
    <2>2. QED
      BY <1>5, <2>1, StartInv, StopInv, EndProcessInv DEF ProcessStep, Crash, Exit
  <1>6. QED
    BY <1>1, <1>2, <1>3, <1>4, <1>5 DEF Next

\* While heartbeats are punctual, every reachable state satisfies the inductive
\* invariant, whatever crashes, restarts, cancellations, raising executions and
\* dying loops happen.
THEOREM QueueInvariant ==
  ASSUME Punctual
  PROVE  Spec => []IInv
  <1>1. IInv /\ [Next]_vars => IInv'
    BY NextInv
  <1>2. QED
    BY <1>1, InitInv, PTL DEF Spec

\* Executions of a task, or of two tasks of a Conversation, never overlap
\* (claim_next, heartbeat, abandon and bootstrap together).
THEOREM QueueOneExecution ==
  ASSUME Punctual
  PROVE  Spec => []OneExecutionPerConversation
  <1>1. ASSUME IInv
        PROVE  OneExecutionPerConversation
    <2> SUFFICES ASSUME NEW t \in Tasks, NEW u \in Tasks, NEW n \in Attempts, NEW m \in Attempts,
                        exec[t][n] \in AlivePhases, exec[u][m] \in AlivePhases,
                        t = u \/ SameConv(t, u)
                 PROVE  t = u /\ n = m
      BY DEF OneExecutionPerConversation
    <2>1. /\ itemStatus[t] = "leased" /\ n = attempts[t]
          /\ itemStatus[u] = "leased" /\ m = attempts[u]
      BY <1>1, RunningHeld
    <2>2. CASE t = u
      BY <2>1, <2>2
    <2>3. CASE SameConv(t, u)
      <3>1. SameConv(u, t) /\ createdAt[t] # createdAt[u]
        BY <1>1, <2>1, <2>3 DEF IInv, CreationOrder, SameConv
      <3>2. Earlier(t, u) \/ Earlier(u, t)
        BY <1>1, <2>3, <3>1 DEF Earlier, IInv, TypeOK
      <3>3. QED
        BY <1>1, <2>1, <3>2 DEF IInv, LeaseOrder
    <2>4. QED
      BY <2>2, <2>3
  <1>2. QED
    BY <1>1, QueueInvariant, PTL

\* Leases follow the order of acceptance within a Conversation.
THEOREM QueueLeaseOrder ==
  ASSUME Punctual
  PROVE  Spec => []LeaseOrder
  <1>1. IInv => LeaseOrder
    BY DEF IInv
  <1>2. QED
    BY <1>1, QueueInvariant, PTL

\* A closed item has the outcome of its task, and a task shows a report exactly
\* when its outcome allows one.
THEOREM QueueOutcomes ==
  ASSUME Punctual
  PROVE  Spec => []OutcomesMatch
  <1>1. IInv => OutcomesMatch
    BY DEF IInv, OutcomesMatch
  <1>2. QED
    BY <1>1, QueueInvariant, PTL

-----------------------------------------------------------------------------
(* Outcomes are final, and the queue implements ConversationFifo.              *)

\* What a step may do to the outcome of one task.
OutcomeKept(t) ==
  /\ taskStatus[t] = "cancelled" => taskStatus'[t] = "cancelled"
  /\ taskStatus[t] = "completed" =>
       \/ taskStatus'[t] = "completed"
       \/ taskStatus'[t] = "cancelled" /\ cancel[t] = "first"

\* _requeue_locked keeps outcomes, whatever items it runs on.
LEMMA RequeueKeeps ==
  ASSUME NEW S, RequeueTask(S), NEW t \in Tasks
  PROVE  OutcomeKept(t)
  BY DEF RequeueTask, OutcomeKept, Requeueing, Cancelling, CancelsTask, CancelPrecedes

\* So does an execution: it writes its own task only, which is unfinished.
LEMMA ExecKeeps ==
  ASSUME IInv, NEW t \in Tasks, NEW n \in Attempts, ExecStep(t, n), NEW u \in Tasks
  PROVE  OutcomeKept(u)
  <1>1. exec[t][n] \in AlivePhases
    BY DEF ExecStep, ExecPrepare, ExecRun, ExecReport, ExecComplete, ExecFail, ExecRaise
  <1>2. itemStatus[t] = "leased"
    BY <1>1, RunningHeld
  <1>3. taskStatus[t] \notin {"completed", "cancelled"}
    BY <1>2 DEF IInv, OpenItemsUnfinished
  <1>4. u # t => taskStatus'[u] = taskStatus[u]
    BY DEF ExecStep, ExecPrepare, ExecRun, ExecReport, ExecComplete, ExecFail, ExecRaise,
           taskVars, IInv, TypeOK
  <1>5. QED
    BY <1>3, <1>4 DEF OutcomeKept

\* The loops take no outcome back.
LEMMA WorkerKeeps ==
  ASSUME IInv, NEW w \in Workers, WorkerStep(w), NEW u \in Tasks
  PROVE  OutcomeKept(u)
  <1> USE DEF taskVars
  <1>1. CASE UNCHANGED taskVars
    BY <1>1 DEF OutcomeKept
  <1>2. ASSUME NEW t \in Tasks, Claim(w, t)
        PROVE  OutcomeKept(u)
    BY <1>2, RequeueKeeps DEF Claim
  <1>3. CASE ClaimNothing(w)
    BY <1>3, RequeueKeeps DEF ClaimNothing, Requeue
  <1>4. CASE Abandon(w)
    <2>1. CASE FailItem(heldTask[w])
      BY <2>1 DEF FailItem, OutcomeKept, IInv, TypeOK
    <2>2. CASE Requeue({heldTask[w]})
      BY <2>2, RequeueKeeps DEF Requeue
    <2>3. QED
      BY <1>1, <1>4, <2>1, <2>2 DEF Abandon
  <1>5. CASE Finish(w)
    BY <1>1, <1>5, RequeueKeeps DEF Finish, Requeue
  <1>6. CASE \/ Heartbeat(w) \/ StopExecution(w) \/ HeartbeatRaises(w) \/ ObserveRaise(w)
             \/ ShutdownCancel(w) \/ IdleExit(w) \/ LoopDies(w)
    BY <1>1, <1>6 DEF Heartbeat, StopExecution, HeartbeatRaises, ObserveRaise,
                      ShutdownCancel, IdleExit, LoopDies
  <1>7. QED
    BY <1>2, <1>3, <1>4, <1>5, <1>6 DEF WorkerStep

\* Neither do the API, the passing of time and the processes.
LEMMA OthersKeep ==
  ASSUME IInv, NEW u \in Tasks,
         \/ \E t \in Tasks : ApiStep(t) \/ TimeStep(t)
         \/ \E p \in Procs : ProcessStep(p)
  PROVE  OutcomeKept(u)
  <1> USE DEF taskVars, OutcomeKept
  <1>1. ASSUME NEW t \in Tasks, CreateTask(t)
        PROVE  OutcomeKept(u)
    BY <1>1 DEF CreateTask, IInv, TypeOK
  <1>2. ASSUME NEW t \in Tasks, CancelQueued(t)
        PROVE  OutcomeKept(u)
    <2>1. CASE taskStatus[t] \in TaskTerminal
      BY <1>2, <2>1 DEF CancelQueued
    <2>2. CASE taskStatus[t] \notin TaskTerminal
      BY <1>2, <2>2 DEF CancelQueued, IInv, TypeOK
    <2>3. QED
      BY <2>1, <2>2
  <1>3. ASSUME NEW t \in Tasks, CancelLeased(t) \/ TimeStep(t)
        PROVE  OutcomeKept(u)
    BY <1>3 DEF CancelLeased, TimeStep, LeaseExpires, BackoffElapses
  <1>4. ASSUME NEW p \in Procs, Start(p)
        PROVE  OutcomeKept(u)
    BY <1>4 DEF Start, Missing, Inconsistent, Requeueing, Cancelling, CancelsTask, CancelPrecedes
  <1>5. ASSUME NEW p \in Procs, Crash(p) \/ Stop(p) \/ Exit(p)
        PROVE  OutcomeKept(u)
    BY <1>5 DEF Crash, Stop, Exit, EndProcess
  <1>6. QED
    BY <1>1, <1>2, <1>3, <1>4, <1>5 DEF ApiStep, ProcessStep

\* Where an item goes in one step, as ConversationFifo sees it.
Unmoved(t) ==
  /\ createdAt'[t] = createdAt[t]
  /\ itemStatus'[t] = itemStatus[t] \/ {itemStatus[t], itemStatus'[t]} \subseteq ItemTerminal

GivenBack(t) ==
  /\ createdAt'[t] = createdAt[t]
  /\ itemStatus[t] \in ItemActive
  /\ itemStatus'[t] \in {"queued"} \union ItemTerminal

TakenNow(t) ==
  /\ createdAt'[t] = createdAt[t]
  /\ itemStatus[t] = "queued" /\ itemStatus'[t] = "leased"
  /\ \A u \in Tasks : Earlier(u, t) => itemStatus'[u] \notin ItemActive

Entered(t) ==
  /\ itemStatus[t] = "absent" /\ itemStatus'[t] = "queued"
  /\ \A u \in Tasks : createdAt[u] < createdAt'[t]

FifoStep ==
  /\ \A t \in Tasks : Unmoved(t) \/ GivenBack(t) \/ TakenNow(t) \/ Entered(t)
  /\ \A t, u \in Tasks : TakenNow(t) /\ TakenNow(u) => t = u
  /\ \A t, u \in Tasks : Entered(t) /\ Entered(u) /\ createdAt'[t] = createdAt'[u] => t = u

\* A step that takes up or enters no item is a step of ConversationFifo.
LEMMA QuietStep ==
  ASSUME \A t \in Tasks : Unmoved(t) \/ GivenBack(t)
  PROVE  FifoStep
  <1>1. \A t \in Tasks : ~TakenNow(t) /\ ~Entered(t)
    BY DEF Unmoved, GivenBack, TakenNow, Entered
  <1>2. QED
    BY <1>1 DEF FifoStep

\* _requeue_locked gives back items that are open, and closes again a closed
\* item that is to be cancelled.
LEMMA RequeueMoves ==
  ASSUME TypeOK, NEW S, NEW t \in Tasks,
         itemStatus'[t] = RequeuedStatus(S)[t], createdAt' = createdAt,
         \/ t \notin S
         \/ itemStatus[t] \in ItemActive
         \/ itemStatus[t] \in ItemTerminal /\ cancel[t] # "none"
  PROVE  Unmoved(t) \/ GivenBack(t)
  BY DEF RequeuedStatus, Cancelling, Unmoved, GivenBack, TypeOK

\* Only a claim takes up an item, and no earlier one is pending then.
LEMMA WorkerFifo ==
  ASSUME Punctual, IInv, NEW w \in Workers, WorkerStep(w)
  PROVE  FifoStep
  <1> USE DEF itemVars
  <1>0. TypeOK
    BY DEF IInv
  <1>1. \A u \in Expired : u \in Tasks /\ itemStatus[u] \in ItemActive
    BY DEF Expired
  <1>2. ASSUME NEW t \in Tasks, Claim(w, t)
        PROVE  FifoStep
    <2>1. /\ itemStatus[t] = "queued" /\ t \notin Expired
          /\ \A u \in Tasks : Earlier(u, t) => RequeuedStatus(Expired)[u] \notin ItemActive
      <3>1. EligibleIn(RequeuedStatus(Expired), t)
        BY <1>2 DEF Claim, Eligible
      <3>2. QED
        BY <3>1 DEF EligibleIn, RequeuedStatus, Cancelling
    <2>2. /\ itemStatus'[t] = "leased" /\ createdAt' = createdAt
          /\ \A u \in Tasks \ {t} : itemStatus'[u] = RequeuedStatus(Expired)[u]
      BY <1>2, <1>0, RequeueType DEF Claim
    <2>3. TakenNow(t)
      BY <2>1, <2>2 DEF TakenNow, Earlier, SameConv
    <2>4. \A u \in Tasks \ {t} : Unmoved(u) \/ GivenBack(u)
      BY <1>0, <1>1, <2>2, RequeueMoves
    <2>5. \A u \in Tasks \ {t} : ~TakenNow(u) /\ ~Entered(u)
      BY <2>4 DEF Unmoved, GivenBack, TakenNow, Entered
    <2>6. ~Entered(t)
      BY <2>3 DEF TakenNow, Entered
    <2>7. QED
      BY <2>3, <2>4, <2>5, <2>6 DEF FifoStep
  <1>3. CASE ClaimNothing(w)
    <2>1. \A u \in Tasks : Unmoved(u) \/ GivenBack(u)
      BY <1>0, <1>1, <1>3, RequeueMoves DEF ClaimNothing, Requeue
    <2>2. QED
      BY <2>1, QuietStep
  <1>4. CASE UNCHANGED <<itemStatus, createdAt>>
    <2>1. \A u \in Tasks : Unmoved(u)
      BY <1>4 DEF Unmoved
    <2>2. QED
      BY <2>1, QuietStep
  <1>5. CASE Abandon(w)
    <2> DEFINE t == heldTask[w]
    <2>1. t \in Tasks /\ itemStatus[t] = "leased"
      BY <1>5 DEF Abandon, IInv, LoopsConsistent, HeldItems
    <2>2. CASE FailItem(t) /\ createdAt' = createdAt
      <3>1. \A u \in Tasks : Unmoved(u) \/ GivenBack(u)
        BY <1>0, <2>1, <2>2 DEF FailItem, TypeOK, Unmoved, GivenBack
      <3>2. QED
        BY <3>1, QuietStep
    <2>3. CASE Requeue({t}) /\ createdAt' = createdAt
      <3>1. \A u \in Tasks : Unmoved(u) \/ GivenBack(u)
        BY <1>0, <2>1, <2>3, RequeueMoves DEF Requeue
      <3>2. QED
        BY <3>1, QuietStep
    <2>4. QED
      BY <1>4, <1>5, <2>2, <2>3 DEF Abandon
  <1>6. CASE Finish(w)
    <2> DEFINE t == heldTask[w]
    <2>1. t \in Tasks /\ itemStatus[t] \in {"leased", "completed"}
      BY <1>6 DEF Finish, IInv, LoopsConsistent, HeldItems
    <2>2. CASE CancelPrecedes(t)
      <3>1. cancel[t] # "none" /\ Requeue({t}) /\ createdAt' = createdAt
        BY <1>6, <2>2 DEF Finish, CancelPrecedes
      <3>2. \A u \in Tasks : Unmoved(u) \/ GivenBack(u)
        BY <1>0, <2>1, <3>1, RequeueMoves DEF Requeue
      <3>3. QED
        BY <3>2, QuietStep
    <2>3. CASE ~CancelPrecedes(t)
      <3>1. itemStatus' = [itemStatus EXCEPT ![t] = ClosedStatus(t)] /\ createdAt' = createdAt
        BY <1>6, <2>3 DEF Finish
      <3>2. ClosedStatus(t) \in ItemTerminal
        BY DEF ClosedStatus
      <3>3. \A u \in Tasks : Unmoved(u) \/ GivenBack(u)
        BY <1>0, <2>1, <3>1, <3>2 DEF TypeOK, Unmoved, GivenBack
      <3>4. QED
        BY <3>3, QuietStep
    <2>4. QED
      BY <2>2, <2>3
  <1>7. CASE \/ Heartbeat(w) \/ StopExecution(w) \/ HeartbeatRaises(w) \/ ObserveRaise(w)
             \/ ShutdownCancel(w) \/ IdleExit(w) \/ LoopDies(w)
    BY <1>4, <1>7 DEF Heartbeat, StopExecution, HeartbeatRaises, ObserveRaise,
                      ShutdownCancel, IdleExit, LoopDies
  <1>8. QED
    BY <1>2, <1>3, <1>5, <1>6, <1>7 DEF WorkerStep

\* An execution closes its item at most.
LEMMA ExecFifo ==
  ASSUME IInv, NEW t \in Tasks, NEW n \in Attempts, ExecStep(t, n)
  PROVE  FifoStep
  <1> USE DEF itemVars
  <1>1. createdAt' = createdAt
    BY DEF ExecStep, ExecPrepare, ExecRun, ExecReport, ExecComplete, ExecFail, ExecRaise
  <1>2. \A u \in Tasks : Unmoved(u) \/ GivenBack(u)
    <2>1. CASE ExecComplete(t, n)
      <3>1. itemStatus[t] = "leased"
        BY <2>1, RunningHeld DEF ExecComplete
      <3>2. QED
        BY <1>1, <2>1, <3>1 DEF ExecComplete, IInv, TypeOK, Unmoved, GivenBack
    <2>2. CASE ~ExecComplete(t, n)
      BY <1>1, <2>2 DEF ExecStep, ExecPrepare, ExecRun, ExecReport, ExecFail, ExecRaise, Unmoved
    <2>3. QED
      BY <2>1, <2>2
  <1>3. QED
    BY <1>2, QuietStep

\* create_task lets one item enter, behind all others; cancellations close.
LEMMA ApiTimeFifo ==
  ASSUME IInv, NEW t \in Tasks, ApiStep(t) \/ TimeStep(t)
  PROVE  FifoStep
  <1>1. CASE CreateTask(t)
    <2>1. itemStatus[t] = "absent"
      BY <1>1 DEF CreateTask, IInv, AbsentTogether
    <2>2. Entered(t)
      BY <1>1, <2>1 DEF CreateTask, Entered, IInv, TypeOK, CreationOrder
    <2>3. \A u \in Tasks \ {t} : Unmoved(u)
      BY <1>1 DEF CreateTask, Unmoved, IInv, TypeOK
    <2>4. \A u \in Tasks \ {t} : ~TakenNow(u) /\ ~Entered(u)
      BY <2>3 DEF Unmoved, TakenNow, Entered
    <2>5. ~TakenNow(t)
      BY <2>1 DEF TakenNow
    <2>6. QED
      BY <2>2, <2>3, <2>4, <2>5 DEF FifoStep
  <1>2. CASE ~CreateTask(t)
    <2>1. \A u \in Tasks : Unmoved(u) \/ GivenBack(u)
      BY <1>2 DEF ApiStep, TimeStep, CancelQueued, CancelLeased, LeaseExpires, BackoffElapses,
                  Unmoved, GivenBack, IInv, TypeOK
    <2>2. QED
      BY <2>1, QuietStep
  <1>3. QED
    BY <1>1, <1>2

\* bootstrap lets missing items enter in some order and gives expired ones back.
LEMMA ProcessFifo ==
  ASSUME IInv, NEW p \in Procs, ProcessStep(p)
  PROVE  FifoStep
  <1>1. CASE Start(p)
    <2>1. /\ Inconsistent = {} /\ Missing \in SUBSET Tasks
          /\ \A u \in Missing : itemStatus[u] = "absent"
          /\ \A u \in Expired : itemStatus[u] = "leased"
      BY NothingInconsistent DEF Missing, Expired
    <2>2. PICK pos \in Orders :
            createdAt' = [u \in Tasks |-> IF u \in Missing THEN nextAt + pos[u]
                                          ELSE createdAt[u]]
      BY <1>1 DEF Start
    <2>3. /\ \A u \in Tasks : pos[u] \in Nat /\ pos[u] > 0
          /\ \A u, x \in Missing : pos[u] = pos[x] => u = x
      BY CardTasks DEF Orders
    <2>4. nextAt \in Nat /\ \A u \in Tasks : createdAt[u] \in Nat /\ createdAt[u] < nextAt
      BY DEF IInv, TypeOK, CreationOrder
    <2>5. \A u \in Missing : Entered(u) /\ createdAt'[u] = nextAt + pos[u]
      <3> SUFFICES ASSUME NEW u \in Missing
                   PROVE  Entered(u) /\ createdAt'[u] = nextAt + pos[u]
        OBVIOUS
      <3>1. createdAt'[u] = nextAt + pos[u]
        BY <2>1, <2>2
      <3>2. itemStatus'[u] = "queued"
        BY <1>1, <2>1 DEF Start
      <3>3. QED
        BY <2>1, <2>3, <2>4, <3>1, <3>2 DEF Entered
    <2>6. \A u \in Tasks \ Missing : Unmoved(u) \/ GivenBack(u)
      <3> SUFFICES ASSUME NEW u \in Tasks \ Missing
                   PROVE  Unmoved(u) \/ GivenBack(u)
        OBVIOUS
      <3>1. createdAt'[u] = createdAt[u] /\ itemStatus'[u] = RequeuedStatus(Expired)[u]
        BY <1>1, <2>1, <2>2 DEF Start
      <3>2. QED
        BY <2>1, <3>1 DEF RequeuedStatus, Cancelling, Unmoved, GivenBack
    <2>7. /\ \A u \in Tasks : ~TakenNow(u)
          /\ \A u \in Tasks : Entered(u) => u \in Missing
      BY <2>1, <2>5, <2>6 DEF Unmoved, GivenBack, TakenNow, Entered
    <2>8. \A u, x \in Missing : createdAt'[u] = createdAt'[x] => u = x
      BY <2>1, <2>3, <2>4, <2>5
    <2>9. QED
      BY <2>5, <2>6, <2>7, <2>8 DEF FifoStep
  <1>2. CASE ~Start(p)
    <2>1. \A u \in Tasks : Unmoved(u)
      BY <1>2 DEF ProcessStep, Crash, Stop, Exit, EndProcess, itemVars, Unmoved
    <2>2. QED
      BY <2>1, QuietStep
  <1>3. QED
    BY <1>1, <1>2

\* The abstraction of the item of t.
FifoPhase(t) ==
  IF itemStatus[t] = "absent" THEN "absent"
  ELSE IF itemStatus[t] = "queued" THEN "waiting"
  ELSE IF itemStatus[t] = "leased" THEN "active" ELSE "closed"

\* The four ways an item goes are the actions of ConversationFifo.
LEMMA FifoRefinedStep ==
  ASSUME TypeOK, TypeOK', FifoStep
  PROVE  Fifo!FifoNext
  <1> DEFINE phase == [t \in Tasks |-> FifoPhase(t)]
  <1>1. \A t \in Tasks : Unmoved(t) => Fifo!Stay(t)
    BY DEF Unmoved, Fifo!Stay, TypeOK
  <1>2. \A t \in Tasks : GivenBack(t) => Fifo!GiveBackOrClose(t)
    BY DEF GivenBack, Fifo!GiveBackOrClose, Fifo!Pending
  <1>3. \A t \in Tasks : TakenNow(t) <=> Fifo!TakeUp(t)
    BY DEF TakenNow, Earlier, SameConv, Fifo!TakeUp, Fifo!Precedes, Fifo!Pending, TypeOK
  <1>4. \A t \in Tasks : Entered(t) <=> Fifo!Enter(t)
    BY DEF Entered, Fifo!Enter, TypeOK
  <1>5. QED
    BY <1>1, <1>2, <1>3, <1>4 DEF FifoStep, Fifo!FifoNext, TypeOK

\* The outcome of a task is final, and a completed task becomes a cancelled one
\* only when the cancellation was requested before it completed.
THEOREM QueueOutcomesAreFinal ==
  ASSUME Punctual
  PROVE  Spec => OutcomesAreFinal
  <1>1. IInv /\ [Next]_vars =>
          [\A t \in Tasks :
             /\ taskStatus[t] = "cancelled" => taskStatus'[t] = "cancelled"
             /\ taskStatus[t] = "completed" =>
                  \/ taskStatus'[t] = "completed"
                  \/ taskStatus'[t] = "cancelled" /\ cancel[t] = "first"]_vars
    BY WorkerKeeps, ExecKeeps, OthersKeep DEF Next, OutcomeKept
  <1>2. QED
    BY <1>1, QueueInvariant, PTL DEF Spec, OutcomesAreFinal

\* The durable queue with its leases, retries, crashes and restarts implements
\* the order ConversationFifo promises.
THEOREM QueueImplementsFifo ==
  ASSUME Punctual
  PROVE  Spec => ImplementsFifo
  <1>1. Init => Fifo!FifoInit
    BY DEF Init, Fifo!FifoInit
  <1>2. IInv /\ [Next]_vars => [Fifo!FifoNext]_(Fifo!abstractVars)
    <2> SUFFICES ASSUME IInv, [Next]_vars
                 PROVE  [Fifo!FifoNext]_(Fifo!abstractVars)
      OBVIOUS
    <2>1. CASE UNCHANGED vars
      BY <2>1 DEF vars, itemVars, Fifo!abstractVars
    <2>2. CASE Next
      <3>1. FifoStep
        BY <2>2, WorkerFifo, ExecFifo, ApiTimeFifo, ProcessFifo DEF Next
      <3>2. TypeOK /\ TypeOK'
        BY NextInv DEF IInv
      <3>3. QED
        BY <3>1, <3>2, FifoRefinedStep
    <2>3. QED
      BY <2>1, <2>2
  <1>3. QED
    BY <1>1, <1>2, QueueInvariant, PTL DEF Spec, ImplementsFifo, Fifo!FifoSpec

\* Bootstrap repairs, whatever happened before and whatever is switched on:
\* afterwards no unfinished task is without an active item.
THEOREM QueueRestartRepairs == Spec => RestartRepairs
  <1> DEFINE Repaired(t) == taskStatus'[t] \notin TaskTerminal \union {"absent"}
                              => itemStatus'[t] \in ItemActive
  <1>1. ASSUME TypeOK, NEW p \in Procs, Start(p), NEW t \in Tasks
        PROVE  Repaired(t)
    <2>1. CASE t \in Missing \union Inconsistent
      BY <1>1, <2>1 DEF Start
    <2>2. CASE t \notin Missing \union Inconsistent
      <3>1. itemStatus'[t] = RequeuedStatus(Expired)[t]
        BY <1>1, <2>2 DEF Start
      <3>2. CASE t \in Cancelling(Expired)
        BY <1>1, <2>2, <3>2 DEF Start, Cancelling, Requeueing, CancelsTask
      <3>3. CASE t \in Requeueing(Expired)
        BY <3>1, <3>3 DEF RequeuedStatus, Requeueing
      <3>4. CASE t \notin Expired
        <4>1. itemStatus'[t] = itemStatus[t] /\ taskStatus'[t] = taskStatus[t]
          BY <1>1, <2>2, <3>1, <3>4 DEF Start, RequeuedStatus, Cancelling, Requeueing
        <4>2. QED
          BY <1>1, <2>2, <4>1 DEF Missing, Inconsistent, TypeOK
      <3>5. QED
        BY <3>2, <3>3, <3>4 DEF Requeueing
    <2>3. QED
      BY <2>1, <2>2
  <1>2. ASSUME TypeOK, Next, NEW p \in Procs, procState[p] = "down", procState'[p] = "up"
        PROVE  Start(p)
    <2>1. \/ UNCHANGED procState
          \/ \E q \in Procs : ProcessStep(q)
      BY <1>2 DEF Next, WorkerStep, ExecStep, ApiStep, TimeStep, Claim, ClaimNothing, Heartbeat,
                  StopExecution, HeartbeatRaises, ObserveRaise, Abandon, Finish, ShutdownCancel,
                  IdleExit, LoopDies, ExecPrepare, ExecRun, ExecReport, ExecComplete, ExecFail,
                  ExecRaise, CreateTask, CancelQueued, CancelLeased, LeaseExpires,
                  BackoffElapses, procVars
    <2>2. PICK q \in Procs : ProcessStep(q)
      BY <1>2, <2>1
    <2>3. q = p /\ ~Crash(q) /\ ~Stop(q) /\ ~Exit(q)
      BY <1>2, <2>2 DEF ProcessStep, Start, Crash, Stop, Exit, EndProcess, TypeOK
    <2>4. QED
      BY <2>2, <2>3 DEF ProcessStep
  <1>3. TypeOK /\ [Next]_vars =>
          [\A p \in Procs : procState[p] = "down" /\ procState'[p] = "up" =>
             \A t \in Tasks : Repaired(t)]_vars
    BY <1>1, <1>2
  <1>4. QED
    BY <1>3, QueueTypeOK, PTL DEF Spec, RestartRepairs

=============================================================================
