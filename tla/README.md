# A verification project for the One Agent Gateway (CAG)

The gateway accepts Agent tasks over HTTP, queues them in PostgreSQL, runs them
in worker processes against a Codex runtime, asks operators for approvals,
and publishes everything that happens as numbered events over SSE. This
directory holds TLA+ modules of its concurrent core, the TLC configurations
that check them on small instances, and TLAPS proofs of their main safety
properties. Paths below are relative to `src/backend/app/` unless they start
with `backend/` or `docs/`.

## 1. Inventory

The gateway runs as one *combined* process or as API and worker processes
(`worker.py`). All of them share one PostgreSQL database; Redis only wakes
sleeping loops. Inside a process everything runs on one asyncio loop, with
database work of long calls on threads.

| Component | State | Operations | Talks to |
|---|---|---|---|
| Request intake (`api/tasks.py`, `api/conversations.py`) | Task, Conversation rows | create, replay by `Idempotency-Key`, cancel | event ledger, queue |
| Durable queue (`queue/service.py`) | `queue_items`, `queue_workers` | `bootstrap`, `claim_next`, `heartbeat`, `finish`, `abandon`, `request_cancel` | tasks, ingestions and issues it carries |
| Coordinator (`queue/coordinator.py`) | worker loops, the execution each supervises | `start`, `stop`, the worker loop | queue, executor, notifier |
| Notifier (`queue/notifier.py`) | one event per queue, Redis subscription | `publish`, `wait` | coordinator |
| Task executor (`tasks/executor.py`) | `Task.status`, report, workspace fields | `execute`, `_fail_task` | runtime, harness, workspaces, ledger |
| Agent harness (`harness/service.py`) | `harness_runs`, `agent_runs`, semaphore, budgets | `execute` in phases, `_run_agent` | runtime, approvals, workspaces |
| Approvals (`approvals/service.py`, `policies/`) | `approval_requests`, `waiting_approval` | `request`, `resolve` | operators, harness |
| Event ledger (`services/task_service.py`) | `task_events`, `AuditCursor`, the counters of Task and Conversation | `append_event`, list queries | every writer |
| Event streams (`events/sse.py`) | position per client | task, conversation and audit streams | ledger |
| Workspaces (`workspaces/manager.py`) | directories with a Git clone | `prepare`, `create_branch` | executor, harness |
| Runtimes (`runtimes/`) | one Codex process, requests in flight | `run` with events and approvals | executor, harness, issues |
| Operational issues (`operations/service.py`) | issue, occurrences, artifacts, events | capture, triage, approve, evaluate, reopen | queue, runtime, tasks |
| Knowledge sources and ingestion (`knowledge/service.py`, `scheduler.py`) | sources with leases, ingestions, files, chunks | create, claim due source, ingest, search | connectors, queue, model server |
| Customer extraction (`knowledge/extraction.py`) | extraction run, manifest, evidence | execute, aggregate, cancel | ingestion, model server |
| Artifacts (`knowledge/artifacts.py`, `artifact_store.py`) | encrypted replicas | put, verify, read | file stores |
| Capabilities, learning (`capabilities/`, `learning/`) | assets, evaluations, promotions | propose, evaluate, roll out, roll back | executor |
| Migration (`migrations/`) | SQLite source, receipt | `run_auto_cutover` (not modelled, section 7) | database |
| Frontend, scripts, registry, configuration | none shared | | |

Where the hard behaviour is:

* **Queue, coordinator, executor.** Several loops in several processes claim
  with row locks; a task and its item are written by different transactions
  (the executor commits the outcome, `finish` closes the item); a worker may
  die, be stopped or lose its lease between any two; cancellations arrive at
  any time. Correct means: work of a Conversation runs one at a time and in
  order, outcomes are not taken back, no accepted work is lost.
* **Event ledger and streams.** Numbers come from three counters under two
  row locks, one of which is taken after the row was read; the streams poll by
  number. Correct means: numbers are continuous and no reader passes over an
  event.
* **Harness and approvals.** Agents of a phase run in parallel under a
  semaphore and fail alone; a request may be answered by an operator, by its
  window or by nobody; a crash leaves rows behind for the next attempt. Correct
  means: one writer at a time, a closed run behind every completed task, no
  decision overturned.
* **Intake.** Clients retry with the same key, handlers overlap, replies get
  lost. Correct means: one row per key, shown to its owner only.
* **Operational issues.** Jobs of the queue, administrators and the end of an
  implementation Task write one row without locks, each with what it has read.
  Correct means: nothing is approved without a reviewed plan, nothing is closed
  against the newest evaluation, and an issue in triage has somebody to go on.
* **Knowledge sources, ingestion, extraction.** One lease per source, shared by
  the scheduler, queued ingestions and extractions that repair a scope under
  their own lease; collections that take long between what they read and what
  they commit. Correct means: one execution inside a source at a time, documents
  that are what was collected, one result per extraction however often it was
  attempted, one scope and one repair for what was asked for once.
* **Capabilities and learning.** Captures and roll-out records overlap without
  locks. Correct means: a repeated pattern is proposed, and activation is earned.
* **Artifacts, provenance.** Files and buckets are written, lost and
  corrupted beside the database, and the process may die between the two.
  Correct means: what is published can be read again, and a hash that is on
  record tells whether its file has changed.
* **Codex turn, notifier.** Lines and wake-ups in an order nobody controls.
  Correct means: a turn collects its own reports, requests get their answer,
  and no wake-up is lost.

`PROJECT.json` lists every component with its status, and under `hazards` each
place where one of these behaviours bites, with the properties that watch it.

## 2. Modules

| Module | Models | Used by |
|---|---|---|
| `DurableQueue` | queue, coordinator loop, executor commits, processes | |
| `ConversationFifo` | what the queue promises about order | refined by `DurableQueue` |
| `EventLog` | `append_event`, its locks, the three streams | |
| `AgentHarness` | one harness task with its approvals | |
| `RequestIntake` | the two idempotent POST handlers | |
| `OperationalIssue` | one issue with its jobs, administrators and Task | |
| `SourceIngestion` | one knowledge source: scheduler, ingestions, leases, inventory, documents | |
| `CustomerExtraction` | one extraction over its attempts | `MCServices` |
| `CustomerLedger` | which answers of the model the aggregated ledger shows | `MCServices` |
| `AnalysisScope` | scopes of a customer and the requests to repair them | `MCServices` |
| `CapabilityRegistry` | one capability from learning signals to activation | `MCServices` |
| `ArtifactStore` | two object stores, putters and a reconciliation | `MCServices` |
| `ProvenanceBackfill` | backfills and an ingestion that hash a file while it is written | `MCServices` |
| `CodexTurn` | one turn over the pipes of the Codex process | `MCServices` |
| `QueueNotifier` | the shared wake-up event and its publishers | `MCServices` |
| `ServicesProofs` | theorems about scopes, the backfill, the notifier, artifacts and the ledger of an extraction | |
| `AgentServicesProofs` | theorems about capabilities, a turn of Codex, an extraction, and the types of all eight services | |
| other `...Proofs` | theorems about the module of that name | |
| `MC...` | small instances, symmetries | the `.cfg` files |

The modules are cut where the code has a narrow interface. `EventLog` assumes
one writer per task at a time, which is `OneExecutionPerConversation` of
`DurableQueue`; `AgentHarness` takes one task after it was claimed, and the
loss and recovery of its lease as a step; `RequestIntake` ends with the commit
of the row that is `CreateTask` of `DurableQueue`. `SourceIngestion` and
`CustomerExtraction` have the part of the queue that their items use (claim,
recovery, `finish`, `abandon`, `_cancel_locked`) in their own words, because there
the rules differ: these items are ordered by no Conversation and carry a second
record with a status of its own. `CustomerExtraction` leaves the lease of the
source to `SourceIngestion`, whose extractor in turn leaves out documents and
attempts. `QueueNotifier` ends where `Claim` begins: a wake-up is a hint.

### DurableQueue

A Task and its QueueItem are one to one, so every variable is a function of
the task. An execution is named `<<task, attempt>>`, since `claim_next` numbers
the leases of an item by `attempt_count`: after a lost lease two executions of
one task can be in memory, and `exec` shows both. Each action is one committed
transaction with the in-memory step that issues it:

* `CreateTask`, `CancelQueued`, `CancelLeased` are the API;
* `Claim` recovers every expired lease, as `claim_next` does, before it leases
  the oldest eligible item; `ClaimNothing` is the same call when nothing is
  eligible;
* `Heartbeat`, `StopExecution`, `HeartbeatRaises`, `ObserveRaise`, `Abandon`,
  `Finish`, `Release` are `_execute_item`, which supervises a shielded execution;
* `ExecPrepare`, `ExecRun`, `ExecReport`, `ExecComplete`, `ExecFail`,
  `ExecRaise` are the commits of `TaskExecutor.execute`;
* `Start` is `bootstrap` plus the loops, `Stop`, `IdleExit`, `ShutdownCancel`
  and `Exit` the orderly end, `Crash` the other one, `LoopDies` an exception
  that leaves `_worker_loop`.

Abstractions: time is two booleans per item (the lease is live or expired, the
backoff is over or not). `cancel` keeps only how `cancel_requested_at` compares
with `completed_at`, because that is what `_cancellation_precedes_completion`
looks at. Priorities, the other queues, events and the rows that only display
workers are left out. A shutdown that cancels a loop inside its heartbeat call has
the effect of a raising heartbeat followed by a stop.

### EventLog

A writer holds a session: it loads the Task, takes the cursor row, takes the
Conversation row, inserts and commits. `taskSeq` and `convSeq` are the counters
inside the loaded objects, which a locking SELECT does not refresh; that
`create_task` loads the Conversation before it waits for the locks is therefore
visible. The unique constraints of `task_events` decide in `Commit` and
`Rollback`; `Deadlocked` is the one cycle the foreign key and the two locks
allow, and PostgreSQL breaks it. Streams are three kinds of readers;
`stream_task_events` reads the status and the events in two queries.
Keep-alive comments, payloads and the filters of the audit stream are left out.

### AgentHarness

`agent` is the AgentRun row together with the coroutine that drives it, `phase`
the control state of `AgentHarness.execute`. A request of an agent is a record
with the stored status and the answer its callback received; `resolve` is two
steps, a read without a lock and a write (`ReadRequest`, `WriteRequest`), for
each operator and for the waiting gateway itself when the window ends.
An agent ends in one of four ways besides `"completed"`: its workspace fails before
it has a row (`"unprepared"`), the runtime or its budget ends it (`"failed"`), a
commit or an event outside the `try` raises and its row stays queued or running
(`"left"`, `LeaveOpen`), or the event that announces its completed row raises
(`"unannounced"`). `asyncio.gather` swallows the exceptions of investigators and
reviewers, so a task may complete over such a row. A failed row is committed before
its event is appended, hence an event that raises there leaves nothing open.
`MaxCrashes` bounds crashes because the recovery of leases in the code has no
limit. `RepeatFailed` is the crash after the executor failed the task and before
the item was closed, together with the restart. Scores, artifacts and prompts
are left out; what the command policy says is a free choice.

### RequestIntake

A request stands for the row it would create. Handlers advance in five steps
(look up, validate, insert, commit, read again) and an insert waits while
another handler holds an uncommitted row with its key, as PostgreSQL does.
`Crash` and `LoseReply` make the client retry, which is another request.

### OperationalIssue

No handler locks the issue it reads. Loading the row (`ReadIssue`, the `loaded`
steps), the later `select max(revision)` of `_add_artifact` (`ReadRevision`,
`ReadRevisionFor`) and the commit are therefore steps of their own, and a commit
writes only the columns that differ from those loaded (`Written`, `Assessed`). The
unique revision refuses the later of two evaluations that selected the same number
(`Overtake`, `Refused`); it does not refuse one that loaded the row before the other
was committed and selected its revision afterwards. `approve` is three transactions
(`Approve`, `CreateTask`, `LinkTask`). What planner, reviewer and evaluator answer is
free; which status follows from it (`Outcome`) is the code's. A column holds a class
of values; where two values of one class may differ, writing it is a choice
(`Classes`). `plan.stale` records that the row was not as loaded any more when the
triage of the newest plan committed. `Restart` is `bootstrap` for issues.

Read and write are one step where one transaction reads one row and writes it at
once: the queue's recovery and cancellation of an item with the status of its issue,
and `capture`, which takes the row `FOR UPDATE`. Prompts,
occurrences and artifacts other than the newest are left out.

### SourceIngestion

An execution of `ingest` obtains the source (`ObtainSource`, with the location and
the reusable files it reads there), collects (`Collect`), compares and marks
removed entries (`Compare`), loads what it will replace (`LoadReplaced`) and commits
(`CommitIngestion`); it may fail or raise in between. A path is kept when it has a
document or was refused before, and the connector finds size and time unchanged; it
may also be read again, or be rejected (`Collect` chooses). `source.lapsed` is a lease
that ran out: only the events of an ingestion and the begin of a document renew one, so
`LeaseLapses` may happen under an execution that goes on, and is counted as a fault
then. `RecoverItem` and `HeartbeatRaises` take the item from an execution that
lives on (`held`), as in `queue_orphan`. The scheduler's three steps (claim, create,
release) are apart, because it commits its claim first; a scheduled ingestion takes
the lease over (`HandOff`). `AcquireSource`, `PrepareVersions`, `RepairReturns`,
`ObserveRepair`, `ReleaseSource` are an extraction that repairs its scope inline or
waits for a queued repair. An administrator's edit reads the source, and for a
relocation its documents and entries (`ReadSource`), and commits later
(`UpdateSource`, `Relocate`): neither it nor the commit of an ingestion locks what it
has loaded. A document knows whether it was found at the `"present"` or a `"former"`
location. What the connector finds is free.

Two history variables name what the properties exclude. `stolen`: a lease or an item
was taken from an execution at work. `crossed`: the transactions of a relocation and
of a commit overlapped; such a pair does leave documents without inventory entries
(without the premise TLC finds `IndexedIsObserved` violated).

Simplifications: a transaction that reads one row and writes it at once
(`_fail_ingestion`, the releases of leases) is one step; so is the synchronous stretch
from the end of the collection to the first request for embeddings; a renewal happens
in `Collect` and `Compare` only, which lets leases lapse more often than in the code.
One administrator edits at a time, one extraction has one scope, the attempts of an
item are not counted, and the connector's thread ends with its cancelled execution.

### CustomerExtraction, CustomerLedger, AnalysisScope

`CustomerExtraction` follows one item through `CreateTask`, `CreateRecord`, claims,
`PrepareManifest` (frozen rows are taken as they are), `BeginDocument`,
`DocumentAnalysed`, `Aggregate` and the ends of an attempt; the item, the Task, the
record and the rows of the manifest are written by different transactions.
`CustomerLedger` is a pure computation: `Analyse` chooses the answers of the model
for the next document, one of them for the same field several times if it likes,
`Aggregate` applies `_aggregate`, and the properties compare its result with a
definition of what should be shown (`Shown`) and with what the candidates give in
another order. A result has the id and period of the winning row, the candidates of a
conflict and the `aggregation_status` of every row; `Settled` is what of it does not
name the winner. `AnalysisScope` interleaves resolutions of a scope
(`ReadRoots`, `CommitScope`) and requests with idempotency keys (`CheckRequest`,
`CreateRepair`, `InsertRequest`, `Repeat`).

### CapabilityRegistry, ArtifactStore, ProvenanceBackfill

Each is the interleaving of sessions, putters or backfills with the world that
changes under them. `CapabilityRegistry` loads the asset into a session (`Load`) and
commits the columns it changed with its evaluation (`Commit`, `OnRecord`);
`capture_task` is three commits. The history `passes` counts the passed evaluations,
those of the canary stage since the asset was last put back to benchmarked; `crossed`
records that a roll-back or an evaluation overlapped another request. In `ArtifactStore`
an object is absent, good or bad in each store; `Fault` loses or corrupts objects and
rows. In `ProvenanceBackfill` a version of the file stands for its size, time and
content; hashing reads it in two parts, and parts of two versions give a hash of none
(`Torn`). An ingestion on its way (`walk`) loads the known rows (`BeginWalk`), takes
size and time when it lists the directory (`StatFile`), the hash later without another
look (`HashFirst`, `HashRest`), then loads the row and writes what differs
(`LoadEntry`, `Ingest`). `raced` records that an ingestion and a backfill had the row
loaded at one time.

### CodexTurn, QueueNotifier

`CodexTurn` has the two pipes of the child: `Respond`, `ReportItem`, `AskClient`,
`CompleteTurn` and `Exit` are the server, the other actions are `read_message`,
`request`, `handle_server_request` and `handle_notification` of the client, each
consuming the first line. `QueueNotifier` has the event per process, its
publishers, the Redis listener that may be down, and workers that look, sleep, time
out and clear the event of all when their wait ends.

### MCServices

The eight smaller services share no state. `MCServices` gives each a *scene*: the
initial state chooses one, and only its variables move, so that the state spaces
add up instead of multiplying (1.4 million distinct states together). It EXTENDS
`AnalysisScope` and instantiates the other seven; properties keep the names
they have in their modules. Every parameter of the eight is a CONSTANT here too, so
that `Services.cfg` chooses the instance and the theorems are about all of them;
`ServicesAssumption` says what the bounds must satisfy.

## 3. Runs

Passing runs:

| Run | Instance | Shows |
|---|---|---|
| `queue_nominal` | 2 tasks of one Conversation, 3 loops in 2 processes, 3 leases per item, 2 faults | serial execution, order, agreement of item, task and report; `ImplementsFifo`; `OutcomesAreFinal` |
| `queue_faults` | 2 tasks, one without an item, 1 loop, every fault switch on | `RestartRepairs`: after any history a start gives every unfinished task an active item |
| `queue_liveness` | 2 tasks, 2 loops, 1 crash or stop, raising executions | every accepted task is closed |
| `eventlog` | 2 tasks of one Conversation, 3 events, audit pages of 1 | `ContinuousSequences`; `StreamsAreComplete`: streams pass over nothing and end with an outcome; every event is delivered |
| `harness` | 2 investigators behind 1 slot, 2 reviewers, 1 operator, 1 crash, 2 requests | single writer, closed runs with no agent at work, decisions that stay; a harness task ends although nobody answers |
| `intake` | 3 task posts (one names an unknown project), 3 Conversation posts (one with another body), one key | one row per key, shown to its owner; every request is answered |
| `issues` | 1 loop, 2 administrators, 2 open items, 4 events from outside | `ApprovableIsReviewed`, `ClosedIssuePassed`, `TriageHasItem` under every interleaving of their unlocked reads and writes, restarts and cancellations |
| `ingestion` | 2 loops, an extractor, 2 ingestions, a path in the scope, one fault or edit (lapse, lost item, cancellation, restart, relocation, disabling) | one ingestion of a kind, one execution inside the source, indexed documents have entries, a commit shows what was collected |
| `services` | extraction: 2 documents, 2 loops, 2 attempts; ledger: 3 documents, 3 fields, 3 candidates; scope: 2 roots, 2 extractions, 2 posts; capability: 2 captures, 2 requests; artifact: 2 stores, 4 faults; backfill: 2 backfills, an ingestion, 3 versions; Codex: 3 lines; notifier: 3 workers, 3 items | the twelve properties below |

The properties of `services`: `LatestIsActive` and `SameKeySameRepair`
(`AnalysisScope`); `LedgerIsRight` (shown values are the best supported ones, from
directories that were asked, undisputed or marked) and `OrderDoesNotMatter`
(`CustomerLedger`); `AttemptsLeaveOneResult` (a completed extraction covers its
manifest, no document is analysed twice, the Task agrees); `ActivationIsEarned` and
`PatternIsProposed` (`CapabilityRegistry`; active means that the shadow runs and the
canary runs since the last roll-back are on record, benchmarked means inactive with no
canary count); `ObjectsAreKept` (published artifacts were put into both stores,
completed runs have restored what one readable object was left of);
`HashIsOfTheEntry` (while a file has the size and time of its entry, the hash is of
that file); `TurnIsShared` (a completed turn has exactly what the server
reported, each of its requests one answer); `WakeUpsAreNotLost`; and
`ServicesTypeOK`, the types of all of them.

Some names join properties that are stated one by one in their module
(`StreamsAreComplete`, `OutcomesMatch`, `LedgerIsRight`, `ObjectsAreKept`,
`TurnIsShared`, `AttemptsLeaveOneResult`): what such a name
promises is one thing to a reader, and TLC names the state that breaks it.

Why the bounds are enough: the order and exclusion properties speak of pairs of
items, executions, events, sessions or requests, so two are the smallest
interesting number, and three loops let one claim while another still supervises
and a third recovers. Three leases per item allow a first attempt, its recovery
and a recovery of that; two faults allow a crash during the repair of a crash.
Three events cover a number read before, refused, and read again while a second
writer commits. Audit pages of one event force a second page. Two requests let a
later approval meet an unfinished earlier one. Four events from outside let an issue be
captured, planned, decided and evaluated while a second request is under way. For one
path, whether it is indexed, listed, kept or refused is all that an ingestion and its
commit relate; the two loops and the extractor overlap in the source, and one fault or
edit is enough to make `stolen` or `crossed` true, after which most properties promise
nothing. Three documents give a field a best, an equal and a weaker source, or one in
a special directory. Larger numbers repeat these patterns, and for every safety
property of a passing run the theorems below remove the bounds. Deadlock checking
is off where the bounds let an instance come to rest (all tasks closed, ledger
full, all requests answered).

Runs that end in a violation each check one sentence of the repository's
documentation:

| Run | Sentence | What happens |
|---|---|---|
| `queue_orphan` | ADR 0018: tasks sharing a Conversation are serial | a heartbeat that raises abandons the item, but not its shielded execution; the next claim runs beside it |
| `issues_second_approval` | api.md: approved internal issues create a standard Task | all Tasks of an issue have one idempotency key; after a failed implementation, a second approval is refused by the unique constraint and the issue stays approved without a Task |
| `ingestion_stolen_source` | enterprise-knowledge.md: no other ingestion collects while an extraction works on what it prepared | `update_source` clears the lease of an unscheduled source, whoever holds it |

Other disagreements were found with TLC while the modules were written; their
properties are stated in the modules and have no run of their own:

| Property | Sentence | What happens |
|---|---|---|
| `DurableQueue!AcceptedCancelReachesCancelled` | api.md: an accepted cancellation of a leased item reaches `task.cancelled` | the executor closes item and task; a crash before `finish` forgets the cancellation |
| `EventLog!AssignedNumberIsNext` | architecture.md: a continuous sequence is assigned | `create_task` numbers its event from a Conversation loaded before the lock; the unique constraint refuses it and the request fails |
| `AgentHarness!CompletedTasksLeaveNoRowOpen` | agent-harness.md: each AgentRun emits a structured report | an event outside the `try` raises, `gather` swallows it, and the task completes with a row queued or running |
| `AgentHarness!OnlyTheExecutorFailsTheRun` | ADR 0018: recovered work continues | a second attempt inserts a second HarnessRun, which the unique `task_id` refuses |
| `AgentHarness!ResolutionIsFinal` | test_harness.py: a resolved request is not resolved again | two resolutions read before either writes |
| `OperationalIssue!FailedEvaluationReopens` | ADR 0022: a failed evaluation restores `detected` status | another verdict closes the issue between the load of the row and the select of the revision; the later, failed one writes `detected` no more, since that is what it had loaded |
| `OperationalIssue!EveryApprovableIsReviewed` | ADR 0022: approval requires an approval-ready independent Review | a reopening committed between the load and the flush of a triage clears columns the triage does not write again |
| `ProvenanceBackfill!HashIsOfTheVersion` | ADR 0026, 15 and 16: an entry has a raw-file hash; one whose size or time differ from the file is left without | the file is written between the listing of its directory and the reading of its blocks |
| `CapabilityRegistry!RollBackClears` | security.md: a roll-back clears active state and canary counter | a roll-out record that loaded the asset before the roll-back writes them again |
| `CapabilityRegistry!ActiveWasEvaluated` | api.md: a proposal stays inactive until the complete evaluation | rolling back a proposal makes it benchmarked; shadow and canary records then activate it |
| `CustomerLedger!ListValuesStay` | ADR 0027: every value of a list remains a candidate to be reviewed | values of a weaker source are dropped, as for scalars |
| `CustomerLedger!WinnersAreStable` | none promises it: the query of the candidates has no order | among rows of one value with equal confidence the query decides which id and period are shown and which row is selected |
| `CustomerExtraction!CancellationReachesRecord` | api.md: item, Task and record are cancelled together | the record is cancelled after the item in another transaction; a crash in between leaves it queued |

The cutover from the legacy SQLite file is another disagreement, of a component that is
not modelled: docs/deployment.md:248-253 says that the launcher migrates to 20260810_0026
and then copies; the launchers migrate to the newest revision, 20260813_0030, and
`migrate` asks for 20260806_0024 and for every table of the present metadata
(`migrations/sqlite_to_pgvector.py:29`, 200-204), so that with a legacy file to copy every
start fails before the copy.

Other behaviour a reader should know of: a loop whose `claim_next`, `abandon` or
`finish` raises ends for the life of the process (`LoopDies`); a replay that
overlaps the first post of a task is answered with an internal error, since only
the Conversation endpoint handles the `IntegrityError` (`Insert`); a decision
between the last poll of a waiting agent and the end of its window fails the agent
(`ExpireTooLate`), and a window that expires leaves the task `waiting_approval`
(`WriteRequest`); a task stream that has ended at `task.completed` does not show a
cancellation `finish` makes afterwards (`FollowerAfter`); a recovered lease is
retried without regard to `max_attempts`; a lost lease or a shutdown cancels an
extraction for good (`Interrupt`, `Shutdown`); a first ingestion that is cancelled
leaves its source `indexing`, which the scheduler passes over;
`delete_source` only disables a source, while docs/enterprise-knowledge.md says
that its documents are removed; a clone that dies half way is taken for the
finished checkout by the next attempt (`workspaces/manager.py`, not modelled).

## 4. Fairness

Liveness runs use `FairSpec`. Weak fairness is given to what the program does by
itself: a loop that can claim, stop, finish or abandon goes on; an execution
makes its next commit or raises, because every runtime call has a timeout; leases,
backoffs and budgets run out; a process that ended is started again (supervisor
script, restart policy of Docker). A transaction that was begun commits or is
rolled back, and a stream polls while its client stays. The modules of `issues`,
`ingestion` and `services` are checked for safety only: their progress depends on
administrators, model servers and file systems. None is given to faults,
crashes, cancellations, heartbeats, operators or clients. Fairness of a claim is
stated for the loop, not for a task: that no eligible task is passed over for ever
follows from the order by `created_at`.

## 5. Proofs

**Queue** (`DurableQueueProofs`). `QueueTypeOK` holds whatever
faults are switched on. The safety theorems assume `Punctual`: no lease lapses
under a live worker and no heartbeat raises, which `queue_orphan` shows to be
necessary. The invariant `IInv` adds to the checked properties what makes them
inductive: loops know their item and its current attempt (`LoopsConsistent`), a
held item is leased by its holder with a live lease until its execution has completed
it (`HeldItems`), no two loops hold one item (`OneHolder`), every execution in
memory is supervised by the loop that claimed it (`NoOrphans`), an execution has
committed what its progress says (`ExecProgress`), open items have unfinished tasks,
and `created_at` is injective and below the clock. `NoOrphans` is the heart: with it
an item that is queued, or leased with an expired lease, is executed by nobody
(`NotRunning`), so recovery cannot duplicate work; with `LeaseOrder` the executed
items of one Conversation coincide. Results: `QueueInvariant`, `QueueOneExecution`,
`QueueLeaseOrder`, `QueueOutcomes` (closed items agree with their task, and reports
with the outcome). `QueueOutcomesAreFinal` and `QueueImplementsFifo` are about steps.
An execution in memory has a leased item, whose task is neither completed nor
cancelled (`OpenItemsUnfinished`), so what it writes takes no outcome back;
`_requeue_locked` keeps outcomes whatever it is called for. For the refinement every
step moves an item in one of four ways (`FifoStep`): it stays or closes again, it is
given back, it is taken up, or it enters; only `Claim` takes up, one item, and only
`CreateTask` and `Start` let items enter, behind all others. A closed item does not
come back because bootstrap finds no inconsistent one (`NothingInconsistent`).
`QueueRestartRepairs` needs the types only and holds with every fault.

**Event ledger** (`EventLogProofs`). The part of the invariant about writers
(`WriterInv`) says that the numbers of a task or a Conversation are exactly those
below its counter, one event each (`Numbered`), that sessions hold the present
number of their task and at most the present one of their Conversation
(`Sessions`), and that one session holds the cursor. The number a session takes
to its insert may be stale; then some event has it (by `Numbered`) and the unique
constraint refuses the insert, so a commit always has the next one
(`CommitsTheNext`). For the streams: none is ahead of the counters (`Behind`), a
query that returns a tail ends at the newest number (`TailIsRead`), a page ends
at its highest number and skips nothing (`PageIsRead`), and a terminal status
that was read has its event in the ledger (`Outcomes`). Results: `LedgerTypes`,
`LedgerNumbers`, `LedgerStreams`, for any tasks, Conversations and page size.

**Harness** (`AgentHarnessProofs`). The invariant `RunInv` consists of bounds,
of the order in which agents come into being (the Executor only after all
investigators ended, reviewers only after the Executor completed, `RowOrder`), and of the agreement
of the control state with the rows (`PhaseRows`). `HarnessWriterAlone` and
`HarnessCompleted` follow: behind a completed task no agent is at work, though the row of
one that raised outside its `try` may say so. `HarnessAccepted` needs that resolutions in progress
are of pending requests, which is inductive only with one operator at a time; the
theorem assumes `OneOperator`; with two operators `ResolutionIsFinal` fails (section 3).

**Intake** (`RequestIntakeProofs`). Committed rows and uncommitted inserts of one key
are at most one together, rows shown are committed and have the body of the request.
`IntakeOneRow`, `IntakeOwnRow` and `IntakeTypeOK` (with `CreatedRowsStay`) follow for
every set of requests.

**Issues** (`OperationalIssueProofs`). Nobody locks the issue, so the invariant says
what a writer may have loaded. A loop at work holds the lease of its item alone
(`WorkersHoldItems`). An issue in triage has an item that is not about to be closed
without a word, or a loop that is about to report its failure (`TriageGoesOn`, which
is stronger than `TriageHasItem`: an item whose execution has returned no longer
counts). An issue that is closed against its newest evaluation has an open item whose loop,
if one works on it, will take the issue out of `closed` (`VerdictGoesOn`): that is what
remains of "closed means passed" once the load of the row and the select of the revision
are apart. When the columns an approval looks at admit one, they are those of the newest
plan (`PlanClears`), and a reopening writes its status whatever it has loaded
(`ReopeningsWrite`). `IInv` is the conjunction of these and
the types. Results: `IssueTypeOK`, `IssueClosedPassed`, `IssueApprovableIsReviewed`
(with its premise `~plan.stale`), `IssueTriageHasItem`, for any loops, requests and items.

**Ingestion** (`SourceIngestionProofs`). Without any premise: only created
ingestions have items and executions (`Begun`), and one of a kind is active. As long as no
relocation and commit have crossed: what a commit is about to insert has its entry, and a
relocation has loaded every document (`Indexed`). As long as nothing was stolen: an ingestion and
its item agree (`Agree`), an execution that has not returned is the only one of a running
ingestion (`Executing`), and who is inside the source works under a lease that has not run
out, its own or, for a scope repair, that of the extraction (`Holding`). Alone in the
source, what an execution has looked at stays true until it commits (`Looking`, one
clause for each stage), so that the documents of its paths are afterwards those it has
seen (`IngestionCommitShowsCollection`, an action property). Results besides:
`IngestionTypeOK`, `IngestionOneOfAKind`, `IngestionExclusive`,
`IngestionIndexedIsObserved`. The premises `~stolen`, `~crossed` and the unchanged location
are those of the properties: a lease that lapses under a live execution, or
`ingestion_stolen_source`, makes the first necessary, an overlapping relocation the second.

**Services** (`ServicesProofs`, `AgentServicesProofs`). A step of `MCServices` is a step of
one service or changes nothing of it (`ScopeSteps`, `ProvenanceSteps`, ...), so each service
has an invariant of its own, and the theorems are about `ServicesSpec`.

* *Scopes.* The newest version of a scope is the open one because a commit that lost the
  race is refused by the unique revision; a key is in `requested` once, with a repair of
  that scope, and an answer names it. `ScopeLatestIsActive`, `ScopeSameKeySameRepair`.
* *Backfill.* A hash that was taken after its size and time is either of that version or
  of a later file (`Fresh`): when size and time still are those of the file, so is the hash.
  This holds of the entry, of the row an ingestion has loaded and of what it has seen
  (`WalkOK`). A backfill moreover compares size and time after its reading, so its hash is
  of the selected version (`JobOK`). A commit of either that nobody raced keeps `Fresh`.
  `ProvenanceHash`.
* *Notifier.* A worker sleeps only after it looked with the event clear; whoever clears
  the event looks afterwards. `NotifierWakeUps`.
* *Artifacts.* Before the first fault a known artifact is good in both stores, because its
  putter verified both (`NothingToRepair`). A scan writes rows of artifacts that were
  known when it began (`ScanIsOfKnown`); while nobody else writes, its rows are the
  stored ones, what it has passed is checked, and it knows what is readable of the
  artifact it is at (`ScanKnowsObjects`). `ArtifactObjectsKept`.
* *Ledger.* `ShownIsBest` relates the grouping of `_aggregate` (the rank of a group, the
  best groups, the winner) to what a reader expects of one value; it rests on the least
  element of a set of naturals (`LeastIsLeast`) and on a highest confidence. For the
  order, `AggregatedOfASet` shows that the result is a function of the set of rows,
  although the winner is found by position, apart from the winner's own columns
  (`Settled`); exchanging two rows keeps that set. `LedgerRight`, `LedgerOrder`: for any
  documents, directories, rules, fields, values and confidences.
* *Capabilities.* Sessions write back columns they loaded, so that what a row claims is on
  record (`Backed`) is stated for the asset and for what every open request has loaded
  (`RequestsAreBacked`), and what a request changes of it column by column (`OneStage`). A
  request that puts the asset back is alone with it (`RestartsAreAlone`); one that
  overlaps another ends this (`crossed`), which `RollBackClears` shows to be necessary.
  While enough signals are recorded and nothing is proposed, a capture is on its way that
  will count them or has (`SomebodyProposes`). `CapabilityActivation`,
  `CapabilityPattern`.
* *Codex.* What the pipe may still hold at each step of the client, and in which order
  (`LinesInOrder`, `ItemsAscend`); the items not yet collected are exactly those in the
  pipe (`RestIsInPipe`); an unanswered request of the server is in the pipe or in the
  client's hands, once (`QuestionsAreTracked`). `CodexTurnShared`.
* *Extraction.* Item, Task, record and manifest come into being in this order
  (`CreatedInOrder`), a manifest is frozen as a whole (`ManifestIsWhole`), and one loop
  has the attempt (`OneLoopAtATime`); what two loops at once may do is outside the
  property too (`overlapped`). `ExtractionOneResult`.

`ServicesTypes` joins the types of all eight.

The proofs use the assumptions named in the modules (finite sets of tasks, loops and
items, distinct null values, bounds that are natural numbers, a set of confidences with
a highest one, thresholds and numbers of runs that are at least one, disjoint sets of
items for the notifier) and the library facts on cardinality, sequences and well-founded
relations. TLC evaluates each assumption in a passing run. The type invariants of the
queue, the harness and the intake are theorems and no longer part of a run.

**Only model-checked:** the liveness properties (`queue_liveness`, `eventlog`, `harness`,
`intake`), since fairness and `ENABLED` are out of the prover's reach, and the
violations of section 3. The queue theorems hold for `Punctual` instances and
`HarnessAccepted` for `OneOperator`, as said above; the runs with every fault switched
on check what remains true without these premises. No model computes by recursion over
its data, so no fact is left open for want of induction.

## 6. Where to go on

1. Theorems about properties that have no run: that an extraction cancelled by its Task
   stays cancelled, that audit pages show a writer's events in its order; a refinement of
   `SourceIngestion` to a lock that one execution holds at a time.
2. `SourceIngestion` with the connector's thread that outlives a cancelled
   execution, and a document's history.
3. A module of `workspaces/manager.py` (clones, branches and their repetition).

## 7. Not modelled

Connectors, text extraction, OCR, embedding, search ranking, code intelligence,
cryptography, the frontend and the PowerShell scripts are input, output or pure
conversion without shared state. Read-only endpoints keep none. Configuration and
project files are read once. Workspaces are directories that one subprocess call at a
time changes; their failures are the raising executions of `DurableQueue`. Of the
modelled components, what is left out is named in the notes of `PROJECT.json`: among
others priorities and display rows of the queue, artifacts and scores of a harness,
gardeners and standard controls of capabilities, reading and re-keying of artifacts,
and the rules by which a scope's roots are scored. The migration from SQLite is not
modelled because at this commit no cutover gets past its preflight (section 3): a model
would have no step beyond the refusal.
