------------------------- MODULE CustomerExtraction -------------------------
(***************************************************************************)
(* One customer extraction: the request that creates its Task and its       *)
(* record, the queue item, the loops of the "extraction" queue that freeze  *)
(* the manifest, analyse document after document and aggregate, and what    *)
(* cancellations, lost leases, shutdowns and crashes leave for the next     *)
(* attempt.  The lease of the source is in SourceIngestion.                 *)
(***************************************************************************)
EXTENDS Naturals, FiniteSets

CONSTANTS
  Workers,      \* loops of the extraction queue
  Docs,         \* entries of the scope
  MaxAttempts,  \* max_attempts of the item
  None

VARIABLES
  item,       \* the queue item
  task,       \* status of the generic Task
  ext,        \* status of the extraction record
  manifest,   \* the documents of the manifest that are ready
  rows,       \* extraction_status of the rows of the manifest
  found,      \* for each document, how often its candidates were stored
  report,     \* the documents the aggregated result counts as analysed
  exec,       \* what each loop executes
  request,    \* the POST that creates the extraction
  canceller,  \* the POST that cancels it
  overlapped  \* two loops have executed the item at once

vars == <<item, task, ext, manifest, rows, found, report, exec, request,
          canceller, overlapped>>
results == <<manifest, rows, found, report>>
endpoints == <<request, canceller>>

-----------------------------------------------------------------------------
TerminalItem == {"completed", "failed", "cancelled"}
Terminal == {"completed", "failed", "cancelled"}
TerminalRow == {"analyzed", "failed", "excluded"}

Idle == [stage |-> "idle", doc |-> None, todo |-> {}]
Executing == {w \in Workers : exec[w].stage # "idle"}

Init ==
  /\ item = [status |-> "none", owner |-> None, cancel |-> "no", attempts |-> 0]
  /\ task = "absent" /\ ext = "absent"
  /\ manifest = {}
  /\ rows = [d \in Docs |-> "absent"]
  /\ found = [d \in Docs |-> 0]
  /\ report = {}
  /\ exec = [w \in Workers |-> Idle]
  /\ request = "none" /\ canceller = "none"
  /\ overlapped = FALSE

-----------------------------------------------------------------------------
(* The endpoints.                                                          *)

\* create_task commits the Task with its queue item.
CreateTask ==
  /\ request = "none" /\ request' = "task"
  /\ task' = "queued" /\ item' = [item EXCEPT !.status = "queued"]
  /\ UNCHANGED <<ext, results, exec, canceller, overlapped>>

CreateRecord ==
  /\ request = "task" /\ request' = "done"
  /\ ext' = "queued"
  /\ UNCHANGED <<item, task, results, exec, canceller, overlapped>>

\* _cancel_locked.  A Task that ended after the cancellation was requested is
\* cancelled as well; the record of the extraction is not looked at.
CancelLocked ==
  /\ item' = [item EXCEPT !.status = "cancelled", !.owner = None]
  /\ task' = IF task \notin Terminal \/ item.cancel = "early" THEN "cancelled" ELSE task

RequestCancel ==
  /\ request = "done" /\ item.status \notin TerminalItem /\ item.cancel = "no"
  /\ IF item.status = "queued"
     THEN CancelLocked /\ canceller' = "cancelled"
     ELSE /\ item' = [item EXCEPT !.cancel = IF task \in Terminal THEN "late" ELSE "early"]
          /\ UNCHANGED <<task, canceller>>
  /\ UNCHANGED <<ext, results, exec, request, overlapped>>

\* cancel: records that have ended stay.
CancelRecord ==
  /\ ext' = IF ext \in Terminal \union {"absent"} THEN ext ELSE "cancelled"
  /\ task' = IF task \in Terminal THEN task ELSE "cancelled"

\* A cancellation of a queued item cancels the record after it.
EndpointCancelsRecord ==
  /\ canceller = "cancelled" /\ canceller' = "none"
  /\ CancelRecord
  /\ UNCHANGED <<item, results, exec, request, overlapped>>

-----------------------------------------------------------------------------
(* The queue.                                                              *)

ClaimItem(w) ==
  /\ exec[w].stage = "idle" /\ item.status = "queued"
  /\ item' = [item EXCEPT !.status = "leased", !.owner = w,
                          !.attempts = IF @ < MaxAttempts THEN @ + 1 ELSE @]
  /\ exec' = [exec EXCEPT ![w].stage = "claimed"]
  /\ overlapped' = (overlapped \/ Executing # {})
  /\ UNCHANGED <<task, ext, results, endpoints>>


Requeue ==
  IF item.cancel # "no" THEN CancelLocked
  ELSE /\ item' = [item EXCEPT !.status = "queued", !.owner = None]
       /\ task' = IF task \in Terminal THEN task ELSE "queued"

\* The lease of a loop that is gone, or too slow to renew it, runs out.
ExpireLease ==
  /\ item.status = "leased"
  /\ Requeue
  /\ UNCHANGED <<ext, results, exec, endpoints, overlapped>>

\* abandon, when the execution was cancelled or raised.
Abandon(w) ==
  IF item.owner # w THEN UNCHANGED <<item, task>>
  ELSE IF item.cancel # "no" \/ item.attempts < MaxAttempts THEN Requeue
  ELSE /\ item' = [item EXCEPT !.status = "failed", !.owner = None]
       /\ task' = IF task \in Terminal THEN task ELSE "failed"

\* finish does not ask who holds the item.
Finish(w) ==
  /\ exec[w].stage = "returned"
  /\ IF item.cancel = "early" THEN CancelLocked
     ELSE /\ item' = [item EXCEPT !.owner = None,
                        !.status = IF task \in {"completed", "cancelled"} THEN task ELSE "failed"]
          /\ UNCHANGED task
  /\ exec' = [exec EXCEPT ![w] = Idle]
  /\ UNCHANGED <<ext, results, endpoints, overlapped>>

AbandonItem(w) ==
  /\ exec[w].stage \in {"raised", "cancelled"}
  /\ Abandon(w)
  /\ exec' = [exec EXCEPT ![w] = Idle]
  /\ UNCHANGED <<ext, results, endpoints, overlapped>>

-----------------------------------------------------------------------------
(* execute.                                                                *)

Go(w, stage) == exec' = [exec EXCEPT ![w].stage = stage]


HasEnded == ext \in Terminal

Start(w) ==
  /\ exec[w].stage = "claimed"
  /\ IF ext = "absent" \/ HasEnded THEN Go(w, "returned") /\ UNCHANGED <<task, ext>>
     ELSE Go(w, "started") /\ task' = "running" /\ ext' = "running"
  /\ UNCHANGED <<item, results, endpoints, overlapped>>

\* _fail, without looking at what the record says by now.
Fail(w, stage) ==
  /\ exec' = [exec EXCEPT ![w] = [Idle EXCEPT !.stage = stage]]
  /\ ext' = "failed" /\ task' = "failed"


\* _prepare_manifest: rows of an earlier attempt are taken as they are.
Frozen == \E d \in Docs : rows[d] # "absent"

PrepareManifest(w) ==
  /\ exec[w].stage = "started"
  /\ exec' = [exec EXCEPT ![w].stage = "next", ![w].todo = Docs]
  /\ IF Frozen THEN UNCHANGED <<manifest, rows>>
     ELSE \E ready \in SUBSET Docs : \E excluded \in SUBSET (Docs \ ready) :
            /\ manifest' = ready
            /\ rows' = [d \in Docs |-> IF d \in excluded THEN "excluded" ELSE "pending"]
  /\ ext' = "running"
  /\ UNCHANGED <<item, task, found, report, endpoints, overlapped>>

\* A mutant: a row an earlier attempt has begun is not begun again.
BegunIsDone(d) == rows[d] \in {"analyzed", "extracting"}


Done(d) == rows[d] = "analyzed"

\* _extract_document up to the call of the model.
BeginDocument(w) ==
  /\ exec[w].stage = "next"
  /\ \E d \in exec[w].todo :
       IF Done(d) \/ rows[d] = "excluded"
       THEN exec' = [exec EXCEPT ![w].todo = @ \ {d}] /\ UNCHANGED rows
       ELSE IF d \notin manifest
       THEN /\ exec' = [exec EXCEPT ![w].todo = @ \ {d}]
            /\ rows' = [rows EXCEPT ![d] = "failed"]
       ELSE /\ exec' = [exec EXCEPT ![w].stage = "asking", ![w].doc = d, ![w].todo = @ \ {d}]
            /\ rows' = [rows EXCEPT ![d] = "extracting"]
  /\ UNCHANGED <<item, task, ext, manifest, found, report, endpoints, overlapped>>

\* The candidates and the end of the row are one transaction.
DocumentAnalysed(w) ==
  LET d == exec[w].doc
  IN /\ exec[w].stage = "asking"
     /\ exec' = [exec EXCEPT ![w].stage = "next", ![w].doc = None]
     /\ rows' = [rows EXCEPT ![d] = "analyzed"]
     /\ found' = [found EXCEPT ![d] = IF @ < 2 THEN @ + 1 ELSE @]
     /\ UNCHANGED <<item, task, ext, manifest, report, endpoints, overlapped>>

\* Without text, or the model failed.
DocumentFailed(w) ==
  /\ exec[w].stage = "asking"
  /\ exec' = [exec EXCEPT ![w].stage = "next", ![w].doc = None]
  /\ rows' = [rows EXCEPT ![exec[w].doc] = "failed"]
  /\ UNCHANGED <<item, task, ext, manifest, found, report, endpoints, overlapped>>

Aggregate(w) ==
  /\ exec[w].stage = "next" /\ exec[w].todo = {}
  /\ exec' = [exec EXCEPT ![w] = [Idle EXCEPT !.stage = "returned"]]
  /\ ext' = "completed" /\ task' = "completed"
  /\ report' = {d \in Docs : rows[d] = "analyzed"}
  /\ UNCHANGED <<item, manifest, rows, found, endpoints, overlapped>>

\* A step that raises: a known error ends the extraction, another one is
\* raised again.
Raise(w) ==
  /\ exec[w].stage \in {"started", "next", "asking"}
  /\ \E stage \in {"returned", "raised"} : Fail(w, stage)
  /\ UNCHANGED <<item, results, endpoints, overlapped>>

Interrupted(w) ==
  /\ exec' = [exec EXCEPT ![w] = [Idle EXCEPT !.stage = "cancelled"]]
  /\ CancelRecord

\* The heartbeat cancels the execution at its next wait when a cancellation
\* was requested or the lease is lost.
Interrupt(w) ==
  /\ exec[w].stage \in {"started", "asking"}
  /\ item.status # "leased" \/ item.owner # w \/ item.cancel # "no"
  /\ Interrupted(w)
  /\ UNCHANGED <<item, results, endpoints, overlapped>>

\* The coordinator stops and cancels what outlasts its patience.
Shutdown(w) ==
  /\ exec[w].stage \in {"started", "asking"}
  /\ Interrupted(w)
  /\ UNCHANGED <<item, results, endpoints, overlapped>>

\* The process ends and is started again, with bootstrap.
Restart ==
  /\ exec' = [w \in Workers |-> Idle]
  /\ canceller' = "none"
  /\ request' = IF request = "task" THEN "lost" ELSE request
  /\ IF item.status \in TerminalItem /\ task \notin Terminal
     THEN /\ item' = [item EXCEPT !.status = "queued", !.owner = None, !.cancel = "no"]
          /\ task' = "queued"
     ELSE UNCHANGED <<item, task>>
  /\ UNCHANGED <<ext, results, overlapped>>

-----------------------------------------------------------------------------
Execute(w) ==
  \/ Start(w) \/ PrepareManifest(w) \/ BeginDocument(w) \/ DocumentAnalysed(w)
  \/ DocumentFailed(w) \/ Aggregate(w) \/ Raise(w)

Next ==
  \/ CreateTask \/ CreateRecord \/ RequestCancel \/ EndpointCancelsRecord
  \/ \E w \in Workers : ClaimItem(w) \/ Execute(w) \/ Interrupt(w) \/ Shutdown(w)
                        \/ AbandonItem(w) \/ Finish(w)
  \/ ExpireLease \/ Restart

Spec == Init /\ [][Next]_vars

-----------------------------------------------------------------------------
\* The values of the variables; a held item has an owner, a manifest is frozen
\* as a whole, and what has candidates was ready.
TypeOK ==
  /\ item.status \in TerminalItem \union {"none", "queued", "leased"}
  /\ (item.owner # None) = (item.status = "leased")
  /\ task \in Terminal \union {"absent", "queued", "running"}
  /\ ext \in Terminal \union {"absent", "queued", "running"}
  /\ rows \in [Docs -> TerminalRow \union {"absent", "pending", "extracting"}]
  /\ Frozen => \A d \in Docs : rows[d] # "absent"
  /\ \A d \in Docs : found[d] > 0 => d \in manifest

\* However often it was attempted, a completed extraction reports on every
\* document of its manifest (_aggregate).
ReportCoversManifest ==
  ext = "completed" /\ ~overlapped =>
    /\ \A d \in Docs : rows[d] \in TerminalRow
    /\ report = {d \in Docs : found[d] > 0}

\* No document has its candidates twice.
AnalysedOnce == ~overlapped => \A d \in Docs : found[d] <= 1

\* The Task shows how its extraction ended, unless it was cancelled late.
TaskShowsExtraction ==
  ~overlapped =>
    /\ ext \in {"completed", "failed"} => task \in {ext, "cancelled"}
    /\ task = "completed" => ext = "completed"

\* Attempts that were interrupted, repeated or cancelled leave one result, and
\* the Task shows it.
AttemptsLeaveOneResult == ReportCoversManifest /\ AnalysedOnce /\ TaskShowsExtraction

\* docs/api.md:176: a cancelled item, Task and record go together.
CancellationReachesRecord ==
  item.status = "cancelled" /\ canceller = "none" /\ Executing = {} =>
    task = "cancelled" /\ ext = "cancelled"

=============================================================================
