-------------------------- MODULE SourceIngestion --------------------------
(***************************************************************************)
(* One knowledge source: the scheduler, the endpoints and customer          *)
(* extractions create its ingestions, the loops of the "knowledge" queue    *)
(* run them under the lease of the source, administrators edit it.          *)
(* An ingestion collects the files of the source, keeps an inventory entry  *)
(* for every path it observes, compares what it collected with the current  *)
(* documents and replaces those that differ.                                *)
(***************************************************************************)
EXTENDS Naturals, FiniteSets

CONSTANTS
  Workers,     \* places for the executions of the loops of the knowledge queue
  Extractor,   \* the extraction whose scope repair runs inline
  Ingestions,  \* bound on the ingestions of the source
  Paths,
  Part,        \* the paths of a scope repair
  Schedules,   \* whether the source has a schedule
  Edits,       \* what administrators change
  Faults,      \* which of "lapse", "loss", "cancel", "restart" may happen
  MaxFaults,   \* bound on faults and edits
  None

ASSUME SourceAssumption ==
  /\ Part \subseteq Paths
  /\ Edits \subseteq {"rename", "relocate", "disable", "enable"}
  /\ Schedules \subseteq BOOLEAN /\ MaxFaults \in Nat
  /\ None \notin Ingestions /\ Extractor \notin Workers
  /\ \A i \in Ingestions : i \notin {"none", "scheduler", "extraction"}

VARIABLES
  source,      \* the row of the source
  archived,    \* documents were moved into history
  docs,        \* for each path its current document: "none", or found at
               \* the "present" or a "former" location of the source
  entries,     \* the inventory of the source
  ing,         \* the ingestions, with their queue items
  exec,        \* what each loop, and the extraction, executes
  scheduler,   \* the loop of the scheduler
  extraction,  \* the extraction and the ingestion it waits for
  editing,     \* an edit that has read the source and is not committed
  stolen,      \* a lease ran out, or was taken away, under an execution
  crossed,     \* a relocation and a commit overlapped
  faults       \* counts the faults and the edits

vars == <<source, archived, docs, entries, ing, exec, scheduler,
          extraction, editing, stolen, crossed, faults>>
index == <<docs, entries, archived>>

-----------------------------------------------------------------------------
Executors == Workers \union {Extractor}
Active(i) == ing[i].status \in {"queued", "running"}
Ended(i) == ing[i].status \in {"completed", "failed", "cancelled"}
PathsOf(i) == IF ing[i].trigger = "scope_repair" THEN Part ELSE Paths

Unused == [status |-> "absent", trigger |-> "manual", item |-> "none", cancel |-> "no"]
NoEntry == [known |-> FALSE, present |-> FALSE, rejected |-> FALSE, by |-> None]
NoEdit == [edit |-> "none", writes |-> {}, docs |-> {}, entries |-> {}]

\* held: its loop holds the item, has "lost" it, or has "left" the execution.
\* reusable, refused: what needs no new reading, with and without a document.
\* rows, writes: the documents and the columns of the source that the commit
\* replaces, as it has loaded them.
Idle == [ing |-> None, stage |-> "idle", held |-> "own", location |-> "none",
         reusable |-> {}, refused |-> {}, seen |-> {}, newer |-> {},
         changed |-> {}, removed |-> {}, rows |-> {}, writes |-> {}]

Counted == faults < MaxFaults /\ faults' = faults + 1
Strikes(fault) == fault \in Faults /\ Counted

\* The stages in which an execution works on the source.
Inside == {"collecting", "collected", "compared", "checked"}
ExecutedBy(i) == {e \in Executors : exec[e].ing = i}

Init ==
  /\ source \in [enabled : {TRUE}, scheduled : Schedules, status : {"draft"},
                 owner : {"none"}, lapsed : {FALSE}]
  /\ archived = FALSE
  /\ docs = [p \in Paths |-> "none"]
  /\ entries = [p \in Paths |-> NoEntry]
  /\ ing = [i \in Ingestions |-> Unused]
  /\ exec = [e \in Executors |-> Idle]
  /\ scheduler = "idle"
  /\ extraction = [stage |-> "idle", awaited |-> None]
  /\ editing = NoEdit
  /\ stolen = FALSE /\ crossed = FALSE /\ faults = 0

-----------------------------------------------------------------------------
(* Leases.  Only the events of an ingestion, or the extraction between two    *)
(* documents, renew one: it may run out while its owner goes on.            *)

\* The executions that work under the lease of the source.
Holders == {e \in Executors :
  /\ exec[e].stage \in Inside
  /\ \/ source.owner = exec[e].ing
     \/ source.owner = "extraction" /\ ing[exec[e].ing].trigger = "scope_repair"}

Available(owner) == source.owner \in {"none", owner} \/ source.lapsed

\* The owner of the lease is still there.
Attended ==
  CASE source.owner = "scheduler" -> scheduler # "idle"
    [] source.owner = "extraction" -> extraction.stage # "idle"
    [] OTHER -> ExecutedBy(source.owner) # {}

LeaseLapses ==
  /\ IF Attended THEN Strikes("lapse") ELSE UNCHANGED faults
  /\ source.owner # "none" /\ ~source.lapsed
  /\ source' = [source EXCEPT !.lapsed = TRUE]
  /\ stolen' = (stolen \/ Holders # {})
  /\ UNCHANGED <<index, ing, exec, scheduler, extraction, editing, crossed>>

\* An event of an ingestion renews the lease it works under.
Renewed(e) == IF e \in Holders THEN [source EXCEPT !.lapsed = FALSE] ELSE source

Taken(src, owner) == [src EXCEPT !.owner = owner, !.lapsed = FALSE]
Cleared(src) == [src EXCEPT !.owner = "none", !.lapsed = FALSE]

\* The end of an ingestion clears its own lease only.
Released(src, owner) == IF src.owner \in {"none", owner} THEN Cleared(src) ELSE src

-----------------------------------------------------------------------------
(* create_ingestion, under the lock of the source row.                      *)

HasGeneration == archived \/ \E p \in Paths : docs[p] # "none"

\* A mutant: an active ingestion of another trigger is not looked for.
SameTrigger(trigger) == {i \in Ingestions : Active(i) /\ ing[i].trigger = trigger}

\* The ingestions create_ingestion answers with instead of a new one.
Reused(trigger) ==
  {i \in Ingestions : Active(i) /\
     (trigger = "scheduled" \/ (trigger = "scope_repair") = (ing[i].trigger = "scope_repair"))}

Created(i, trigger, item, status) ==
  /\ ing[i].status = "absent"
  /\ ing' = [ing EXCEPT ![i] = [Unused EXCEPT !.status = status, !.trigger = trigger,
                                              !.item = item]]
  /\ source' = [source EXCEPT !.status = IF HasGeneration THEN @ ELSE "indexing"]

\* POST of an ingestion, or of a scope ingestion.
CreateIngestion(i) ==
  /\ source.enabled
  /\ \E trigger \in {"manual", "scope_repair"} :
       Reused(trigger) = {} /\ Created(i, trigger, "queued", "queued")
  /\ UNCHANGED <<index, exec, scheduler, extraction, editing, stolen, crossed, faults>>

-----------------------------------------------------------------------------
(* The scheduler: claim_due_source, create_ingestion, release_sync_lease.   *)

ClaimDueSource ==
  /\ scheduler = "idle"
  /\ source.enabled /\ source.scheduled
  /\ source.status # "indexing" /\ \A i \in Ingestions : ~Active(i)
  /\ source.owner = "none" \/ source.lapsed
  /\ source' = Taken(source, "scheduler")
  /\ scheduler' = "claimed"
  /\ UNCHANGED <<index, ing, exec, extraction, editing, stolen, crossed, faults>>

CreateScheduled ==
  /\ scheduler = "claimed"
  /\ scheduler' = "created"
  /\ IF source.enabled /\ Reused("scheduled") = {} /\ \E i \in Ingestions : ing[i].status = "absent"
     THEN \E i \in Ingestions : Created(i, "scheduled", "queued", "queued")
     ELSE UNCHANGED <<ing, source>>
  /\ UNCHANGED <<index, exec, extraction, editing, stolen, crossed, faults>>

ReleaseSyncLease ==
  /\ scheduler = "created"
  /\ scheduler' = "idle"
  /\ source' = Released(source, "scheduler")
  /\ UNCHANGED <<index, ing, exec, extraction, editing, stolen, crossed, faults>>

-----------------------------------------------------------------------------
(* Queue items of ingestions.                                              *)

\* _cancel_locked; a scheduled ingestion also gives the lease of its source
\* back, whoever holds it.
Late(i) == Ended(i) /\ ing[i].cancel # "early"
ClearsLease(i) == ing[i].trigger = "scheduled" /\ ~Late(i)
Robs(i) == ClearsLease(i) /\ \E e \in Holders : exec[e].ing # i

CancelIngestion(i) ==
  /\ ing' = [ing EXCEPT ![i].item = "closed", ![i].status = IF Late(i) THEN @ ELSE "cancelled"]
  /\ source' = IF ClearsLease(i) THEN Cleared(source) ELSE source

\* claim_next, and ingest's own claim of the ingestion.
ClaimItem(w, i) ==
  /\ exec[w].stage = "idle" /\ ing[i].item = "queued"
  /\ ing' = [ing EXCEPT ![i].item = "leased",
                       ![i].status = IF @ = "queued" THEN "running" ELSE @]
  /\ exec' = [exec EXCEPT ![w] = [Idle EXCEPT !.ing = i, !.stage =
                IF ing[i].status = "queued" THEN "waiting" ELSE "executed"]]
  /\ UNCHANGED <<source, index, scheduler, extraction, editing, stolen, crossed, faults>>

\* A mutant: the ingestion of a recovered item is left running.
StaysRunning(i) == ing' = [ing EXCEPT ![i].item = "queued"]

Requeued(i) ==
  ing' = [ing EXCEPT ![i].item = "queued", ![i].status = IF Ended(i) THEN @ ELSE "queued"]

Disowned(i) ==
  [e \in Executors |-> IF exec[e].ing = i /\ exec[e].held = "own"
                       THEN [exec[e] EXCEPT !.held = "lost"] ELSE exec[e]]

\* The lease of an item runs out: its process is gone, or its heartbeats are
\* late, and then its execution goes on.
RecoverItem(i) ==
  /\ IF ExecutedBy(i) # {} THEN Strikes("loss") ELSE UNCHANGED faults
  /\ ing[i].item = "leased"
  /\ exec' = Disowned(i)
  /\ IF ing[i].cancel # "no" THEN CancelIngestion(i) ELSE Requeued(i) /\ UNCHANGED source
  /\ stolen' = (stolen \/ ExecutedBy(i) # {} \/ (ing[i].cancel # "no" /\ Robs(i)))
  /\ UNCHANGED <<index, scheduler, extraction, editing, crossed>>

\* A heartbeat raises: the loop gives its item back, or fails it after the
\* last attempt, and leaves the execution running.
HeartbeatRaises(w) ==
  LET i == exec[w].ing
  IN /\ Strikes("loss")
     /\ exec[w].stage # "idle" /\ exec[w].held # "left"
     /\ exec' = [exec EXCEPT ![w] = IF exec[w].stage = "executed" THEN Idle
                                    ELSE [exec[w] EXCEPT !.held = "left"]]
     /\ \/ exec[w].held = "lost" /\ UNCHANGED <<ing, source>>
        \/ exec[w].held = "own" /\ ing[i].cancel # "no" /\ CancelIngestion(i)
        \/ /\ exec[w].held = "own" /\ ing[i].cancel = "no" /\ UNCHANGED source
           /\ \/ Requeued(i)
              \/ ing' = [ing EXCEPT ![i].item = "closed",
                                    ![i].status = IF Ended(i) THEN @ ELSE "failed"]
     /\ stolen' = (stolen \/ exec[w].stage # "executed" \/ (ing[i].cancel # "no" /\ Robs(i)))
     /\ UNCHANGED <<index, scheduler, extraction, editing, crossed>>

RequestCancel(i) ==
  /\ Strikes("cancel")
  /\ ing[i].cancel = "no"
  /\ \/ ing[i].item = "queued" /\ CancelIngestion(i) /\ stolen' = (stolen \/ Robs(i))
     \/ /\ ing[i].item = "leased"
        /\ ing' = [ing EXCEPT ![i].cancel = IF Ended(i) THEN "late" ELSE "early"]
        /\ UNCHANGED <<source, stolen>>
  /\ UNCHANGED <<index, exec, scheduler, extraction, editing, crossed>>

\* The heartbeat finds a cancellation, or the item lost, and the loop cancels
\* the execution at one of its awaits.
Interrupt(w) ==
  LET i == exec[w].ing
  IN /\ exec[w].stage \in {"waiting", "collecting", "compared"}
     /\ \/ /\ exec[w].held = "own" /\ ing[i].cancel # "no"
           /\ CancelIngestion(i) /\ stolen' = (stolen \/ Robs(i))
        \/ exec[w].held = "lost" /\ UNCHANGED <<ing, source, stolen>>
     /\ exec' = [exec EXCEPT ![w] = Idle]
     /\ UNCHANGED <<index, scheduler, extraction, editing, crossed, faults>>

\* finish looks neither at the owner nor at the status of the item.
Finish(w) ==
  LET i == exec[w].ing
  IN /\ exec[w].stage = "executed"
     /\ IF exec[w].held = "left"
        THEN exec' = [exec EXCEPT ![w] = Idle] /\ UNCHANGED <<ing, source, stolen>>
        ELSE /\ exec' = [Disowned(i) EXCEPT ![w] = Idle]
             /\ IF ing[i].cancel # "no" /\ ~Late(i)
                THEN CancelIngestion(i) /\ stolen' = (stolen \/ Robs(i))
                ELSE ing' = [ing EXCEPT ![i].item = "closed"] /\ UNCHANGED <<source, stolen>>
     /\ UNCHANGED <<index, scheduler, extraction, editing, crossed, faults>>

-----------------------------------------------------------------------------
(* ingest, by a loop or inline by an extraction.                            *)

Return(e) == exec' = [exec EXCEPT ![e] = [Idle EXCEPT
                !.ing = exec[e].ing, !.stage = "executed", !.held = exec[e].held]]

\* A mutant: a scheduled ingestion takes the source from anybody.
HandOffAlways(i) == ing[i].trigger = "scheduled"

HandOff(i) == ing[i].trigger = "scheduled" /\ source.owner = "scheduler"

\* The turn of _wait_for_ingestion_source_access that returns.  Afterwards the
\* location and the files that need no new reading are loaded, unless the
\* ingestion was queued anew.
ObtainSource(e) ==
  LET i == exec[e].ing
      listed == {p \in PathsOf(i) : entries[p].present}
  IN /\ exec[e].stage = "waiting" /\ Active(i)
     /\ \/ /\ ing[i].trigger = "scope_repair" /\ source.owner = "extraction"
           /\ source' = [source EXCEPT !.lapsed = FALSE]
        \/ /\ HandOff(i) \/ Available(i)
           /\ source' = Taken(source, i)
     /\ IF ing[i].status = "running"
        THEN exec' = [exec EXCEPT ![e].stage = "collecting", ![e].location = "present",
               ![e].reusable = {p \in listed : docs[p] # "none"},
               ![e].refused = {p \in listed : docs[p] = "none" /\ entries[p].rejected}]
        ELSE Return(e)
     /\ UNCHANGED <<index, ing, scheduler, extraction, editing, stolen, crossed, faults>>

\* The ingestion has ended without this execution.
GiveUp(e) ==
  /\ exec[e].stage = "waiting" /\ ~Active(exec[e].ing)
  /\ Return(e)
  /\ UNCHANGED <<source, index, ing, scheduler, extraction, editing, stolen, crossed, faults>>

\* The connector lists the files.  It keeps what is reusable and has the same
\* size and time, reads the rest, and may fail to make a document of it; what
\* it observes is written to the inventory.  newer has what others observe.
Collect(e) ==
  LET i == exec[e].ing
  IN /\ exec[e].stage = "collecting"
     /\ source' = Renewed(e)
     /\ \E observed \in SUBSET PathsOf(i) :
          \E kept \in SUBSET (observed \intersect (exec[e].reusable \union exec[e].refused)),
             read, rejected \in SUBSET observed :
            /\ kept \intersect (read \union rejected) = {}
            /\ exec' = [f \in Executors |->
                 IF f = e THEN [exec[e] EXCEPT !.stage = "collected",
                                  !.reusable = @ \intersect kept, !.refused = @ \intersect kept,
                                  !.seen = read \union (exec[e].reusable \intersect kept)]
                 ELSE IF exec[f].stage \in {"waiting", "collecting", "collected"}
                      THEN [exec[f] EXCEPT !.newer = @ \union (observed \intersect PathsOf(exec[f].ing))]
                      ELSE exec[f]]
            /\ entries' = [p \in Paths |-> IF p \notin observed THEN entries[p]
                 ELSE [known |-> TRUE, present |-> TRUE, by |-> i,
                       rejected |-> p \in rejected \/ (p \in kept /\ p \in exec[e].refused)]]
     /\ UNCHANGED <<archived, docs, ing, scheduler, extraction, editing, stolen, crossed, faults>>

\* A mutant: documents are removed by what the inventory said before.
RemovedBefore(i, hashed) == {p \in PathsOf(i) : docs[p] # "none" /\ ~entries[p].present}

Removed(i, hashed) == {p \in PathsOf(i) : docs[p] # "none"} \ hashed

\* Entries this ingestion has not seen, and nobody since it started, are gone.
\* A kept path keeps the hash of its document, if it has one.  What was read
\* before the collection is of no use afterwards.
Compare(e) ==
  LET i == exec[e].ing
      kept == exec[e].reusable \union exec[e].refused
      hashed == (exec[e].seen \ kept)
                  \union {p \in kept : docs[p] # "none" /\ entries[p].known}
  IN /\ exec[e].stage = "collected"
     /\ source' = Renewed(e)
     /\ entries' = [p \in Paths |->
          IF p \in PathsOf(i) \ exec[e].newer /\ entries[p].by # i
          THEN [entries[p] EXCEPT !.present = FALSE, !.rejected = FALSE] ELSE entries[p]]
     /\ \E edited \in SUBSET (hashed \ kept) :
          exec' = [exec EXCEPT ![e].stage = "compared", ![e].reusable = {}, ![e].refused = {},
            ![e].newer = {}, ![e].changed = {p \in hashed : docs[p] = "none"} \union edited,
            ![e].removed = Removed(i, hashed)]
     /\ UNCHANGED <<archived, docs, ing, scheduler, extraction, editing, stolen, crossed, faults>>

Fail(e) ==
  LET i == exec[e].ing
  IN /\ Return(e)
     /\ ing' = [ing EXCEPT ![i].status = "failed"]
     /\ source' = [Released(source, i) EXCEPT
                     !.status = IF HasGeneration THEN "ready" ELSE "failed"]
     /\ UNCHANGED <<index, scheduler, extraction, editing, stolen, crossed, faults>>

\* A mutant: the entries of changed documents are taken for granted.
NothingMissing(e) == FALSE

EntryMissing(e) == \E p \in exec[e].changed : ~entries[p].known

\* The transaction of the commit loads the source, the entries of the changed
\* documents and the documents it replaces.  It locks none of them.
LoadReplaced(e) ==
  LET i == exec[e].ing
  IN /\ exec[e].stage = "compared"
     /\ IF EntryMissing(e) THEN Fail(e)
        ELSE /\ exec' = [exec EXCEPT ![e].stage = "checked", ![e].removed = {},
                  ![e].rows = {p \in exec[e].changed \union exec[e].removed : docs[p] # "none"},
                  ![e].writes = {c \in {"lease", "status"} :
                     IF c = "lease" THEN source.owner = i ELSE source.status # "ready"}]
             /\ UNCHANGED <<source, index, ing, scheduler, extraction, editing, stolen, crossed, faults>>

\* The columns an open transaction has changed; the others stay as they are.
Written(src, writes, status) ==
  LET new == IF "lease" \in writes THEN Cleared(src) ELSE src
  IN IF "status" \in writes THEN [new EXCEPT !.status = status] ELSE new

\* It renames the documents it loaded and inserts those that changed.
Replace(e) ==
  LET i == exec[e].ing
  IN /\ docs' = [p \in Paths |-> IF p \in exec[e].changed THEN exec[e].location
                                 ELSE IF p \in exec[e].rows THEN "none" ELSE docs[p]]
     /\ archived' = (archived \/ exec[e].rows # {})
     /\ source' = Written(source, exec[e].writes, "ready")
     /\ stolen' = (stolen \/ ("lease" \in exec[e].writes /\ Holders \ {e} # {}))
     /\ ing' = [ing EXCEPT ![i].status = "completed"]
     /\ exec' = [f \in Executors |->
          IF f = e THEN [Idle EXCEPT !.ing = i, !.stage = "executed", !.held = exec[e].held]
          ELSE [exec[f] EXCEPT !.rows = @ \ exec[e].rows]]
     /\ editing' = [editing EXCEPT !.docs = @ \ exec[e].rows]
     /\ crossed' = (crossed \/ editing.edit = "relocate")
     /\ UNCHANGED <<entries, scheduler, extraction, faults>>

\* A path that got a document in the meantime refuses another one.
CommitIngestion(e) ==
  /\ exec[e].stage = "checked"
  /\ IF \E p \in exec[e].changed : docs[p] # "none" /\ p \notin exec[e].rows
     THEN Fail(e) ELSE Replace(e)

\* A connector, a conversion, the model server or the database fails.
Raise(e) == exec[e].stage \in Inside /\ Fail(e)

-----------------------------------------------------------------------------
(* A customer extraction: it acquires the source, repairs its scope inline, *)
(* works on what is then indexed and releases the source.                   *)

Go(stage) == extraction' = [extraction EXCEPT !.stage = stage]

AcquireSource ==
  /\ extraction.stage = "idle" /\ Available("extraction")
  /\ source' = Taken(source, "extraction") /\ Go("preparing")
  /\ UNCHANGED <<index, ing, exec, scheduler, editing, stolen, crossed, faults>>

\* _prepare_required_versions: the repair has no queue item.
PrepareVersions ==
  /\ extraction.stage = "preparing" /\ source.enabled
  /\ \/ /\ Reused("scope_repair") = {}
        /\ \E i \in Ingestions :
             /\ Created(i, "scope_repair", "none", "running")
             /\ extraction' = [stage |-> "repairing", awaited |-> i]
             /\ exec' = [exec EXCEPT ![Extractor] = [Idle EXCEPT !.ing = i, !.stage = "waiting"]]
     \/ /\ \E i \in Reused("scope_repair") : extraction' = [stage |-> "waiting", awaited |-> i]
        /\ UNCHANGED <<ing, source, exec>>
  /\ UNCHANGED <<index, scheduler, editing, stolen, crossed, faults>>

RepairReturns ==
  /\ extraction.stage = "repairing" /\ exec[Extractor].stage = "executed"
  /\ exec' = [exec EXCEPT ![Extractor] = Idle] /\ Go("waiting")
  /\ UNCHANGED <<source, index, ing, scheduler, editing, stolen, crossed, faults>>

ObserveRepair ==
  /\ extraction.stage = "waiting" /\ ing[extraction.awaited].status = "completed"
  /\ Go("analysing")
  /\ UNCHANGED <<source, index, ing, exec, scheduler, editing, stolen, crossed, faults>>

\* The analysis ends, the preparation fails, or the extraction is cancelled at
\* one of its waits.
ReleaseSource ==
  /\ \/ extraction.stage \in {"waiting", "analysing"}
     \/ extraction.stage = "preparing" /\ ~source.enabled
     \/ extraction.stage = "repairing"
        /\ exec[Extractor].stage \in {"waiting", "collecting", "compared"}
  /\ exec' = [exec EXCEPT ![Extractor] = Idle]
  /\ source' = Released(source, "extraction")
  /\ stolen' = (stolen \/ (source.owner = "extraction" /\ Holders \ {Extractor} # {}))
  /\ extraction' = [stage |-> "idle", awaited |-> None]
  /\ UNCHANGED <<index, ing, scheduler, editing, crossed, faults>>

-----------------------------------------------------------------------------
(* update_source; disabling also stands for delete_source.                 *)

Enabled(edit) == IF edit = "enable" THEN TRUE ELSE IF edit = "disable" THEN FALSE
                 ELSE source.enabled
StatusAfter(edit) ==
  CASE edit = "relocate" \/ (edit = "enable" /\ source.status = "disabled") -> "draft"
    [] edit = "disable" -> "disabled"
    [] OTHER -> source.status

\* An edit loads the source and, when it changes its location, reference,
\* subpath or scope, the documents and entries it will move into history.
\* A source without a schedule gives up its lease, whoever holds it.
ReadSource ==
  /\ Counted
  /\ editing = NoEdit
  /\ \E edit \in Edits :
       LET moves(S) == IF edit = "relocate" THEN S ELSE {}
           unscheduled == ~Enabled(edit) \/ ~source.scheduled
       IN editing' = [edit |-> edit,
            writes |-> {c \in {"lease", "status"} :
                          IF c = "lease" THEN unscheduled /\ source.owner # "none"
                          ELSE StatusAfter(edit) # source.status},
            docs |-> moves({p \in Paths : docs[p] # "none"}),
            entries |-> moves({p \in Paths : entries[p].known})]
  /\ UNCHANGED <<source, index, ing, exec, scheduler, extraction, stolen, crossed>>

\* Its commit.  A document that was replaced in the meantime stays.
Relocate ==
  /\ docs' = [p \in Paths |-> IF p \in editing.docs THEN "none"
                              ELSE IF docs[p] = "present" THEN "former" ELSE docs[p]]
  /\ entries' = [p \in Paths |-> IF p \in editing.entries THEN NoEntry ELSE entries[p]]
  /\ archived' = (archived \/ editing.docs # {})
  /\ exec' = [e \in Executors |-> IF exec[e].location = "present"
                THEN [exec[e] EXCEPT !.location = "former", !.rows = @ \ editing.docs]
                ELSE [exec[e] EXCEPT !.rows = @ \ editing.docs]]
  /\ crossed' = (crossed \/ \E e \in Executors : exec[e].stage = "checked")

UpdateSource ==
  /\ editing # NoEdit /\ editing' = NoEdit
  /\ source' = [Written(source, editing.writes,
                        IF editing.edit = "disable" THEN "disabled" ELSE "draft")
                  EXCEPT !.enabled = Enabled(editing.edit)]
  /\ stolen' = (stolen \/ ("lease" \in editing.writes /\ Holders # {}))
  /\ IF editing.edit = "relocate" THEN Relocate ELSE UNCHANGED <<index, exec, crossed>>
  /\ UNCHANGED <<ing, scheduler, extraction, faults>>

-----------------------------------------------------------------------------
\* The process ends and is started again; bootstrap gives every active
\* ingestion without an open item a fresh one.
Restart ==
  /\ Strikes("restart")
  /\ exec' = [e \in Executors |-> Idle]
  /\ scheduler' = "idle"
  /\ extraction' = [stage |-> "idle", awaited |-> None]
  /\ editing' = NoEdit
  /\ ing' = [i \in Ingestions |-> IF Active(i) /\ ing[i].item \in {"none", "closed"}
               THEN [ing[i] EXCEPT !.status = "queued", !.item = "queued", !.cancel = "no"]
               ELSE ing[i]]
  /\ UNCHANGED <<source, index, stolen, crossed>>

-----------------------------------------------------------------------------
Ingest(e) ==
  \/ ObtainSource(e) \/ GiveUp(e) \/ Collect(e) \/ Compare(e)
  \/ LoadReplaced(e) \/ CommitIngestion(e) \/ Raise(e)

WorkerStep(w) ==
  \/ \E i \in Ingestions : ClaimItem(w, i)
  \/ Ingest(w) \/ HeartbeatRaises(w) \/ Interrupt(w) \/ Finish(w)

Schedule == ClaimDueSource \/ CreateScheduled \/ ReleaseSyncLease

Extract ==
  \/ AcquireSource \/ PrepareVersions \/ Ingest(Extractor)
  \/ RepairReturns \/ ObserveRepair \/ ReleaseSource

Edit == ReadSource \/ UpdateSource

Next ==
  \/ \E w \in Workers : WorkerStep(w)
  \/ \E i \in Ingestions : CreateIngestion(i) \/ RecoverItem(i) \/ RequestCancel(i)
  \/ Schedule \/ Extract \/ Edit
  \/ LeaseLapses \/ Restart

Spec == Init /\ [][Next]_vars

-----------------------------------------------------------------------------
\* The values the variables take; while every execution has its lease and its
\* item, an active ingestion that has a queue item has an open one.
TypeOK ==
  /\ archived \in BOOLEAN /\ stolen \in BOOLEAN /\ crossed \in BOOLEAN
  /\ faults \in 0..MaxFaults
  /\ source.status \in {"draft", "indexing", "ready", "failed", "disabled"}
  /\ source.owner \in {"none", "scheduler", "extraction"} \union Ingestions
  /\ docs \in [Paths -> {"none", "present", "former"}]
  /\ entries \in [Paths -> [known : BOOLEAN, present : BOOLEAN, rejected : BOOLEAN,
                            by : Ingestions \union {None}]]
  /\ \A i \in Ingestions :
       /\ ing[i].status \in {"absent", "queued", "running", "completed", "failed", "cancelled"}
       /\ ing[i].item \in {"none", "queued", "leased", "closed"}
       /\ ~stolen =>
            /\ ing[i].status = "queued" => ing[i].item = "queued"
            /\ ing[i].status = "running" => ing[i].item \in {"none", "leased"}
  /\ \A e \in Executors : exec[e].stage \in Inside \union {"idle", "waiting", "executed"}

\* However it is asked for, a source has one full ingestion and one scope
\* repair at a time (create_ingestion).
OneActiveOfAKind ==
  \A i, j \in Ingestions :
    (Active(i) /\ Active(j) /\ (ing[i].trigger = "scope_repair") = (ing[j].trigger = "scope_repair"))
    => i = j

\* As long as no execution lost its lease or its item, one at a time works on
\* the source, and only a scope repair under the lease of an extraction.
Exclusive ==
  ~stolen =>
    /\ \A e, f \in Executors : exec[e].stage \in Inside /\ exec[f].stage \in Inside => e = f
    /\ source.owner = "extraction" /\ ~source.lapsed =>
         \A e \in Executors : exec[e].stage \in Inside => ing[exec[e].ing].trigger = "scope_repair"

\* Every current document has its entry in the inventory, wherever in an
\* ingestion the source is relocated, but for a relocation whose transaction
\* overlaps the one that writes the documents.
IndexedIsObserved ==
  ~crossed => \A p \in Paths : docs[p] # "none" => entries[p].known

\* What an execution commits is what it found: afterwards its paths have the
\* documents it has read and those it has kept, and no others.
CommitShowsCollection ==
  [][\A e \in Executors :
       CommitIngestion(e) /\ ing'[exec[e].ing].status = "completed"
         /\ ~stolen /\ exec[e].location = "present" =>
           \A p \in PathsOf(exec[e].ing) : docs'[p] # "none" <=> p \in exec[e].seen]_vars

\* docs/enterprise-knowledge.md:222: no other ingestion collects while an
\* extraction works on what it has prepared.  update_source and _cancel_locked
\* clear its lease.
ExtractionKeepsItsSource ==
  extraction.stage = "analysing" =>
    \A e \in Workers : exec[e].stage \in Inside => ing[exec[e].ing].trigger = "scope_repair"

=============================================================================
