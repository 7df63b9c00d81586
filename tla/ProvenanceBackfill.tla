------------------------- MODULE ProvenanceBackfill -------------------------
(***************************************************************************)
(* The hash of a source file is filled in by backfills                        *)
(* (backfill_raw_content_hashes) and by ingestions, while the file is written. *)
(* Several backfills may run beside the one ingestion of the source; each may  *)
(* die at any step.                                                          *)
(***************************************************************************)
EXTENDS Naturals

CONSTANTS
  Backfills,
  MaxVersion   \* bound on the versions of the file

VARIABLES
  file,    \* version of the file: its size, modification time and content
  entry,   \* the row: the version of its size and time, and of its hash
  walk,    \* the ingestion: the row it knows, and what it has seen of the file
  job,     \* the progress of each backfill
  raced    \* history: the ingestion and a backfill had the row loaded at one time

vars == <<file, entry, walk, job, raced>>

-----------------------------------------------------------------------------
None == 0
Torn == MaxVersion + 1    \* the hash of blocks of two versions
Idle == [stage |-> "idle", item |-> None, hash |-> None]
Unread == [stat |-> None, hash |-> None]
Resting == [stage |-> "idle", row |-> Unread, stat |-> None, hash |-> None]

Init ==
  /\ file = 1
  /\ entry = [stat |-> 1, hash |-> None]
  /\ walk = Resting
  /\ job = [b \in Backfills |-> Idle]
  /\ raced = FALSE

\* Every write changes the size or the time.
Write ==
  /\ file < MaxVersion
  /\ file' = file + 1
  /\ UNCHANGED <<entry, walk, job, raced>>

-----------------------------------------------------------------------------
(* An ingestion on its way to the entry.                                     *)

\* The rows are loaded for reuse when the ingestion begins.
BeginWalk ==
  /\ walk.stage = "idle"
  /\ walk' = [Resting EXCEPT !.stage = "known", !.row = entry]
  /\ UNCHANGED <<file, entry, job, raced>>

\* The directory is listed; a file that cannot be looked at has neither size nor time.
StatFile ==
  /\ walk.stage = "known"
  /\ \/ walk' = [walk EXCEPT !.stage = "seen", !.stat = file]
     \/ walk' = [walk EXCEPT !.stage = "observed"]
  /\ UNCHANGED <<file, entry, job, raced>>

\* A mutant: any hash the row has is taken over.
ReusesAnyHash == walk.row.hash # None

\* The row has the size and the time of the file, and a hash.
Reusable == walk.row.hash # None /\ walk.row.stat = walk.stat

\* Its hash is taken over, or the first blocks are read, which may fail.
HashFirst ==
  /\ walk.stage = "seen"
  /\ \/ Reusable /\ walk' = [walk EXCEPT !.stage = "observed", !.hash = walk.row.hash]
     \/ ~Reusable /\ walk' = [walk EXCEPT !.stage = "half", !.hash = file]
     \/ ~Reusable /\ walk' = [walk EXCEPT !.stage = "observed"]
  /\ UNCHANGED <<file, entry, job, raced>>

\* The other blocks; the file is not looked at again afterwards.
HashRest ==
  /\ walk.stage = "half"
  /\ \E h \in {IF walk.hash = file THEN file ELSE Torn, None} :
       walk' = [walk EXCEPT !.stage = "observed", !.hash = h]
  /\ UNCHANGED <<file, entry, job, raced>>

\* _persist_source_observations loads the row ...
LoadEntry ==
  /\ walk.stage = "observed"
  /\ walk' = [walk EXCEPT !.stage = "storing", !.row = entry]
  /\ raced' = (raced \/ \E b \in Backfills : job[b].stage = "commit")
  /\ UNCHANGED <<file, entry, job>>

\* ... and commits the columns that have changed.
Ingest ==
  /\ walk.stage = "storing"
  /\ entry' = [stat |-> IF walk.stat # walk.row.stat THEN walk.stat ELSE entry.stat,
               hash |-> IF walk.hash # walk.row.hash THEN walk.hash ELSE entry.hash]
  /\ walk' = Resting
  /\ UNCHANGED <<file, job, raced>>

WalkDies ==
  /\ walk.stage # "idle"
  /\ walk' = Resting
  /\ UNCHANGED <<file, entry, job, raced>>

-----------------------------------------------------------------------------
To(b, stage) == job' = [job EXCEPT ![b].stage = stage]

\* Entries without a hash are selected; the file is compared with the entry.
Select(b) ==
  /\ job[b].stage = "idle" /\ entry.hash = None /\ entry.stat # None
  /\ job' = [job EXCEPT ![b] = [stage |-> "selected", item |-> entry.stat, hash |-> None]]
  /\ UNCHANGED <<file, entry, walk, raced>>

StatBefore(b) ==
  /\ job[b].stage = "selected"
  /\ To(b, IF file = job[b].item THEN "reading" ELSE "idle")
  /\ UNCHANGED <<file, entry, walk, raced>>

\* The first and the other blocks.
ReadFirst(b) ==
  /\ job[b].stage = "reading"
  /\ job' = [job EXCEPT ![b] = [stage |-> "half", item |-> @.item, hash |-> file]]
  /\ UNCHANGED <<file, entry, walk, raced>>

ReadRest(b) ==
  /\ job[b].stage = "half"
  /\ job' = [job EXCEPT ![b] = [stage |-> "read", item |-> @.item,
                                hash |-> IF @.hash = file THEN @.hash ELSE Torn]]
  /\ UNCHANGED <<file, entry, walk, raced>>


SameAfter(b) == file = job[b].item

StatAfter(b) ==
  /\ job[b].stage = "read"
  /\ To(b, IF SameAfter(b) THEN "hashed" ELSE "idle")
  /\ UNCHANGED <<file, entry, walk, raced>>

\* A mutant: the entry is not looked at again.
AlwaysWanted(b) == TRUE

\* The entry has no hash yet and still the size and time it was selected with.
StillWanted(b) == entry.hash = None /\ entry.stat = job[b].item

\* persist reads the entry and commits without a lock.
Check(b) ==
  /\ job[b].stage = "hashed"
  /\ To(b, IF StillWanted(b) THEN "commit" ELSE "idle")
  /\ raced' = (raced \/ (StillWanted(b) /\ walk.stage = "storing"))
  /\ UNCHANGED <<file, entry, walk>>

Commit(b) ==
  /\ job[b].stage = "commit"
  /\ entry' = [entry EXCEPT !.hash = job[b].hash]
  /\ To(b, "idle")
  /\ UNCHANGED <<file, walk, raced>>

Dies(b) ==
  /\ job[b].stage # "idle"
  /\ To(b, "idle")
  /\ UNCHANGED <<file, entry, walk, raced>>

Next ==
  \/ Write
  \/ BeginWalk \/ StatFile \/ HashFirst \/ HashRest \/ LoadEntry \/ Ingest \/ WalkDies
  \/ \E b \in Backfills :
       \/ Select(b) \/ StatBefore(b) \/ ReadFirst(b) \/ ReadRest(b) \/ StatAfter(b)
       \/ Check(b) \/ Commit(b) \/ Dies(b)

Spec == Init /\ [][Next]_vars

-----------------------------------------------------------------------------
\* A backfill stores the hash of one version only, an ingestion perhaps that of
\* blocks of two.
TypeOK ==
  /\ file \in 1..MaxVersion
  /\ entry \in [stat : 0..MaxVersion, hash : 0..Torn]
  /\ walk.stage \in {"idle", "known", "seen", "half", "observed", "storing"}
  /\ \A b \in Backfills :
       /\ job[b].item \in 0..MaxVersion
       /\ job[b].stage \in {"hashed", "commit"} => job[b].hash = job[b].item

\* As long as the file has the size and time of its entry, the hash of the entry is
\* of that file, however the file was written while backfills and ingestions read it
\* and whatever they refreshed meanwhile, unless an ingestion and a backfill had the
\* row loaded at one time.
HashIsOfTheEntry ==
  ~raced /\ entry.hash # None /\ entry.stat = file => entry.hash = file

\* The same of a file that has changed since: an ingestion takes the size and time
\* before it reads the blocks, and does not look again (connectors.py).
HashIsOfTheVersion == ~raced /\ entry.hash # None => entry.hash = entry.stat
=============================================================================
