---------------------------- MODULE ArtifactStore ----------------------------
(***************************************************************************)
(* Encrypted artifacts: objects named by the hash of their content, kept in   *)
(* two stores, with rows for the artifact and its replicas.  Putters and one  *)
(* reconciliation interleave store by store; objects and rows get lost and    *)
(* objects corrupted; a putter or the reconciliation may die after any step.  *)
(***************************************************************************)
EXTENDS Naturals

CONSTANTS
  Contents,
  Putters,
  S3,          \* the primary store is an S3 bucket, else a directory
  MaxFaults    \* bound on the lost and corrupted objects and rows

VARIABLES
  object,    \* what each store holds for a content
  artifact,  \* status of its row
  replica,   \* status of the rows of its replicas
  put,       \* the progress of each putter
  run,       \* the reconciliation
  faults,
  quiet      \* history: nobody but the reconciliation has written since it began

vars == <<object, artifact, replica, put, run, faults, quiet>>

-----------------------------------------------------------------------------
Stores == {"primary", "replica"}

OnS3(s) == S3 /\ s = "primary"

Ready == [stage |-> "ready"]

Init ==
  /\ object = [c \in Contents |-> [s \in Stores |-> "absent"]]
  /\ artifact = [c \in Contents |-> "none"]
  /\ replica = [c \in Contents |-> [s \in Stores |-> "none"]]
  /\ put = [p \in Putters |-> Ready]
  /\ run = Ready
  /\ faults = 0
  /\ quiet = FALSE

-----------------------------------------------------------------------------
(* ArtifactEvidenceService.put: the primary, the replica, then the rows.    *)

\* The bucket is overwritten; an existing file that does not decrypt is refused.
Refuses(s, c) == ~OnS3(s) /\ object[c][s] = "bad"

Store(p, c, s) ==
  /\ object' = IF Refuses(s, c) THEN object ELSE [object EXCEPT ![c][s] = "good"]
  /\ put' = [put EXCEPT ![p] = IF Refuses(s, c) THEN Ready
                               ELSE [stage |-> s, content |-> c]]
  /\ quiet' = FALSE
  /\ UNCHANGED <<artifact, replica, run, faults>>

PutPrimary(p) ==
  /\ put[p].stage = "ready"
  /\ \E c \in Contents : Store(p, c, "primary")


\* Both stores have verified the content.
Publishes(p) == put[p].stage = "replica"

PutReplica(p) ==
  /\ put[p].stage = "primary"
  /\ Store(p, put[p].content, "replica")

\* The row of the artifact, of both replicas and of the location, in one session.
PutRows(p) ==
  /\ Publishes(p)
  /\ artifact' = [artifact EXCEPT ![put[p].content] = "available"]
  /\ replica' = [replica EXCEPT ![put[p].content] = [s \in Stores |-> "healthy"]]
  /\ put' = [put EXCEPT ![p] = Ready]
  /\ quiet' = FALSE
  /\ UNCHANGED <<object, run, faults>>

PutDies(p) ==
  /\ put[p] # Ready
  /\ put' = [put EXCEPT ![p] = Ready]
  /\ UNCHANGED <<object, artifact, replica, run, faults, quiet>>

-----------------------------------------------------------------------------
(* ArtifactEvidenceService.reconcile: heads, repairs, then one commit.      *)

Begin ==
  /\ run.stage \in {"ready", "completed", "failed"}
  /\ \E repair \in BOOLEAN, known \in {{c \in Contents : artifact[c] # "none"}} :
       run' = [stage |-> "next", repair |-> repair, scanned |-> known, left |-> known,
               at |-> CHOOSE c \in Contents : TRUE, healthy |-> {}, source |-> FALSE,
               loaded |-> replica, before |-> artifact,
               sets |-> replica, status |-> artifact]
  /\ quiet' = TRUE
  /\ UNCHANGED <<object, artifact, replica, put, faults>>

NextArtifact ==
  /\ run.stage = "next"
  /\ \E c \in run.left :
       run' = [run EXCEPT !.stage = "primary", !.left = @ \ {c},
                          !.at = c, !.healthy = {}, !.source = FALSE]
  /\ UNCHANGED <<object, artifact, replica, put, faults, quiet>>

\* The head of an S3 object is its metadata; a file is decrypted and hashed.
HeadAgrees(s) ==
  \/ object[run.at][s] = "good"
  \/ OnS3(s) /\ object[run.at][s] = "bad"

\* A replica without a row gets none here unless its object is there.
Noted(s, status) ==
  IF run.loaded[run.at][s] = "none" /\ status # "healthy" THEN run.sets
  ELSE [run.sets EXCEPT ![run.at][s] = status]

\* The first store that agrees is read as the source of repairs; a content that
\* cannot be decrypted ends the run.
Head(s, next) ==
  /\ run.stage = s
  /\ run' = IF ~HeadAgrees(s)
            THEN [run EXCEPT !.stage = next,
                    !.sets = Noted(s, IF object[run.at][s] = "absent" THEN "missing" ELSE "corrupt")]
            ELSE IF ~run.source /\ object[run.at][s] = "bad"
            THEN [run EXCEPT !.stage = "failed"]
            ELSE [run EXCEPT !.stage = next, !.source = TRUE,
                    !.healthy = @ \union {s}, !.sets = Noted(s, "healthy")]
  /\ UNCHANGED <<object, artifact, replica, put, faults, quiet>>

HeadPrimary == Head("primary", "replica")
HeadReplica == Head("replica", "repair")

\* A mutant: only a replica that is missing is repaired.
PendingMissing == {s \in Stores \ run.healthy : object[run.at][s] = "absent"}

Pending == Stores \ run.healthy

Repairs == run.repair /\ run.source

\* replace of a directory unlinks the file before it writes the new one.
Unlink ==
  /\ run.stage = "repair" /\ Repairs
  /\ \E s \in Pending :
       /\ ~OnS3(s) /\ object[run.at][s] # "absent"
       /\ object' = [object EXCEPT ![run.at][s] = "absent"]
  /\ UNCHANGED <<artifact, replica, put, run, faults, quiet>>

WriteRepair ==
  /\ run.stage = "repair" /\ Repairs
  /\ \E s \in Pending :
       /\ OnS3(s) \/ object[run.at][s] # "bad"
       /\ object' = [object EXCEPT ![run.at][s] = "good"]
       /\ run' = [run EXCEPT !.healthy = @ \union {s}, !.sets[run.at][s] = "healthy"]
  /\ UNCHANGED <<artifact, replica, put, faults, quiet>>

ArtifactChecked ==
  /\ run.stage = "repair" /\ (Repairs => Pending = {})
  /\ run' = [run EXCEPT !.stage = "next",
               !.status[run.at] = IF run.healthy = {} THEN "unavailable" ELSE "available"]
  /\ UNCHANGED <<object, artifact, replica, put, faults, quiet>>

\* A row loaded was deleted, or a row to insert was inserted by a putter.
Conflict ==
  \E c \in run.scanned, s \in Stores :
    \/ run.loaded[c][s] # "none" /\ replica[c][s] = "none"
    \/ run.loaded[c][s] = "none" /\ run.sets[c][s] # "none" /\ replica[c][s] # "none"


\* A row is written when the run has changed what it had loaded.
StatusWritten(c) == IF run.status[c] # run.before[c] THEN run.status[c] ELSE artifact[c]

Complete ==
  /\ run.stage = "next" /\ run.left = {}
  /\ IF Conflict
     THEN /\ run' = [run EXCEPT !.stage = "failed"]
          /\ UNCHANGED <<artifact, replica>>
     ELSE /\ run' = [run EXCEPT !.stage = "completed"]
          /\ artifact' = [c \in Contents |-> StatusWritten(c)]
          /\ replica' = [c \in Contents |-> [s \in Stores |->
                           IF run.sets[c][s] # run.loaded[c][s] THEN run.sets[c][s]
                           ELSE replica[c][s]]]
  /\ UNCHANGED <<object, put, faults, quiet>>

\* The process dies: the row of the run stays "running".
RunDies ==
  /\ run.stage \in {"next", "primary", "replica", "repair"}
  /\ run' = Ready
  /\ UNCHANGED <<object, artifact, replica, put, faults, quiet>>

-----------------------------------------------------------------------------
Fault ==
  /\ faults < MaxFaults
  /\ faults' = faults + 1
  /\ quiet' = FALSE
  /\ \E c \in Contents, s \in Stores :
       \/ /\ object[c][s] # "absent"
          /\ object' \in {[object EXCEPT ![c][s] = o] : o \in {"absent", "bad"}}
          /\ UNCHANGED replica
       \/ /\ replica[c][s] # "none"
          /\ replica' = [replica EXCEPT ![c][s] = "none"]
          /\ UNCHANGED object
  /\ UNCHANGED <<artifact, put, run>>

Next ==
  \/ \E p \in Putters : PutPrimary(p) \/ PutReplica(p) \/ PutRows(p) \/ PutDies(p)
  \/ Begin \/ NextArtifact \/ HeadPrimary \/ HeadReplica
  \/ Unlink \/ WriteRepair \/ ArtifactChecked \/ Complete \/ RunDies
  \/ Fault

Spec == Init /\ [][Next]_vars

-----------------------------------------------------------------------------
Readable(c) == {s \in Stores : object[c][s] = "good"}

\* Rows of replicas belong to a known artifact.
TypeOK ==
  /\ object \in [Contents -> [Stores -> {"absent", "good", "bad"}]]
  /\ artifact \in [Contents -> {"none", "available", "unavailable"}]
  /\ replica \in [Contents -> [Stores -> {"none", "healthy", "missing", "corrupt"}]]
  /\ run.stage \in {"ready", "next", "primary", "replica", "repair", "completed", "failed"}
  /\ faults \in 0..MaxFaults
  /\ \A c \in Contents : artifact[c] = "none" => \A s \in Stores : replica[c][s] = "none"

\* As long as no object or row was lost, an available artifact has a readable
\* object and a healthy row in both stores, wherever putters have died.
PublishedIsReplicated ==
  faults = 0 =>
    \A c \in Contents : artifact[c] = "available" =>
      Readable(c) = Stores /\ \A s \in Stores : replica[c][s] = "healthy"

\* A run that completes while nobody else writes has restored every artifact
\* of which one readable object was left, in both stores and in the rows, and
\* calls the others unavailable.
CompletedRunsRepair ==
  (run.stage = "completed" /\ quiet) =>
    \A c \in run.scanned :
      IF Readable(c) = {} THEN artifact[c] = "unavailable"
      ELSE /\ artifact[c] = "available"
           /\ run.repair => /\ Readable(c) = Stores
                            /\ \A s \in Stores : replica[c][s] = "healthy"

\* What is published was put into both stores, and a reconciliation that completes has
\* restored what one readable object was left of.  A run that meets content it cannot
\* decrypt raises instead and promises nothing.
ObjectsAreKept == PublishedIsReplicated /\ CompletedRunsRepair
=============================================================================
