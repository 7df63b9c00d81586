----------------------------- MODULE MCServices -----------------------------
(***************************************************************************)
(* The smaller services of the gateway, one scene for each.  They share no    *)
(* state, so a behaviour plays one scene and the others stay as they began:   *)
(* the state spaces add up instead of multiplying.                           *)
(***************************************************************************)
EXTENDS AnalysisScope

CONSTANTS
  key,                                        \* AnalysisScope
  name, products, vpns,                       \* CustomerLedger
  Place, FieldCodes, Lists, FieldsOf, Rules,
  Values, Confidences, Periods, InForce, Minimum, MaxRows,
  Workers, Entries, Nobody, MaxAttempts,      \* CustomerExtraction
  Tasks, Threshold, Requests,                 \* CapabilityRegistry
  ShadowRuns, CanaryRuns, MaxFailed,
  Contents, Putters, S3, MaxFaults,           \* ArtifactStore
  Backfills, MaxVersion,                      \* ProvenanceBackfill
  MaxItems,                                   \* CodexTurn
  Loops, Local, Remote                        \* QueueNotifier

\* There is a highest confidence, and priorities are about documents of the
\* manifest; one version, one signal and one run of each stage at least; finitely
\* many workers and items; an item is enqueued by this or by another process.
ASSUME ServicesAssumption ==
  /\ Place \in Seq(STRING) /\ Rules \in Seq(SUBSET DOMAIN Place)
  /\ Confidences \subseteq Nat /\ Minimum \in Nat /\ MaxRows \in Nat
  /\ \E most \in Confidences : \A c \in Confidences : c <= most
  /\ Nobody \notin Workers \union Entries
  /\ {Threshold, ShadowRuns, CanaryRuns, MaxVersion} \subseteq Nat \ {0}
  /\ {MaxFaults, MaxItems} \subseteq Nat
  /\ IsFiniteSet(Loops) /\ IsFiniteSet(Local \union Remote)
  /\ Local \cap Remote = {}

VARIABLES
  scene,
  candidates, ended, result,
  item, task, ext, manifest, rows, found, report, exec, request, canceller, overlapped,
  capture, asset, session, passes, crossed, failed,
  object, artifact, replica, put, run, faults, quiet,
  sourceFile, entry, walk, job, raced,
  child, pipe, client, asked,
  queued, event, worker, listener, channel

MCKeyOf == [p \in Posts |-> key]

\* Three documents, the second one in the directory of remote access; the first one
\* comes before the others.
MCPlace == <<"ordinary", "remote", "ordinary">>
MCFieldsOf == [remote |-> {vpns}]
MCRules == <<{1}>>

Ledger == INSTANCE CustomerLedger WITH rows <- candidates

Extraction == INSTANCE CustomerExtraction WITH
  Docs <- Entries, None <- Nobody

Capabilities == INSTANCE CapabilityRegistry

Artifacts == INSTANCE ArtifactStore

Provenance == INSTANCE ProvenanceBackfill WITH file <- sourceFile

Codex == INSTANCE CodexTurn

Notifier == INSTANCE QueueNotifier WITH item <- queued, Workers <- Loops

-----------------------------------------------------------------------------
scopeVars == <<layout, scopes, resolution, repairs, posts, requested>>
ledgerVars == <<candidates, ended, result>>
extractionVars == <<item, task, ext, manifest, rows, found, report, exec, request, canceller, overlapped>>
capabilityVars == <<capture, asset, session, passes, crossed, failed>>
artifactVars == <<object, artifact, replica, put, run, faults, quiet>>
provenanceVars == <<sourceFile, entry, walk, job, raced>>
codexVars == <<child, pipe, client, asked>>
notifierVars == <<queued, event, worker, listener, channel>>

ServicesVars ==
  <<scene, scopeVars, ledgerVars, extractionVars, capabilityVars,
    artifactVars, provenanceVars, codexVars, notifierVars>>

Scenes ==
  {"scope", "ledger", "extraction", "capabilities", "artifacts",
   "provenance", "codex", "notifier"}

ServicesInit ==
  /\ scene \in Scenes
  /\ Init /\ Ledger!Init /\ Extraction!Init /\ Capabilities!Init
  /\ Artifacts!Init /\ Provenance!Init /\ Codex!Init /\ Notifier!Init

ServicesNext ==
  \/ /\ scene = "scope" /\ Next
     /\ UNCHANGED <<scene, ledgerVars, extractionVars, capabilityVars, artifactVars, provenanceVars, codexVars, notifierVars>>
  \/ /\ scene = "ledger" /\ Ledger!Next
     /\ UNCHANGED <<scene, scopeVars, extractionVars, capabilityVars, artifactVars, provenanceVars, codexVars, notifierVars>>
  \/ /\ scene = "extraction" /\ Extraction!Next
     /\ UNCHANGED <<scene, scopeVars, ledgerVars, capabilityVars, artifactVars, provenanceVars, codexVars, notifierVars>>
  \/ /\ scene = "capabilities" /\ Capabilities!Next
     /\ UNCHANGED <<scene, scopeVars, ledgerVars, extractionVars, artifactVars, provenanceVars, codexVars, notifierVars>>
  \/ /\ scene = "artifacts" /\ Artifacts!Next
     /\ UNCHANGED <<scene, scopeVars, ledgerVars, extractionVars, capabilityVars, provenanceVars, codexVars, notifierVars>>
  \/ /\ scene = "provenance" /\ Provenance!Next
     /\ UNCHANGED <<scene, scopeVars, ledgerVars, extractionVars, capabilityVars, artifactVars, codexVars, notifierVars>>
  \/ /\ scene = "codex" /\ Codex!Next
     /\ UNCHANGED <<scene, scopeVars, ledgerVars, extractionVars, capabilityVars, artifactVars, provenanceVars, notifierVars>>
  \/ /\ scene = "notifier" /\ Notifier!Next
     /\ UNCHANGED <<scene, scopeVars, ledgerVars, extractionVars, capabilityVars, artifactVars, provenanceVars, codexVars>>

ServicesSpec == ServicesInit /\ [][ServicesNext]_ServicesVars

-----------------------------------------------------------------------------
(* The properties of the components, under their own names.                 *)

\* The values of the variables of every service, see their TypeOK.
ServicesTypeOK ==
  /\ TypeOK /\ Ledger!TypeOK /\ Extraction!TypeOK /\ Capabilities!TypeOK
  /\ Artifacts!TypeOK /\ Provenance!TypeOK /\ Codex!TypeOK
  /\ Notifier!TypeOK

\* _aggregate shows the best supported values and their conflicts, nothing else.
LedgerIsRight == Ledger!LedgerIsRight

\* _aggregate does not depend on the order of the candidates.
OrderDoesNotMatter == Ledger!OrderDoesNotMatter

\* However often an extraction is attempted, it has one result, on its Task too.
AttemptsLeaveOneResult == Extraction!AttemptsLeaveOneResult

\* An asset is active after the roll-out the code asks for, and not after a roll-back.
ActivationIsEarned == Capabilities!ActivationIsEarned

\* Enough equal signals leave a proposal, however their captures interleave.
PatternIsProposed == Capabilities!PatternIsProposed

\* A published artifact keeps a readable object and a replica the next reconciliation
\* finds, repairs or reports.
ObjectsAreKept == Artifacts!ObjectsAreKept

\* The hash of an entry is of the file as long as the entry describes the file.
HashIsOfTheEntry == Provenance!HashIsOfTheEntry

\* A completed turn of Codex is the one the server reported, with its answers.
TurnIsShared == Codex!TurnIsShared

\* A wake-up within the process reaches a worker that looks again.
WakeUpsAreNotLost == Notifier!WakeUpsAreNotLost
=============================================================================
