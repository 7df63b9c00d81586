------------------------- MODULE CapabilityRegistry -------------------------
(***************************************************************************)
(* One capability on its way from the learning signals of finished tasks to *)
(* the active registry (capabilities/service.py, learning/service.py).      *)
(* Each request loads the asset into a session of its own and commits what  *)
(* it changed; no row is locked.                                            *)
(***************************************************************************)
EXTENDS Naturals, FiniteSets

CONSTANTS
  Tasks,       \* finished tasks with the same fingerprint and outcome
  Threshold,   \* signals that make a proposal
  Requests,    \* evaluations, roll-out records and roll-backs under way
  ShadowRuns,  \* runs that promote to canary
  CanaryRuns,  \* runs that activate
  MaxFailed    \* bound: failed records and roll-backs

VARIABLES
  capture,    \* how far each task's capture_task is
  asset,      \* the row of the capability
  session,    \* what each request has loaded
  passes,     \* passed evaluations on record; of the canary stage, since the asset
              \* was last put to benchmarked
  crossed,    \* history: a request that does so overlapped another request
  failed      \* failed records and roll-backs so far

vars == <<capture, asset, session, passes, crossed, failed>>

-----------------------------------------------------------------------------
Stages == {"benchmark", "shadow", "canary"}
Statuses == {"absent", "proposed", "benchmarked", "shadow", "canary", "active"}
Fields == {"status", "shadow", "canary", "failures", "active"}

Closed == [op |-> "none"]

Init ==
  /\ capture = [t \in Tasks |-> "idle"]
  /\ asset = [status |-> "absent", shadow |-> 0, canary |-> 0, failures |-> 0, active |-> FALSE]
  /\ session = [r \in Requests |-> Closed]
  /\ passes = [s \in Stages |-> 0]
  /\ crossed = FALSE
  /\ failed = 0

-----------------------------------------------------------------------------
(* capture_task commits its signal, counts the signals, and proposes.        *)

Recorded == {t \in Tasks : capture[t] # "idle"}

\* A mutant: the signal itself is not counted.
CountsOthers(t) == Cardinality(Recorded \ {t}) >= Threshold

Counted(t) == Cardinality(Recorded) >= Threshold

RecordSignal(t) ==
  /\ capture[t] = "idle"
  /\ capture' = [capture EXCEPT ![t] = "recorded"]
  /\ UNCHANGED <<asset, session, passes, crossed, failed>>

CountSignals(t) ==
  /\ capture[t] = "recorded"
  /\ capture' = [capture EXCEPT ![t] = IF Counted(t) THEN "looking" ELSE "done"]
  /\ UNCHANGED <<asset, session, passes, crossed, failed>>

\* propose looks for the content hash ...
LookUpHash(t) ==
  /\ capture[t] = "looking"
  /\ capture' = [capture EXCEPT ![t] = IF asset.status = "absent" THEN "proposing" ELSE "done"]
  /\ UNCHANGED <<asset, session, passes, crossed, failed>>

\* ... and inserts it; the unique hash refuses a second insert, which ends the
\* capture with an error.
Propose(t) ==
  /\ capture[t] = "proposing"
  /\ capture' = [capture EXCEPT ![t] = "done"]
  /\ asset' = IF asset.status = "absent" THEN [asset EXCEPT !.status = "proposed"] ELSE asset
  /\ UNCHANGED <<session, passes, crossed, failed>>

-----------------------------------------------------------------------------
(* What a request makes of the asset it has loaded.                          *)

\* A mutant: the canary count is not cleared.
KeepsCanaryCount(a) ==
  [a EXCEPT !.status = "benchmarked", !.active = FALSE, !.failures = 0]

\* _rollback_in_session
RolledBack(a) ==
  [a EXCEPT !.status = "benchmarked", !.active = FALSE, !.canary = 0, !.failures = 0]

\* A passed shadow or canary run of _record_rollout.
ShadowPassed(a) ==
  LET runs == a.shadow + 1
  IN [a EXCEPT !.failures = 0, !.shadow = runs,
               !.status = IF runs >= ShadowRuns THEN "canary" ELSE "shadow"]

CanaryPassed(a) ==
  LET runs == a.canary + 1
  IN [a EXCEPT !.failures = 0, !.canary = runs,
               !.status = IF runs >= CanaryRuns THEN "active" ELSE "canary",
               !.active = runs >= CanaryRuns]

\* A mutant: the third failure in a row rolls back.
ToleratesTwo(a) ==
  IF a.failures + 1 > 2 THEN RolledBack(a) ELSE [a EXCEPT !.failures = @ + 1]

RunFailed(a) ==
  IF a.failures + 1 >= 2 THEN RolledBack(a) ELSE [a EXCEPT !.failures = @ + 1]

\* A record may also report that the rolling quality has fallen too far.
Rollout(a, stage, passed, regressed) ==
  LET b == IF ~passed THEN RunFailed(a)
           ELSE IF stage = "shadow" THEN ShadowPassed(a) ELSE CanaryPassed(a)
  IN IF regressed THEN RolledBack(b) ELSE b

Admits(a, stage) ==
  IF stage = "shadow" THEN a.status \in {"benchmarked", "shadow"} ELSE a.status = "canary"

-----------------------------------------------------------------------------
(* A request loads the asset ...                                            *)

\* What leaves the asset benchmarked: roll-backs of both kinds and evaluations (and
\* the first failed shadow run after one of them).
Restarts(s) == s # Closed /\ s.new.status = "benchmarked"

Load(r, change) ==
  /\ session' = [session EXCEPT ![r] = change]
  /\ crossed' = (crossed \/ \E q \in Requests \ {r} :
       session[q] # Closed /\ (Restarts(change) \/ Restarts(session[q])))

\* Passing anything but a proposal raises; a failed evaluation only leaves its
\* record.
Evaluate(r) ==
  /\ session[r] = Closed /\ asset.status = "proposed"
  /\ Load(r, [op |-> "benchmark", passed |-> TRUE, seen |-> asset,
              new |-> [asset EXCEPT !.status = "benchmarked"]])
  /\ UNCHANGED <<capture, asset, passes, failed>>

RecordRollout(r, stage, passed, regressed) ==
  /\ session[r] = Closed /\ Admits(asset, stage)
  /\ ~passed \/ regressed => failed < MaxFailed
  /\ Load(r, [op |-> stage, passed |-> passed, seen |-> asset,
              new |-> Rollout(asset, stage, passed, regressed)])
  /\ failed' = IF ~passed \/ regressed THEN failed + 1 ELSE failed
  /\ UNCHANGED <<capture, asset, passes>>

Rollback(r) ==
  /\ session[r] = Closed /\ asset.status # "absent" /\ failed < MaxFailed
  /\ Load(r, [op |-> "rollback", passed |-> FALSE, seen |-> asset, new |-> RolledBack(asset)])
  /\ failed' = failed + 1
  /\ UNCHANGED <<capture, asset, passes>>

\* The evaluations on record once s is committed.
OnRecord(s) ==
  LET noted == IF s.passed
               THEN [passes EXCEPT ![s.op] = IF @ < ShadowRuns + CanaryRuns THEN @ + 1 ELSE @]
               ELSE passes
  IN IF Restarts(s) THEN [noted EXCEPT !["canary"] = 0] ELSE noted

\* ... and commits the columns it has changed, with its evaluation.
Commit(r) ==
  /\ session[r] # Closed
  /\ LET s == session[r]
     IN /\ asset' = [f \in Fields |-> IF s.new[f] # s.seen[f] THEN s.new[f] ELSE asset[f]]
        /\ passes' = OnRecord(s)
  /\ session' = [session EXCEPT ![r] = Closed]
  /\ UNCHANGED <<capture, crossed, failed>>

-----------------------------------------------------------------------------
Learn(t) == RecordSignal(t) \/ CountSignals(t) \/ LookUpHash(t) \/ Propose(t)

Govern(r) ==
  \/ Evaluate(r)
  \/ \E passed, regressed \in BOOLEAN, stage \in {"shadow", "canary"} :
       RecordRollout(r, stage, passed, regressed)
  \/ Rollback(r)
  \/ Commit(r)

Next == (\E t \in Tasks : Learn(t)) \/ (\E r \in Requests : Govern(r))

Spec == Init /\ [][Next]_vars

-----------------------------------------------------------------------------
\* The values of the variables; two failures in a row are never on the row, also
\* when requests overwrite each other.
TypeOK ==
  /\ capture \in [Tasks -> {"idle", "recorded", "looking", "proposing", "done"}]
  /\ asset.status \in Statuses /\ asset.active \in BOOLEAN
  /\ asset.failures \in 0..1 /\ asset.canary \in Nat
  /\ \A r \in Requests : session[r].op \in Stages \union {"none", "rollback"}

\* An active capability has its shadow runs on record, and its canary runs since it
\* was last rolled back (ADR 0009); a benchmarked one is not active and has no canary
\* count (docs/security.md:175-178).  Records may overlap and overwrite each other's
\* counts; a roll-back or an evaluation beside another request is excluded.
ActivationIsEarned ==
  ~crossed =>
    /\ asset.active => passes["shadow"] >= ShadowRuns /\ passes["canary"] >= CanaryRuns
    /\ asset.status \in {"absent", "proposed", "benchmarked"} =>
         ~asset.active /\ asset.canary = 0

\* docs/security.md:175-178 without the exception: a failing or falling asset returns
\* to benchmarked, its active state and canary counter are cleared.
RollBackClears == asset.status = "benchmarked" => ~asset.active /\ asset.canary = 0

\* A pattern that occurred often enough has been proposed once the captures have
\* ended, whichever of them counted it (capture_task).
PatternIsProposed ==
  (\A t \in Tasks : capture[t] \in {"idle", "done"}) /\ Cardinality(Recorded) >= Threshold
    => asset.status # "absent"

\* docs/api.md:795: a proposal remains inactive until the complete evaluation,
\* shadow and canary state machine succeeds.
ActiveWasEvaluated == asset.active => passes["benchmark"] > 0

=============================================================================
