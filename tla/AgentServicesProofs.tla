-------------------------- MODULE AgentServicesProofs --------------------------
(***************************************************************************)
(* Proofs about three more of the smaller services, the life of a capability, *)
(* an extraction and a turn of Codex, along the lines of ServicesProofs, and   *)
(* the types of all services together.                                       *)
(***************************************************************************)
EXTENDS ServicesProofs

\* What a step of the services is to the capability.
LEMMA CapabilitySteps == [ServicesNext]_ServicesVars => [Capabilities!Next]_capabilityVars
  BY DEF ServicesNext, ServicesVars, capabilityVars

\* The same of the extraction.
LEMMA ExtractionSteps == [ServicesNext]_ServicesVars => [Extraction!Next]_extractionVars
  BY DEF ServicesNext, ServicesVars, extractionVars

\* The same of the turn.
LEMMA CodexSteps == [ServicesNext]_ServicesVars => [Codex!Next]_codexVars
  BY DEF ServicesNext, ServicesVars, codexVars

-----------------------------------------------------------------------------
(* A capability and its requests (CapabilityRegistry).                      *)

Assets ==
  [status : Capabilities!Statuses, shadow : Nat, canary : Nat, failures : 0..1, active : BOOLEAN]

Changes ==
  [op : Capabilities!Stages \union {"rollback"}, passed : BOOLEAN, seen : Assets, new : Assets]

CapabilityShapes ==
  /\ capture \in [Tasks -> {"idle", "recorded", "looking", "proposing", "done"}]
  /\ asset \in Assets
  /\ session \in [Requests -> Changes \union {Capabilities!Closed}]
  /\ passes \in [Capabilities!Stages -> Nat]
  /\ crossed \in BOOLEAN

\* Before the shadow stage.
Early == {"absent", "proposed", "benchmarked"}

\* What a row claims is on record: the runs it counts, as far as they matter, and
\* the stages behind it.
Backed(a) ==
  /\ a.shadow <= passes["shadow"] \/ ShadowRuns <= passes["shadow"]
  /\ a.canary <= passes["canary"] \/ CanaryRuns <= passes["canary"]
  /\ a.status \in {"canary", "active"} => ShadowRuns <= passes["shadow"]
  /\ a.active => ShadowRuns <= passes["shadow"] /\ CanaryRuns <= passes["canary"]
  /\ a.status \in Early => ~a.active /\ a.canary = 0

\* What a request changes of the row it has loaded, column by column: it counts
\* one run and goes one stage further at most, by the run it is going to record.
OneStage(c) ==
  /\ c.passed => c.op \in Capabilities!Stages
  /\ c.new.shadow # c.seen.shadow =>
       c.op = "shadow" /\ c.passed /\ c.new.shadow = c.seen.shadow + 1
  /\ c.new.canary # c.seen.canary =>
       \/ c.new.canary = 0
       \/ /\ c.op = "canary" /\ c.passed /\ c.new.canary = c.seen.canary + 1
          /\ c.seen.status = "canary"
  /\ c.new.status = "benchmarked" =>
       \/ ~c.new.active /\ c.new.canary = 0
       \/ /\ c.seen.status \in Early
          /\ c.new.active = c.seen.active /\ c.new.canary = c.seen.canary
  /\ c.new.status # c.seen.status =>
       /\ c.new.status \notin {"absent", "proposed"}
       /\ c.new.status = "canary" =>
            c.op = "shadow" /\ c.passed /\ ShadowRuns <= c.seen.shadow + 1
       /\ c.new.status = "active" => c.seen.status = "canary"
  /\ c.new.active # c.seen.active /\ c.new.active =>
       /\ c.op = "canary" /\ c.passed /\ c.seen.status = "canary"
       /\ CanaryRuns <= c.seen.canary + 1

Open(r) == session[r] # Capabilities!Closed

Restarting(r) == Capabilities!Restarts(session[r])

RequestsAreSteps ==
  \A r \in Requests : Open(r) => OneStage(session[r]) /\ asset.status # "absent"

\* What a request has loaded is on record as well, and an asset that was further
\* than benchmarked still is.
RequestsAreBacked ==
  \A r \in Requests : Open(r) =>
    /\ Backed(session[r].seen)
    /\ session[r].seen.status \notin Early => asset.status \notin Early

\* A request that puts the asset to benchmarked is alone with it.
RestartsAreAlone ==
  \A r \in Requests : Restarting(r) =>
    /\ session[r].seen = asset
    /\ \A q \in Requests \ {r} : ~Open(q)

\* As long as a pattern that occurred often enough is not proposed, a capture is
\* on its way that will count it or has.
SomebodyProposes ==
  Cardinality(Capabilities!Recorded) >= Threshold /\ asset.status = "absent" =>
    \E t \in Tasks : capture[t] \in {"recorded", "looking", "proposing"}

CapabilityIInv ==
  /\ CapabilityShapes /\ RequestsAreSteps /\ SomebodyProposes
  /\ ~crossed => Backed(asset) /\ RequestsAreBacked /\ RestartsAreAlone

\* The instance counts as the other modules do.
LEMMA SameCount == \A S : Capabilities!Cardinality(S) = Cardinality(S)
  BY DEF Cardinality, Capabilities!Cardinality

\* The bounds, which are at least one.
LEMMA RunBounds ==
  /\ Threshold \in Nat /\ Threshold >= 1 /\ ShadowRuns \in Nat /\ ShadowRuns >= 1
  /\ CanaryRuns \in Nat /\ CanaryRuns >= 1
  BY ServicesAssumption

\* The invariant holds initially.
LEMMA CapabilityInitInv == Capabilities!Init => CapabilityIInv
  <1> SUFFICES ASSUME Capabilities!Init PROVE CapabilityIInv  OBVIOUS
  <1>1. CapabilityShapes
    <2>1. capture \in [Tasks -> {"idle", "recorded", "looking", "proposing", "done"}]
      BY DEF Capabilities!Init
    <2>2. asset \in Assets
      BY DEF Capabilities!Init, Assets, Capabilities!Statuses
    <2>3. session \in [Requests -> Changes \union {Capabilities!Closed}]
      BY DEF Capabilities!Init
    <2>4. passes \in [Capabilities!Stages -> Nat] /\ crossed \in BOOLEAN
      BY DEF Capabilities!Init
    <2> QED BY <2>1, <2>2, <2>3, <2>4 DEF CapabilityShapes
  <1>2. Backed(asset)
    BY RunBounds DEF Capabilities!Init, Backed, Capabilities!Stages, Early
  <1>3. RequestsAreBacked /\ RequestsAreSteps /\ RestartsAreAlone
    BY DEF Capabilities!Init, RequestsAreBacked, RequestsAreSteps, RestartsAreAlone, Open,
           Restarting, Capabilities!Restarts
  <1>4. SomebodyProposes
    <2>1. Capabilities!Recorded = {}  BY DEF Capabilities!Init, Capabilities!Recorded
    <2>2. Cardinality(Capabilities!Recorded) = 0  BY <2>1, FS_EmptySet
    <2> QED BY <2>2, RunBounds DEF SomebodyProposes
  <1> QED BY <1>1, <1>2, <1>3, <1>4 DEF CapabilityIInv

\* Captures only ever add the proposal, and whoever counts enough signals goes on.
LEMMA LearnInv ==
  ASSUME CapabilityIInv, NEW t \in Tasks, Capabilities!Learn(t)
  PROVE  CapabilityIInv'
  <1>1. UNCHANGED <<session, passes, crossed>>
    BY DEF Capabilities!Learn, Capabilities!RecordSignal, Capabilities!CountSignals,
         Capabilities!LookUpHash, Capabilities!Propose
  <1>2. PICK s \in {"recorded", "looking", "proposing", "done"} :
          capture' = [capture EXCEPT ![t] = s]
    BY DEF Capabilities!Learn, Capabilities!RecordSignal, Capabilities!CountSignals,
         Capabilities!LookUpHash, Capabilities!Propose
  <1>3. capture' \in [Tasks -> {"idle", "recorded", "looking", "proposing", "done"}]
        /\ capture'[t] = s /\ \A x \in Tasks \ {t} : capture'[x] = capture[x]
    BY <1>2 DEF CapabilityIInv, CapabilityShapes
  <1>4. \/ asset' = asset
        \/ asset.status = "absent" /\ asset' = [asset EXCEPT !.status = "proposed"]
    BY DEF Capabilities!Learn, Capabilities!RecordSignal, Capabilities!CountSignals,
         Capabilities!LookUpHash, Capabilities!Propose
  <1>5. asset \in Assets  BY DEF CapabilityIInv, CapabilityShapes
  <1>6. asset' \in Assets
    BY <1>4, <1>5 DEF Assets, Capabilities!Statuses
  <1>7. CapabilityShapes'
    BY <1>1, <1>3, <1>6 DEF CapabilityIInv, CapabilityShapes
  <1>8. ASSUME ~crossed' PROVE Backed(asset)'
    BY <1>1, <1>4, <1>5, <1>8 DEF Backed, CapabilityIInv, Assets, Early
  <1>9. /\ RequestsAreSteps'
        /\ ~crossed' => RequestsAreBacked' /\ RestartsAreAlone'
    <2>1. ASSUME NEW r \in Requests, Open(r) PROVE asset' = asset /\ asset.status # "absent"
      BY <1>4, <2>1 DEF CapabilityIInv, RequestsAreSteps
    <2>2. \A r \in Requests : /\ Open(r)' = Open(r) /\ Restarting(r)' = Restarting(r)
                               /\ session'[r] = session[r] /\ (Restarting(r) => Open(r))
      BY <1>1 DEF Open, Restarting, Capabilities!Restarts
    <2>3. RequestsAreSteps'
      BY <2>1, <2>2 DEF CapabilityIInv, RequestsAreSteps
    <2>4. ASSUME ~crossed' PROVE RequestsAreBacked' /\ RestartsAreAlone'
      <3>1. RequestsAreBacked /\ RestartsAreAlone  BY <1>1, <2>4 DEF CapabilityIInv
      <3>2. ASSUME NEW a PROVE Backed(a) => Backed(a)'  BY <1>1 DEF Backed
      <3>3. RequestsAreBacked'
        <4> SUFFICES ASSUME NEW r \in Requests, Open(r)'
                     PROVE  /\ Backed(session[r].seen)'
                            /\ session'[r].seen.status \notin Early => asset'.status \notin Early
          BY DEF RequestsAreBacked
        <4>1. Open(r) /\ asset' = asset  BY <2>1, <2>2
        <4>2. Backed(session[r].seen)'  BY <1>1, <3>1, <4>1 DEF RequestsAreBacked, Backed
        <4> QED BY <1>1, <3>1, <4>1, <4>2 DEF RequestsAreBacked
      <3>4. RestartsAreAlone'
        BY <2>1, <2>2, <3>1 DEF RestartsAreAlone
      <3> QED BY <3>3, <3>4
    <2> QED BY <2>3, <2>4
  <1>10. SomebodyProposes'
    <2> SUFFICES ASSUME Cardinality(Capabilities!Recorded') >= Threshold, asset'.status = "absent"
                 PROVE  \E x \in Tasks : capture'[x] \in {"recorded", "looking", "proposing"}
      BY DEF SomebodyProposes
    <2>1. CASE Capabilities!RecordSignal(t)
      BY <1>3, <2>1 DEF Capabilities!RecordSignal, CapabilityIInv, CapabilityShapes
    <2>2. CASE ~Capabilities!RecordSignal(t)
      <3>1. capture[t] # "idle"
        BY <2>2 DEF Capabilities!Learn, Capabilities!CountSignals, Capabilities!LookUpHash,
             Capabilities!Propose
      <3>2. Capabilities!Recorded' = Capabilities!Recorded
        BY <1>3, <3>1 DEF Capabilities!Recorded
      <3>3. asset.status = "absent" /\ asset' = asset
        BY <1>4, <1>5 DEF Assets
      <3>4. CASE Capabilities!CountSignals(t)
        BY <1>3, <3>2, <3>4, SameCount
           DEF Capabilities!CountSignals, Capabilities!Counted, CapabilityIInv, CapabilityShapes
      <3>5. CASE Capabilities!LookUpHash(t)
        BY <1>3, <3>3, <3>5 DEF Capabilities!LookUpHash, CapabilityIInv, CapabilityShapes
      <3>6. CASE Capabilities!Propose(t)
        BY <1>5, <3>3, <3>6 DEF Capabilities!Propose, Assets
      <3> QED BY <2>2, <3>4, <3>5, <3>6 DEF Capabilities!Learn
    <2> QED BY <2>1, <2>2
  <1> QED BY <1>7, <1>8, <1>9, <1>10 DEF CapabilityIInv

\* What a request makes of a row is a row, one stage further at most.
LEMMA RolledBackRow ==
  ASSUME NEW a \in Assets
  PROVE  /\ Capabilities!RolledBack(a) \in Assets
         /\ Capabilities!RolledBack(a).status = "benchmarked" /\ ~Capabilities!RolledBack(a).active
         /\ Capabilities!RolledBack(a).shadow = a.shadow /\ Capabilities!RolledBack(a).canary = 0
  <1> DEFINE b == FALSE
  <1>1. Capabilities!RolledBack(a) =
          [a EXCEPT !.status = "benchmarked", !.active = b, !.canary = 0, !.failures = 0]
    BY DEF Capabilities!RolledBack
  <1>2. b \in BOOLEAN /\ ~b  OBVIOUS
  <1> HIDE DEF b
  <1>3. Capabilities!RolledBack(a) = [status |-> "benchmarked", shadow |-> a.shadow, canary |-> 0,
                         failures |-> 0, active |-> b]
    BY <1>1 DEF Assets
  <1>4. "benchmarked" \in Capabilities!Statuses /\ a.shadow \in Nat
    BY DEF Capabilities!Statuses, Assets
  <1> QED BY <1>2, <1>3, <1>4 DEF Assets

\* The same of a failed run.
LEMMA RunFailedRow ==
  ASSUME NEW a \in Assets
  PROVE  /\ Capabilities!RunFailed(a) \in Assets
         /\ \/ Capabilities!RunFailed(a) = Capabilities!RolledBack(a)
            \/ /\ Capabilities!RunFailed(a).status = a.status /\ Capabilities!RunFailed(a).active = a.active
               /\ Capabilities!RunFailed(a).shadow = a.shadow /\ Capabilities!RunFailed(a).canary = a.canary
  <1>1. CASE a.failures + 1 >= 2  BY <1>1, RolledBackRow DEF Capabilities!RunFailed
  <1>2. CASE ~(a.failures + 1 >= 2)
    <2>1. a.failures = 0  BY <1>2 DEF Assets
    <2>2. Capabilities!RunFailed(a) = [a EXCEPT !.failures = 1]  BY <1>2,
        <2>1 DEF Capabilities!RunFailed
    <2> QED BY <2>2 DEF Assets
  <1> QED BY <1>1, <1>2

\* The same of a passed shadow run.
LEMMA ShadowPassedRow ==
  ASSUME NEW a \in Assets
  PROVE  /\ Capabilities!ShadowPassed(a) \in Assets
         /\ Capabilities!ShadowPassed(a).shadow = a.shadow + 1 /\ Capabilities!ShadowPassed(a).canary = a.canary
         /\ Capabilities!ShadowPassed(a).active = a.active
         /\ Capabilities!ShadowPassed(a).status = IF a.shadow + 1 >= ShadowRuns THEN "canary" ELSE "shadow"
  <1> DEFINE s == IF a.shadow + 1 >= ShadowRuns THEN "canary" ELSE "shadow"
  <1>1. Capabilities!ShadowPassed(a) = [a EXCEPT !.failures = 0, !.shadow = a.shadow + 1, !.status = s]
    BY DEF Capabilities!ShadowPassed
  <1>2. s \in Capabilities!Statuses /\ a.shadow + 1 \in Nat  BY DEF Capabilities!Statuses,
      Assets
  <1> HIDE DEF s
  <1>3. Capabilities!ShadowPassed(a) = [status |-> s, shadow |-> a.shadow + 1, canary |-> a.canary,
                           failures |-> 0, active |-> a.active]
    BY <1>1 DEF Assets
  <1>4. a.canary \in Nat /\ a.active \in BOOLEAN  BY DEF Assets
  <1>5. /\ Capabilities!ShadowPassed(a) \in Assets
        /\ Capabilities!ShadowPassed(a).shadow = a.shadow + 1 /\ Capabilities!ShadowPassed(a).canary = a.canary
        /\ Capabilities!ShadowPassed(a).active = a.active /\ Capabilities!ShadowPassed(a).status = s
    BY <1>2, <1>3, <1>4 DEF Assets
  <1> QED BY <1>5 DEF s

\* The same of a passed canary run.
LEMMA CanaryPassedRow ==
  ASSUME NEW a \in Assets
  PROVE  /\ Capabilities!CanaryPassed(a) \in Assets
         /\ Capabilities!CanaryPassed(a).shadow = a.shadow /\ Capabilities!CanaryPassed(a).canary = a.canary + 1
         /\ Capabilities!CanaryPassed(a).status \in {"canary", "active"}
         /\ Capabilities!CanaryPassed(a).active => a.canary + 1 >= CanaryRuns
  <1> DEFINE s == IF a.canary + 1 >= CanaryRuns THEN "active" ELSE "canary"
             b == a.canary + 1 >= CanaryRuns
  <1>1. Capabilities!CanaryPassed(a) =
          [a EXCEPT !.failures = 0, !.canary = a.canary + 1, !.status = s, !.active = b]
    BY DEF Capabilities!CanaryPassed
  <1>2. s \in {"active", "canary"} /\ b \in BOOLEAN /\ a.canary + 1 \in Nat  BY DEF Assets
  <1>3. b => a.canary + 1 >= CanaryRuns  OBVIOUS
  <1> HIDE DEF s, b
  <1>4. Capabilities!CanaryPassed(a) = [status |-> s, shadow |-> a.shadow, canary |-> a.canary + 1,
                           failures |-> 0, active |-> b]
    BY <1>1 DEF Assets
  <1>5. a.shadow \in Nat /\ s \in Capabilities!Statuses  BY <1>2 DEF Assets,
      Capabilities!Statuses
  <1>6. /\ Capabilities!CanaryPassed(a) \in Assets
        /\ Capabilities!CanaryPassed(a).shadow = a.shadow /\ Capabilities!CanaryPassed(a).canary = a.canary + 1
        /\ Capabilities!CanaryPassed(a).status = s /\ Capabilities!CanaryPassed(a).active = b
    BY <1>2, <1>4, <1>5 DEF Assets
  <1> QED BY <1>2, <1>3, <1>6

\* A roll-out record of an admitted stage.
LEMMA RolloutRow ==
  ASSUME NEW a \in Assets, NEW stage \in {"shadow", "canary"}, Capabilities!Admits(a, stage),
         NEW passed \in BOOLEAN, NEW regressed \in BOOLEAN,
         NEW c, c = [op |-> stage, passed |-> passed, seen |-> a,
                     new |-> Capabilities!Rollout(a, stage, passed, regressed)]
  PROVE  c \in Changes /\ OneStage(c) /\ a.status # "absent"
  <1> DEFINE b == IF ~passed THEN Capabilities!RunFailed(a)
                  ELSE IF stage = "shadow" THEN Capabilities!ShadowPassed(a) ELSE Capabilities!CanaryPassed(a)
             n == IF regressed THEN Capabilities!RolledBack(b) ELSE b
  <1>1. Capabilities!Rollout(a, stage, passed, regressed) = n  BY DEF Capabilities!Rollout
  <1>2. b \in Assets  BY RunFailedRow, ShadowPassedRow, CanaryPassedRow
  <1>3. n \in Assets  BY <1>2, RolledBackRow
  <1>4. c.op = stage /\ c.passed = passed /\ c.seen = a /\ c.new = n  BY <1>1
  <1>5. c \in Changes  BY <1>1, <1>3 DEF Changes, Capabilities!Stages
  <1>6. b.status # "absent" /\ (a.status = "absent" => FALSE)
    BY RunFailedRow, RolledBackRow, ShadowPassedRow, CanaryPassedRow DEF Capabilities!Admits
  <1>7. CASE ~passed
    <2>1. b = Capabilities!RunFailed(a)  BY <1>7
    <2>2. \/ n.status = "benchmarked" /\ ~n.active /\ n.shadow = a.shadow /\ n.canary = 0
          \/ n.status = a.status /\ n.active = a.active /\ n.shadow = a.shadow /\ n.canary = a.canary
      BY <1>2, <2>1, RunFailedRow, RolledBackRow
    <2> HIDE DEF n, b
    <2> QED BY <1>4, <1>5, <1>6, <1>7, <2>2 DEF OneStage, Early
  <1>8. CASE passed /\ stage = "shadow"
    <2>1. b = Capabilities!ShadowPassed(a)  BY <1>8
    <2>2. /\ n.shadow = a.shadow + 1
          /\ n.canary = a.canary \/ n.canary = 0
          /\ n.active = a.active \/ ~n.active
          /\ n.status \in {"benchmarked", "shadow", "canary"}
          /\ n.status = "canary" => a.shadow + 1 >= ShadowRuns
          /\ n.status = "benchmarked" => ~n.active /\ n.canary = 0
      BY <1>2, <2>1, ShadowPassedRow, RolledBackRow
    <2>3. a.shadow + 1 >= ShadowRuns => ShadowRuns <= a.shadow + 1
      BY RunBounds DEF Assets
    <2> HIDE DEF n, b
    <2> QED BY <1>4, <1>5, <1>6, <1>8, <2>2, <2>3 DEF OneStage, Capabilities!Stages
  <1>9. CASE passed /\ stage = "canary"
    <2>1. b = Capabilities!CanaryPassed(a) /\ a.status = "canary"  BY <1>9 DEF Capabilities!Admits
    <2>2. /\ n.shadow = a.shadow
          /\ n.canary = a.canary + 1 \/ n.canary = 0
          /\ n.active => a.canary + 1 >= CanaryRuns
          /\ n.status \in {"benchmarked", "canary", "active"}
          /\ n.status = "benchmarked" => ~n.active /\ n.canary = 0
      BY <1>2, <2>1, CanaryPassedRow, RolledBackRow
    <2>3. a.canary + 1 >= CanaryRuns => CanaryRuns <= a.canary + 1
      BY RunBounds DEF Assets
    <2> HIDE DEF n, b
    <2> QED BY <1>4, <1>5, <1>6, <1>9, <2>1, <2>2, <2>3 DEF OneStage, Capabilities!Stages
  <1> QED BY <1>5, <1>6, <1>7, <1>8, <1>9

\* A request that loads the row knows what is on record by now.
LEMMA LoadInv ==
  ASSUME CapabilityIInv, NEW r \in Requests,
         Capabilities!Evaluate(r) \/ Capabilities!Rollback(r)
           \/ \E passed, regressed \in BOOLEAN, stage \in {"shadow", "canary"} :
                Capabilities!RecordRollout(r, stage, passed, regressed)
  PROVE  CapabilityIInv'
  <1>1. asset \in Assets /\ session \in [Requests -> Changes \union {Capabilities!Closed}]
    BY DEF CapabilityIInv, CapabilityShapes
  <1>2. UNCHANGED <<capture, asset, passes>>
    BY DEF Capabilities!Evaluate, Capabilities!Rollback, Capabilities!RecordRollout
  <1> DEFINE crosses(c) ==
        crossed' = (crossed \/ \E q \in Requests \ {r} :
          Open(q) /\ (Capabilities!Restarts(c) \/ Restarting(q)))
  <1>3. PICK c \in Changes :
          /\ OneStage(c) /\ c.seen = asset /\ session' = [session EXCEPT ![r] = c]
          /\ asset.status # "absent" /\ crosses(c)
    <2>1. CASE Capabilities!Evaluate(r)
      <3> DEFINE n == [asset EXCEPT !.status = "benchmarked"]
                 c == [op |-> "benchmark", passed |-> TRUE, seen |-> asset, new |-> n]
      <3>1. n \in Assets /\ n.status = "benchmarked" /\ n.active = asset.active
            /\ n.shadow = asset.shadow /\ n.canary = asset.canary
        BY <1>1 DEF Assets, Capabilities!Statuses
      <3>2. session' = [session EXCEPT ![r] = c] /\ crosses(c) /\ asset.status = "proposed"
        BY <2>1 DEF Capabilities!Evaluate, Capabilities!Load, Open, Restarting
      <3> HIDE DEF n
      <3>3. c \in Changes /\ c.seen = asset /\ OneStage(c)
        BY <1>1, <3>1, <3>2 DEF Changes, OneStage, Capabilities!Stages, Early
      <3> QED BY <3>2, <3>3
    <2>2. CASE Capabilities!Rollback(r)
      <3> DEFINE c == [op |-> "rollback", passed |-> FALSE, seen |-> asset,
                       new |-> Capabilities!RolledBack(asset)]
      <3>1. session' = [session EXCEPT ![r] = c] /\ crosses(c) /\ asset.status # "absent"
        BY <2>2 DEF Capabilities!Rollback, Capabilities!Load, Open, Restarting
      <3>2. c \in Changes /\ c.seen = asset /\ OneStage(c)
        BY <1>1, RolledBackRow DEF Changes, OneStage, Capabilities!Stages
      <3> QED BY <3>1, <3>2
    <2>3. ASSUME NEW passed \in BOOLEAN, NEW regressed \in BOOLEAN,
                 NEW stage \in {"shadow", "canary"},
                 Capabilities!RecordRollout(r, stage, passed, regressed)
          PROVE  \E c \in Changes :
                   /\ OneStage(c) /\ c.seen = asset /\ session' = [session EXCEPT ![r] = c]
                   /\ asset.status # "absent" /\ crosses(c)
      <3> DEFINE c == [op |-> stage, passed |-> passed, seen |-> asset,
                       new |-> Capabilities!Rollout(asset, stage, passed, regressed)]
      <3>1. session' = [session EXCEPT ![r] = c] /\ Capabilities!Admits(asset, stage)
            /\ crosses(c)
        BY <2>3 DEF Capabilities!RecordRollout, Capabilities!Load, Open, Restarting
      <3>2. c \in Changes /\ OneStage(c) /\ asset.status # "absent"
        BY <1>1, <3>1, RolloutRow
      <3> QED BY <3>1, <3>2
    <2> QED BY <2>1, <2>2, <2>3
  <1>4. CapabilityShapes'
    BY <1>2, <1>3 DEF CapabilityIInv, CapabilityShapes
  <1>5. \A q \in Requests : session'[q] = IF q = r THEN c ELSE session[q]
    BY <1>1, <1>3
  <1>6. \A q \in Requests \ {r} : Open(q)' = Open(q) /\ Restarting(q)' = Restarting(q)
    BY <1>5 DEF Open, Restarting
  <1>7. c # Capabilities!Closed => Open(r)'  BY <1>5 DEF Open
  <1>8. Restarting(r)' = Capabilities!Restarts(c)  BY <1>5 DEF Restarting
  <1>9. RequestsAreSteps'
    <2> SUFFICES ASSUME NEW q \in Requests, Open(q)'
                 PROVE  OneStage(session'[q]) /\ asset'.status # "absent"
      BY DEF RequestsAreSteps, OneStage
    <2> QED BY <1>2, <1>3, <1>5, <1>6 DEF CapabilityIInv, RequestsAreSteps
  <1>10. ASSUME ~crossed'
         PROVE  Backed(asset)' /\ RequestsAreBacked' /\ RestartsAreAlone'
    <2>1. /\ ~crossed
          /\ \A q \in Requests \ {r} :
               Open(q) => ~Capabilities!Restarts(c) /\ ~Restarting(q)
      BY <1>3, <1>10
    <2>2. Backed(asset) /\ RequestsAreBacked /\ RestartsAreAlone
      BY <2>1 DEF CapabilityIInv
    <2>3. Backed(asset)'  BY <1>2, <2>2 DEF Backed
    <2>4. RequestsAreBacked'
      <3> SUFFICES ASSUME NEW q \in Requests, Open(q)'
                   PROVE  /\ Backed(session[q].seen)'
                          /\ session'[q].seen.status \notin Early => asset'.status \notin Early
        BY DEF RequestsAreBacked
      <3>1. CASE q = r  BY <1>2, <1>3, <1>5, <2>3, <3>1 DEF Backed
      <3>2. CASE q # r
        <4>1. Open(q) /\ session'[q] = session[q]  BY <1>5, <1>6, <3>2
        <4>2. Backed(session[q].seen)
              /\ (session[q].seen.status \notin Early => asset.status \notin Early)
          BY <2>2, <4>1 DEF RequestsAreBacked
        <4> QED BY <1>2, <4>1, <4>2 DEF Backed
      <3> QED BY <3>1, <3>2
    <2>5. RestartsAreAlone'
      <3> SUFFICES ASSUME NEW q \in Requests, Restarting(q)'
                   PROVE  /\ session'[q].seen = asset'
                          /\ \A p \in Requests \ {q} : ~Open(p)'
        BY DEF RestartsAreAlone
      <3>1. CASE q = r
        BY <1>2, <1>3, <1>5, <1>6, <1>8, <2>1, <3>1
      <3>2. CASE q # r
        <4>1. Restarting(q)  BY <1>6, <3>2
        <4>2. Open(q)  BY <4>1 DEF Restarting, Open, Capabilities!Restarts
        <4> QED BY <2>1, <3>2, <4>1, <4>2
      <3> QED BY <3>1, <3>2
    <2> QED BY <2>3, <2>4, <2>5
  <1> QED BY <1>2, <1>4, <1>9, <1>10 DEF CapabilityIInv, SomebodyProposes,
               Capabilities!Recorded

\* A commit puts its run on record with the columns that count it.
LEMMA CommitColumnsInv ==
  ASSUME CapabilityIInv, NEW r \in Requests, Capabilities!Commit(r)
  PROVE  CapabilityIInv'
  <1> DEFINE c == session[r]
  <1>1. c \in Changes /\ OneStage(c) /\ asset \in Assets
        /\ c.seen \in Assets /\ c.new \in Assets /\ Open(r) /\ asset.status # "absent"
    BY DEF Capabilities!Commit, CapabilityIInv, CapabilityShapes, RequestsAreSteps, Changes, Open
  <1>2. /\ asset' = [f \in Capabilities!Fields |-> IF c.new[f] # c.seen[f] THEN c.new[f] ELSE asset[f]]
        /\ passes' = Capabilities!OnRecord(c)
        /\ session' = [session EXCEPT ![r] = Capabilities!Closed]
        /\ UNCHANGED <<capture, crossed>>
    BY DEF Capabilities!Commit
  <1>3. /\ asset'.status = IF c.new.status # c.seen.status THEN c.new.status ELSE asset.status
        /\ asset'.shadow = IF c.new.shadow # c.seen.shadow THEN c.new.shadow ELSE asset.shadow
        /\ asset'.canary = IF c.new.canary # c.seen.canary THEN c.new.canary ELSE asset.canary
        /\ asset'.active = IF c.new.active # c.seen.active THEN c.new.active ELSE asset.active
        /\ asset' \in Assets
    BY <1>1, <1>2 DEF Capabilities!Fields, Assets
  <1>4. c.passed => c.op \in Capabilities!Stages  BY <1>1 DEF OneStage
  <1>5. passes \in [Capabilities!Stages -> Nat] /\ passes["shadow"] \in Nat /\ passes["canary"] \in Nat
    BY DEF CapabilityIInv, CapabilityShapes, Capabilities!Stages
  <1> DEFINE noted == IF c.passed
                      THEN [passes EXCEPT ![c.op] = IF @ < ShadowRuns + CanaryRuns THEN @ + 1 ELSE @]
                      ELSE passes
             restarts == Capabilities!Restarts(c)
  <1>6. /\ noted \in [Capabilities!Stages -> Nat]
        /\ \A s \in Capabilities!Stages : noted[s] >= passes[s]
        /\ c.passed => \/ noted[c.op] = passes[c.op] + 1
                       \/ noted[c.op] >= ShadowRuns + CanaryRuns
    BY <1>4, <1>5, RunBounds
  <1>7. passes' = IF restarts THEN [noted EXCEPT !["canary"] = 0] ELSE noted
    BY <1>2 DEF Capabilities!OnRecord
  <1> HIDE DEF noted, c, restarts
  <1>8. /\ passes' \in [Capabilities!Stages -> Nat]
        /\ passes'["shadow"] \in Nat /\ passes'["shadow"] >= passes["shadow"]
        /\ passes'["canary"] \in Nat
        /\ c.op = "shadow" /\ c.passed =>
             \/ passes'["shadow"] = passes["shadow"] + 1
             \/ passes'["shadow"] >= ShadowRuns + CanaryRuns
        /\ ~restarts =>
             /\ passes'["canary"] >= passes["canary"]
             /\ c.op = "canary" /\ c.passed =>
                  \/ passes'["canary"] = passes["canary"] + 1
                  \/ passes'["canary"] >= ShadowRuns + CanaryRuns
    BY <1>6, <1>7 DEF Capabilities!Stages
  <1>9. CapabilityShapes'
    BY <1>2, <1>3, <1>8 DEF CapabilityIInv, CapabilityShapes, c
  <1>10. \A q \in Requests : session'[q] = IF q = r THEN Capabilities!Closed ELSE session[q]
    BY <1>2 DEF CapabilityIInv, CapabilityShapes
  <1>11. asset'.status # "absent"
    BY <1>1, <1>3 DEF OneStage
  <1>12. RequestsAreSteps'
    <2> SUFFICES ASSUME NEW q \in Requests, Open(q)'
                 PROVE  OneStage(session'[q]) /\ asset'.status # "absent"
      BY DEF RequestsAreSteps, OneStage
    <2>1. session'[q] # Capabilities!Closed  BY DEF Open
    <2>2. q # r /\ session'[q] = session[q]  BY <1>10, <2>1
    <2>3. Open(q)  BY <2>1, <2>2 DEF Open
    <2>4. OneStage(session[q])  BY <2>3 DEF CapabilityIInv, RequestsAreSteps
    <2> QED BY <1>11, <2>2, <2>4
  <1>13. SomebodyProposes'
    BY <1>2, <1>11 DEF SomebodyProposes
  <1>14. restarts = (c.new.status = "benchmarked") /\ restarts = Restarting(r)
    BY <1>1 DEF restarts, Capabilities!Restarts, Restarting, Open, c
  <1>15. ASSUME ~crossed
         PROVE  Backed(asset)' /\ RequestsAreBacked' /\ RestartsAreAlone'
    <2>1. Backed(asset) /\ Backed(c.seen) /\ RequestsAreBacked /\ RestartsAreAlone
          /\ (c.seen.status \notin Early => asset.status \notin Early)
      BY <1>1, <1>15 DEF CapabilityIInv, RequestsAreBacked, c
    <2>2. asset.shadow \in Nat /\ asset.canary \in Nat /\ c.seen.shadow \in Nat
          /\ c.seen.canary \in Nat
      BY <1>1 DEF Assets
    <2>3. restarts => c.seen = asset /\ \A q \in Requests \ {r} : ~Open(q)
      BY <1>14, <2>1 DEF RestartsAreAlone, c
    <2>4. restarts => asset'.status = "benchmarked" /\ asset'.canary = 0 /\ ~asset'.active
      <3> SUFFICES ASSUME restarts
                   PROVE  asset'.status = "benchmarked" /\ asset'.canary = 0 /\ ~asset'.active
        OBVIOUS
      <3>1. c.seen = asset /\ c.new.status = "benchmarked"  BY <1>14, <2>3
      <3>2. /\ asset'.status = c.new.status /\ asset'.canary = c.new.canary
            /\ asset'.active = c.new.active
        BY <1>3, <3>1
      <3>3. \/ ~c.new.active /\ c.new.canary = 0
            \/ /\ c.seen.status \in Early
               /\ c.new.active = c.seen.active /\ c.new.canary = c.seen.canary
        BY <1>1, <3>1 DEF OneStage
      <3>4. c.seen.status \in Early => ~c.seen.active /\ c.seen.canary = 0
        BY <2>1 DEF Backed
      <3> QED BY <3>1, <3>2, <3>3, <3>4
    <2>5. asset'.shadow <= passes'["shadow"] \/ ShadowRuns <= passes'["shadow"]
      <3>1. CASE c.new.shadow # c.seen.shadow
        <4>1. c.op = "shadow" /\ c.passed /\ c.new.shadow = c.seen.shadow + 1
          BY <1>1, <3>1 DEF OneStage
        <4>2. c.seen.shadow <= passes["shadow"] \/ ShadowRuns <= passes["shadow"]
          BY <2>1 DEF Backed
        <4> QED BY <1>3, <1>5, <1>8, <2>2, <3>1, <4>1, <4>2, RunBounds
      <3>2. CASE c.new.shadow = c.seen.shadow
        <4>1. asset.shadow <= passes["shadow"] \/ ShadowRuns <= passes["shadow"]
          BY <2>1 DEF Backed
        <4> QED BY <1>3, <1>5, <1>8, <2>2, <3>2, <4>1, RunBounds
      <3> QED BY <3>1, <3>2
    <2>6. asset'.canary <= passes'["canary"] \/ CanaryRuns <= passes'["canary"]
      <3>0. CASE restarts  BY <1>8, <2>4, <3>0
      <3>1. CASE ~restarts /\ c.new.canary # c.seen.canary
        <4>1. \/ c.new.canary = 0
              \/ c.op = "canary" /\ c.passed /\ c.new.canary = c.seen.canary + 1
          BY <1>1, <3>1 DEF OneStage
        <4>2. c.seen.canary <= passes["canary"] \/ CanaryRuns <= passes["canary"]
          BY <2>1 DEF Backed
        <4> QED BY <1>3, <1>5, <1>8, <2>2, <3>1, <4>1, <4>2, RunBounds
      <3>2. CASE ~restarts /\ c.new.canary = c.seen.canary
        <4>1. asset.canary <= passes["canary"] \/ CanaryRuns <= passes["canary"]
          BY <2>1 DEF Backed
        <4> QED BY <1>3, <1>5, <1>8, <2>2, <3>2, <4>1, RunBounds
      <3> QED BY <3>0, <3>1, <3>2
    <2>7. asset'.status \in {"canary", "active"} => ShadowRuns <= passes'["shadow"]
      <3>1. CASE c.new.status = c.seen.status
        <4>1. asset.status \in {"canary", "active"} => ShadowRuns <= passes["shadow"]
          BY <2>1 DEF Backed
        <4> QED BY <1>3, <1>5, <1>8, <3>1, <4>1, RunBounds
      <3>2. CASE c.new.status # c.seen.status /\ c.new.status = "canary"
        <4>1. c.op = "shadow" /\ c.passed /\ ShadowRuns <= c.seen.shadow + 1
          BY <1>1, <3>2 DEF OneStage
        <4>2. c.seen.shadow <= passes["shadow"] \/ ShadowRuns <= passes["shadow"]
          BY <2>1 DEF Backed
        <4> QED BY <1>5, <1>8, <2>2, <4>1, <4>2, RunBounds
      <3>3. CASE c.new.status # c.seen.status /\ c.new.status = "active"
        <4>1. c.seen.status = "canary"  BY <1>1, <3>3 DEF OneStage
        <4>2. ShadowRuns <= passes["shadow"]  BY <2>1, <4>1 DEF Backed
        <4> QED BY <1>5, <1>8, <4>2, RunBounds
      <3> QED BY <1>3, <3>1, <3>2, <3>3
    <2>8. asset'.active => ShadowRuns <= passes'["shadow"] /\ CanaryRuns <= passes'["canary"]
      <3> SUFFICES ASSUME asset'.active
                   PROVE  ShadowRuns <= passes'["shadow"] /\ CanaryRuns <= passes'["canary"]
        OBVIOUS
      <3>0. ~restarts  BY <2>4
      <3>1. CASE c.new.active = c.seen.active
        <4>1. ShadowRuns <= passes["shadow"] /\ CanaryRuns <= passes["canary"]
          BY <1>3, <2>1, <3>1 DEF Backed
        <4> QED BY <1>5, <1>8, <3>0, <4>1, RunBounds
      <3>2. CASE c.new.active # c.seen.active
        <4>1. c.new.active  BY <1>3, <3>2
        <4>2. c.op = "canary" /\ c.passed /\ c.seen.status = "canary"
              /\ CanaryRuns <= c.seen.canary + 1
          BY <1>1, <3>2, <4>1 DEF OneStage
        <4>3. ShadowRuns <= passes["shadow"]  BY <2>1, <4>2 DEF Backed
        <4>4. c.seen.canary <= passes["canary"] \/ CanaryRuns <= passes["canary"]
          BY <2>1 DEF Backed
        <4> QED BY <1>5, <1>8, <2>2, <3>0, <4>2, <4>3, <4>4, RunBounds
      <3> QED BY <3>1, <3>2
    <2>9. ~restarts /\ asset'.status \in Early => asset.status \in Early
      BY <1>1, <1>3, <1>14 DEF OneStage, Early
    <2>10. asset'.status \in Early => ~asset'.active /\ asset'.canary = 0
      <3> SUFFICES ASSUME asset'.status \in Early, ~restarts
                   PROVE  ~asset'.active /\ asset'.canary = 0
        BY <2>4
      <3>1. asset.status \in Early /\ c.seen.status \in Early  BY <2>1, <2>9
      <3>2. ~asset.active /\ asset.canary = 0  BY <2>1, <3>1 DEF Backed
      <3>3. c.seen.status # "canary"  BY <3>1 DEF Early
      <3>4. asset'.canary = 0  BY <1>1, <1>3, <3>2, <3>3 DEF OneStage
      <3>5. ~asset'.active  BY <1>1, <1>3, <3>2, <3>3 DEF OneStage
      <3> QED BY <3>4, <3>5
    <2>11. Backed(asset)'  BY <2>5, <2>6, <2>7, <2>8, <2>10 DEF Backed
    <2>12. ASSUME NEW a \in Assets, Backed(a), ~restarts PROVE Backed(a)'
      BY <1>5, <1>8, <2>12, RunBounds DEF Backed, Assets
    <2>13. RequestsAreBacked'
      <3> SUFFICES ASSUME NEW q \in Requests, Open(q)'
                   PROVE  /\ Backed(session[q].seen)'
                          /\ session'[q].seen.status \notin Early => asset'.status \notin Early
        BY DEF RequestsAreBacked
      <3>0. session'[q] # Capabilities!Closed  BY DEF Open
      <3>1. q # r /\ Open(q) /\ session'[q] = session[q]  BY <1>10, <3>0 DEF Open
      <3>2. ~restarts  BY <2>3, <3>1
      <3>3. /\ Backed(session[q].seen)
            /\ session[q].seen.status \notin Early => asset.status \notin Early
        BY <2>1, <3>1 DEF RequestsAreBacked
      <3>4. session[q].seen \in Assets
        BY <3>1 DEF CapabilityIInv, CapabilityShapes, Changes, Open
      <3>5. \A a \in Assets : Backed(a) => Backed(a)'  BY <2>12, <3>2
      <3>6. Backed(session[q].seen)'  BY <3>1, <3>3, <3>4, <3>5 DEF Backed
      <3> QED BY <2>9, <3>1, <3>2, <3>3, <3>6
    <2>14. RestartsAreAlone'
      <3> SUFFICES ASSUME NEW q \in Requests, Restarting(q)' PROVE FALSE
        BY DEF RestartsAreAlone
      <3>0. session'[q] # Capabilities!Closed /\ Capabilities!Restarts(session'[q])
        BY DEF Restarting, Capabilities!Restarts
      <3>1. q # r /\ Restarting(q)  BY <1>10, <3>0 DEF Restarting
      <3>2. ~Open(r)  BY <2>1, <3>1 DEF RestartsAreAlone
      <3> QED BY <1>1, <3>2
    <2> QED BY <2>11, <2>13, <2>14
  <1> QED BY <1>2, <1>9, <1>12, <1>13, <1>15 DEF CapabilityIInv

\* Nothing changes in a stuttering step.
LEMMA CapabilityStutterInv == CapabilityIInv /\ UNCHANGED Capabilities!vars => CapabilityIInv'
  BY DEF Capabilities!vars, CapabilityIInv, CapabilityShapes, Backed, RequestsAreBacked,
         RequestsAreSteps, RestartsAreAlone, Open, Restarting, OneStage,
         SomebodyProposes, Capabilities!Recorded

\* The invariant has the types of the variables in it.
LEMMA CapabilityTypes == CapabilityIInv => Capabilities!TypeOK
  BY DEF CapabilityIInv, CapabilityShapes, Capabilities!TypeOK, Assets, Changes,
       Capabilities!Closed, Capabilities!Stages

\* The invariant behind the theorems below.
THEOREM CapabilityInvariant == ServicesSpec => []CapabilityIInv
  <1>1. ServicesInit => CapabilityIInv  BY CapabilityInitInv DEF ServicesInit
  <1>2. CapabilityIInv /\ [Capabilities!Next]_capabilityVars => CapabilityIInv'
    <2> SUFFICES ASSUME CapabilityIInv, [Capabilities!Next]_capabilityVars
                 PROVE  CapabilityIInv'
      OBVIOUS
    <2>1. CASE \E t \in Tasks : Capabilities!Learn(t)  BY <2>1, LearnInv
    <2>2. CASE \E r \in Requests : Capabilities!Govern(r)
      BY <2>2, LoadInv, CommitColumnsInv DEF Capabilities!Govern
    <2>3. CASE UNCHANGED capabilityVars
      BY <2>3, CapabilityStutterInv DEF capabilityVars, Capabilities!vars
    <2> QED BY <2>1, <2>2, <2>3 DEF Capabilities!Next
  <1> QED BY <1>1, <1>2, CapabilitySteps, PTL DEF ServicesSpec

\* An active capability has its shadow runs on record and its canary runs since it
\* was last put to benchmarked, and a benchmarked one is neither active nor has it a
\* canary count, for any number of overlapping roll-out records, as long as no
\* roll-back or evaluation overlaps another request (_record_rollout).
THEOREM CapabilityActivation == ServicesSpec => []ActivationIsEarned
  <1>1. CapabilityIInv => ActivationIsEarned
    <2> SUFFICES ASSUME CapabilityIInv, ~crossed PROVE ActivationIsEarned
      BY DEF ActivationIsEarned, Capabilities!ActivationIsEarned
    <2>1. passes["shadow"] \in Nat /\ passes["canary"] \in Nat
      BY DEF CapabilityIInv, CapabilityShapes, Capabilities!Stages
    <2> QED BY <2>1, RunBounds DEF CapabilityIInv, Backed, Early, ActivationIsEarned,
                                   Capabilities!ActivationIsEarned
  <1> QED BY <1>1, CapabilityInvariant, PTL

\* Enough equal signals leave a proposal when the captures have ended, whichever
\* of them counted last and whichever of them inserted it (capture_task).
THEOREM CapabilityPattern == ServicesSpec => []PatternIsProposed
  <1>1. CapabilityIInv => PatternIsProposed
    <2> SUFFICES ASSUME CapabilityIInv, \A t \in Tasks : capture[t] \in {"idle", "done"},
                        Cardinality(Capabilities!Recorded) >= Threshold
                 PROVE  asset.status # "absent"
      BY SameCount DEF PatternIsProposed, Capabilities!PatternIsProposed
    <2> QED BY DEF CapabilityIInv, SomebodyProposes
  <1> QED BY <1>1, CapabilityInvariant, PTL

-----------------------------------------------------------------------------
(* A turn of Codex (CodexTurn).                                             *)

\* The bound on the lines is a number.
LEMMA TurnBound == MaxItems \in Nat
  BY ServicesAssumption

Children ==
  [runs : BOOLEAN, served : 0..Codex!TurnStart, open : BOOLEAN, items : 0..MaxItems,
   reported : Seq(Nat)]

Lines ==
  [kind : {"item", "request"}, turn : {"own", "other", "none"}, value : Nat]
    \union [kind : {"response"}, turn : {"none"}, value : {"result", "error"}]
    \union [kind : {"end"}, turn : {"own", "other"}, value : {"completed", "failed"}]

Clients ==
  [stage : {"request", "turn", "turn approval", "request approval", "ended"},
   step : 1..Codex!TurnStart, collected : Seq(Nat), request : Nat,
   outcome : {"none", "completed", "failed"}]

Questions ==
  [type : {"approval", "other"}, inTurn : BOOLEAN,
   answers : Seq({"accept", "decline", "empty"})]

CodexShapes ==
  /\ child \in Children
  /\ pipe \in Seq(Lines)
  /\ client \in Clients
  /\ asked \in Seq(Questions)

Requesting == client.stage \in {"request", "request approval"}
InTheTurn == client.stage \in {"turn", "turn approval"}

OwnItem(l) == l.kind = "item" /\ l.turn # "other"
OwnEnd(l) == l.kind = "end" /\ l.turn = "own"
Response(l) == l.kind = "response"
InTurn(l, questions) == l.kind = "request" /\ questions[l.value].inTurn

\* The client is at most one response behind the server, and the turn begins
\* with the last one for both.
StepsAgree ==
  /\ Requesting => child.served \in {client.step - 1, client.step} /\ client.collected = <<>>
  /\ InTheTurn => child.served = Codex!TurnStart
  /\ client.stage = "ended" => ~child.runs
  /\ client.stage = "ended" <=> client.outcome # "none"
  /\ child.open => child.served = Codex!TurnStart
  /\ child.served < Codex!TurnStart => child.reported = <<>>

\* One response at most is unread, and what belongs to the turn comes after the
\* response that begins it and before the end of the turn.
LinesInOrder ==
  /\ Requesting /\ child.served = client.step => \E i \in 1..Len(pipe) : Response(pipe[i])
  /\ \A i \in 1..Len(pipe) :
       /\ Response(pipe[i]) =>
            /\ InTheTurn => FALSE
            /\ Requesting => child.served = client.step
            /\ \A j \in 1..Len(pipe) : Response(pipe[j]) => j = i
       /\ OwnItem(pipe[i]) =>
            /\ child.served = Codex!TurnStart
            /\ Requesting => \E j \in 1..(i - 1) : Response(pipe[j])
       /\ OwnEnd(pipe[i]) =>
            /\ child.served = Codex!TurnStart /\ ~child.open
            /\ \A j \in (i + 1)..Len(pipe) : ~OwnItem(pipe[j]) /\ ~InTurn(pipe[j], asked)

\* The items of the turn are numbered upwards, on the record of the server and in
\* the pipe.
ItemsAscend ==
  /\ \A i \in 1..Len(child.reported) : child.reported[i] <= child.items
  /\ \A i, j \in 1..Len(child.reported) : i < j => child.reported[i] < child.reported[j]
  /\ \A i, j \in 1..Len(pipe) :
       OwnItem(pipe[i]) /\ OwnItem(pipe[j]) /\ i < j => pipe[i].value < pipe[j].value

\* What the client has collected is the first part of what the server reported,
\* and the rest is in the pipe.
RestIsInPipe ==
  LET n == Len(client.collected)
  IN /\ n <= Len(child.reported)
     /\ \A k \in 1..n : client.collected[k] = child.reported[k]
     /\ client.stage # "ended" =>
          /\ \A k \in (n + 1)..Len(child.reported) : \E i \in 1..Len(pipe) :
               OwnItem(pipe[i]) /\ pipe[i].value = child.reported[k]
          /\ \A i \in 1..Len(pipe) : OwnItem(pipe[i]) =>
               \E k \in (n + 1)..Len(child.reported) : pipe[i].value = child.reported[k]

\* A request of the server is in the pipe, in the hands of the client or answered.
QuestionsAreTracked ==
  /\ \A i \in 1..Len(pipe) : pipe[i].kind = "request" =>
       /\ pipe[i].value \in 1..Len(asked) /\ asked[pipe[i].value].answers = <<>>
       /\ Codex!Deciding => pipe[i].value # client.request
       /\ \A j \in 1..Len(pipe) :
            pipe[j].kind = "request" /\ pipe[j].value = pipe[i].value => j = i
  /\ Codex!Deciding => /\ client.request \in 1..Len(asked)
                 /\ asked[client.request].type = "approval"
                 /\ asked[client.request].answers = <<>>
  /\ \A k \in 1..Len(asked) :
       /\ Len(asked[k].answers) <= 1
       /\ asked[k].answers = <<>> =>
            \/ client.stage = "ended" \/ (Codex!Deciding /\ client.request = k)
            \/ \E i \in 1..Len(pipe) : pipe[i].kind = "request" /\ pipe[i].value = k
       /\ asked[k].answers # <<>> /\ asked[k].type = "approval" =>
            asked[k].answers[1] \in {"accept", "decline"}

CodexIInv ==
  /\ CodexShapes /\ StepsAgree /\ LinesInOrder /\ ItemsAscend /\ RestIsInPipe
  /\ QuestionsAreTracked /\ Codex!TurnIsShared

\* A line that was written is the last one.
LEMMA Written ==
  ASSUME pipe \in Seq(Lines), NEW l \in Lines, pipe' = Append(pipe, l)
  PROVE  /\ pipe' \in Seq(Lines) /\ Len(pipe) \in Nat /\ Len(pipe') = Len(pipe) + 1
         /\ \A i \in 1..Len(pipe) : pipe'[i] = pipe[i]
         /\ pipe'[Len(pipe) + 1] = l
  BY AppendProperties, LenProperties

\* A line that was read was the first one.
LEMMA WasRead ==
  ASSUME pipe \in Seq(Lines), pipe # <<>>, pipe' = Tail(pipe)
  PROVE  /\ pipe' \in Seq(Lines) /\ Len(pipe) \in Nat /\ Len(pipe) >= 1
         /\ Len(pipe') = Len(pipe) - 1
         /\ \A i \in 1..Len(pipe') : pipe'[i] = pipe[i + 1]
         /\ Codex!FirstLine = pipe[1] /\ Codex!FirstLine \in Lines
  BY HeadTailProperties, LenProperties, EmptySeq DEF Codex!FirstLine

\* The fields of the server and of the client.
LEMMA CodexFields ==
  ASSUME CodexShapes
  PROVE  /\ child.runs \in BOOLEAN /\ child.open \in BOOLEAN
         /\ child.served \in 0..4 /\ child.items \in 0..MaxItems
         /\ child.reported \in Seq(Nat) /\ Len(child.reported) \in Nat
         /\ client.step \in 1..4 /\ client.request \in Nat
         /\ client.collected \in Seq(Nat) /\ Len(client.collected) \in Nat
         /\ Requesting \/ InTheTurn \/ client.stage = "ended"
  <1>1. child \in Children /\ client \in Clients /\ Codex!TurnStart = 4
    BY DEF CodexShapes, Codex!TurnStart
  <1>2. child.runs \in BOOLEAN /\ child.open \in BOOLEAN /\ child.served \in 0..4
        /\ child.items \in 0..MaxItems /\ child.reported \in Seq(Nat)
    BY <1>1 DEF Children
  <1>3. client.step \in 1..4 /\ client.request \in Nat /\ client.collected \in Seq(Nat)
        /\ client.stage \in {"request", "turn", "turn approval", "request approval", "ended"}
    BY <1>1 DEF Clients
  <1> QED BY <1>2, <1>3, LenProperties DEF Requesting, InTheTurn

\* The invariant holds initially.
LEMMA CodexInitInv == Codex!Init => CodexIInv
  <1> SUFFICES ASSUME Codex!Init PROVE CodexIInv  OBVIOUS
  <1>1. CodexShapes
    BY TurnBound DEF Codex!Init, CodexShapes, Children, Clients, Codex!TurnStart
  <1>2. /\ pipe = <<>> /\ asked = <<>> /\ child.reported = <<>> /\ client.collected = <<>>
        /\ client.stage = "request" /\ client.outcome = "none" /\ child.served = 0
        /\ client.step = 1 /\ child.open = FALSE
    BY DEF Codex!Init
  <1>3. StepsAgree  BY <1>2 DEF StepsAgree, Requesting, InTheTurn, Codex!TurnStart
  <1>4. LinesInOrder /\ ItemsAscend /\ RestIsInPipe
    BY <1>2 DEF LinesInOrder, ItemsAscend, RestIsInPipe
  <1>5. QuestionsAreTracked /\ Codex!TurnIsShared
    BY <1>2 DEF QuestionsAreTracked, Codex!Deciding, Codex!TurnIsShared,
         Codex!ResultIsTheTurn, Codex!RequestsAreAnswered
  <1> QED BY <1>1, <1>3, <1>4, <1>5 DEF CodexIInv

\* A line that is no request changes nothing about the requests.
LEMMA QuietWrite ==
  ASSUME QuestionsAreTracked, UNCHANGED <<client, asked>>, Len(pipe) \in Nat,
         Len(pipe') = Len(pipe) + 1, \A i \in 1..Len(pipe) : pipe'[i] = pipe[i],
         pipe'[Len(pipe) + 1].kind # "request"
  PROVE  QuestionsAreTracked'
  <1>1. Codex!Deciding' = Codex!Deciding  BY DEF Codex!Deciding
  <1>2. \A i \in 1..Len(pipe') : pipe'[i].kind = "request" => i \in 1..Len(pipe)
    OBVIOUS
  <1>3. \A i \in 1..Len(pipe) : i \in 1..Len(pipe')  OBVIOUS
  <1>4. ASSUME NEW i \in 1..Len(pipe'), pipe'[i].kind = "request"
        PROVE  /\ pipe'[i].value \in 1..Len(asked')
               /\ asked'[pipe'[i].value].answers = <<>>
               /\ Codex!Deciding' => pipe'[i].value # client'.request
               /\ \A j \in 1..Len(pipe') :
                    pipe'[j].kind = "request" /\ pipe'[j].value = pipe'[i].value => j = i
    <2>1. i \in 1..Len(pipe) /\ pipe'[i] = pipe[i]  BY <1>2, <1>4
    <2> QED BY <1>1, <1>2, <1>4, <2>1 DEF QuestionsAreTracked
  <1>5. ASSUME NEW k \in 1..Len(asked'), asked'[k].answers = <<>>
        PROVE  \/ client'.stage = "ended" \/ (Codex!Deciding' /\ client'.request = k)
               \/ \E i \in 1..Len(pipe') : pipe'[i].kind = "request" /\ pipe'[i].value = k
    BY <1>1, <1>3, <1>5 DEF QuestionsAreTracked
  <1> QED BY <1>1, <1>4, <1>5 DEF QuestionsAreTracked

\* The server answers the request the client waits for.
LEMMA RespondInv ==
  ASSUME CodexIInv, Codex!Respond
  PROVE  CodexIInv'
  <1>1. PICK outcome \in {"result", "error"} : Codex!Write(Codex!Line("response", "none", outcome))
    BY DEF Codex!Respond
  <1> DEFINE l == Codex!Line("response", "none", outcome)
             b == (child.served + 1 = Codex!TurnStart)
  <1>2. l \in Lines /\ l.kind = "response" /\ b \in BOOLEAN  BY DEF Codex!Line, Lines
  <1>3. child' = [child EXCEPT !.served = child.served + 1, !.open = b]
        /\ UNCHANGED <<client, asked>> /\ child.runs
        /\ child.served < client.step /\ client.stage # "ended"
    BY <1>1 DEF Codex!Respond, Codex!Write
  <1>4. pipe' = Append(pipe, l)  BY <1>1 DEF Codex!Write
  <1>5. b => child.served + 1 = Codex!TurnStart  OBVIOUS
  <1> HIDE DEF l, b
  <1>6. child.served \in 0..4 /\ client.step \in 1..4 /\ Codex!TurnStart = 4 /\ child \in Children
        /\ (Requesting \/ InTheTurn)
    BY <1>3, CodexFields DEF CodexIInv, CodexShapes, Codex!TurnStart
  <1>7. Requesting /\ ~InTheTurn /\ child.served = client.step - 1
        /\ child.served < Codex!TurnStart /\ child.open = FALSE
    <2>1. ~InTheTurn  BY <1>3, <1>6 DEF CodexIInv, StepsAgree
    <2>2. child.served = client.step - 1  BY <1>3, <1>6, <2>1 DEF CodexIInv, StepsAgree
    <2>3. child.served < Codex!TurnStart  BY <1>6, <2>2
    <2>4. child.open \in BOOLEAN  BY CodexFields DEF CodexIInv
    <2> QED BY <1>6, <2>1, <2>2, <2>3, <2>4 DEF CodexIInv, StepsAgree
  <1>8. /\ pipe' \in Seq(Lines) /\ Len(pipe) \in Nat /\ Len(pipe') = Len(pipe) + 1
        /\ \A i \in 1..Len(pipe) : pipe'[i] = pipe[i]
        /\ pipe'[Len(pipe) + 1] = l
    BY <1>2, <1>4, Written DEF CodexIInv, CodexShapes
  <1>9. /\ child'.served = child.served + 1 /\ child'.open = b /\ child'.runs = child.runs
        /\ child'.items = child.items /\ child'.reported = child.reported
        /\ child' \in Children
    <2>1. child' = [runs |-> child.runs, served |-> child.served + 1, open |-> b,
                    items |-> child.items, reported |-> child.reported]
      BY <1>3, <1>6 DEF Children
    <2>2. child.runs \in BOOLEAN /\ child.served + 1 \in 0..4 /\ child.items \in 0..MaxItems
          /\ child.reported \in Seq(Nat)
      BY <1>6, <1>7, CodexFields DEF CodexIInv
    <2> QED BY <1>2, <1>6, <2>1, <2>2 DEF Children
  <1>10. CodexShapes'  BY <1>3, <1>8, <1>9 DEF CodexIInv, CodexShapes
  <1>11. StepsAgree'
    <2>1. Requesting' /\ ~InTheTurn' /\ client'.stage # "ended" /\ client'.outcome = "none"
      BY <1>3, <1>7 DEF CodexIInv, StepsAgree, Requesting, InTheTurn
    <2>2. child'.served = client'.step /\ client'.collected = <<>>
      BY <1>3, <1>6, <1>7, <1>9 DEF CodexIInv, StepsAgree
    <2>3. child'.open => child'.served = Codex!TurnStart  BY <1>5, <1>9
    <2>4. child'.reported = <<>>  BY <1>7, <1>9 DEF CodexIInv, StepsAgree
    <2> QED BY <2>1, <2>2, <2>3, <2>4 DEF StepsAgree
  <1>12. \A i \in 1..Len(pipe) : ~Response(pipe[i]) /\ ~OwnItem(pipe[i]) /\ ~OwnEnd(pipe[i])
    BY <1>6, <1>7 DEF CodexIInv, LinesInOrder
  <1>13. ~OwnItem(l) /\ ~OwnEnd(l) /\ l.kind # "request"
    BY <1>2 DEF OwnItem, OwnEnd
  <1>14. \A i \in 1..Len(pipe') : i # Len(pipe) + 1 =>
           ~Response(pipe'[i]) /\ ~OwnItem(pipe'[i]) /\ ~OwnEnd(pipe'[i])
    BY <1>8, <1>12
  <1>15. LinesInOrder'
    <2>1. ~InTheTurn'  BY <1>3, <1>7 DEF InTheTurn
    <2>2. ASSUME NEW i \in 1..Len(pipe')
          PROVE  /\ ~OwnItem(pipe'[i]) /\ ~OwnEnd(pipe'[i])
                 /\ Response(pipe'[i]) => i = Len(pipe) + 1
      BY <1>8, <1>13, <1>14
    <2>3. \A i \in 1..Len(pipe') : Response(pipe'[i]) =>
            \A j \in 1..Len(pipe') : Response(pipe'[j]) => j = i
      BY <2>2
    <2>4. child'.served = client'.step  BY <1>3, <1>6, <1>7, <1>9
    <2>5. Len(pipe) + 1 \in 1..Len(pipe') /\ Response(pipe'[Len(pipe) + 1])
      BY <1>2, <1>8 DEF Response
    <2> QED BY <2>1, <2>2, <2>3, <2>4, <2>5 DEF LinesInOrder, Response, OwnItem, OwnEnd
  <1>16. ItemsAscend'
    BY <1>8, <1>9, <1>13, <1>14 DEF CodexIInv, ItemsAscend
  <1>17. RestIsInPipe'
    BY <1>3, <1>8, <1>9, <1>13, <1>14, <1>12 DEF CodexIInv, RestIsInPipe
  <1>18. QuestionsAreTracked'
    BY <1>3, <1>8, <1>13, QuietWrite DEF CodexIInv
  <1>19. Codex!TurnIsShared'
    BY <1>3, <1>9 DEF CodexIInv, Codex!TurnIsShared, Codex!ResultIsTheTurn,
         Codex!RequestsAreAnswered
  <1> QED BY <1>10, <1>11, <1>15, <1>16, <1>17, <1>18, <1>19 DEF CodexIInv

\* Lines other than a response keep the order when what belongs to the turn is
\* written while it is open.
LEMMA WriteInOrder ==
  ASSUME CodexIInv, NEW l, NEW n \in Nat, n = Len(pipe),
         Len(pipe') = n + 1, \A i \in 1..n : pipe'[i] = pipe[i], pipe'[n + 1] = l,
         client' = client, child'.served = child.served, child'.open => child.open,
         \A i \in 1..n : InTurn(pipe[i], asked') => InTurn(pipe[i], asked),
         l.kind # "response",
         OwnItem(l) \/ InTurn(l, asked') => child.open,
         OwnEnd(l) => child.open /\ ~child'.open
  PROVE  LinesInOrder'
  <1>1. Requesting' = Requesting /\ InTheTurn' = InTheTurn  BY DEF Requesting, InTheTurn
  <1>2. /\ child.served \in 0..4 /\ client.step \in 1..4 /\ Codex!TurnStart = 4
        /\ child.open => child.served = 4
    BY CodexFields DEF CodexIInv, StepsAgree, Codex!TurnStart
  <1>3. \A i \in 1..Len(pipe') : i \in 1..n \/ i = n + 1  OBVIOUS
  <1>4. \A i \in 1..n : i \in 1..Len(pipe')  OBVIOUS
  <1>5. ~Response(l)  BY DEF Response
  <1>6. ASSUME Requesting', child'.served = client'.step
        PROVE  \E i \in 1..Len(pipe') : Response(pipe'[i])
    BY <1>1, <1>4, <1>6 DEF CodexIInv, LinesInOrder
  <1>7. ASSUME NEW i \in 1..Len(pipe'), Response(pipe'[i])
        PROVE  /\ InTheTurn' => FALSE
               /\ Requesting' => child'.served = client'.step
               /\ \A j \in 1..Len(pipe') : Response(pipe'[j]) => j = i
    BY <1>1, <1>3, <1>5, <1>7 DEF CodexIInv, LinesInOrder
  <1>8. ASSUME NEW i \in 1..Len(pipe'), OwnItem(pipe'[i])
        PROVE  /\ child'.served = Codex!TurnStart
               /\ Requesting' => \E j \in 1..(i - 1) : Response(pipe'[j])
    <2>1. CASE i \in 1..n
      <3>1. OwnItem(pipe[i])  BY <1>8, <2>1
      <3>2. \A j \in 1..(i - 1) : pipe'[j] = pipe[j]  BY <2>1
      <3> QED BY <1>1, <2>1, <3>1, <3>2 DEF CodexIInv, LinesInOrder
    <2>2. CASE i = n + 1
      <3>1. child.served = Codex!TurnStart  BY <1>2, <1>8, <2>2
      <3>2. ASSUME Requesting PROVE \E j \in 1..n : Response(pipe[j])
        <4>1. child.served = client.step  BY <1>2, <3>1, <3>2 DEF CodexIInv, StepsAgree
        <4> QED BY <3>2, <4>1 DEF CodexIInv, LinesInOrder
      <3>3. i - 1 = n  BY <2>2
      <3> QED BY <1>1, <3>1, <3>2, <3>3
    <2> QED BY <1>3, <2>1, <2>2
  <1>9. ASSUME NEW i \in 1..Len(pipe'), OwnEnd(pipe'[i])
        PROVE  /\ child'.served = Codex!TurnStart /\ ~child'.open
               /\ \A j \in (i + 1)..Len(pipe') : ~OwnItem(pipe'[j]) /\ ~InTurn(pipe'[j], asked')
    <2>1. CASE i \in 1..n
      <3>1. child.served = Codex!TurnStart /\ ~child.open
            /\ \A j \in (i + 1)..n : ~OwnItem(pipe[j]) /\ ~InTurn(pipe[j], asked)
        BY <1>9, <2>1 DEF CodexIInv, LinesInOrder
      <3>2. ASSUME NEW j \in (i + 1)..Len(pipe') PROVE ~OwnItem(pipe'[j]) /\ ~InTurn(pipe'[j], asked')
        <4>1. CASE j \in 1..n
          <5>1. pipe'[j] = pipe[j] /\ ~InTurn(pipe[j], asked)  BY <2>1, <3>1, <4>1
          <5>2. ~InTurn(pipe[j], asked')  BY <4>1, <5>1
          <5> QED BY <2>1, <3>1, <4>1, <5>1, <5>2 DEF InTurn
        <4>2. CASE j = n + 1
          <5>1. pipe'[j] = l /\ ~InTurn(l, asked')  BY <3>1, <4>2
          <5> QED BY <3>1, <4>2, <5>1 DEF InTurn
        <4> QED BY <2>1, <4>1, <4>2
      <3> QED BY <3>1, <3>2
    <2>2. CASE i = n + 1
      BY <1>2, <1>9, <2>2
    <2> QED BY <1>3, <2>1, <2>2
  <1> QED BY <1>6, <1>7, <1>8, <1>9 DEF LinesInOrder, Response, OwnItem, OwnEnd, InTurn

\* A line that is not an item of the turn leaves the items as they are.
LEMMA WriteItems ==
  ASSUME CodexIInv, NEW n \in Nat, n = Len(pipe),
         Len(pipe') = n + 1, \A i \in 1..n : pipe'[i] = pipe[i], ~OwnItem(pipe'[n + 1]),
         client' = client, child'.reported = child.reported,
         child'.items \in Nat, child.items <= child'.items
  PROVE  ItemsAscend' /\ RestIsInPipe'
  <1>1. \A i \in 1..Len(pipe') : OwnItem(pipe'[i]) => i \in 1..n /\ OwnItem(pipe[i])
    OBVIOUS
  <1>2. \A i \in 1..n : i \in 1..Len(pipe')  OBVIOUS
  <1>3. \A i \in 1..Len(child.reported) : child.reported[i] \in Nat
    BY CodexFields, ElementOfSeq DEF CodexIInv
  <1>4. ItemsAscend'
    <2>1. \A i \in 1..Len(child.reported) : child.reported[i] <= child'.items
      BY <1>3, CodexFields, TurnBound DEF CodexIInv, ItemsAscend
    <2> QED BY <1>1, <2>1 DEF CodexIInv, ItemsAscend, OwnItem
  <1>5. RestIsInPipe'
    <2> DEFINE m == Len(client.collected)
    <2>1. m <= Len(child'.reported)
          /\ \A k \in 1..m : client'.collected[k] = child'.reported[k]
      BY DEF CodexIInv, RestIsInPipe
    <2>2. ASSUME client.stage # "ended", NEW k \in (m + 1)..Len(child.reported)
          PROVE  \E i \in 1..Len(pipe') :
                   OwnItem(pipe'[i]) /\ pipe'[i].value = child.reported[k]
      <3>1. PICK i \in 1..n : OwnItem(pipe[i]) /\ pipe[i].value = child.reported[k]
        BY <2>2 DEF CodexIInv, RestIsInPipe
      <3> QED BY <1>2, <3>1
    <2>3. ASSUME client.stage # "ended", NEW i \in 1..Len(pipe'), OwnItem(pipe'[i])
          PROVE  \E k \in (m + 1)..Len(child.reported) : pipe'[i].value = child.reported[k]
      <3>1. i \in 1..n /\ OwnItem(pipe[i]) /\ pipe'[i] = pipe[i]  BY <1>1, <2>3
      <3> QED BY <2>3, <3>1 DEF CodexIInv, RestIsInPipe
    <2> QED BY <2>1, <2>2, <2>3 DEF RestIsInPipe, OwnItem
  <1> QED BY <1>4, <1>5

\* The steps of both sides agree as long as neither moves.
LEMMA StepsKept ==
  ASSUME CodexIInv, client' = client, child'.served = child.served,
         child'.open => child.open, child'.runs => child.runs,
         child.open \/ child'.reported = child.reported
  PROVE  StepsAgree'
  <1>1. Requesting' = Requesting /\ InTheTurn' = InTheTurn  BY DEF Requesting, InTheTurn
  <1>2. /\ Requesting => child.served \in {client.step - 1, client.step}
                         /\ client.collected = <<>>
        /\ InTheTurn => child.served = Codex!TurnStart
        /\ client.stage = "ended" => ~child.runs
        /\ client.stage = "ended" <=> client.outcome # "none"
        /\ child.open => child.served = Codex!TurnStart
        /\ child.served < Codex!TurnStart => child.reported = <<>>
    BY DEF CodexIInv, StepsAgree
  <1>3. child.served < Codex!TurnStart => ~child.open  BY <1>2 DEF Codex!TurnStart
  <1> QED BY <1>1, <1>2, <1>3 DEF StepsAgree

\* What has not ended does not complete.
LEMMA NotYetShared ==
  ASSUME client'.outcome = "none", \A k \in 1..Len(asked') : Len(asked'[k].answers) <= 1,
         asked' \in Seq(Questions)
  PROVE  Codex!TurnIsShared'
  <1>1. DOMAIN asked' = 1..Len(asked')  BY LenProperties
  <1> QED BY <1>1 DEF Codex!TurnIsShared, Codex!ResultIsTheTurn, Codex!RequestsAreAnswered

\* The server reports an item, of the turn while it is open.
LEMMA ReportItemInv ==
  ASSUME CodexIInv, Codex!ReportItem
  PROVE  CodexIInv'
  <1>1. PICK turn \in {"own", "other", "none"} :
          /\ turn # "other" => child.open
          /\ Codex!Write(Codex!Line("item", turn, child.items + 1))
          /\ child' = [child EXCEPT !.items = @ + 1,
                         !.reported = IF turn = "other" THEN @ ELSE Append(@, child.items + 1)]
    BY DEF Codex!ReportItem
  <1> DEFINE l == Codex!Line("item", turn, child.items + 1)
             n == Len(pipe)
             v == child.items + 1
             p == IF turn = "other" THEN child.reported ELSE Append(child.reported, v)
  <1>2. UNCHANGED <<client, asked>> /\ child.items < MaxItems /\ child.runs
        /\ pipe' = Append(pipe, l)
    BY <1>1 DEF Codex!ReportItem, Codex!NewItem, Codex!Write
  <1>3. child.items \in 0..MaxItems /\ v \in 0..MaxItems /\ v \in Nat /\ child \in Children
        /\ child.reported \in Seq(Nat) /\ Len(child.reported) \in Nat
    BY <1>2, CodexFields, TurnBound DEF CodexIInv, CodexShapes
  <1>4. l \in Lines /\ l.kind = "item" /\ l.turn = turn /\ l.value = v
    BY <1>3 DEF Codex!Line, Lines
  <1>5. p \in Seq(Nat)  BY <1>3, AppendProperties
  <1>6. child' = [child EXCEPT !.items = v, !.reported = p]  BY <1>1
  <1> HIDE DEF l, v, p
  <1>7. /\ child'.served = child.served /\ child'.open = child.open /\ child'.runs = child.runs
        /\ child'.items = v /\ child'.reported = p /\ child' \in Children
    BY <1>3, <1>5, <1>6 DEF Children
  <1>8. /\ pipe' \in Seq(Lines) /\ n \in Nat /\ Len(pipe') = n + 1
        /\ \A i \in 1..n : pipe'[i] = pipe[i]
        /\ pipe'[n + 1] = l
    BY <1>2, <1>4, Written DEF CodexIInv, CodexShapes
  <1>9. CodexShapes'  BY <1>2, <1>7, <1>8 DEF CodexIInv, CodexShapes
  <1>10. client.stage # "ended"  BY <1>2 DEF CodexIInv, StepsAgree
  <1>11. p = child.reported \/ child.open  BY <1>1 DEF p
  <1>12. StepsAgree'
    BY <1>2, <1>7, <1>11, StepsKept
  <1>13. LinesInOrder'
    <2>1. OwnItem(l) => child.open  BY <1>1, <1>4 DEF OwnItem
    <2>2. ~InTurn(l, asked') /\ ~OwnEnd(l) /\ l.kind # "response"
      BY <1>4 DEF InTurn, OwnEnd
    <2> QED BY <1>2, <1>7, <1>8, <2>1, <2>2, WriteInOrder
  <1>14. QuestionsAreTracked'  BY <1>2, <1>4, <1>8, QuietWrite DEF CodexIInv
  <1>15. Codex!TurnIsShared'
    <2>1. client'.outcome = "none"  BY <1>2, <1>10 DEF CodexIInv, StepsAgree
    <2> QED BY <1>9, <1>14, <2>1, NotYetShared DEF CodexShapes, QuestionsAreTracked
  <1>16. ItemsAscend' /\ RestIsInPipe'
    <2>1. CASE turn = "other"
      <3>1. ~OwnItem(pipe'[n + 1])  BY <1>4, <1>8, <2>1 DEF OwnItem
      <3>2. child'.reported = child.reported  BY <1>7, <2>1 DEF p
      <3>3. child'.items \in Nat /\ child.items <= child'.items  BY <1>3, <1>7 DEF v
      <3> QED BY <1>2, <1>8, <3>1, <3>2, <3>3, WriteItems
    <2>2. CASE turn # "other"
      <3> DEFINE m == Len(child.reported)
      <3>1. Len(child'.reported) = m + 1 /\ child'.reported[m + 1] = v
            /\ \A k \in 1..m : child'.reported[k] = child.reported[k]
        BY <1>3, <1>7, <2>2, AppendProperties DEF p
      <3>2. \A k \in 1..m : child.reported[k] \in Nat /\ child.reported[k] < v
        <4>1. \A k \in 1..m : child.reported[k] \in Nat  BY <1>3, ElementOfSeq
        <4>2. \A k \in 1..m : child.reported[k] <= child.items  BY DEF CodexIInv, ItemsAscend
        <4> QED BY <1>3, <4>1, <4>2 DEF v
      <3>3. \A i \in 1..n : OwnItem(pipe[i]) => pipe[i].value < v
        <4> SUFFICES ASSUME NEW i \in 1..n, OwnItem(pipe[i]) PROVE pipe[i].value < v
          OBVIOUS
        <4>1. PICK k \in (Len(client.collected) + 1)..m : pipe[i].value = child.reported[k]
          BY <1>10 DEF CodexIInv, RestIsInPipe
        <4>2. k \in 1..m  BY <1>3, CodexFields DEF CodexIInv
        <4> QED BY <3>2, <4>1, <4>2
      <3>4. OwnItem(l) /\ pipe'[n + 1].value = v  BY <1>4, <1>8, <2>2 DEF OwnItem
      <3>5. ItemsAscend'
        <4>1. \A i \in 1..(m + 1) : child'.reported[i] <= v
          <5> SUFFICES ASSUME NEW i \in 1..(m + 1) PROVE child'.reported[i] <= v  OBVIOUS
          <5>1. CASE i = m + 1  BY <1>3, <3>1, <5>1
          <5>2. CASE i \in 1..m
            <6>1. child.reported[i] \in Nat /\ child.reported[i] < v  BY <3>2, <5>2
            <6> QED BY <1>3, <3>1, <5>2, <6>1
          <5> QED BY <1>3, <5>1, <5>2
        <4>2. \A i, j \in 1..(m + 1) : i < j => child'.reported[i] < child'.reported[j]
          <5> SUFFICES ASSUME NEW i \in 1..(m + 1), NEW j \in 1..(m + 1), i < j
                       PROVE  child'.reported[i] < child'.reported[j]
            OBVIOUS
          <5>1. i \in 1..m  BY <1>3
          <5>2. CASE j = m + 1  BY <3>1, <3>2, <5>1, <5>2
          <5>3. CASE j \in 1..m  BY <3>1, <5>1, <5>3 DEF CodexIInv, ItemsAscend
          <5> QED BY <1>3, <5>2, <5>3
        <4>3. \A i, j \in 1..(n + 1) :
                OwnItem(pipe'[i]) /\ OwnItem(pipe'[j]) /\ i < j => pipe'[i].value < pipe'[j].value
          <5> SUFFICES ASSUME NEW i \in 1..(n + 1), NEW j \in 1..(n + 1), i < j,
                              OwnItem(pipe'[i]), OwnItem(pipe'[j])
                       PROVE  pipe'[i].value < pipe'[j].value
            OBVIOUS
          <5>1. i \in 1..n /\ pipe'[i] = pipe[i]  BY <1>8
          <5>2. CASE j = n + 1  BY <3>3, <3>4, <5>1, <5>2
          <5>3. CASE j \in 1..n  BY <1>8, <5>1, <5>3 DEF CodexIInv, ItemsAscend
          <5> QED BY <1>8, <5>2, <5>3
        <4> QED BY <1>7, <1>8, <3>1, <4>1, <4>2, <4>3 DEF ItemsAscend, OwnItem
      <3>6. RestIsInPipe'
        <4> DEFINE c == Len(client.collected)
        <4>1. c <= m /\ c \in Nat /\ \A k \in 1..c : client.collected[k] = child.reported[k]
          BY CodexFields DEF CodexIInv, RestIsInPipe
        <4>2. \A k \in 1..c : client'.collected[k] = child'.reported[k]
          <5>1. \A k \in 1..c : k \in 1..m  BY <1>3, <4>1
          <5> QED BY <1>2, <3>1, <4>1, <5>1
        <4>3. ASSUME NEW k \in (c + 1)..(m + 1)
              PROVE  \E i \in 1..Len(pipe') :
                       OwnItem(pipe'[i]) /\ pipe'[i].value = child'.reported[k]
          <5>1. CASE k = m + 1
            BY <1>8, <3>1, <3>4, <5>1
          <5>2. CASE k \in (c + 1)..m
            <6>1. PICK i \in 1..n : OwnItem(pipe[i]) /\ pipe[i].value = child.reported[k]
              BY <1>10, <5>2 DEF CodexIInv, RestIsInPipe
            <6>2. k \in 1..m /\ i \in 1..Len(pipe')  BY <1>3, <1>8, <4>1, <5>2
            <6> QED BY <1>8, <3>1, <6>1, <6>2
          <5>3. k = m + 1 \/ k \in (c + 1)..m  BY <1>3, <4>1
          <5> QED BY <5>1, <5>2, <5>3
        <4>4. ASSUME NEW i \in 1..Len(pipe'), OwnItem(pipe'[i])
              PROVE  \E k \in (c + 1)..(m + 1) : pipe'[i].value = child'.reported[k]
          <5>1. CASE i = n + 1
            <6>1. m + 1 \in (c + 1)..(m + 1)  BY <1>3, <4>1
            <6> QED BY <3>1, <3>4, <5>1, <6>1
          <5>2. CASE i \in 1..n
            <6>1. PICK k \in (c + 1)..m : pipe[i].value = child.reported[k]
              BY <1>8, <1>10, <4>4, <5>2 DEF CodexIInv, RestIsInPipe
            <6>2. k \in 1..m /\ k \in (c + 1)..(m + 1)  BY <1>3, <4>1
            <6> QED BY <1>8, <3>1, <5>2, <6>1, <6>2
          <5> QED BY <1>8, <5>1, <5>2
        <4> QED BY <1>2, <1>3, <3>1, <4>1, <4>2, <4>3, <4>4 DEF RestIsInPipe, OwnItem
      <3> QED BY <3>5, <3>6
    <2> QED BY <2>1, <2>2
  <1> QED BY <1>9, <1>12, <1>13, <1>14, <1>15, <1>16 DEF CodexIInv

\* A request of the server is the last line and waits for its answer.
LEMMA AskClientInv ==
  ASSUME CodexIInv, Codex!AskClient
  PROVE  CodexIInv'
  <1> DEFINE n == Len(pipe)
             a == Len(asked)
             l == Codex!Line("request", "none", a + 1)
             o == child.open
  <1>1. PICK type \in {"approval", "other"} :
          /\ Codex!Write(l)
          /\ asked' = Append(asked, [type |-> type, inTurn |-> o, answers |-> <<>>])
    BY DEF Codex!AskClient
  <1> DEFINE q == [type |-> type, inTurn |-> o, answers |-> <<>>]
  <1>2. child' = [child EXCEPT !.items = child.items + 1] /\ client' = client
        /\ child.items < MaxItems /\ child.runs /\ pipe' = Append(pipe, l)
        /\ asked' = Append(asked, q)
    BY <1>1 DEF Codex!AskClient, Codex!NewItem, Codex!Write
  <1>3. child.items \in 0..MaxItems /\ child.items + 1 \in 0..MaxItems /\ child \in Children
        /\ o \in BOOLEAN /\ child.items + 1 \in Nat
    BY <1>2, CodexFields, TurnBound DEF CodexIInv, CodexShapes
  <1>4. asked \in Seq(Questions) /\ a \in Nat  BY LenProperties DEF CodexIInv, CodexShapes
  <1>5. l \in Lines /\ l.kind = "request" /\ l.value = a + 1
    BY <1>4 DEF Codex!Line, Lines
  <1>6. q \in Questions /\ q.answers = <<>> /\ q.inTurn = o  BY <1>3 DEF Questions
  <1> HIDE DEF l, q
  <1>7. /\ child'.served = child.served /\ child'.open = child.open /\ child'.runs = child.runs
        /\ child'.items = child.items + 1 /\ child'.reported = child.reported
        /\ child' \in Children
    BY <1>2, <1>3 DEF Children
  <1>8. /\ pipe' \in Seq(Lines) /\ n \in Nat /\ Len(pipe') = n + 1
        /\ \A i \in 1..n : pipe'[i] = pipe[i]
        /\ pipe'[n + 1] = l
    BY <1>2, <1>5, Written DEF CodexIInv, CodexShapes
  <1>9. /\ asked' \in Seq(Questions) /\ Len(asked') = a + 1
        /\ \A k \in 1..a : asked'[k] = asked[k]
        /\ asked'[a + 1] = q
    BY <1>2, <1>4, <1>6, AppendProperties
  <1>10. CodexShapes'  BY <1>2, <1>7, <1>8, <1>9 DEF CodexIInv, CodexShapes
  <1>11. client.stage # "ended"  BY <1>2 DEF CodexIInv, StepsAgree
  <1>12. StepsAgree'  BY <1>2, <1>7, StepsKept
  <1>13. \A i \in 1..n : pipe[i].kind = "request" => pipe[i].value \in 1..a
    BY DEF CodexIInv, QuestionsAreTracked
  <1>14. LinesInOrder'
    <2>1. \A i \in 1..n : InTurn(pipe[i], asked') => InTurn(pipe[i], asked)
      BY <1>9, <1>13 DEF InTurn
    <2>2. InTurn(l, asked') => child.open  BY <1>5, <1>6, <1>9 DEF InTurn
    <2>3. ~OwnItem(l) /\ ~OwnEnd(l) /\ l.kind # "response"  BY <1>5 DEF OwnItem, OwnEnd
    <2> QED BY <1>2, <1>7, <1>8, <2>1, <2>2, <2>3, WriteInOrder
  <1>15. ItemsAscend' /\ RestIsInPipe'
    <2>1. ~OwnItem(pipe'[n + 1])  BY <1>5, <1>8 DEF OwnItem
    <2>2. child'.items \in Nat /\ child.items <= child'.items  BY <1>3, <1>7
    <2> QED BY <1>2, <1>7, <1>8, <2>1, <2>2, WriteItems
  <1>16. QuestionsAreTracked'
    <2>1. Codex!Deciding' = Codex!Deciding  BY <1>2 DEF Codex!Deciding
    <2>2. ASSUME NEW i \in 1..(n + 1), pipe'[i].kind = "request"
          PROVE  /\ pipe'[i].value \in 1..(a + 1)
                 /\ asked'[pipe'[i].value].answers = <<>>
                 /\ Codex!Deciding => pipe'[i].value # client.request
                 /\ \A j \in 1..(n + 1) :
                      pipe'[j].kind = "request" /\ pipe'[j].value = pipe'[i].value => j = i
      <3>1. CASE i \in 1..n
        <4>1. pipe'[i] = pipe[i] /\ pipe[i].value \in 1..a  BY <1>8, <1>13, <2>2, <3>1
        <4>2. asked'[pipe[i].value] = asked[pipe[i].value]  BY <1>9, <4>1
        <4>3. /\ asked[pipe[i].value].answers = <<>>
              /\ Codex!Deciding => pipe[i].value # client.request
              /\ \A j \in 1..n :
                   pipe[j].kind = "request" /\ pipe[j].value = pipe[i].value => j = i
          BY <2>2, <3>1, <4>1 DEF CodexIInv, QuestionsAreTracked
        <4>4. pipe'[n + 1].value = a + 1  BY <1>5, <1>8
        <4>5. \A j \in 1..(n + 1) :
                pipe'[j].kind = "request" /\ pipe'[j].value = pipe'[i].value => j = i
          <5> SUFFICES ASSUME NEW j \in 1..(n + 1), pipe'[j].kind = "request",
                              pipe'[j].value = pipe'[i].value
                       PROVE  j = i
            OBVIOUS
          <5>1. j # n + 1  BY <1>4, <4>1, <4>4
          <5>2. j \in 1..n  BY <1>8, <5>1
          <5> QED BY <1>8, <4>1, <4>3, <5>2
        <4> QED BY <1>4, <4>1, <4>2, <4>3, <4>5
      <3>2. CASE i = n + 1
        <4>1. pipe'[i].value = a + 1  BY <1>5, <1>8, <3>2
        <4>2. Codex!Deciding => client.request \in 1..a  BY DEF CodexIInv, QuestionsAreTracked
        <4>3. \A j \in 1..n : pipe'[j].kind = "request" => pipe'[j].value \in 1..a
          BY <1>8, <1>13
        <4>4. \A j \in 1..(n + 1) : j \in 1..n \/ j = i  BY <1>8, <3>2
        <4>5. a + 1 \in 1..(a + 1) /\ a + 1 \notin 1..a  BY <1>4
        <4> QED BY <1>6, <1>9, <4>1, <4>2, <4>3, <4>4, <4>5
      <3> QED BY <1>8, <3>1, <3>2
    <2>3. Codex!Deciding => /\ client.request \in 1..(a + 1)
                      /\ asked'[client.request].type = "approval"
                      /\ asked'[client.request].answers = <<>>
      <3> SUFFICES ASSUME Codex!Deciding
                   PROVE  /\ client.request \in 1..(a + 1)
                          /\ asked'[client.request].type = "approval"
                          /\ asked'[client.request].answers = <<>>
        OBVIOUS
      <3>1. client.request \in 1..a /\ asked[client.request].type = "approval"
            /\ asked[client.request].answers = <<>>
        BY DEF CodexIInv, QuestionsAreTracked
      <3> QED BY <1>4, <1>9, <3>1
    <2>4. ASSUME NEW k \in 1..(a + 1)
          PROVE  /\ Len(asked'[k].answers) <= 1
                 /\ asked'[k].answers = <<>> =>
                      \/ client.stage = "ended" \/ (Codex!Deciding /\ client.request = k)
                      \/ \E i \in 1..(n + 1) : pipe'[i].kind = "request" /\ pipe'[i].value = k
                 /\ asked'[k].answers # <<>> /\ asked'[k].type = "approval" =>
                      asked'[k].answers[1] \in {"accept", "decline"}
      <3>1. CASE k \in 1..a
        <4>1. asked'[k] = asked[k]  BY <1>9, <3>1
        <4>2. \A i \in 1..n : i \in 1..(n + 1) /\ pipe'[i] = pipe[i]  BY <1>8
        <4> QED BY <3>1, <4>1, <4>2 DEF CodexIInv, QuestionsAreTracked
      <3>2. CASE k = a + 1
        <4>1. asked'[k].answers = <<>>  BY <1>6, <1>9, <3>2
        <4>2. n + 1 \in 1..(n + 1) /\ pipe'[n + 1].kind = "request" /\ pipe'[n + 1].value = k
          BY <1>5, <1>8, <3>2
        <4> QED BY <4>1, <4>2
      <3> QED BY <1>4, <3>1, <3>2
    <2> QED BY SMTT(60), <1>2, <1>8, <1>9, <2>1, <2>2, <2>3, <2>4 DEF QuestionsAreTracked
  <1>17. Codex!TurnIsShared'
    <2>1. client'.outcome = "none"  BY <1>2, <1>11 DEF CodexIInv, StepsAgree
    <2> QED BY <1>10, <1>16, <2>1, NotYetShared DEF CodexShapes, QuestionsAreTracked
  <1> QED BY <1>10, <1>12, <1>14, <1>15, <1>16, <1>17 DEF CodexIInv

\* The server reports the end of the turn, or of another one.
LEMMA CompleteTurnInv ==
  ASSUME CodexIInv, Codex!CompleteTurn
  PROVE  CodexIInv'
  <1> DEFINE n == Len(pipe)
  <1>1. PICK turn \in {"own", "other"}, outcome \in {"completed", "failed"},
             open \in BOOLEAN, items \in 0..MaxItems :
          /\ Codex!Write(Codex!Line("end", turn, outcome))
          /\ child' = [child EXCEPT !.open = open, !.items = items]
          /\ turn = "own" => child.open /\ open = FALSE
          /\ open => child.open
          /\ child.items <= items
    <2>1. child.items \in 0..MaxItems /\ child.open \in BOOLEAN /\ child \in Children
      BY CodexFields DEF CodexIInv, CodexShapes
    <2>2. CASE child.open /\ (\E outcome \in {"completed", "failed"} : Codex!Write(Codex!Line("end", "own", outcome)))
               /\ child' = [child EXCEPT !.open = FALSE]
      <3> DEFINE b == FALSE
      <3>1. b \in BOOLEAN /\ b = FALSE /\ child' = [child EXCEPT !.open = b]  BY <2>2
      <3> HIDE DEF b
      <3>2. child' = [child EXCEPT !.open = b, !.items = child.items]
        BY <2>1, <3>1 DEF Children
      <3>3. child.items <= child.items  BY <2>1, TurnBound
      <3> QED BY <2>1, <2>2, <3>1, <3>2, <3>3
    <2>3. CASE /\ Codex!NewItem /\ Codex!Write(Codex!Line("end", "other", "completed"))
               /\ child' = [child EXCEPT !.items = @ + 1]
      <3> DEFINE b == child.open
      <3>1. b \in BOOLEAN /\ child' = [child EXCEPT !.open = b, !.items = child.items + 1]
        BY <2>1, <2>3 DEF Children
      <3>2. child.items + 1 \in 0..MaxItems /\ child.items <= child.items + 1
        BY <2>1, <2>3, TurnBound DEF Codex!NewItem
      <3> QED BY <2>3, <3>1, <3>2
    <2> QED BY <2>2, <2>3 DEF Codex!CompleteTurn
  <1> DEFINE l == Codex!Line("end", turn, outcome)
  <1>2. UNCHANGED <<client, asked>> /\ child.runs /\ pipe' = Append(pipe, l)
    BY <1>1 DEF Codex!CompleteTurn, Codex!Write
  <1>3. l \in Lines /\ l.kind = "end" /\ l.turn = turn  BY DEF Codex!Line, Lines
  <1> HIDE DEF l
  <1>4. child \in Children  BY DEF CodexIInv, CodexShapes
  <1>5. /\ child'.served = child.served /\ child'.open = open /\ child'.runs = child.runs
        /\ child'.items = items /\ child'.reported = child.reported /\ child' \in Children
    <2>1. child' = [runs |-> child.runs, served |-> child.served, open |-> open,
                    items |-> items, reported |-> child.reported]
      BY <1>1, <1>4 DEF Children
    <2>2. child.runs \in BOOLEAN /\ child.served \in 0..Codex!TurnStart /\ child.reported \in Seq(Nat)
      BY <1>4 DEF Children
    <2> QED BY <2>1, <2>2 DEF Children
  <1>6. /\ pipe' \in Seq(Lines) /\ n \in Nat /\ Len(pipe') = n + 1
        /\ \A i \in 1..n : pipe'[i] = pipe[i]
        /\ pipe'[n + 1] = l
    BY <1>2, <1>3, Written DEF CodexIInv, CodexShapes
  <1>7. CodexShapes'  BY <1>2, <1>5, <1>6 DEF CodexIInv, CodexShapes
  <1>8. client.stage # "ended"  BY <1>2 DEF CodexIInv, StepsAgree
  <1>9. StepsAgree'  BY <1>1, <1>2, <1>5, StepsKept
  <1>10. LinesInOrder'
    <2>1. ~OwnItem(l) /\ ~InTurn(l, asked') /\ l.kind # "response"
      BY <1>3 DEF OwnItem, InTurn
    <2>2. OwnEnd(l) => child.open /\ ~child'.open  BY <1>1, <1>3, <1>5 DEF OwnEnd
    <2>3. child'.open => child.open  BY <1>1, <1>5
    <2> QED BY <1>2, <1>5, <1>6, <2>1, <2>2, <2>3, WriteInOrder
  <1>11. ItemsAscend' /\ RestIsInPipe'
    <2>1. ~OwnItem(pipe'[n + 1])  BY <1>3, <1>6 DEF OwnItem
    <2>2. child'.items \in Nat /\ child.items <= child'.items
      BY <1>1, <1>5, TurnBound
    <2> QED BY <1>2, <1>5, <1>6, <2>1, <2>2, WriteItems
  <1>12. QuestionsAreTracked'  BY <1>2, <1>3, <1>6, QuietWrite DEF CodexIInv
  <1>13. Codex!TurnIsShared'
    <2>1. client'.outcome = "none"  BY <1>2, <1>8 DEF CodexIInv, StepsAgree
    <2> QED BY <1>7, <1>12, <2>1, NotYetShared DEF CodexShapes, QuestionsAreTracked
  <1> QED BY <1>7, <1>9, <1>10, <1>11, <1>12, <1>13 DEF CodexIInv

\* The server exits; what it has written stays.
LEMMA ExitInv ==
  ASSUME CodexIInv, Codex!Exit
  PROVE  CodexIInv'
  <1> DEFINE b == FALSE
  <1>1. UNCHANGED <<pipe, client, asked>> /\ child' = [child EXCEPT !.runs = b, !.open = b]
        /\ b \in BOOLEAN /\ ~b
    BY DEF Codex!Exit
  <1> HIDE DEF b
  <1>2. child \in Children  BY DEF CodexIInv, CodexShapes
  <1>3. child' = [runs |-> b, served |-> child.served, open |-> b,
                  items |-> child.items, reported |-> child.reported]
    BY <1>1, <1>2 DEF Children
  <1>4. child.served \in 0..Codex!TurnStart /\ child.items \in 0..MaxItems
        /\ child.reported \in Seq(Nat)
    BY <1>2 DEF Children
  <1>5. /\ child'.served = child.served /\ ~child'.open /\ ~child'.runs
        /\ child'.items = child.items /\ child'.reported = child.reported
        /\ child' \in Children
    BY <1>1, <1>3, <1>4 DEF Children
  <1>6. CodexShapes'  BY <1>1, <1>5 DEF CodexIInv, CodexShapes
  <1>7. StepsAgree'  BY <1>1, <1>5, StepsKept
  <1>8. LinesInOrder'
    BY <1>1, <1>5 DEF CodexIInv, LinesInOrder, Requesting, InTheTurn
  <1>9. ItemsAscend' /\ RestIsInPipe'
    BY <1>1, <1>5 DEF CodexIInv, ItemsAscend, RestIsInPipe
  <1>10. QuestionsAreTracked'
    BY <1>1 DEF CodexIInv, QuestionsAreTracked, Codex!Deciding
  <1>11. Codex!TurnIsShared'
    BY <1>1, <1>5 DEF CodexIInv, Codex!TurnIsShared, Codex!ResultIsTheTurn,
         Codex!RequestsAreAnswered
  <1> QED BY <1>6, <1>7, <1>8, <1>9, <1>10, <1>11 DEF CodexIInv

\* Reading a line keeps the order of the others.
LEMMA ReadInOrder ==
  ASSUME CodexIInv, pipe # <<>>, pipe' = Tail(pipe),
         child'.served = child.served, child'.open => child.open,
         Requesting' => Requesting /\ client'.step = client.step /\ ~Response(pipe[1]),
         InTheTurn' => \A i \in 2..Len(pipe) : ~Response(pipe[i]),
         \A i \in 1..Len(pipe) : InTurn(pipe[i], asked') => InTurn(pipe[i], asked)
  PROVE  LinesInOrder'
  <1> DEFINE n == Len(pipe)
  <1>1. /\ n \in Nat /\ n >= 1 /\ Len(pipe') = n - 1
        /\ \A i \in 1..(n - 1) : pipe'[i] = pipe[i + 1]
    BY WasRead DEF CodexIInv, CodexShapes
  <1>2. \A j \in 1..n : j # 1 => j - 1 \in 1..(n - 1) /\ pipe'[j - 1] = pipe[j]
    <2> SUFFICES ASSUME NEW j \in 1..n, j # 1
                 PROVE  j - 1 \in 1..(n - 1) /\ pipe'[j - 1] = pipe[j]
      OBVIOUS
    <2>1. j - 1 \in 1..(n - 1) /\ (j - 1) + 1 = j  BY <1>1
    <2> QED BY <1>1, <2>1
  <1>3. ASSUME Requesting', child'.served = client'.step
        PROVE  \E i \in 1..(n - 1) : Response(pipe'[i])
    <2>1. PICK j \in 1..n : Response(pipe[j])  BY <1>3 DEF CodexIInv, LinesInOrder
    <2>2. j # 1  BY <1>3, <2>1
    <2> QED BY <1>2, <2>1, <2>2
  <1>4. ASSUME NEW i \in 1..(n - 1)
        PROVE  i + 1 \in 2..n /\ i + 1 \in 1..n /\ pipe'[i] = pipe[i + 1]
    BY <1>1
  <1>5. ASSUME NEW i \in 1..(n - 1), Response(pipe'[i])
        PROVE  /\ InTheTurn' => FALSE
               /\ Requesting' => child'.served = client'.step
               /\ \A j \in 1..(n - 1) : Response(pipe'[j]) => j = i
    <2>1. Response(pipe[i + 1])  BY <1>4, <1>5
    <2>2. \A j \in 1..(n - 1) : Response(pipe'[j]) => j + 1 = i + 1
      BY <1>4, <2>1 DEF CodexIInv, LinesInOrder
    <2>3. \A j \in 1..(n - 1) : j + 1 = i + 1 => j = i  BY <1>1
    <2> QED BY <1>4, <2>1, <2>2, <2>3 DEF CodexIInv, LinesInOrder
  <1>6. ASSUME NEW i \in 1..(n - 1), OwnItem(pipe'[i])
        PROVE  /\ child'.served = Codex!TurnStart
               /\ Requesting' => \E j \in 1..(i - 1) : Response(pipe'[j])
    <2>1. OwnItem(pipe[i + 1]) /\ (i + 1) - 1 = i  BY <1>1, <1>4, <1>6
    <2>2. child.served = Codex!TurnStart  BY <1>4, <2>1 DEF CodexIInv, LinesInOrder
    <2>3. ASSUME Requesting' PROVE \E j \in 1..(i - 1) : Response(pipe'[j])
      <3>1. PICK j \in 1..i : Response(pipe[j])
        BY <1>4, <2>1, <2>3 DEF CodexIInv, LinesInOrder
      <3>2. j # 1  BY <2>3, <3>1
      <3>3. j \in 1..n /\ j - 1 \in 1..(i - 1)  BY <1>1, <3>2
      <3> QED BY <1>2, <3>1, <3>2, <3>3
    <2> QED BY <2>2, <2>3
  <1>7. ASSUME NEW i \in 1..(n - 1), OwnEnd(pipe'[i])
        PROVE  /\ child'.served = Codex!TurnStart /\ ~child'.open
               /\ \A j \in (i + 1)..(n - 1) : ~OwnItem(pipe'[j]) /\ ~InTurn(pipe'[j], asked')
    <2>1. OwnEnd(pipe[i + 1])  BY <1>4, <1>7
    <2>2. child.served = Codex!TurnStart /\ ~child.open
          /\ \A j \in ((i + 1) + 1)..n : ~OwnItem(pipe[j]) /\ ~InTurn(pipe[j], asked)
      BY <1>4, <2>1 DEF CodexIInv, LinesInOrder
    <2>3. ASSUME NEW j \in (i + 1)..(n - 1)
          PROVE  ~OwnItem(pipe'[j]) /\ ~InTurn(pipe'[j], asked')
      <3>1. j \in 1..(n - 1) /\ j + 1 \in ((i + 1) + 1)..n /\ j + 1 \in 1..n  BY <1>1
      <3>2. pipe'[j] = pipe[j + 1]  BY <1>1, <3>1
      <3> QED BY <2>2, <3>1, <3>2
    <2> QED BY <2>2, <2>3
  <1> QED BY <1>1, <1>3, <1>5, <1>6, <1>7 DEF LinesInOrder, Response, OwnItem, OwnEnd, InTurn

\* Items keep their order when a line is read.
LEMMA ReadItems ==
  ASSUME CodexIInv, pipe # <<>>, pipe' = Tail(pipe),
         child'.reported = child.reported, child'.items = child.items
  PROVE  /\ ItemsAscend'
         /\ (/\ client'.collected = client.collected
             /\ (~OwnItem(pipe[1]) /\ client.stage # "ended") \/ client'.stage = "ended")
            => RestIsInPipe'
  <1> DEFINE n == Len(pipe)
             m == Len(client.collected)
  <1>1. /\ n \in Nat /\ n >= 1 /\ Len(pipe') = n - 1
        /\ \A i \in 1..(n - 1) : pipe'[i] = pipe[i + 1]
    BY WasRead DEF CodexIInv, CodexShapes
  <1>2. \A i, j \in 1..(n - 1) :
          OwnItem(pipe'[i]) /\ OwnItem(pipe'[j]) /\ i < j => pipe'[i].value < pipe'[j].value
    <2> SUFFICES ASSUME NEW i \in 1..(n - 1), NEW j \in 1..(n - 1), i < j,
                        OwnItem(pipe'[i]), OwnItem(pipe'[j])
                 PROVE  pipe'[i].value < pipe'[j].value
      OBVIOUS
    <2>1. i + 1 \in 1..n /\ j + 1 \in 1..n /\ i + 1 < j + 1  BY <1>1
    <2>2. pipe'[i] = pipe[i + 1] /\ pipe'[j] = pipe[j + 1]  BY <1>1
    <2> QED BY <2>1, <2>2 DEF CodexIInv, ItemsAscend
  <1>3. ItemsAscend'
    BY <1>1, <1>2 DEF CodexIInv, ItemsAscend, OwnItem
  <1>4. ASSUME client'.collected = client.collected,
               (~OwnItem(pipe[1]) /\ client.stage # "ended") \/ client'.stage = "ended"
        PROVE  RestIsInPipe'
    <2>1. m <= Len(child.reported) /\ \A k \in 1..m : client.collected[k] = child.reported[k]
      BY DEF CodexIInv, RestIsInPipe
    <2>2. CASE client'.stage = "ended"
      BY <1>4, <2>1, <2>2 DEF RestIsInPipe
    <2>3. CASE ~OwnItem(pipe[1]) /\ client.stage # "ended"
      <3>1. ASSUME NEW k \in (m + 1)..Len(child.reported)
            PROVE  \E i \in 1..(n - 1) : OwnItem(pipe'[i]) /\ pipe'[i].value = child.reported[k]
        <4>1. PICK j \in 1..n : OwnItem(pipe[j]) /\ pipe[j].value = child.reported[k]
          BY <2>3 DEF CodexIInv, RestIsInPipe
        <4>2. j # 1  BY <2>3, <4>1
        <4>3. j - 1 \in 1..(n - 1) /\ (j - 1) + 1 = j  BY <1>1, <4>2
        <4>4. pipe'[j - 1] = pipe[j]  BY <1>1, <4>3
        <4> QED BY <4>1, <4>3, <4>4
      <3>2. ASSUME NEW i \in 1..(n - 1), OwnItem(pipe'[i])
            PROVE  \E k \in (m + 1)..Len(child.reported) : pipe'[i].value = child.reported[k]
        <4>1. i + 1 \in 1..n /\ pipe'[i] = pipe[i + 1]  BY <1>1
        <4> QED BY <2>3, <3>2, <4>1 DEF CodexIInv, RestIsInPipe
      <3>3. child'.reported = child.reported /\ client'.collected = client.collected
            /\ Len(pipe') = n - 1
        BY <1>1, <1>4
      <3>4. \A k \in (Len(client'.collected) + 1)..Len(child'.reported) : \E i \in 1..Len(pipe') :
              OwnItem(pipe'[i]) /\ pipe'[i].value = child'.reported[k]
        BY <3>1, <3>3
      <3>5. \A i \in 1..Len(pipe') : OwnItem(pipe'[i]) =>
              \E k \in (Len(client'.collected) + 1)..Len(child'.reported) :
                pipe'[i].value = child'.reported[k]
        BY <3>2, <3>3
      <3> QED BY <2>1, <3>3, <3>4, <3>5 DEF RestIsInPipe, OwnItem
    <2> QED BY <1>4, <2>2, <2>3
  <1> QED BY <1>3, <1>4

\* Reading anything but a request changes nothing about the requests.
LEMMA ReadQuiet ==
  ASSUME CodexIInv, Codex!Reading, pipe' = Tail(pipe), asked' = asked,
         Codex!FirstLine.kind # "request", client'.stage \in {"request", "turn", "ended"}
  PROVE  QuestionsAreTracked'
  <1> DEFINE n == Len(pipe)
  <1>1. /\ n \in Nat /\ n >= 1 /\ Len(pipe') = n - 1
        /\ \A i \in 1..(n - 1) : pipe'[i] = pipe[i + 1]
        /\ Codex!FirstLine = pipe[1]
    BY WasRead DEF CodexIInv, CodexShapes, Codex!Reading
  <1>2. ~Codex!Deciding /\ ~Codex!Deciding' /\ client.stage # "ended"
    BY DEF Codex!Deciding, Codex!Reading
  <1>3. ASSUME NEW i \in 1..(n - 1), pipe'[i].kind = "request"
        PROVE  /\ pipe'[i].value \in 1..Len(asked) /\ asked[pipe'[i].value].answers = <<>>
               /\ \A j \in 1..(n - 1) :
                    pipe'[j].kind = "request" /\ pipe'[j].value = pipe'[i].value => j = i
    <2>1. i + 1 \in 1..n /\ pipe'[i] = pipe[i + 1]  BY <1>1
    <2>2. ASSUME NEW j \in 1..(n - 1), pipe'[j].kind = "request",
                 pipe'[j].value = pipe'[i].value
          PROVE  j = i
      <3>1. j + 1 \in 1..n /\ pipe'[j] = pipe[j + 1]  BY <1>1
      <3>2. j + 1 = i + 1  BY <1>3, <2>1, <2>2, <3>1 DEF CodexIInv, QuestionsAreTracked
      <3> QED BY <1>1, <3>2
    <2> QED BY <1>3, <2>1, <2>2 DEF CodexIInv, QuestionsAreTracked
  <1>4. ASSUME NEW k \in 1..Len(asked), asked[k].answers = <<>>
        PROVE  \E i \in 1..(n - 1) : pipe'[i].kind = "request" /\ pipe'[i].value = k
    <2>1. PICK j \in 1..n : pipe[j].kind = "request" /\ pipe[j].value = k
      BY <1>2, <1>4 DEF CodexIInv, QuestionsAreTracked
    <2>2. j # 1  BY <1>1, <2>1
    <2>3. j - 1 \in 1..(n - 1) /\ (j - 1) + 1 = j  BY <1>1, <2>2
    <2>4. pipe'[j - 1] = pipe[j]  BY <1>1, <2>3
    <2> QED BY <2>1, <2>3, <2>4
  <1>5. \A k \in 1..Len(asked) :
          /\ Len(asked[k].answers) <= 1
          /\ asked[k].answers # <<>> /\ asked[k].type = "approval" =>
               asked[k].answers[1] \in {"accept", "decline"}
    BY DEF CodexIInv, QuestionsAreTracked
  <1> QED BY <1>1, <1>2, <1>3, <1>4, <1>5 DEF QuestionsAreTracked

\* The turn ends for the client: nothing is read or written any more.
LEMMA EndInv ==
  ASSUME CodexIInv, client.stage # "ended",
         NEW outcome \in {"completed", "failed"}, Codex!Ended(outcome),
         \/ pipe' = pipe
         \/ Codex!Reading /\ Codex!FirstLine.kind # "request" /\ pipe' = Tail(pipe),
         outcome = "completed" =>
           /\ client.collected = child.reported
           /\ \A k \in 1..Len(asked) : asked[k].inTurn => asked[k].answers # <<>>
  PROVE  CodexIInv'
  <1> DEFINE b == FALSE
  <1>1. client' = [client EXCEPT !.stage = "ended", !.outcome = outcome]
        /\ child' = [child EXCEPT !.runs = b, !.open = b] /\ asked' = asked
        /\ b \in BOOLEAN /\ ~b
    BY DEF Codex!Ended
  <1> HIDE DEF b
  <1>2. child \in Children /\ client \in Clients /\ pipe \in Seq(Lines) /\ asked \in Seq(Questions)
    BY DEF CodexIInv, CodexShapes
  <1>3. /\ child'.served = child.served /\ ~child'.open /\ ~child'.runs
        /\ child'.items = child.items /\ child'.reported = child.reported
        /\ child' \in Children
    <2>1. child' = [runs |-> b, served |-> child.served, open |-> b,
                    items |-> child.items, reported |-> child.reported]
      BY <1>1, <1>2 DEF Children
    <2>2. child.served \in 0..Codex!TurnStart /\ child.items \in 0..MaxItems
          /\ child.reported \in Seq(Nat)
      BY <1>2 DEF Children
    <2> QED BY <1>1, <2>1, <2>2 DEF Children
  <1>4. /\ client'.stage = "ended" /\ client'.outcome = outcome /\ client'.step = client.step
        /\ client'.collected = client.collected /\ client' \in Clients
    BY <1>1, <1>2 DEF Clients
  <1>5. pipe' \in Seq(Lines)
    BY <1>2, WasRead DEF Codex!Reading
  <1>6. CodexShapes'  BY <1>1, <1>2, <1>3, <1>4, <1>5 DEF CodexShapes
  <1>7. ~Requesting' /\ ~InTheTurn' /\ ~Codex!Deciding'
    BY <1>4 DEF Requesting, InTheTurn, Codex!Deciding
  <1>8. StepsAgree'
    <2>1. outcome # "none"  OBVIOUS
    <2>2. child'.served < Codex!TurnStart => child'.reported = <<>>
      BY <1>3 DEF CodexIInv, StepsAgree
    <2> QED BY <1>3, <1>4, <1>7, <2>1, <2>2 DEF StepsAgree
  <1>9. LinesInOrder'
    <2>1. CASE pipe' = pipe
      BY <1>1, <1>3, <1>7, <2>1 DEF CodexIInv, LinesInOrder
    <2>2. CASE Codex!Reading /\ pipe' = Tail(pipe)
      BY <1>1, <1>3, <1>7, <2>2, ReadInOrder DEF Codex!Reading
    <2> QED BY <2>1, <2>2
  <1>10. ItemsAscend' /\ RestIsInPipe'
    <2>1. CASE pipe' = pipe
      BY <1>3, <1>4, <2>1 DEF CodexIInv, ItemsAscend, RestIsInPipe
    <2>2. CASE Codex!Reading /\ pipe' = Tail(pipe)
      BY <1>3, <1>4, <2>2, ReadItems DEF Codex!Reading
    <2> QED BY <2>1, <2>2
  <1>11. QuestionsAreTracked'
    <2>1. CASE pipe' = pipe
      BY <1>1, <1>4, <1>7, <2>1 DEF CodexIInv, QuestionsAreTracked
    <2>2. CASE Codex!Reading /\ Codex!FirstLine.kind # "request" /\ pipe' = Tail(pipe)
      BY <1>1, <1>4, <2>2, ReadQuiet
    <2> QED BY <2>1, <2>2
  <1>12. Codex!TurnIsShared'
    <2>1. Codex!ResultIsTheTurn'  BY <1>3, <1>4 DEF Codex!ResultIsTheTurn
    <2>2. DOMAIN asked = 1..Len(asked)  BY <1>2, LenProperties
    <2>3. ASSUME NEW k \in 1..Len(asked)
          PROVE  /\ Len(asked[k].answers) <= 1
                 /\ outcome = "completed" /\ asked[k].inTurn =>
                      /\ Len(asked[k].answers) = 1
                      /\ asked[k].type = "approval" => asked[k].answers[1] \in {"accept", "decline"}
      <3>1. Len(asked[k].answers) <= 1  BY DEF CodexIInv, QuestionsAreTracked
      <3>2. asked[k].answers # <<>> /\ asked[k].type = "approval" =>
              asked[k].answers[1] \in {"accept", "decline"}
        BY DEF CodexIInv, QuestionsAreTracked
      <3>3. asked[k].answers \in Seq({"accept", "decline", "empty"})
        <4>1. asked[k] \in Questions  BY <1>2, ElementOfSeq
        <4> QED BY <4>1 DEF Questions
      <3>4. asked[k].answers # <<>> => Len(asked[k].answers) = 1
        <4> DEFINE w == asked[k].answers
        <4>1. w \in Seq({"accept", "decline", "empty"}) /\ Len(w) <= 1  BY <3>1, <3>3
        <4> HIDE DEF w
        <4>2. Len(w) \in Nat /\ (w # <<>> => Len(w) # 0)
          BY <4>1, LenProperties, EmptySeq
        <4> DEFINE z == Len(w)
        <4>3. z \in Nat /\ z <= 1 /\ (w # <<>> => z # 0)  BY <4>1, <4>2
        <4> HIDE DEF z
        <4>4. w # <<>> => z = 1  BY <4>3
        <4> QED BY <4>4 DEF w, z
      <3> QED BY <3>1, <3>2, <3>4
    <2>4. Codex!RequestsAreAnswered'
      BY <1>1, <1>4, <2>2, <2>3 DEF Codex!RequestsAreAnswered
    <2> QED BY <2>1, <2>4 DEF Codex!TurnIsShared
  <1> QED BY <1>6, <1>8, <1>9, <1>10, <1>11, <1>12 DEF CodexIInv

\* The client gives up.
LEMMA FailInv ==
  ASSUME CodexIInv, Codex!Fail
  PROVE  CodexIInv'
  BY EndInv DEF Codex!Fail

\* Before the turn the client looks for its response only.
LEMMA ReadWhileRequestingInv ==
  ASSUME CodexIInv, Codex!ReadWhileRequesting
  PROVE  CodexIInv'
  <1> DEFINE n == Len(pipe)
  <1>1. Codex!Reading /\ client.stage = "request" /\ Codex!FirstLine.kind # "request" /\ pipe' = Tail(pipe)
        /\ pipe # <<>>
    BY DEF Codex!ReadWhileRequesting, Codex!Reading
  <1>2. /\ pipe' \in Seq(Lines) /\ n \in Nat /\ n >= 1 /\ Len(pipe') = n - 1
        /\ \A i \in 1..(n - 1) : pipe'[i] = pipe[i + 1]
        /\ Codex!FirstLine = pipe[1] /\ Codex!FirstLine \in Lines
    BY <1>1, WasRead DEF CodexIInv, CodexShapes
  <1>3. Requesting /\ ~InTheTurn /\ client \in Clients /\ 1 \in 1..n
        /\ client.step \in 1..4 /\ child.served \in 0..4 /\ Codex!TurnStart = 4
    BY <1>1, <1>2, CodexFields DEF CodexIInv, CodexShapes, Requesting, InTheTurn,
         Codex!TurnStart
  \* Nothing of the turn precedes the response that begins it.
  <1>4. ~OwnItem(pipe[1])
    <2>1. \A j \in 1..(1 - 1) : FALSE  OBVIOUS
    <2> QED BY <1>3, <2>1 DEF CodexIInv, LinesInOrder
  <1>5. CASE Codex!FirstLine.kind # "response"
    <2>1. UNCHANGED <<child, client, asked>>  BY <1>5 DEF Codex!ReadWhileRequesting
    <2>2. ~Response(pipe[1]) /\ Requesting' /\ ~InTheTurn'
      BY <1>2, <1>3, <1>5, <2>1 DEF Response, Requesting, InTheTurn
    <2>3. CodexShapes'  BY <1>2, <2>1 DEF CodexIInv, CodexShapes
    <2>4. StepsAgree'  BY <2>1, StepsKept
    <2>5. LinesInOrder'  BY <1>1, <1>3, <2>1, <2>2, ReadInOrder
    <2>6. ItemsAscend' /\ RestIsInPipe'  BY <1>1, <1>4, <2>1, ReadItems
    <2>7. QuestionsAreTracked'  BY <1>1, <2>1, ReadQuiet
    <2>8. Codex!TurnIsShared'
      BY <2>1 DEF CodexIInv, Codex!TurnIsShared, Codex!ResultIsTheTurn,
           Codex!RequestsAreAnswered
    <2> QED BY <2>3, <2>4, <2>5, <2>6, <2>7, <2>8 DEF CodexIInv
  <1>6. CASE Codex!FirstLine.kind = "response" /\ Codex!FirstLine.value = "error"
    <2>1. Codex!Ended("failed")  BY <1>6 DEF Codex!ReadWhileRequesting
    <2> QED BY <1>1, <2>1, EndInv
  <1>7. CASE Codex!FirstLine.kind = "response" /\ Codex!FirstLine.value # "error"
    <2>1. UNCHANGED <<child, asked>>
          /\ client' = IF client.step = Codex!TurnStart THEN [client EXCEPT !.stage = "turn"]
                       ELSE [client EXCEPT !.step = client.step + 1]
      BY <1>7 DEF Codex!ReadWhileRequesting
    <2>2. Response(pipe[1])  BY <1>2, <1>7 DEF Response
    <2>3. child.served = client.step /\ client.collected = <<>>
          /\ \A i \in 2..n : ~Response(pipe[i])
      <3>1. child.served = client.step /\ \A j \in 1..n : Response(pipe[j]) => j = 1
        BY <1>3, <2>2 DEF CodexIInv, LinesInOrder
      <3> QED BY <1>2, <1>3, <3>1 DEF CodexIInv, StepsAgree
    <2>4. /\ client'.collected = <<>> /\ client'.outcome = "none" /\ client' \in Clients
          /\ \/ client.step = 4 /\ client'.stage = "turn" /\ client'.step = 4
             \/ client.step < 4 /\ client'.stage = "request" /\ client'.step = client.step + 1
      <3>1. client.outcome = "none"  BY <1>1 DEF CodexIInv, StepsAgree
      <3>2. CASE client.step = 4
        BY <1>3, <2>1, <2>3, <3>1, <3>2 DEF Clients
      <3>3. CASE client.step # 4
        <4>1. client.step + 1 \in 1..4 /\ client.step < 4  BY <1>3, <3>3
        <4> QED BY <1>1, <1>3, <2>1, <2>3, <3>1, <3>3, <4>1 DEF Clients
      <3> QED BY <3>2, <3>3
    <2>5. CodexShapes'  BY <1>2, <2>1, <2>4 DEF CodexIInv, CodexShapes
    <2>6. StepsAgree'
      <3>1. child.open => child.served = Codex!TurnStart  BY DEF CodexIInv, StepsAgree
      <3>2. child.served < Codex!TurnStart => child.reported = <<>>  BY DEF CodexIInv,
          StepsAgree
      <3>3. Requesting' => child'.served \in {client'.step - 1, client'.step}
        <4>1. child'.served = client.step  BY <2>1, <2>3
        <4>2. CASE client'.stage = "turn"  BY <4>2 DEF Requesting
        <4>3. CASE client.step < 4 /\ client'.step = client.step + 1
          <5>1. client'.step - 1 = client.step  BY <1>3, <4>3
          <5> QED BY <4>1, <5>1
        <4> QED BY <2>4, <4>2, <4>3
      <3>4. InTheTurn' => child'.served = Codex!TurnStart
        BY <1>3, <2>1, <2>3, <2>4 DEF InTheTurn
      <3>5. client'.stage # "ended"  BY <2>4
      <3> QED BY <2>1, <2>4, <3>1, <3>2, <3>3, <3>4, <3>5 DEF StepsAgree
    <2>7. LinesInOrder'
      <3>1. CASE client.step = 4
        <4>1. ~Requesting'
          <5>1. client'.stage = "turn"  BY <1>3, <2>4, <3>1
          <5> QED BY <5>1 DEF Requesting
        <4>2. InTheTurn' => \A i \in 2..Len(pipe) : ~Response(pipe[i])  BY <2>3
        <4>3. \A i \in 1..Len(pipe) : InTurn(pipe[i], asked') => InTurn(pipe[i], asked)
          BY <2>1
        <4>4. child'.served = child.served /\ (child'.open => child.open)  BY <2>1
        <4> QED BY <1>1, <4>1, <4>2, <4>3, <4>4, ReadInOrder
      <3>2. CASE client.step < 4
        <4>1. \A i \in 1..n : ~OwnItem(pipe[i]) /\ ~OwnEnd(pipe[i])
          BY <1>3, <2>3, <3>2 DEF CodexIInv, LinesInOrder
        <4>2. ASSUME NEW i \in 1..(n - 1)
              PROVE  ~Response(pipe'[i]) /\ ~OwnItem(pipe'[i]) /\ ~OwnEnd(pipe'[i])
          <5>1. i + 1 \in 2..n /\ i + 1 \in 1..n /\ pipe'[i] = pipe[i + 1]  BY <1>2
          <5> QED BY <2>3, <4>1, <5>1
        <4>3. child'.served # client'.step  BY <1>3, <2>1, <2>3, <2>4, <3>2
        <4> QED BY <1>2, <4>2, <4>3 DEF LinesInOrder, Response, OwnItem, OwnEnd
      <3> QED BY <2>4, <3>1, <3>2
    <2>8. ItemsAscend' /\ RestIsInPipe'
      <3>1. client'.collected = client.collected  BY <2>3, <2>4
      <3> QED BY <1>1, <1>4, <2>1, <3>1, ReadItems
    <2>9. QuestionsAreTracked'
      <3>1. client'.stage \in {"request", "turn"}  BY <2>4
      <3> QED BY <1>1, <2>1, <3>1, ReadQuiet
    <2>10. Codex!TurnIsShared'
      BY <2>4, <2>5, <2>9, NotYetShared DEF CodexShapes, QuestionsAreTracked
    <2> QED BY <2>5, <2>6, <2>7, <2>8, <2>9, <2>10 DEF CodexIInv
  <1> QED BY <1>5, <1>6, <1>7

\* A request that is answered has one answer, and nothing else changes.
LEMMA AnswerGiven ==
  ASSUME asked \in Seq(Questions), NEW v \in 1..Len(asked), asked[v].answers = <<>>,
         NEW d \in {"accept", "decline", "empty"},
         asked' = [asked EXCEPT ![v].answers = Append(@, d)]
  PROVE  /\ asked' \in Seq(Questions) /\ Len(asked') = Len(asked)
         /\ \A k \in 1..Len(asked) :
              /\ asked'[k].type = asked[k].type /\ asked'[k].inTurn = asked[k].inTurn
              /\ k # v => asked'[k] = asked[k]
         /\ Len(asked'[v].answers) = 1 /\ asked'[v].answers # <<>> /\ asked'[v].answers[1] = d
  <1> DEFINE w == Append(asked[v].answers, d)
             q == [asked[v] EXCEPT !.answers = w]
  <1>1. asked[v] \in Questions /\ \A k \in 1..Len(asked) : asked[k] \in Questions
    BY ElementOfSeq
  <1>2. /\ w \in Seq({"accept", "decline", "empty"})
        /\ Len(w) = 1 /\ w # <<>> /\ w[1] = d
    <2> DEFINE e == asked[v].answers
               S == {"accept", "decline", "empty"}
    <2>1. e \in Seq(S) /\ Len(e) = 0 /\ w = Append(e, d)  BY EmptySeq
    <2> HIDE DEF e, w, S
    <2>2. w \in Seq(S) /\ Len(w) = 0 + 1 /\ w[0 + 1] = d
      BY <2>1, AppendProperties DEF S
    <2>3. w # <<>>  BY <2>1, AppendProperties DEF S
    <2> QED BY <2>2, <2>3 DEF S
  <1>3. asked' = [asked EXCEPT ![v] = q]  BY DEF q
  <1> HIDE DEF w
  <1>4. q \in Questions /\ q.type = asked[v].type /\ q.inTurn = asked[v].inTurn /\ q.answers = w
    BY <1>1, <1>2 DEF Questions
  <1> HIDE DEF q
  <1>5. /\ asked' \in Seq(Questions) /\ Len(asked') = Len(asked)
        /\ \A k \in 1..Len(asked) : asked'[k] = IF k = v THEN q ELSE asked[k]
    <2>1. /\ [asked EXCEPT ![v] = q] \in Seq(Questions)
          /\ Len([asked EXCEPT ![v] = q]) = Len(asked)
          /\ \A k \in 1..Len(asked) : [asked EXCEPT ![v] = q][k] = IF k = v THEN q ELSE asked[k]
      BY <1>4, ExceptSeq
    <2> QED BY <1>3, <2>1
  <1> QED BY <1>2, <1>4, <1>5

\* A request is read: apart from the requests themselves everything keeps its place.
LEMMA RequestLeft ==
  ASSUME CodexIInv, Codex!Reading, Codex!FirstLine.kind = "request", pipe' = Tail(pipe), child' = child,
         (Requesting' <=> Requesting), (InTheTurn' <=> InTheTurn), client'.stage # "ended",
         client'.step = client.step, client'.collected = client.collected,
         client'.outcome = client.outcome,
         \A k \in 1..Len(asked) : asked'[k].inTurn = asked[k].inTurn
  PROVE  StepsAgree' /\ LinesInOrder' /\ ItemsAscend' /\ RestIsInPipe' /\ client'.outcome = "none"
  <1> DEFINE n == Len(pipe)
  <1>1. /\ n \in Nat /\ n >= 1 /\ Codex!FirstLine = pipe[1] /\ pipe # <<>> /\ client.stage # "ended"
    BY WasRead DEF CodexIInv, CodexShapes, Codex!Reading
  <1>2. ~Response(pipe[1]) /\ ~OwnItem(pipe[1])  BY <1>1 DEF Response, OwnItem
  <1>3. client.outcome = "none"  BY <1>1 DEF CodexIInv, StepsAgree
  <1>4. StepsAgree'
    BY <1>1, <1>3 DEF CodexIInv, StepsAgree
  <1>5. LinesInOrder'
    <2>1. InTheTurn' => \A i \in 2..n : ~Response(pipe[i])
      BY <1>1 DEF CodexIInv, LinesInOrder
    <2>2. \A i \in 1..n : InTurn(pipe[i], asked') => InTurn(pipe[i], asked)
      BY DEF InTurn, CodexIInv, QuestionsAreTracked
    <2> QED BY <1>1, <1>2, <2>1, <2>2, ReadInOrder
  <1>6. ItemsAscend' /\ RestIsInPipe'  BY <1>1, <1>2, ReadItems
  <1> QED BY <1>3, <1>4, <1>5, <1>6

\* The client reads a request: it answers at once or asks the operator.
LEMMA ReadRequestInv ==
  ASSUME CodexIInv, Codex!ReadRequest
  PROVE  CodexIInv'
  <1> DEFINE n == Len(pipe)
             v == Codex!FirstLine.value
  <1>1. Codex!Reading /\ Codex!FirstLine.kind = "request" /\ pipe' = Tail(pipe) /\ child' = child
        /\ pipe # <<>> /\ client.stage \in {"request", "turn"} /\ ~Codex!Deciding
    BY DEF Codex!ReadRequest, Codex!Reading, Codex!Deciding
  <1>2. /\ pipe' \in Seq(Lines) /\ n \in Nat /\ n >= 1 /\ Len(pipe') = n - 1
        /\ \A i \in 1..(n - 1) : pipe'[i] = pipe[i + 1]
        /\ Codex!FirstLine = pipe[1] /\ Codex!FirstLine \in Lines /\ 1 \in 1..n
    BY <1>1, WasRead DEF CodexIInv, CodexShapes
  <1>3. /\ v \in 1..Len(asked) /\ asked[v].answers = <<>>
        /\ \A j \in 1..n : pipe[j].kind = "request" /\ pipe[j].value = v => j = 1
    BY <1>1, <1>2 DEF CodexIInv, QuestionsAreTracked
  <1>4. asked \in Seq(Questions) /\ client \in Clients /\ Len(asked) \in Nat
        /\ asked[v] \in Questions
    BY <1>3, ElementOfSeq, LenProperties DEF CodexIInv, CodexShapes
  <1> HIDE DEF v
  <1>5. ASSUME NEW i \in 1..(n - 1), pipe'[i].kind = "request"
        PROVE  /\ pipe'[i].value \in 1..Len(asked) /\ pipe'[i].value # v
               /\ asked[pipe'[i].value].answers = <<>>
               /\ \A j \in 1..(n - 1) :
                    pipe'[j].kind = "request" /\ pipe'[j].value = pipe'[i].value => j = i
    <2>1. i + 1 \in 1..n /\ i + 1 # 1 /\ pipe'[i] = pipe[i + 1]  BY <1>2
    <2>2. ASSUME NEW j \in 1..(n - 1), pipe'[j].kind = "request",
                 pipe'[j].value = pipe'[i].value
          PROVE  j = i
      <3>1. j + 1 \in 1..n /\ pipe'[j] = pipe[j + 1]  BY <1>2
      <3>2. j + 1 = i + 1  BY <1>5, <2>1, <2>2, <3>1 DEF CodexIInv, QuestionsAreTracked
      <3> QED BY <1>2, <3>2
    <2>3. pipe'[i].value # v  BY <1>3, <1>5, <2>1
    <2> QED BY <1>5, <2>1, <2>2, <2>3 DEF CodexIInv, QuestionsAreTracked
  <1>6. ASSUME NEW k \in 1..Len(asked), asked[k].answers = <<>>, k # v
        PROVE  \E i \in 1..(n - 1) : pipe'[i].kind = "request" /\ pipe'[i].value = k
    <2>1. PICK j \in 1..n : pipe[j].kind = "request" /\ pipe[j].value = k
      BY <1>1, <1>6 DEF CodexIInv, QuestionsAreTracked
    <2>2. j # 1  BY <1>2, <1>6, <2>1 DEF v
    <2>3. j - 1 \in 1..(n - 1) /\ (j - 1) + 1 = j  BY <1>2, <2>2
    <2>4. pipe'[j - 1] = pipe[j]  BY <1>2, <2>3
    <2> QED BY <2>1, <2>3, <2>4
  <1>7. \A k \in 1..Len(asked) :
          /\ Len(asked[k].answers) <= 1
          /\ asked[k].answers # <<>> /\ asked[k].type = "approval" =>
               asked[k].answers[1] \in {"accept", "decline"}
    BY DEF CodexIInv, QuestionsAreTracked
  <1>8. CASE Codex!Waits(asked[v].type)
    <2> DEFINE s == IF client.stage = "turn" THEN "turn approval" ELSE "request approval"
    <2>1. asked' = asked /\ client' = [client EXCEPT !.request = v, !.stage = s]
          /\ asked[v].type = "approval"
      BY <1>8 DEF Codex!ReadRequest, v, Codex!Waits
    <2>2. /\ s \in {"turn approval", "request approval"}
          /\ s = "turn approval" <=> client.stage = "turn"
      OBVIOUS
    <2> HIDE DEF s
    <2>3. /\ client'.stage = s /\ client'.step = client.step /\ client'.request = v
          /\ client'.collected = client.collected /\ client'.outcome = client.outcome
          /\ client' \in Clients
      <3>1. v \in Nat  BY <1>3, <1>4
      <3>2. s \in {"request", "turn", "turn approval", "request approval", "ended"}  BY <2>2
      <3> QED BY <1>4, <2>1, <3>1, <3>2 DEF Clients
    <2>4. (Requesting' <=> Requesting) /\ (InTheTurn' <=> InTheTurn) /\ Codex!Deciding'
          /\ client'.stage # "ended"
      <3>1. CASE client.stage = "turn"
        BY <2>2, <2>3, <3>1 DEF Requesting, InTheTurn, Codex!Deciding
      <3>2. CASE client.stage = "request"
        BY <2>2, <2>3, <3>2 DEF Requesting, InTheTurn, Codex!Deciding
      <3> QED BY <1>1, <3>1, <3>2
    <2>5. CodexShapes'  BY <1>1, <1>2, <2>1, <2>3 DEF CodexIInv, CodexShapes
    <2>6. \A k \in 1..Len(asked) : asked'[k].inTurn = asked[k].inTurn  BY <2>1
    <2>7. StepsAgree' /\ LinesInOrder' /\ ItemsAscend' /\ RestIsInPipe' /\ client'.outcome = "none"
      BY <1>1, <2>3, <2>4, <2>6, RequestLeft
    <2>8. QuestionsAreTracked'
      <3>1. \A i \in 1..(n - 1) : pipe'[i].kind = "request" =>
              /\ pipe'[i].value \in 1..Len(asked) /\ asked[pipe'[i].value].answers = <<>>
              /\ pipe'[i].value # v
              /\ \A j \in 1..(n - 1) :
                   pipe'[j].kind = "request" /\ pipe'[j].value = pipe'[i].value => j = i
        BY <1>5
      <3>2. \A k \in 1..Len(asked) : asked[k].answers = <<>> =>
              k = v \/ \E i \in 1..(n - 1) : pipe'[i].kind = "request" /\ pipe'[i].value = k
        BY <1>6
      <3> QED BY <1>2, <1>3, <1>7, <2>1, <2>3, <2>4, <3>1, <3>2 DEF QuestionsAreTracked
    <2>9. Codex!TurnIsShared'  BY <2>5, <2>7, <2>8, NotYetShared DEF CodexShapes,
        QuestionsAreTracked
    <2> QED BY <2>5, <2>7, <2>8, <2>9 DEF CodexIInv
  <1>9. CASE ~Codex!Waits(asked[v].type)
    <2>1. client' = client /\ asked' = [asked EXCEPT ![v].answers = Append(@, "empty")]
          /\ asked[v].type # "approval"
      BY <1>9 DEF Codex!ReadRequest, v, Codex!Waits
    <2>2. /\ asked' \in Seq(Questions) /\ Len(asked') = Len(asked)
          /\ \A k \in 1..Len(asked) :
               /\ asked'[k].type = asked[k].type /\ asked'[k].inTurn = asked[k].inTurn
               /\ k # v => asked'[k] = asked[k]
          /\ Len(asked'[v].answers) = 1 /\ asked'[v].answers # <<>>
      BY <1>3, <1>4, <2>1, AnswerGiven
    <2>3. CodexShapes'  BY <1>1, <1>2, <2>1, <2>2 DEF CodexIInv, CodexShapes
    <2>4. (Requesting' <=> Requesting) /\ (InTheTurn' <=> InTheTurn) /\ ~Codex!Deciding'
          /\ client'.stage # "ended"
      BY <1>1, <2>1 DEF Requesting, InTheTurn, Codex!Deciding
    <2>5. StepsAgree' /\ LinesInOrder' /\ ItemsAscend' /\ RestIsInPipe' /\ client'.outcome = "none"
      BY <1>1, <2>1, <2>2, <2>4, RequestLeft
    <2>6. QuestionsAreTracked'
      <3>1. \A i \in 1..Len(pipe') : pipe'[i].kind = "request" =>
              /\ pipe'[i].value \in 1..Len(asked') /\ asked'[pipe'[i].value].answers = <<>>
              /\ \A j \in 1..Len(pipe') :
                   pipe'[j].kind = "request" /\ pipe'[j].value = pipe'[i].value => j = i
        BY <1>2, <1>5, <2>2
      <3>2. \A k \in 1..Len(asked') : asked'[k].answers = <<>> =>
              \E i \in 1..Len(pipe') : pipe'[i].kind = "request" /\ pipe'[i].value = k
        BY <1>2, <1>6, <2>2
      <3>3. \A k \in 1..Len(asked') :
              /\ Len(asked'[k].answers) <= 1
              /\ asked'[k].answers # <<>> /\ asked'[k].type = "approval" =>
                   asked'[k].answers[1] \in {"accept", "decline"}
        <4> SUFFICES ASSUME NEW k \in 1..Len(asked')
                     PROVE  /\ Len(asked'[k].answers) <= 1
                            /\ asked'[k].answers # <<>> /\ asked'[k].type = "approval" =>
                                 asked'[k].answers[1] \in {"accept", "decline"}
          OBVIOUS
        <4>1. CASE k = v  BY <1>3, <2>1, <2>2, <4>1
        <4>2. CASE k # v  BY <1>7, <2>2, <4>2
        <4> QED BY <4>1, <4>2
      <3> QED BY <2>4, <3>1, <3>2, <3>3 DEF QuestionsAreTracked
    <2>7. Codex!TurnIsShared'  BY <2>3, <2>5, <2>6, NotYetShared DEF CodexShapes,
        QuestionsAreTracked
    <2> QED BY <2>3, <2>5, <2>6, <2>7 DEF CodexIInv
  <1> QED BY <1>8, <1>9

\* The operator has decided.
LEMMA DecideInv ==
  ASSUME CodexIInv, Codex!Decide
  PROVE  CodexIInv'
  <1> DEFINE v == client.request
             s == IF client.stage = "turn approval" THEN "turn" ELSE "request"
  <1>1. PICK d \in {"accept", "decline"} : asked' = [asked EXCEPT ![v].answers = Append(@, d)]
    BY DEF Codex!Decide
  <1>2. UNCHANGED <<child, pipe>> /\ client' = [client EXCEPT !.stage = s] /\ Codex!Deciding
    BY DEF Codex!Decide
  <1>3. /\ v \in 1..Len(asked) /\ asked[v].type = "approval" /\ asked[v].answers = <<>>
        /\ \A i \in 1..Len(pipe) : pipe[i].kind = "request" => pipe[i].value # v
    BY <1>2 DEF CodexIInv, QuestionsAreTracked
  <1>4. s \in {"turn", "request"} /\ (s = "turn" <=> client.stage = "turn approval")
    OBVIOUS
  <1>5. client \in Clients /\ asked \in Seq(Questions)  BY DEF CodexIInv, CodexShapes
  <1> HIDE DEF v, s
  <1>6. /\ client'.stage = s /\ client'.step = client.step
        /\ client'.collected = client.collected /\ client'.outcome = client.outcome
        /\ client' \in Clients
    BY <1>2, <1>4, <1>5 DEF Clients
  <1>7. d \in {"accept", "decline", "empty"} /\ d \in {"accept", "decline"}  OBVIOUS
  <1>8. /\ asked' \in Seq(Questions) /\ Len(asked') = Len(asked)
        /\ \A k \in 1..Len(asked) :
             /\ asked'[k].type = asked[k].type /\ asked'[k].inTurn = asked[k].inTurn
             /\ k # v => asked'[k] = asked[k]
        /\ Len(asked'[v].answers) = 1 /\ asked'[v].answers # <<>> /\ asked'[v].answers[1] = d
    BY <1>1, <1>3, <1>5, <1>7, AnswerGiven
  <1>9. (Requesting' <=> Requesting) /\ (InTheTurn' <=> InTheTurn) /\ ~Codex!Deciding'
        /\ client'.stage # "ended" /\ client.stage # "ended"
    <2>1. CASE client.stage = "turn approval"
      BY <1>4, <1>6, <2>1 DEF Requesting, InTheTurn, Codex!Deciding
    <2>2. CASE client.stage = "request approval"
      BY <1>4, <1>6, <2>2 DEF Requesting, InTheTurn, Codex!Deciding
    <2> QED BY <1>2, <2>1, <2>2 DEF Codex!Deciding
  <1>10. client.outcome = "none"  BY <1>9 DEF CodexIInv, StepsAgree
  <1>11. CodexShapes'  BY <1>2, <1>6, <1>8 DEF CodexIInv, CodexShapes
  <1>12. StepsAgree'  BY <1>2, <1>6, <1>9, <1>10 DEF CodexIInv, StepsAgree
  <1>13. LinesInOrder'
    <2>1. \A i \in 1..Len(pipe) : InTurn(pipe[i], asked') => InTurn(pipe[i], asked)
      BY <1>8 DEF InTurn, CodexIInv, QuestionsAreTracked
    <2>2. \A i \in 1..Len(pipe) : OwnEnd(pipe[i]) =>
            \A j \in (i + 1)..Len(pipe) : ~OwnItem(pipe[j]) /\ ~InTurn(pipe[j], asked')
      <3> SUFFICES ASSUME NEW i \in 1..Len(pipe), OwnEnd(pipe[i]), NEW j \in (i + 1)..Len(pipe)
                   PROVE  ~OwnItem(pipe[j]) /\ ~InTurn(pipe[j], asked')
        OBVIOUS
      <3>1. ~OwnItem(pipe[j]) /\ ~InTurn(pipe[j], asked)  BY DEF CodexIInv, LinesInOrder
      <3>2. Len(pipe) \in Nat  BY LenProperties DEF CodexIInv, CodexShapes
      <3>3. j \in 1..Len(pipe)  BY <3>2
      <3> QED BY <2>1, <3>1, <3>3
    <2> QED BY <1>2, <1>6, <1>9, <2>2 DEF CodexIInv, LinesInOrder
  <1>14. ItemsAscend' /\ RestIsInPipe'
    BY <1>2, <1>6, <1>9 DEF CodexIInv, ItemsAscend, RestIsInPipe
  <1>15. QuestionsAreTracked'
    <2>1. \A i \in 1..Len(pipe') : pipe'[i].kind = "request" =>
            /\ pipe'[i].value \in 1..Len(asked') /\ asked'[pipe'[i].value].answers = <<>>
            /\ \A j \in 1..Len(pipe') :
                 pipe'[j].kind = "request" /\ pipe'[j].value = pipe'[i].value => j = i
      BY <1>2, <1>3, <1>8 DEF CodexIInv, QuestionsAreTracked
    <2>2. ASSUME NEW k \in 1..Len(asked')
          PROVE  /\ Len(asked'[k].answers) <= 1
                 /\ asked'[k].answers = <<>> =>
                      \E i \in 1..Len(pipe') : pipe'[i].kind = "request" /\ pipe'[i].value = k
                 /\ asked'[k].answers # <<>> /\ asked'[k].type = "approval" =>
                      asked'[k].answers[1] \in {"accept", "decline"}
      <3>1. CASE k = v
        <4>1. Len(asked'[k].answers) = 1 /\ asked'[k].answers # <<>> /\ asked'[k].answers[1] = d
          BY <1>8, <3>1
        <4> QED BY <1>7, <4>1
      <3>2. CASE k # v
        <4>1. asked'[k] = asked[k] /\ k \in 1..Len(asked)  BY <1>8, <3>2
        <4> QED BY <1>2, <1>9, <3>2, <4>1 DEF CodexIInv, QuestionsAreTracked, v
      <3> QED BY <3>1, <3>2
    <2> QED BY <1>9, <2>1, <2>2 DEF QuestionsAreTracked
  <1>16. Codex!TurnIsShared'
    <2>1. client'.outcome = "none"  BY <1>6, <1>10
    <2> QED BY <1>11, <1>15, <2>1, NotYetShared DEF CodexShapes, QuestionsAreTracked
  <1> QED BY <1>11, <1>12, <1>13, <1>14, <1>15, <1>16 DEF CodexIInv

\* Within the turn the client takes the items in the order in which they were
\* reported, and when it reads the end of the turn none is left.
LEMMA ReadNotificationInv ==
  ASSUME CodexIInv, Codex!ReadNotification
  PROVE  CodexIInv'
  <1> DEFINE n == Len(pipe)
             m == Len(client.collected)
             r == Len(child.reported)
  <1>1. Codex!Reading /\ client.stage = "turn" /\ Codex!FirstLine.kind # "request" /\ pipe' = Tail(pipe)
        /\ pipe # <<>> /\ client.stage # "ended" /\ ~Codex!Deciding
    BY DEF Codex!ReadNotification, Codex!Reading, Codex!Deciding
  <1>2. /\ pipe' \in Seq(Lines) /\ n \in Nat /\ n >= 1 /\ Len(pipe') = n - 1
        /\ \A i \in 1..(n - 1) : pipe'[i] = pipe[i + 1]
        /\ Codex!FirstLine = pipe[1] /\ Codex!FirstLine \in Lines
    BY <1>1, WasRead DEF CodexIInv, CodexShapes
  <1>3. /\ InTheTurn /\ ~Requesting /\ client \in Clients /\ child \in Children /\ 1 \in 1..n
        /\ child.served = Codex!TurnStart /\ client.outcome = "none"
    BY <1>1, <1>2 DEF CodexIInv, CodexShapes, StepsAgree, Requesting, InTheTurn
  <1>4. \A i \in 1..n : ~Response(pipe[i])  BY <1>3 DEF CodexIInv, LinesInOrder
  <1>5. /\ client.collected \in Seq(Nat) /\ m \in Nat /\ child.reported \in Seq(Nat) /\ r \in Nat
    BY CodexFields DEF CodexIInv
  <1>6. m <= r /\ \A k \in 1..m : client.collected[k] = child.reported[k]
    BY DEF CodexIInv, RestIsInPipe
  <1>7. \A k \in (m + 1)..r : \E i \in 1..n :
          OwnItem(pipe[i]) /\ pipe[i].value = child.reported[k]
    BY <1>1 DEF CodexIInv, RestIsInPipe
  <1>8. \A i \in 1..n : OwnItem(pipe[i]) =>
          \E k \in (m + 1)..r : pipe[i].value = child.reported[k]
    BY <1>1 DEF CodexIInv, RestIsInPipe
  <1>9. CASE Codex!EndsTurn
    <2>1. PICK outcome \in {"completed", "failed"} : Codex!Ended(outcome)
      BY <1>9 DEF Codex!ReadNotification
    <2>2. OwnEnd(pipe[1]) /\ ~OwnItem(pipe[1])
      BY <1>2, <1>9 DEF Codex!EndsTurn, Codex!OwnTurn, OwnEnd, OwnItem, Lines
    <2>3. \A j \in (1 + 1)..n : ~OwnItem(pipe[j]) /\ ~InTurn(pipe[j], asked)
      BY <1>3, <2>2 DEF CodexIInv, LinesInOrder
    <2>4. \A j \in 1..n : j = 1 \/ j \in (1 + 1)..n  BY <1>2
    <2>5. client.collected = child.reported
      <3>1. \A k \in (m + 1)..r : FALSE  BY <1>7, <2>2, <2>3, <2>4
      <3>2. m = r
        <4>1. m < r => m + 1 \in (m + 1)..r  BY <1>5
        <4> QED BY <1>5, <1>6, <3>1, <4>1
      <3> QED BY <1>5, <1>6, <3>2, SeqEqual
    <2>6. ASSUME NEW k \in 1..Len(asked), asked[k].inTurn
          PROVE  asked[k].answers # <<>>
      <3> SUFFICES ASSUME asked[k].answers = <<>> PROVE FALSE  OBVIOUS
      <3>1. PICK i \in 1..n : pipe[i].kind = "request" /\ pipe[i].value = k
        BY <1>1 DEF CodexIInv, QuestionsAreTracked
      <3>2. i # 1  BY <1>1, <1>2, <3>1
      <3>3. InTurn(pipe[i], asked)  BY <2>6, <3>1 DEF InTurn
      <3> QED BY <2>3, <2>4, <3>2, <3>3
    <2> QED BY <1>1, <2>1, <2>5, <2>6, EndInv
  <1>10. CASE ~Codex!EndsTurn
    <2> DEFINE v == Codex!FirstLine.value
               takes == Codex!FirstLine.kind = "item" /\ Codex!OwnTurn
    <2>1. child' = child /\ asked' = asked
          /\ client' = IF takes THEN [client EXCEPT !.collected = Append(@, v)] ELSE client
      BY <1>10 DEF Codex!ReadNotification
    <2>2. takes <=> OwnItem(pipe[1])
      BY <1>2 DEF OwnItem, Codex!OwnTurn, Lines
    <2> HIDE DEF takes
    <2>3. takes => v \in Nat
      BY <1>2, <2>2 DEF OwnItem, Lines
    <2> HIDE DEF v
    <2>4. /\ client'.stage = "turn" /\ client'.step = client.step /\ client'.outcome = "none"
          /\ client' \in Clients
          /\ client'.collected = IF takes THEN Append(client.collected, v) ELSE client.collected
      <3>1. CASE takes
        <4> DEFINE c == Append(client.collected, v)
        <4>1. c \in Seq(Nat) /\ client' = [client EXCEPT !.collected = c]
          BY <1>5, <2>1, <2>3, <3>1, AppendProperties
        <4> HIDE DEF c
        <4>2. /\ client'.stage = "turn" /\ client'.step = client.step /\ client'.outcome = "none"
              /\ client' \in Clients /\ client'.collected = c
          BY <1>1, <1>3, <4>1 DEF Clients
        <4> QED BY <3>1, <4>2 DEF c
      <3>2. CASE ~takes
        BY <1>1, <1>3, <2>1, <3>2
      <3> QED BY <3>1, <3>2
    <2>5. CodexShapes'  BY <1>2, <2>1, <2>4 DEF CodexIInv, CodexShapes
    <2>6. InTheTurn' /\ ~Requesting'  BY <2>4 DEF InTheTurn, Requesting
    <2>7. StepsAgree'
      <3>1. child.open => child.served = Codex!TurnStart  BY <1>3
      <3>2. child.served < Codex!TurnStart => child.reported = <<>>  BY DEF CodexIInv,
          StepsAgree
      <3> QED BY <1>3, <2>1, <2>4, <2>6, <3>1, <3>2 DEF StepsAgree
    <2>8. LinesInOrder'
      <3>1. \A i \in 2..n : ~Response(pipe[i])
        <4>1. \A i \in 2..n : i \in 1..n  BY <1>2
        <4> QED BY <1>4, <4>1
      <3>2. \A i \in 1..n : InTurn(pipe[i], asked') => InTurn(pipe[i], asked)  BY <2>1
      <3>3. child'.served = child.served /\ (child'.open => child.open)  BY <2>1
      <3> QED BY <1>1, <2>6, <3>1, <3>2, <3>3, ReadInOrder
    <2>9. ItemsAscend'
      BY <1>1, <2>1, ReadItems
    <2>10. RestIsInPipe'
      <3>1. CASE ~takes
        <4>1. client'.collected = client.collected /\ ~OwnItem(pipe[1])  BY <2>2, <2>4, <3>1
        <4> QED BY <1>1, <2>1, <4>1, ReadItems
      <3>2. CASE takes
        <4>1. OwnItem(pipe[1]) /\ v = pipe[1].value  BY <1>2, <2>2, <3>2 DEF v
        <4>2. \A k \in 1..r : child.reported[k] \in Nat  BY <1>5, ElementOfSeq
        <4>3. \A k, l \in 1..r : k < l => child.reported[k] < child.reported[l]
          BY DEF CodexIInv, ItemsAscend
        <4>4. \A i \in 1..n : i # 1 /\ OwnItem(pipe[i]) => v < pipe[i].value
          <5> SUFFICES ASSUME NEW i \in 1..n, i # 1, OwnItem(pipe[i]) PROVE v < pipe[i].value
            OBVIOUS
          <5>1. 1 < i  BY <1>2
          <5> QED BY <1>3, <4>1, <5>1 DEF CodexIInv, ItemsAscend
        \* The first item that was not collected is the first in the pipe.
        <4>5. m + 1 \in 1..r /\ v = child.reported[m + 1]
          <5>1. PICK k \in (m + 1)..r : v = child.reported[k]  BY <1>3, <1>8, <4>1
          <5>2. m + 1 \in (m + 1)..r /\ m + 1 \in 1..r /\ k \in 1..r  BY <1>5
          <5>3. PICK i \in 1..n : OwnItem(pipe[i]) /\ pipe[i].value = child.reported[m + 1]
            BY <1>7, <5>2
          <5>4. CASE i = 1  BY <4>1, <5>2, <5>3, <5>4
          <5>5. CASE i # 1
            <6>1. child.reported[k] < child.reported[m + 1]  BY <4>4, <5>1, <5>3, <5>5
            <6>2. k # m + 1  BY <4>2, <5>2, <6>1
            <6>3. m + 1 < k  BY <1>5, <6>2
            <6>4. child.reported[m + 1] < child.reported[k]  BY <4>3, <5>2, <6>3
            <6> QED BY <4>2, <5>2, <6>1, <6>4
          <5> QED BY <5>4, <5>5
        <4>6. /\ Len(client'.collected) = m + 1 /\ client'.collected[m + 1] = v
              /\ \A k \in 1..m : client'.collected[k] = client.collected[k]
          BY <1>5, <2>3, <2>4, <3>2, AppendProperties
        <4>7. m + 1 <= r /\ \A k \in 1..(m + 1) : client'.collected[k] = child.reported[k]
          <5>1. m + 1 <= r  BY <1>5, <4>5
          <5>2. ASSUME NEW k \in 1..(m + 1)
                PROVE  client'.collected[k] = child.reported[k]
            <6>1. CASE k = m + 1  BY <4>5, <4>6, <6>1
            <6>2. CASE k \in 1..m  BY <1>6, <4>6, <6>2
            <6>3. k = m + 1 \/ k \in 1..m  BY <1>5
            <6> QED BY <6>1, <6>2, <6>3
          <5> QED BY <5>1, <5>2
        <4>8. ASSUME NEW k \in ((m + 1) + 1)..r
              PROVE  \E i \in 1..(n - 1) : OwnItem(pipe'[i]) /\ pipe'[i].value = child.reported[k]
          <5>1. k \in (m + 1)..r /\ k \in 1..r /\ m + 1 < k  BY <1>5
          <5>2. PICK j \in 1..n : OwnItem(pipe[j]) /\ pipe[j].value = child.reported[k]
            BY <1>7, <5>1
          <5>3. child.reported[m + 1] < child.reported[k]  BY <4>3, <4>5, <5>1
          <5>4. j # 1
            <6>1. child.reported[k] \in Nat /\ child.reported[m + 1] \in Nat
              BY <4>2, <4>5, <5>1
            <6>2. child.reported[m + 1] # child.reported[k]  BY <5>3, <6>1
            <6> QED BY <4>1, <4>5, <5>2, <6>2
          <5>5. j - 1 \in 1..(n - 1) /\ (j - 1) + 1 = j  BY <1>2, <5>4
          <5>6. pipe'[j - 1] = pipe[j]  BY <1>2, <5>5
          <5> QED BY <5>2, <5>5, <5>6
        <4>9. ASSUME NEW i \in 1..(n - 1), OwnItem(pipe'[i])
              PROVE  \E k \in ((m + 1) + 1)..r : pipe'[i].value = child.reported[k]
          <5>1. i + 1 \in 1..n /\ i + 1 # 1 /\ pipe'[i] = pipe[i + 1]  BY <1>2
          <5>2. PICK k \in (m + 1)..r : pipe[i + 1].value = child.reported[k]
            BY <1>8, <4>9, <5>1
          <5>3. child.reported[m + 1] < child.reported[k]
            BY <4>4, <4>5, <4>9, <5>1, <5>2
          <5>4. k # m + 1  BY <4>2, <4>5, <5>3
          <5>5. k \in ((m + 1) + 1)..r  BY <1>5, <5>4
          <5> QED BY <5>1, <5>2, <5>5
        <4>10. child'.reported = child.reported  BY <2>1
        <4>11. /\ Len(client'.collected) <= Len(child'.reported)
               /\ \A k \in 1..Len(client'.collected) : client'.collected[k] = child'.reported[k]
          BY <4>6, <4>7, <4>10
        <4>12. \A k \in (Len(client'.collected) + 1)..Len(child'.reported) : \E i \in 1..Len(pipe') :
                 OwnItem(pipe'[i]) /\ pipe'[i].value = child'.reported[k]
          BY <1>2, <4>6, <4>8, <4>10
        <4>13. \A i \in 1..Len(pipe') : OwnItem(pipe'[i]) =>
                 \E k \in (Len(client'.collected) + 1)..Len(child'.reported) :
                   pipe'[i].value = child'.reported[k]
          BY <1>2, <4>6, <4>9, <4>10
        <4> QED BY <4>11, <4>12, <4>13 DEF RestIsInPipe, OwnItem
      <3> QED BY <3>1, <3>2
    <2>11. QuestionsAreTracked'
      <3>1. client'.stage \in {"request", "turn", "ended"}  BY <2>4
      <3> QED BY <1>1, <2>1, <3>1, ReadQuiet
    <2>12. Codex!TurnIsShared'
      BY <2>4, <2>5, <2>11, NotYetShared DEF CodexShapes, QuestionsAreTracked
    <2> QED BY <2>5, <2>7, <2>8, <2>9, <2>10, <2>11, <2>12 DEF CodexIInv
  <1> QED BY <1>9, <1>10

\* Every step of the turn keeps the invariant.
LEMMA CodexNextInv ==
  ASSUME CodexIInv, Codex!Next
  PROVE  CodexIInv'
  BY RespondInv, ReportItemInv, AskClientInv, CompleteTurnInv, ExitInv, ReadRequestInv,
     DecideInv, ReadWhileRequestingInv, ReadNotificationInv, FailInv DEF Codex!Next

LEMMA CodexStutterInv ==
  ASSUME CodexIInv, UNCHANGED Codex!vars
  PROVE  CodexIInv'
  <1>1. UNCHANGED <<child, pipe, client, asked>>  BY DEF Codex!vars
  <1>2. CodexShapes' /\ StepsAgree'
    BY <1>1 DEF CodexIInv, CodexShapes, StepsAgree, Requesting, InTheTurn
  <1>3. LinesInOrder'
    BY <1>1 DEF CodexIInv, LinesInOrder, Requesting, InTheTurn
  <1>4. ItemsAscend' /\ RestIsInPipe'
    BY <1>1 DEF CodexIInv, ItemsAscend, RestIsInPipe
  <1>5. QuestionsAreTracked'
    BY <1>1 DEF CodexIInv, QuestionsAreTracked, Codex!Deciding
  <1>6. Codex!TurnIsShared'
    BY <1>1 DEF CodexIInv, Codex!TurnIsShared, Codex!ResultIsTheTurn, Codex!RequestsAreAnswered
  <1> QED BY <1>2, <1>3, <1>4, <1>5, <1>6 DEF CodexIInv

\* The invariant contains the type invariant of the turn.
LEMMA CodexTypes ==
  ASSUME CodexIInv
  PROVE  Codex!TypeOK
  <1>1. child \in Children /\ client \in Clients  BY DEF CodexIInv, CodexShapes
  <1>2. Codex!Deciding => asked[client.request].type = "approval" /\ asked[client.request].answers = <<>>
    BY DEF CodexIInv, QuestionsAreTracked
  <1> QED BY <1>1, <1>2 DEF Codex!TypeOK, Children, Clients

\* The invariant behind the theorem below.
THEOREM CodexInvariant == ServicesSpec => []CodexIInv
  <1>1. ServicesInit => CodexIInv  BY CodexInitInv DEF ServicesInit
  <1>2. CodexIInv /\ [Codex!Next]_codexVars => CodexIInv'
    BY CodexNextInv, CodexStutterInv DEF codexVars, Codex!vars
  <1> QED BY <1>1, <1>2, CodexSteps, PTL DEF ServicesSpec

\* A completed turn has collected exactly the items the server reported of it, in
\* their order, and every request of the server within the turn has its one answer:
\* for any number of items, requests and lines of other turns in between, and
\* wherever the server or the client ends (CodexAppServerRuntime.execute).
THEOREM CodexTurnShared == ServicesSpec => []TurnIsShared
  <1>1. CodexIInv => TurnIsShared  BY DEF CodexIInv, TurnIsShared
  <1> QED BY <1>1, CodexInvariant, PTL

-----------------------------------------------------------------------------
(* An extraction and its attempts (CustomerExtraction).                     *)

ExecutionStages == {"idle", "claimed", "started", "next", "asking", "returned", "raised", "cancelled"}

Executions == [stage : ExecutionStages, doc : Entries \union {Nobody}, todo : SUBSET Entries]

QueueItems ==
  [status : Extraction!TerminalItem \union {"none", "queued", "leased"},
   owner : Workers \union {Nobody}, cancel : {"no", "early", "late"}, attempts : Nat]

Works(w) == exec[w].stage \in {"started", "next", "asking"}

ExtractionShapes ==
  /\ item \in QueueItems
  /\ task \in Extraction!Terminal \union {"absent", "queued", "running"}
  /\ ext \in Extraction!Terminal \union {"absent", "queued", "running"}
  /\ manifest \in SUBSET Entries
  /\ rows \in [Entries -> Extraction!TerminalRow \union {"absent", "pending", "extracting"}]
  /\ found \in [Entries -> Nat]
  /\ report \in SUBSET Entries
  /\ exec \in [Workers -> Executions]
  /\ request \in {"none", "task", "done", "lost"} /\ canceller \in {"none", "cancelled"}
  /\ overlapped \in BOOLEAN

\* A held item has an owner; before the endpoint has created it there is nothing,
\* and no record, and no work, before the request is done.
CreatedInOrder ==
  /\ item.owner # Nobody <=> item.status = "leased"
  /\ request = "none" => /\ item.status = "none"
                         /\ \A w \in Workers : exec[w].stage = "idle"
  /\ request # "done" => ext = "absent"
  /\ \A w \in Workers : Works(w) => request = "done"

\* A manifest is frozen as a whole, before any of its documents is begun, and only
\* documents that are ready are asked.
ManifestIsWhole ==
  /\ Extraction!Frozen => \A d \in Entries : rows[d] # "absent"
  /\ \A d \in Entries : found[d] > 0 => d \in manifest /\ rows[d] # "absent"
  /\ \A w \in Workers :
       /\ exec[w].stage \in {"next", "asking"} => \A d \in Entries : rows[d] # "absent"
       /\ exec[w].stage = "asking" => exec[w].doc \in manifest

\* As long as no two loops have executed at once, one executes at most, while the
\* extraction has not ended; what it has left behind has ended, what it asks has
\* begun, and the rows say what was found.
OneLoopAtATime ==
  ~overlapped =>
    /\ \A v, w \in Workers : exec[v].stage # "idle" /\ exec[w].stage # "idle" => v = w
    /\ \A w \in Workers :
         /\ Works(w) => ext \in {"running", "cancelled"}
         /\ exec[w].stage = "next" => \A d \in Entries \ exec[w].todo : rows[d] \in Extraction!TerminalRow
         /\ exec[w].stage = "asking" =>
              /\ rows[exec[w].doc] = "extracting" /\ exec[w].doc \notin exec[w].todo
              /\ \A d \in Entries \ exec[w].todo : d # exec[w].doc => rows[d] \in Extraction!TerminalRow
    /\ \A d \in Entries : found[d] > 0 <=> rows[d] = "analyzed"

ExtractionIInv ==
  /\ ExtractionShapes /\ CreatedInOrder /\ ManifestIsWhole /\ OneLoopAtATime
  /\ Extraction!ReportCoversManifest /\ Extraction!AnalysedOnce /\ Extraction!TaskShowsExtraction

\* The types alone.
LEMMA ExtractionTypes == ExtractionIInv => Extraction!TypeOK
  <1> SUFFICES ASSUME ExtractionIInv PROVE Extraction!TypeOK  OBVIOUS
  <1>1. item.status \in Extraction!TerminalItem \union {"none", "queued", "leased"}
    BY DEF ExtractionIInv, ExtractionShapes, QueueItems
  <1>2. (item.owner # Nobody) = (item.status = "leased")
    BY DEF ExtractionIInv, CreatedInOrder
  <1>3. Extraction!Frozen => \A d \in Entries : rows[d] # "absent"
    BY DEF ExtractionIInv, ManifestIsWhole
  <1>4. \A d \in Entries : found[d] > 0 => d \in manifest
    BY DEF ExtractionIInv, ManifestIsWhole
  <1> QED BY <1>1, <1>2, <1>3, <1>4 DEF Extraction!TypeOK, ExtractionIInv, ExtractionShapes

\* Nothing is created yet, and nobody executes.
LEMMA ExtractionInitInv == Extraction!Init => ExtractionIInv
  <1> SUFFICES ASSUME Extraction!Init PROVE ExtractionIInv  OBVIOUS
  <1>1. ExtractionShapes
    <2>1. item \in QueueItems
      BY DEF Extraction!Init, QueueItems, Extraction!TerminalItem
    <2>2. Extraction!Idle \in Executions  BY DEF Extraction!Idle, Executions, ExecutionStages
    <2> QED BY <2>1, <2>2 DEF Extraction!Init, ExtractionShapes, Extraction!Terminal, Extraction!TerminalRow
  <1>2. \A w \in Workers : exec[w].stage = "idle"  BY DEF Extraction!Init, Extraction!Idle
  <1>3. CreatedInOrder  BY <1>2 DEF Extraction!Init, CreatedInOrder, Works
  <1>4. \A d \in Entries : rows[d] = "absent" /\ found[d] = 0  BY DEF Extraction!Init
  <1>5. ManifestIsWhole  BY <1>2, <1>4 DEF ManifestIsWhole, Extraction!Frozen
  <1>6. OneLoopAtATime  BY <1>2, <1>4 DEF OneLoopAtATime, Works
  <1>7. Extraction!AnalysedOnce  BY <1>4 DEF Extraction!AnalysedOnce
  <1>8. ext = "absent" /\ task = "absent"  BY DEF Extraction!Init
  <1>9. Extraction!ReportCoversManifest /\ Extraction!TaskShowsExtraction
    BY <1>8 DEF Extraction!ReportCoversManifest, Extraction!TaskShowsExtraction
  <1> QED BY <1>1, <1>3, <1>5, <1>6, <1>7, <1>9 DEF ExtractionIInv

\* What an execution has left behind stays right as long as nobody takes up new
\* documents and the record does not complete.
LEMMA ResultsKept ==
  ASSUME ExtractionIInv, UNCHANGED Extraction!results, overlapped' = overlapped,
         \A v \in Workers :
           \/ exec'[v] = exec[v]
           \/ exec'[v].stage = "idle"
           \/ exec[v].stage # "idle" /\ exec'[v].stage \notin {"next", "asking"},
         ~overlapped => \A v \in Workers : Works(v)' => ext' \in {"running", "cancelled"},
         ext' = "completed" => ext = "completed"
  PROVE  ManifestIsWhole' /\ OneLoopAtATime' /\ Extraction!ReportCoversManifest' /\ Extraction!AnalysedOnce'
  <1>1. manifest' = manifest /\ rows' = rows /\ found' = found /\ report' = report
    BY DEF Extraction!results
  <1>2. \A v \in Workers : exec'[v].stage \in {"next", "asking"} => exec'[v] = exec[v]
    OBVIOUS
  <1>3. ManifestIsWhole'
    <2>1. ASSUME NEW w \in Workers
          PROVE  /\ exec'[w].stage \in {"next", "asking"} => \A d \in Entries : rows'[d] # "absent"
                 /\ exec'[w].stage = "asking" => exec'[w].doc \in manifest'
      BY <1>1, <1>2 DEF ExtractionIInv, ManifestIsWhole
    <2> QED BY <1>1, <2>1 DEF ExtractionIInv, ManifestIsWhole, Extraction!Frozen
  <1>4. OneLoopAtATime'
    <2> SUFFICES ASSUME ~overlapped
                 PROVE  /\ \A v, w \in Workers :
                             exec'[v].stage # "idle" /\ exec'[w].stage # "idle" => v = w
                        /\ \A w \in Workers :
                             /\ Works(w)' => ext' \in {"running", "cancelled"}
                             /\ exec'[w].stage = "next" =>
                                  \A d \in Entries \ exec'[w].todo : rows'[d] \in Extraction!TerminalRow
                             /\ exec'[w].stage = "asking" =>
                                  /\ rows'[exec'[w].doc] = "extracting"
                                  /\ exec'[w].doc \notin exec'[w].todo
                                  /\ \A d \in Entries \ exec'[w].todo :
                                       d # exec'[w].doc => rows'[d] \in Extraction!TerminalRow
                        /\ \A d \in Entries : found'[d] > 0 <=> rows'[d] = "analyzed"
      BY DEF OneLoopAtATime, Works
    <2>1. \A v \in Workers : exec'[v].stage # "idle" => exec[v].stage # "idle"  OBVIOUS
    <2>2. \A v, w \in Workers : exec'[v].stage # "idle" /\ exec'[w].stage # "idle" => v = w
      BY <2>1 DEF ExtractionIInv, OneLoopAtATime
    <2>3. ASSUME NEW w \in Workers
          PROVE  /\ exec'[w].stage = "next" =>
                      \A d \in Entries \ exec'[w].todo : rows'[d] \in Extraction!TerminalRow
                 /\ exec'[w].stage = "asking" =>
                      /\ rows'[exec'[w].doc] = "extracting"
                      /\ exec'[w].doc \notin exec'[w].todo
                      /\ \A d \in Entries \ exec'[w].todo :
                           d # exec'[w].doc => rows'[d] \in Extraction!TerminalRow
      BY <1>1, <1>2 DEF ExtractionIInv, OneLoopAtATime
    <2>4. \A d \in Entries : found'[d] > 0 <=> rows'[d] = "analyzed"
      BY <1>1 DEF ExtractionIInv, OneLoopAtATime
    <2> QED BY <2>2, <2>3, <2>4
  <1>5. Extraction!ReportCoversManifest' /\ Extraction!AnalysedOnce'
    BY <1>1 DEF ExtractionIInv, Extraction!ReportCoversManifest, Extraction!AnalysedOnce
  <1> QED BY <1>3, <1>4, <1>5

\* The Task goes on showing the record as long as what has ended stays.
LEMMA TaskKept ==
  ASSUME ExtractionIInv, ext' = ext, overlapped' = overlapped,
         \/ task' \in {task, "cancelled"}
         \/ task \notin Extraction!Terminal /\ task' \in {"queued", "failed"}
  PROVE  Extraction!TaskShowsExtraction' /\ task' \in Extraction!Terminal \union {"absent", "queued", "running"}
  BY DEF ExtractionIInv, ExtractionShapes, Extraction!TaskShowsExtraction, Extraction!Terminal

\* An item that is given back has no owner.
LEMMA ItemReleased ==
  ASSUME ExtractionIInv, NEW s \in Extraction!TerminalItem \union {"queued"},
         item' = [item EXCEPT !.status = s, !.owner = Nobody]
  PROVE  item' \in QueueItems /\ item'.owner = Nobody /\ item'.status = s
  BY DEF ExtractionIInv, ExtractionShapes, QueueItems, Extraction!TerminalItem

\* What CancelLocked and the queue's requeue leave of item and Task.
LEMMA RequeueLeaves ==
  ASSUME ExtractionIInv, Extraction!CancelLocked \/ Extraction!Requeue
  PROVE  /\ item' \in QueueItems /\ item'.owner = Nobody /\ item'.status \in {"queued", "cancelled"}
         /\ \/ task' \in {task, "cancelled"}
            \/ task \notin Extraction!Terminal /\ task' \in {"queued", "failed"}
  <1>1. CASE Extraction!CancelLocked \/ item.cancel # "no"
    <2>1. Extraction!CancelLocked  BY <1>1 DEF Extraction!Requeue
    <2>2. item' = [item EXCEPT !.status = "cancelled", !.owner = Nobody]
          /\ task' \in {task, "cancelled"}
      BY <2>1 DEF Extraction!CancelLocked
    <2> QED BY <2>2, ItemReleased DEF Extraction!TerminalItem
  <1>2. CASE Extraction!Requeue /\ item.cancel = "no"
    <2>1. item' = [item EXCEPT !.status = "queued", !.owner = Nobody]
          /\ task' = IF task \in Extraction!Terminal THEN task ELSE "queued"
      BY <1>2 DEF Extraction!Requeue
    <2> QED BY <2>1, ItemReleased
  <1> QED BY <1>1, <1>2

\* Nothing changes in a stuttering step.
LEMMA ExtractionStutterInv == ExtractionIInv /\ UNCHANGED Extraction!vars => ExtractionIInv'
  <1> SUFFICES ASSUME ExtractionIInv, UNCHANGED Extraction!vars PROVE ExtractionIInv'  OBVIOUS
  <1>1. UNCHANGED <<item, task, ext, manifest, rows, found, report, exec, request, canceller,
                    overlapped>>
    BY DEF Extraction!vars
  <1>2. ExtractionShapes' /\ CreatedInOrder'
    BY <1>1 DEF ExtractionIInv, ExtractionShapes, CreatedInOrder, Works
  <1>3. ManifestIsWhole' /\ OneLoopAtATime' /\ Extraction!ReportCoversManifest' /\ Extraction!AnalysedOnce'
    BY <1>1, ResultsKept DEF Extraction!results, ExtractionIInv, OneLoopAtATime, Works
  <1>4. Extraction!TaskShowsExtraction'  BY <1>1, TaskKept
  <1> QED BY <1>2, <1>3, <1>4 DEF ExtractionIInv

\* The endpoints and the lease: nobody executes anything meanwhile.
LEMMA EndpointsInv ==
  ASSUME ExtractionIInv, Extraction!CreateTask \/ Extraction!CreateRecord \/ Extraction!RequestCancel \/ Extraction!EndpointCancelsRecord
                         \/ Extraction!ExpireLease
  PROVE  ExtractionIInv'
  <1>1. UNCHANGED <<Extraction!results, exec, overlapped>>
    BY DEF Extraction!CreateTask, Extraction!CreateRecord, Extraction!RequestCancel, Extraction!EndpointCancelsRecord, Extraction!ExpireLease
  <1>2. \A w \in Workers : exec'[w] = exec[w]  BY <1>1
  <1>3. item \in QueueItems /\ (item.owner # Nobody <=> item.status = "leased")
        /\ (request # "done" => ext = "absent")
        /\ \A w \in Workers : Works(w) => request = "done"
    BY DEF ExtractionIInv, ExtractionShapes, CreatedInOrder
  <1>4. /\ item' \in QueueItems
        /\ item'.owner # Nobody <=> item'.status = "leased"
        /\ item'.status = "none" \/ request' # "none"
    <2>1. CASE Extraction!CreateTask
      <3>1. item.status = "none" /\ item.owner = Nobody
        BY <1>3, <2>1 DEF Extraction!CreateTask, ExtractionIInv, CreatedInOrder
      <3> QED BY <1>3, <2>1, <3>1 DEF Extraction!CreateTask, QueueItems
    <2>2. CASE Extraction!CreateRecord \/ Extraction!EndpointCancelsRecord
      BY <1>3, <2>2 DEF Extraction!CreateRecord, Extraction!EndpointCancelsRecord, ExtractionIInv, CreatedInOrder
    <2>3. CASE Extraction!RequestCancel
      <3>1. CASE item.status = "queued"
        BY <2>3, <3>1, RequeueLeaves DEF Extraction!RequestCancel
      <3>2. CASE item.status # "queued"
        <4> DEFINE c == IF task \in Extraction!Terminal THEN "late" ELSE "early"
        <4>1. item' = [item EXCEPT !.cancel = c] /\ c \in {"no", "early", "late"}
          BY <2>3, <3>2 DEF Extraction!RequestCancel
        <4> HIDE DEF c
        <4> QED BY <1>3, <2>3, <4>1 DEF QueueItems, Extraction!RequestCancel
      <3> QED BY <3>1, <3>2
    <2>4. CASE Extraction!ExpireLease
      <3>1. request # "none" /\ request' = request
        BY <2>4 DEF Extraction!ExpireLease, ExtractionIInv, CreatedInOrder, Extraction!endpoints
      <3> QED BY <2>4, <3>1, RequeueLeaves DEF Extraction!ExpireLease
    <2> QED BY <2>1, <2>2, <2>3, <2>4
  <1>5. /\ request' \in {"none", "task", "done", "lost"} /\ canceller' \in {"none", "cancelled"}
        /\ request = "done" => request' = "done"
        /\ request' # "done" => request # "done" /\ ext' = ext
        /\ request' = "none" => request = "none"
    BY <1>3 DEF Extraction!CreateTask, Extraction!CreateRecord, Extraction!RequestCancel, Extraction!EndpointCancelsRecord, Extraction!ExpireLease,
                Extraction!endpoints, ExtractionIInv, ExtractionShapes, Extraction!CancelRecord
  <1>6. /\ ext' \in Extraction!Terminal \union {"absent", "queued", "running"}
        /\ ext' = "completed" => ext = "completed"
        /\ ~overlapped => \A w \in Workers : Works(w) => ext' \in {"running", "cancelled"}
        /\ task' \in Extraction!Terminal \union {"absent", "queued", "running"} /\ Extraction!TaskShowsExtraction'
    <2>1. CASE Extraction!CreateTask
      <3>1. ext' = ext /\ ext = "absent" /\ task' = "queued" /\ overlapped' = overlapped
        BY <1>3, <2>1 DEF Extraction!CreateTask
      <3>2. Extraction!TaskShowsExtraction'  BY <3>1 DEF Extraction!TaskShowsExtraction
      <3> QED BY <3>1, <3>2 DEF ExtractionIInv, ExtractionShapes, OneLoopAtATime
    <2>2. CASE Extraction!CreateRecord
      <3>1. ext = "absent" /\ ext' = "queued" /\ task' = task /\ overlapped' = overlapped
            /\ \A w \in Workers : ~Works(w)
        BY <1>3, <2>2 DEF Extraction!CreateRecord
      <3>2. Extraction!TaskShowsExtraction'
        BY <3>1 DEF ExtractionIInv, Extraction!TaskShowsExtraction
      <3> QED BY <3>1, <3>2 DEF ExtractionIInv, ExtractionShapes
    <2>3. CASE Extraction!RequestCancel
      <3>1. ext' = ext /\ overlapped' = overlapped  BY <2>3 DEF Extraction!RequestCancel
      <3>2. \/ task' \in {task, "cancelled"}
            \/ task \notin Extraction!Terminal /\ task' \in {"queued", "failed"}
        BY <2>3, RequeueLeaves DEF Extraction!RequestCancel
      <3> QED BY <3>1, <3>2, TaskKept DEF ExtractionIInv, ExtractionShapes, OneLoopAtATime
    <2>4. CASE Extraction!EndpointCancelsRecord
      <3>1. /\ ext' = IF ext \in Extraction!Terminal \union {"absent"} THEN ext ELSE "cancelled"
            /\ task' = IF task \in Extraction!Terminal THEN task ELSE "cancelled"
            /\ overlapped' = overlapped
        BY <2>4 DEF Extraction!EndpointCancelsRecord, Extraction!CancelRecord
      <3>2. Extraction!TaskShowsExtraction'
        BY <3>1 DEF ExtractionIInv, Extraction!TaskShowsExtraction, Extraction!Terminal
      <3>3. /\ ext' \in Extraction!Terminal \union {"absent", "queued", "running"}
            /\ ext' = "completed" => ext = "completed"
            /\ task' \in Extraction!Terminal \union {"absent", "queued", "running"}
        BY <3>1 DEF ExtractionIInv, ExtractionShapes, Extraction!Terminal
      <3>4. ~overlapped => \A w \in Workers : Works(w) => ext' \in {"running", "cancelled"}
        BY <3>1 DEF ExtractionIInv, OneLoopAtATime, Extraction!Terminal
      <3> QED BY <3>2, <3>3, <3>4
    <2>5. CASE Extraction!ExpireLease
      <3>1. ext' = ext /\ overlapped' = overlapped  BY <2>5 DEF Extraction!ExpireLease
      <3>2. \/ task' \in {task, "cancelled"}
            \/ task \notin Extraction!Terminal /\ task' \in {"queued", "failed"}
        BY <2>5, RequeueLeaves DEF Extraction!ExpireLease
      <3> QED BY <3>1, <3>2, TaskKept DEF ExtractionIInv, ExtractionShapes, OneLoopAtATime
    <2> QED BY <2>1, <2>2, <2>3, <2>4, <2>5
  <1>7. ExtractionShapes'
    BY <1>1, <1>4, <1>5, <1>6 DEF ExtractionIInv, ExtractionShapes, Extraction!results
  <1>8. \A w \in Workers : Works(w)' <=> Works(w)  BY <1>1 DEF Works
  <1>9. CreatedInOrder'
    <2>1. request' = "none" =>
            item'.status = "none" /\ \A w \in Workers : exec'[w].stage = "idle"
      BY <1>1, <1>4, <1>5 DEF ExtractionIInv, CreatedInOrder
    <2>2. \A w \in Workers : Works(w)' => request' = "done"
      BY <1>3, <1>5, <1>8
    <2> QED BY <1>3, <1>4, <1>5, <2>1, <2>2 DEF CreatedInOrder
  <1>10. ManifestIsWhole' /\ OneLoopAtATime' /\ Extraction!ReportCoversManifest' /\ Extraction!AnalysedOnce'
    BY <1>1, <1>2, <1>6, <1>8, ResultsKept
  <1> QED BY <1>6, <1>7, <1>9, <1>10 DEF ExtractionIInv

\* A loop claims the item: it is the only one, or two have executed at once.
LEMMA ClaimItemInv ==
  ASSUME ExtractionIInv, NEW w \in Workers, Extraction!ClaimItem(w)
  PROVE  ExtractionIInv'
  <1> DEFINE a == IF item.attempts < MaxAttempts THEN item.attempts + 1 ELSE item.attempts
  <1>1. /\ exec[w].stage = "idle" /\ item.status = "queued"
        /\ item' = [item EXCEPT !.status = "leased", !.owner = w, !.attempts = a]
        /\ exec' = [exec EXCEPT ![w].stage = "claimed"]
        /\ overlapped' = (overlapped \/ Extraction!Executing # {})
        /\ UNCHANGED <<task, ext, Extraction!results, Extraction!endpoints>>
    BY DEF Extraction!ClaimItem
  <1>2. UNCHANGED <<task, ext, manifest, rows, found, report, request, canceller>>
    BY <1>1 DEF Extraction!results, Extraction!endpoints
  <1>3. item \in QueueItems /\ exec \in [Workers -> Executions] /\ overlapped \in BOOLEAN
    BY DEF ExtractionIInv, ExtractionShapes
  <1>4. w # Nobody /\ a \in Nat  BY <1>3, ServicesAssumption DEF QueueItems
  <1> HIDE DEF a
  <1>5. item' \in QueueItems /\ item'.owner = w /\ item'.status = "leased"
    BY <1>1, <1>3, <1>4 DEF QueueItems
  <1>6. /\ exec' \in [Workers -> Executions] /\ exec'[w].stage = "claimed"
        /\ \A v \in Workers \ {w} : exec'[v] = exec[v]
    BY <1>1, <1>3 DEF Executions, ExecutionStages
  <1>7. ExtractionShapes'
    BY <1>1, <1>2, <1>5, <1>6 DEF ExtractionIInv, ExtractionShapes
  <1>8. CreatedInOrder'
    <2>1. request # "none"  BY <1>1 DEF ExtractionIInv, CreatedInOrder
    <2>2. \A v \in Workers : Works(v)' => request = "done"
      BY <1>6 DEF ExtractionIInv, CreatedInOrder, Works
    <2> QED BY <1>2, <1>4, <1>5, <2>1, <2>2 DEF ExtractionIInv, CreatedInOrder
  <1>9. ManifestIsWhole'
    <2>1. ASSUME NEW v \in Workers
          PROVE  /\ exec'[v].stage \in {"next", "asking"} => \A d \in Entries : rows'[d] # "absent"
                 /\ exec'[v].stage = "asking" => exec'[v].doc \in manifest'
      <3>1. CASE v = w  BY <1>6, <3>1
      <3>2. CASE v # w
        <4>1. exec'[v] = exec[v]  BY <1>6, <3>2
        <4> QED BY <1>2, <4>1 DEF ExtractionIInv, ManifestIsWhole
      <3> QED BY <3>1, <3>2
    <2> QED BY <1>2, <2>1 DEF ExtractionIInv, ManifestIsWhole, Extraction!Frozen
  <1>10. OneLoopAtATime'
    <2> SUFFICES ASSUME ~overlapped' PROVE OneLoopAtATime'
      BY DEF OneLoopAtATime
    <2>1. ~overlapped /\ Extraction!Executing = {}  BY <1>1, <1>3
    <2>2. \A v \in Workers : exec[v].stage = "idle"  BY <2>1 DEF Extraction!Executing
    <2>3. \A v \in Workers : v # w => exec'[v].stage = "idle"  BY <1>6, <2>2
    <2>4. \A v \in Workers : ~Works(v)' /\ exec'[v].stage \notin {"next", "asking"}
      BY <1>6, <2>3 DEF Works
    <2>5. \A d \in Entries : found'[d] > 0 <=> rows'[d] = "analyzed"
      BY <1>2, <2>1 DEF ExtractionIInv, OneLoopAtATime
    <2> QED BY <2>3, <2>4, <2>5 DEF OneLoopAtATime
  <1>11. overlapped' \/ ~overlapped  BY <1>1, <1>3
  <1>12. Extraction!ReportCoversManifest' /\ Extraction!AnalysedOnce' /\ Extraction!TaskShowsExtraction'
    BY <1>2, <1>11 DEF ExtractionIInv, Extraction!ReportCoversManifest, Extraction!AnalysedOnce, Extraction!TaskShowsExtraction
  <1> QED BY <1>7, <1>8, <1>9, <1>10, <1>12 DEF ExtractionIInv

\* A loop gives the item back.
LEMMA GiveBackInv ==
  ASSUME ExtractionIInv, NEW w \in Workers, Extraction!Finish(w) \/ Extraction!AbandonItem(w)
  PROVE  ExtractionIInv'
  <1>1. /\ exec[w].stage \in {"returned", "raised", "cancelled"}
        /\ exec' = [exec EXCEPT ![w] = Extraction!Idle]
        /\ UNCHANGED <<ext, Extraction!results, Extraction!endpoints, overlapped>>
    BY DEF Extraction!Finish, Extraction!AbandonItem
  <1>2. UNCHANGED <<ext, manifest, rows, found, report, request, canceller, overlapped>>
    BY <1>1 DEF Extraction!results, Extraction!endpoints
  <1>3. item \in QueueItems /\ exec \in [Workers -> Executions]
        /\ (item.owner # Nobody <=> item.status = "leased")
    BY DEF ExtractionIInv, ExtractionShapes, CreatedInOrder
  <1>4. request # "none"  BY <1>1 DEF ExtractionIInv, CreatedInOrder
  <1>5. /\ item' \in QueueItems
        /\ item'.owner # Nobody <=> item'.status = "leased"
        /\ \/ task' \in {task, "cancelled"}
           \/ task \notin Extraction!Terminal /\ task' \in {"queued", "failed"}
    <2>1. CASE Extraction!CancelLocked \/ Extraction!Requeue
      <3>1. item' \in QueueItems /\ item'.owner = Nobody /\ item'.status \in {"queued", "cancelled"}
        BY <2>1, RequeueLeaves
      <3> QED BY <2>1, <3>1, RequeueLeaves
    <2>2. CASE UNCHANGED <<item, task>>  BY <1>3, <2>2
    <2>3. CASE /\ item' = [item EXCEPT !.status = "failed", !.owner = Nobody]
               /\ task' = IF task \in Extraction!Terminal THEN task ELSE "failed"
      <3>1. item' \in QueueItems /\ item'.owner = Nobody /\ item'.status = "failed"
        BY <2>3, ItemReleased DEF Extraction!TerminalItem
      <3> QED BY <2>3, <3>1
    <2>4. CASE /\ item' = [item EXCEPT !.owner = Nobody,
                             !.status = IF task \in {"completed", "cancelled"} THEN task ELSE "failed"]
               /\ UNCHANGED task
      <3> DEFINE s == IF task \in {"completed", "cancelled"} THEN task ELSE "failed"
      <3>1. item' = [item EXCEPT !.status = s, !.owner = Nobody] /\ s \in Extraction!TerminalItem
        BY <1>3, <2>4 DEF Extraction!TerminalItem, QueueItems
      <3> HIDE DEF s
      <3>2. item' \in QueueItems /\ item'.owner = Nobody /\ item'.status \in Extraction!TerminalItem
        BY <3>1, ItemReleased
      <3> QED BY <2>4, <3>2 DEF Extraction!TerminalItem
    <2>5. CASE Extraction!Finish(w)  BY <2>1, <2>4, <2>5 DEF Extraction!Finish
    <2>6. CASE Extraction!AbandonItem(w)  BY <2>1, <2>2, <2>3, <2>6 DEF Extraction!AbandonItem, Extraction!Abandon
    <2> QED BY <2>5, <2>6
  <1>6. Extraction!Idle \in Executions /\ Extraction!Idle.stage = "idle"  BY DEF Extraction!Idle, Executions, ExecutionStages
  <1>7. /\ exec' \in [Workers -> Executions] /\ exec'[w].stage = "idle"
        /\ \A v \in Workers \ {w} : exec'[v] = exec[v]
    BY <1>1, <1>3, <1>6
  <1>8. \A v \in Workers : Works(v)' => Works(v)  BY <1>7 DEF Works
  <1>9. Extraction!TaskShowsExtraction' /\ task' \in Extraction!Terminal \union {"absent", "queued", "running"}
    BY <1>2, <1>5, TaskKept
  <1>10. ExtractionShapes'
    BY <1>2, <1>5, <1>7, <1>9 DEF ExtractionIInv, ExtractionShapes
  <1>11. CreatedInOrder'
    BY <1>2, <1>4, <1>5, <1>8 DEF ExtractionIInv, CreatedInOrder
  <1>12. ManifestIsWhole' /\ OneLoopAtATime' /\ Extraction!ReportCoversManifest' /\ Extraction!AnalysedOnce'
    <2>1. \A v \in Workers : exec'[v] = exec[v] \/ exec'[v].stage = "idle"  BY <1>7
    <2>2. ~overlapped => \A v \in Workers : Works(v)' => ext' \in {"running", "cancelled"}
      BY <1>2, <1>8 DEF ExtractionIInv, OneLoopAtATime
    <2> QED BY <1>1, <1>2, <2>1, <2>2, ResultsKept
  <1> QED BY <1>9, <1>10, <1>11, <1>12 DEF ExtractionIInv

\* The process ends and begins again.
LEMMA RestartInv ==
  ASSUME ExtractionIInv, Extraction!Restart
  PROVE  ExtractionIInv'
  <1>1. /\ exec' = [w \in Workers |-> Extraction!Idle] /\ canceller' = "none"
        /\ request' = IF request = "task" THEN "lost" ELSE request
        /\ UNCHANGED <<ext, Extraction!results, overlapped>>
    BY DEF Extraction!Restart
  <1>2. UNCHANGED <<ext, manifest, rows, found, report, overlapped>>
    BY <1>1 DEF Extraction!results
  <1>3. item \in QueueItems /\ (item.owner # Nobody <=> item.status = "leased")
    BY DEF ExtractionIInv, ExtractionShapes, CreatedInOrder
  <1>4. Extraction!Idle \in Executions /\ Extraction!Idle.stage = "idle"  BY DEF Extraction!Idle, Executions, ExecutionStages
  <1>5. exec' \in [Workers -> Executions] /\ \A v \in Workers : exec'[v].stage = "idle" /\ ~Works(v)'
    BY <1>1, <1>4 DEF Works
  <1>6. /\ item' \in QueueItems
        /\ item'.owner # Nobody <=> item'.status = "leased"
        /\ item.status = "none" => item'.status = "none"
        /\ \/ task' \in {task, "cancelled"}
           \/ task \notin Extraction!Terminal /\ task' \in {"queued", "failed"}
    <2>1. CASE item.status \in Extraction!TerminalItem /\ task \notin Extraction!Terminal
      <3>1. item' = [item EXCEPT !.status = "queued", !.owner = Nobody, !.cancel = "no"]
            /\ task' = "queued"
        BY <2>1 DEF Extraction!Restart
      <3>2. item' \in QueueItems /\ item'.owner = Nobody /\ item'.status = "queued"
        BY <1>3, <3>1 DEF QueueItems
      <3> QED BY <2>1, <3>1, <3>2 DEF Extraction!TerminalItem
    <2>2. CASE ~(item.status \in Extraction!TerminalItem /\ task \notin Extraction!Terminal)
      BY <1>3, <2>2 DEF Extraction!Restart
    <2> QED BY <2>1, <2>2
  <1>7. Extraction!TaskShowsExtraction' /\ task' \in Extraction!Terminal \union {"absent", "queued", "running"}
    BY <1>2, <1>6, TaskKept
  <1>8. ExtractionShapes'
    BY <1>1, <1>2, <1>5, <1>6, <1>7 DEF ExtractionIInv, ExtractionShapes
  <1>9. CreatedInOrder'
    BY <1>1, <1>2, <1>5, <1>6 DEF ExtractionIInv, CreatedInOrder
  <1>10. ManifestIsWhole' /\ OneLoopAtATime' /\ Extraction!ReportCoversManifest' /\ Extraction!AnalysedOnce'
    BY <1>1, <1>2, <1>5, ResultsKept
  <1> QED BY <1>7, <1>8, <1>9, <1>10 DEF ExtractionIInv

\* A step of a loop that executes keeps the order in which things are created.
LEMMA LoopKeepsOrder ==
  ASSUME ExtractionIInv, NEW w \in Workers, UNCHANGED <<item, Extraction!endpoints>>,
         exec[w].stage # "idle", \A v \in Workers \ {w} : exec'[v] = exec[v],
         Works(w)' => request = "done", ext' = ext \/ request = "done"
  PROVE  CreatedInOrder' /\ request' = request /\ canceller' = canceller /\ item' = item
  <1>1. request' = request /\ canceller' = canceller /\ item' = item  BY DEF Extraction!endpoints
  <1>2. request # "none"  BY DEF ExtractionIInv, CreatedInOrder
  <1>3. \A v \in Workers : Works(v)' => request = "done"
    <2> SUFFICES ASSUME NEW v \in Workers, Works(v)' PROVE request = "done"  OBVIOUS
    <2>1. CASE v # w  BY <2>1 DEF ExtractionIInv, CreatedInOrder, Works
    <2> QED BY <2>1
  <1> QED BY <1>1, <1>2, <1>3 DEF ExtractionIInv, CreatedInOrder

\* execute begins, or finds that there is nothing to do.
LEMMA StartInv ==
  ASSUME ExtractionIInv, NEW w \in Workers, Extraction!Start(w)
  PROVE  ExtractionIInv'
  <1>1. PICK s \in {"returned", "started"} :
          /\ exec' = [exec EXCEPT ![w].stage = s]
          /\ s = "returned" => task' = task /\ ext' = ext
          /\ s = "started" => /\ ext \notin Extraction!Terminal \union {"absent"}
                              /\ task' = "running" /\ ext' = "running"
    BY DEF Extraction!Start, Extraction!Go, Extraction!HasEnded
  <1>2. UNCHANGED <<item, Extraction!results, Extraction!endpoints, overlapped>> /\ exec[w].stage = "claimed"
    BY DEF Extraction!Start
  <1>3. exec \in [Workers -> Executions]  BY DEF ExtractionIInv, ExtractionShapes
  <1>4. /\ exec' \in [Workers -> Executions] /\ exec'[w].stage = s
        /\ \A v \in Workers \ {w} : exec'[v] = exec[v]
    BY <1>1, <1>3 DEF Executions, ExecutionStages
  <1>5. s = "started" => request = "done"
    BY <1>1 DEF ExtractionIInv, CreatedInOrder
  <1>6. CreatedInOrder' /\ request' = request /\ canceller' = canceller /\ item' = item
    <2>1. Works(w)' => request = "done"  BY <1>4, <1>5 DEF Works
    <2>2. ext' = ext \/ request = "done"  BY <1>1, <1>5
    <2> QED BY <1>2, <1>4, <2>1, <2>2, LoopKeepsOrder
  <1>7. ext' \in Extraction!Terminal \union {"absent", "queued", "running"}
        /\ task' \in Extraction!Terminal \union {"absent", "queued", "running"}
        /\ (ext' = "completed" => ext = "completed") /\ Extraction!TaskShowsExtraction'
    BY <1>1, <1>2 DEF ExtractionIInv, ExtractionShapes, Extraction!TaskShowsExtraction
  <1>8. ExtractionShapes'
    BY <1>2, <1>4, <1>6, <1>7 DEF ExtractionIInv, ExtractionShapes, Extraction!results
  <1>9. ManifestIsWhole' /\ OneLoopAtATime' /\ Extraction!ReportCoversManifest' /\ Extraction!AnalysedOnce'
    <2>1. \A v \in Workers : \/ exec'[v] = exec[v]
                             \/ exec[v].stage # "idle" /\ exec'[v].stage \notin {"next", "asking"}
      BY <1>2, <1>4
    <2>2. ASSUME ~overlapped, NEW v \in Workers, Works(v)'
          PROVE  ext' \in {"running", "cancelled"}
      <3>1. CASE v = w  BY <1>1, <1>4, <2>2, <3>1 DEF Works
      <3>2. CASE v # w
        <4>1. Works(v) /\ exec[v].stage # "idle"  BY <1>4, <2>2, <3>2 DEF Works
        <4> QED BY <1>2, <2>2, <3>2, <4>1 DEF ExtractionIInv, OneLoopAtATime
      <3> QED BY <3>1, <3>2
    <2> QED BY <1>2, <1>7, <2>1, <2>2, ResultsKept
  <1> QED BY <1>6, <1>7, <1>8, <1>9 DEF ExtractionIInv

\* An execution that works leaves: it has failed, or it was interrupted.
LEMMA LeaveInv ==
  ASSUME ExtractionIInv, NEW w \in Workers, Extraction!Raise(w) \/ Extraction!Interrupt(w) \/ Extraction!Shutdown(w)
  PROVE  ExtractionIInv'
  <1>1. PICK s \in {"returned", "raised", "cancelled"} :
          /\ exec' = [exec EXCEPT ![w] = [Extraction!Idle EXCEPT !.stage = s]]
          /\ \/ ext' = "failed" /\ task' = "failed"
             \/ Extraction!CancelRecord
    BY DEF Extraction!Raise, Extraction!Interrupt, Extraction!Shutdown, Extraction!Interrupted, Extraction!Fail
  <1>2. UNCHANGED <<item, Extraction!results, Extraction!endpoints, overlapped>> /\ Works(w)
    BY DEF Extraction!Raise, Extraction!Interrupt, Extraction!Shutdown, Works
  <1>3. exec \in [Workers -> Executions]  BY DEF ExtractionIInv, ExtractionShapes
  <1> DEFINE e == [Extraction!Idle EXCEPT !.stage = s]
  <1>4. e \in Executions /\ e.stage = s  BY DEF Extraction!Idle, Executions, ExecutionStages
  <1>5. exec' = [exec EXCEPT ![w] = e]  BY <1>1
  <1> HIDE DEF e
  <1>6. /\ exec' \in [Workers -> Executions] /\ exec'[w].stage = s /\ ~Works(w)'
        /\ \A v \in Workers \ {w} : exec'[v] = exec[v]
    BY <1>3, <1>4, <1>5 DEF Works
  <1>7. request = "done" /\ exec[w].stage # "idle"
    BY <1>2 DEF ExtractionIInv, CreatedInOrder, Works
  <1>8. CreatedInOrder' /\ request' = request /\ canceller' = canceller /\ item' = item
    BY <1>2, <1>6, <1>7, LoopKeepsOrder
  <1>9. ext' \in Extraction!Terminal \union {"absent", "queued", "running"}
        /\ task' \in Extraction!Terminal \union {"absent", "queued", "running"}
        /\ (ext' = "completed" => ext = "completed") /\ Extraction!TaskShowsExtraction'
    <2>1. CASE ext' = "failed" /\ task' = "failed"
      BY <2>1 DEF Extraction!TaskShowsExtraction, Extraction!Terminal
    <2>2. CASE Extraction!CancelRecord
      <3>1. /\ ext' = IF ext \in Extraction!Terminal \union {"absent"} THEN ext ELSE "cancelled"
            /\ task' = IF task \in Extraction!Terminal THEN task ELSE "cancelled"
            /\ overlapped' = overlapped
        BY <1>2, <2>2 DEF Extraction!CancelRecord
      <3>2. Extraction!TaskShowsExtraction'
        BY <3>1 DEF ExtractionIInv, Extraction!TaskShowsExtraction, Extraction!Terminal
      <3> QED BY <3>1, <3>2 DEF ExtractionIInv, ExtractionShapes, Extraction!Terminal
    <2> QED BY <1>1, <2>1, <2>2
  <1>10. ExtractionShapes'
    BY <1>2, <1>6, <1>8, <1>9 DEF ExtractionIInv, ExtractionShapes, Extraction!results
  <1>11. ManifestIsWhole' /\ OneLoopAtATime' /\ Extraction!ReportCoversManifest' /\ Extraction!AnalysedOnce'
    <2>1. \A v \in Workers : \/ exec'[v] = exec[v]
                             \/ exec[v].stage # "idle" /\ exec'[v].stage \notin {"next", "asking"}
      BY <1>6, <1>7
    <2>2. ASSUME ~overlapped, NEW v \in Workers, Works(v)'
          PROVE  FALSE
      <3>1. v # w  BY <1>6, <2>2
      <3>2. exec[v].stage # "idle"  BY <1>6, <2>2, <3>1 DEF Works
      <3> QED BY <1>7, <2>2, <3>1, <3>2 DEF ExtractionIInv, OneLoopAtATime
    <2> QED BY <1>2, <1>9, <2>1, <2>2, ResultsKept
  <1> QED BY <1>8, <1>9, <1>10, <1>11 DEF ExtractionIInv

\* A manifest is frozen once; a later attempt finds the rows of the earlier one.
LEMMA PrepareManifestInv ==
  ASSUME ExtractionIInv, NEW w \in Workers, Extraction!PrepareManifest(w)
  PROVE  ExtractionIInv'
  <1> DEFINE e == [exec[w] EXCEPT !.stage = "next", !.todo = Entries]
  <1>1. /\ exec[w].stage = "started" /\ exec' = [exec EXCEPT ![w] = e] /\ ext' = "running"
        /\ UNCHANGED <<item, task, found, report, Extraction!endpoints, overlapped>>
    BY DEF Extraction!PrepareManifest
  <1>2. exec \in [Workers -> Executions] /\ Works(w) /\ exec[w].stage # "idle"
    BY <1>1 DEF ExtractionIInv, ExtractionShapes, Works
  <1>3. e \in Executions /\ e.stage = "next" /\ e.todo = Entries
    BY <1>2 DEF Executions, ExecutionStages
  <1> HIDE DEF e
  <1>4. /\ exec' \in [Workers -> Executions] /\ exec'[w] = e
        /\ \A v \in Workers \ {w} : exec'[v] = exec[v]
    BY <1>1, <1>2, <1>3
  <1>5. request = "done"  BY <1>2 DEF ExtractionIInv, CreatedInOrder
  <1>6. CreatedInOrder' /\ request' = request /\ canceller' = canceller /\ item' = item
    BY <1>1, <1>2, <1>4, <1>5, LoopKeepsOrder
  <1>7. ~overlapped => ext \in {"running", "cancelled"} /\ \A v \in Workers \ {w} : exec[v].stage = "idle"
    BY <1>2 DEF ExtractionIInv, OneLoopAtATime
  <1>8. Extraction!TaskShowsExtraction'
    BY <1>1, <1>7 DEF ExtractionIInv, Extraction!TaskShowsExtraction
  <1>9. /\ manifest' \in SUBSET Entries /\ rows' \in [Entries -> Extraction!TerminalRow \union {"absent", "pending", "extracting"}]
        /\ \A d \in Entries : rows'[d] # "absent"
        /\ \A d \in Entries : found[d] > 0 => d \in manifest'
        /\ \A v \in Workers : exec[v].stage = "asking" => exec[v].doc \in manifest'
        /\ ~overlapped => \A d \in Entries : found[d] > 0 <=> rows'[d] = "analyzed"
    <2>1. CASE Extraction!Frozen
      <3>1. manifest' = manifest /\ rows' = rows  BY <2>1 DEF Extraction!PrepareManifest
      <3> QED BY <2>1, <3>1 DEF ExtractionIInv, ExtractionShapes, ManifestIsWhole, OneLoopAtATime
    <2>2. CASE ~Extraction!Frozen
      <3>1. PICK ready \in SUBSET Entries, excluded \in SUBSET Entries :
              /\ manifest' = ready
              /\ rows' = [d \in Entries |-> IF d \in excluded THEN "excluded" ELSE "pending"]
        BY <2>2 DEF Extraction!PrepareManifest
      <3>2. \A d \in Entries : rows[d] = "absent"  BY <2>2 DEF Extraction!Frozen
      <3>3. \A d \in Entries : ~(found[d] > 0)  BY <3>2 DEF ExtractionIInv, ManifestIsWhole
      <3>4. \A v \in Workers : exec[v].stage # "asking"
        BY <3>2 DEF ExtractionIInv, ExtractionShapes, ManifestIsWhole
      <3>5. \A d \in Entries : rows'[d] \in {"excluded", "pending"}  BY <3>1
      <3>6. rows' \in [Entries -> Extraction!TerminalRow \union {"absent", "pending", "extracting"}]
        BY <3>1 DEF Extraction!TerminalRow
      <3> QED BY <3>1, <3>3, <3>4, <3>5, <3>6
    <2> QED BY <2>1, <2>2
  <1>10. ExtractionShapes'
    BY <1>1, <1>4, <1>6, <1>9 DEF ExtractionIInv, ExtractionShapes
  <1>11. ManifestIsWhole'
    <2>1. \A v \in Workers : exec'[v].stage = "asking" => exec'[v].doc \in manifest'
      BY <1>3, <1>4, <1>9
    <2> QED BY <1>1, <1>9, <2>1 DEF ManifestIsWhole
  <1>12. OneLoopAtATime'
    <2> SUFFICES ASSUME ~overlapped PROVE OneLoopAtATime'
      BY <1>1 DEF OneLoopAtATime
    <2>1. \A v \in Workers : v # w => exec'[v].stage = "idle"  BY <1>4, <1>7
    <2>2. ASSUME NEW v \in Workers
          PROVE  /\ Works(v)' => ext' \in {"running", "cancelled"}
                 /\ exec'[v].stage = "next" => \A d \in Entries \ exec'[v].todo : rows'[d] \in Extraction!TerminalRow
                 /\ exec'[v].stage # "asking"
      BY <1>1, <1>3, <1>4, <2>1
    <2>3. \A d \in Entries : found'[d] > 0 <=> rows'[d] = "analyzed"  BY <1>1, <1>9
    <2> QED BY <2>1, <2>2, <2>3 DEF OneLoopAtATime
  <1>13. Extraction!ReportCoversManifest' /\ Extraction!AnalysedOnce'
    BY <1>1 DEF ExtractionIInv, Extraction!ReportCoversManifest, Extraction!AnalysedOnce
  <1> QED BY <1>6, <1>8, <1>10, <1>11, <1>12, <1>13 DEF ExtractionIInv

\* One document of a loop goes on: its row is ended or asked, the rest of what the
\* loop has taken up has ended, and candidates come with the end of the row.
LEMMA DocumentMoves ==
  ASSUME ExtractionIInv, NEW w \in Workers, exec[w].stage \in {"next", "asking"},
         NEW d \in Entries, NEW r \in Extraction!TerminalRow \union {"extracting"}, NEW e \in Executions,
         e.stage \in {"next", "asking"},
         exec' = [exec EXCEPT ![w] = e], rows' = [rows EXCEPT ![d] = r],
         found' \in [Entries -> Nat], \A x \in Entries : x # d => found'[x] = found[x],
         found'[d] > 0 => d \in manifest,
         ~overlapped => (found'[d] > 0 <=> r = "analyzed") /\ found'[d] <= 1,
         e.stage = "next" =>
           /\ r \in Extraction!TerminalRow
           /\ ~overlapped => \A x \in Entries \ e.todo : x # d => rows[x] \in Extraction!TerminalRow,
         e.stage = "asking" =>
           /\ e.doc = d /\ d \in manifest
           /\ ~overlapped =>
                /\ r = "extracting" /\ d \notin e.todo
                /\ \A x \in Entries \ e.todo : x # d => rows[x] \in Extraction!TerminalRow,
         UNCHANGED <<item, task, ext, manifest, report, Extraction!endpoints, overlapped>>
  PROVE  ExtractionIInv'
  <1>1. UNCHANGED <<item, task, ext, manifest, report, request, canceller, overlapped>>
    BY DEF Extraction!endpoints
  <1>2. exec'[w] = e /\ (\A v \in Workers : v # w => exec'[v] = exec[v])
    BY DEF ExtractionIInv, ExtractionShapes
  <1>3. rows'[d] = r /\ (\A x \in Entries : x # d => rows'[x] = rows[x])
    BY DEF ExtractionIInv, ExtractionShapes
  <1>4. ExtractionShapes'
    <2>1. exec' \in [Workers -> Executions]  BY DEF ExtractionIInv, ExtractionShapes
    <2>2. rows' \in [Entries -> Extraction!TerminalRow \union {"absent", "pending", "extracting"}]
      BY DEF ExtractionIInv, ExtractionShapes
    <2> QED BY <1>1, <2>1, <2>2 DEF ExtractionIInv, ExtractionShapes
  <1>5. Works(w) /\ request = "done"
    BY DEF ExtractionIInv, CreatedInOrder, Works
  <1>6. CreatedInOrder'
    BY <1>1, <1>2, <1>5 DEF ExtractionIInv, CreatedInOrder, Works
  <1>7. \A x \in Entries : rows[x] # "absent" /\ rows'[x] # "absent"
    <2>1. \A x \in Entries : rows[x] # "absent"  BY DEF ExtractionIInv, ManifestIsWhole
    <2>2. r # "absent"  BY DEF Extraction!TerminalRow
    <2> QED BY <2>1, <2>2, <1>3
  <1>8. ManifestIsWhole'
    <2>1. \A x \in Entries : found'[x] > 0 => x \in manifest'
      BY <1>1 DEF ExtractionIInv, ManifestIsWhole
    <2>2. ASSUME NEW v \in Workers, exec'[v].stage = "asking" PROVE exec'[v].doc \in manifest'
      BY <2>2, <1>1, <1>2 DEF ExtractionIInv, ManifestIsWhole
    <2> QED BY <1>7, <2>1, <2>2 DEF ManifestIsWhole
  <1>9. ASSUME ~overlapped
        PROVE  /\ ext \in {"running", "cancelled"}
               /\ \A v \in Workers : v # w => exec'[v].stage = "idle"
               /\ \A x \in Entries : found'[x] > 0 <=> rows'[x] = "analyzed"
               /\ \A x \in Entries : found'[x] <= 1
    <2>1. ext \in {"running", "cancelled"}  BY <1>9, <1>5 DEF ExtractionIInv, OneLoopAtATime
    <2>2. \A v \in Workers : v # w => exec[v].stage = "idle"
      BY <1>9 DEF ExtractionIInv, OneLoopAtATime
    <2>3. ASSUME NEW x \in Entries
          PROVE  (found'[x] > 0 <=> rows'[x] = "analyzed") /\ found'[x] <= 1
      <3>1. CASE x = d  BY <3>1, <1>9, <1>3
      <3>2. CASE x # d
        BY <3>2, <1>9, <1>3 DEF ExtractionIInv, OneLoopAtATime, Extraction!AnalysedOnce
      <3> QED BY <3>1, <3>2
    <2> QED BY <1>2, <2>1, <2>2, <2>3
  <1>10. OneLoopAtATime'
    <2> SUFFICES ASSUME ~overlapped' PROVE OneLoopAtATime'  BY DEF OneLoopAtATime
    <2>1. ~overlapped  BY <1>1
    <2>2. \A v \in Workers : exec'[v].stage # "idle" => v = w  BY <1>9, <2>1
    <2>3. \A v \in Workers : Works(v)' => ext' \in {"running", "cancelled"}
      BY <1>1, <1>9, <2>1
    <2>4. exec'[w].stage = "next" => \A x \in Entries \ exec'[w].todo : rows'[x] \in Extraction!TerminalRow
      BY <1>2, <1>3, <2>1
    <2>5. exec'[w].stage = "asking" =>
            /\ rows'[exec'[w].doc] = "extracting" /\ exec'[w].doc \notin exec'[w].todo
            /\ \A x \in Entries \ exec'[w].todo : x # exec'[w].doc => rows'[x] \in Extraction!TerminalRow
      BY <1>2, <1>3, <2>1
    <2>6. \A x \in Entries : found'[x] > 0 <=> rows'[x] = "analyzed"  BY <1>9, <2>1
    <2>7. \A v, u \in Workers : exec'[v].stage # "idle" /\ exec'[u].stage # "idle" => v = u
      BY <2>2
    <2>8. ASSUME NEW v \in Workers
          PROVE  /\ Works(v)' => ext' \in {"running", "cancelled"}
                 /\ exec'[v].stage = "next" =>
                      \A x \in Entries \ exec'[v].todo : rows'[x] \in Extraction!TerminalRow
                 /\ exec'[v].stage = "asking" =>
                      /\ rows'[exec'[v].doc] = "extracting" /\ exec'[v].doc \notin exec'[v].todo
                      /\ \A x \in Entries \ exec'[v].todo :
                           x # exec'[v].doc => rows'[x] \in Extraction!TerminalRow
      BY <2>2, <2>3, <2>4, <2>5
    <2> QED BY <2>6, <2>7, <2>8 DEF OneLoopAtATime
  <1>11. Extraction!ReportCoversManifest' /\ Extraction!AnalysedOnce'
    BY <1>1, <1>9 DEF Extraction!ReportCoversManifest, Extraction!AnalysedOnce
  <1>12. Extraction!TaskShowsExtraction'  BY <1>1 DEF ExtractionIInv, Extraction!TaskShowsExtraction
  <1> QED BY <1>4, <1>6, <1>8, <1>10, <1>11, <1>12 DEF ExtractionIInv

\* What is known of a loop between two documents.
LEMMA BetweenDocuments ==
  ASSUME ExtractionIInv, NEW w \in Workers, exec[w].stage = "next", NEW d \in exec[w].todo
  PROVE  /\ d \in Entries /\ exec[w] \in Executions /\ exec \in [Workers -> Executions]
         /\ d \notin manifest => ~(found[d] > 0)
         /\ ~overlapped =>
              /\ found[d] > 0 <=> rows[d] = "analyzed"
              /\ found[d] <= 1
              /\ \A x \in Entries \ (exec[w].todo \ {d}) : x # d => rows[x] \in Extraction!TerminalRow
  <1>1. exec \in [Workers -> Executions]  BY DEF ExtractionIInv, ExtractionShapes
  <1>2. exec[w] \in Executions  BY <1>1
  <1>3. d \in Entries  BY <1>2 DEF Executions
  <1>4. d \notin manifest => ~(found[d] > 0)  BY <1>3 DEF ExtractionIInv, ManifestIsWhole
  <1>5. ASSUME ~overlapped
        PROVE  /\ found[d] > 0 <=> rows[d] = "analyzed"
               /\ found[d] <= 1
               /\ \A x \in Entries \ (exec[w].todo \ {d}) : x # d => rows[x] \in Extraction!TerminalRow
    BY <1>3, <1>5 DEF ExtractionIInv, OneLoopAtATime, Extraction!AnalysedOnce
  <1> QED BY <1>1, <1>2, <1>3, <1>4, <1>5

LEMMA BeginDocumentInv ==
  ASSUME ExtractionIInv, NEW w \in Workers, Extraction!BeginDocument(w)
  PROVE  ExtractionIInv'
  <1>1. /\ exec[w].stage = "next"
        /\ UNCHANGED <<item, task, ext, manifest, found, report, Extraction!endpoints, overlapped>>
    BY DEF Extraction!BeginDocument
  <1>2. PICK d \in exec[w].todo :
          IF Extraction!Done(d) \/ rows[d] = "excluded"
          THEN exec' = [exec EXCEPT ![w].todo = @ \ {d}] /\ UNCHANGED rows
          ELSE IF d \notin manifest
          THEN /\ exec' = [exec EXCEPT ![w].todo = @ \ {d}]
               /\ rows' = [rows EXCEPT ![d] = "failed"]
          ELSE /\ exec' = [exec EXCEPT ![w].stage = "asking", ![w].doc = d, ![w].todo = @ \ {d}]
               /\ rows' = [rows EXCEPT ![d] = "extracting"]
    BY DEF Extraction!BeginDocument
  <1>3. /\ d \in Entries /\ exec[w] \in Executions /\ exec \in [Workers -> Executions]
        /\ d \notin manifest => ~(found[d] > 0)
        /\ ~overlapped =>
             /\ found[d] > 0 <=> rows[d] = "analyzed"
             /\ found[d] <= 1
             /\ \A x \in Entries \ (exec[w].todo \ {d}) : x # d => rows[x] \in Extraction!TerminalRow
    BY <1>1, BetweenDocuments
  <1>4. found' \in [Entries -> Nat] /\ found' = found
    BY <1>1 DEF ExtractionIInv, ExtractionShapes
  <1> DEFINE past == [exec[w] EXCEPT !.todo = @ \ {d}]
             asks == [exec[w] EXCEPT !.stage = "asking", !.doc = d, !.todo = @ \ {d}]
  <1>5. past \in Executions /\ past.stage = "next" /\ past.todo = exec[w].todo \ {d}
    BY <1>1, <1>3 DEF Executions
  <1>6. /\ asks \in Executions /\ asks.stage = "asking" /\ asks.doc = d
        /\ asks.todo = exec[w].todo \ {d}
    BY <1>1, <1>3 DEF Executions, ExecutionStages
  <1>7. CASE Extraction!Done(d) \/ rows[d] = "excluded"
    <2>1. exec' = [exec EXCEPT ![w] = past] /\ rows' = rows  BY <1>2, <1>7
    <2>2. rows[d] \in Extraction!TerminalRow  BY <1>7 DEF Extraction!Done, Extraction!TerminalRow
    <2>3. rows' = [rows EXCEPT ![d] = rows[d]]
      BY <2>1, <1>3 DEF ExtractionIInv, ExtractionShapes
    <2>4. found'[d] > 0 => d \in manifest  BY <1>3, <1>4
    <2> HIDE DEF past, asks
    <2> QED BY <1>1, <1>3, <1>4, <1>5, <2>1, <2>2, <2>3, <2>4, DocumentMoves
  <1>8. CASE ~(Extraction!Done(d) \/ rows[d] = "excluded") /\ d \notin manifest
    <2>1. exec' = [exec EXCEPT ![w] = past] /\ rows' = [rows EXCEPT ![d] = "failed"]
      BY <1>2, <1>8
    <2>2. "failed" \in Extraction!TerminalRow  BY DEF Extraction!TerminalRow
    <2>3. ~(found'[d] > 0)  BY <1>3, <1>4, <1>8
    <2> HIDE DEF past, asks
    <2> QED BY <1>1, <1>3, <1>4, <1>5, <2>1, <2>2, <2>3, DocumentMoves
  <1>9. CASE ~(Extraction!Done(d) \/ rows[d] = "excluded") /\ d \in manifest
    <2>1. exec' = [exec EXCEPT ![w] = asks] /\ rows' = [rows EXCEPT ![d] = "extracting"]
      BY <1>2, <1>9
    <2>2. ~overlapped => ~(found'[d] > 0)  BY <1>3, <1>4, <1>9 DEF Extraction!Done
    <2> HIDE DEF past, asks
    <2> QED BY <1>1, <1>3, <1>4, <1>6, <1>9, <2>1, <2>2, DocumentMoves
  <1> QED BY <1>7, <1>8, <1>9

\* What is known of a loop that has asked for a document.
LEMMA AskedDocument ==
  ASSUME ExtractionIInv, NEW w \in Workers, exec[w].stage = "asking",
         NEW e, e = [exec[w] EXCEPT !.stage = "next", !.doc = Nobody]
  PROVE  /\ exec[w].doc \in Entries /\ exec[w].doc \in manifest
         /\ e \in Executions /\ e.stage = "next" /\ e.todo = exec[w].todo
         /\ ~overlapped =>
              /\ found[exec[w].doc] = 0
              /\ \A x \in Entries \ e.todo : x # exec[w].doc => rows[x] \in Extraction!TerminalRow
  <1>1. exec[w] \in Executions  BY DEF ExtractionIInv, ExtractionShapes
  <1>2. exec[w].doc \in manifest /\ manifest \in SUBSET Entries
    BY DEF ExtractionIInv, ExtractionShapes, ManifestIsWhole
  <1>3. e \in Executions /\ e.stage = "next" /\ e.todo = exec[w].todo
    BY <1>1 DEF Executions, ExecutionStages
  <1>4. ASSUME ~overlapped
        PROVE  /\ found[exec[w].doc] = 0
               /\ \A x \in Entries \ e.todo : x # exec[w].doc => rows[x] \in Extraction!TerminalRow
    <2>1. rows[exec[w].doc] = "extracting"  BY <1>4 DEF ExtractionIInv, OneLoopAtATime
    <2>2. ~(found[exec[w].doc] > 0)  BY <1>2, <1>4, <2>1 DEF ExtractionIInv, OneLoopAtATime
    <2>3. found[exec[w].doc] \in Nat  BY <1>2 DEF ExtractionIInv, ExtractionShapes
    <2>4. \A x \in Entries \ e.todo : x # exec[w].doc => rows[x] \in Extraction!TerminalRow
      BY <1>3, <1>4 DEF ExtractionIInv, OneLoopAtATime
    <2> QED BY <2>2, <2>3, <2>4
  <1> QED BY <1>2, <1>3, <1>4

LEMMA DocumentAnalysedInv ==
  ASSUME ExtractionIInv, NEW w \in Workers, Extraction!DocumentAnalysed(w)
  PROVE  ExtractionIInv'
  <1> DEFINE d == exec[w].doc
             e == [exec[w] EXCEPT !.stage = "next", !.doc = Nobody]
             n == IF found[d] < 2 THEN found[d] + 1 ELSE found[d]
  <1>1. /\ exec[w].stage = "asking"
        /\ UNCHANGED <<item, task, ext, manifest, report, Extraction!endpoints, overlapped>>
    BY DEF Extraction!DocumentAnalysed
  <1>2. /\ d \in Entries /\ d \in manifest /\ e \in Executions /\ e.stage = "next"
        /\ ~overlapped =>
             found[d] = 0 /\ \A x \in Entries \ e.todo : x # d => rows[x] \in Extraction!TerminalRow
    BY <1>1, AskedDocument
  <1>3. /\ exec' = [exec EXCEPT ![w] = e] /\ rows' = [rows EXCEPT ![d] = "analyzed"]
        /\ found' = [found EXCEPT ![d] = n]
    BY DEF Extraction!DocumentAnalysed
  <1>4. found[d] \in Nat /\ found \in [Entries -> Nat]
    BY <1>2 DEF ExtractionIInv, ExtractionShapes
  <1>5. n \in Nat /\ n > 0 /\ (~overlapped => n = 1)  BY <1>2, <1>4
  <1> HIDE DEF n, e, d
  <1>6. found' \in [Entries -> Nat] /\ found'[d] = n /\ \A x \in Entries : x # d => found'[x] = found[x]
    BY <1>2, <1>3, <1>4, <1>5
  <1>7. "analyzed" \in Extraction!TerminalRow  BY DEF Extraction!TerminalRow
  <1>8. /\ found'[d] > 0 => d \in manifest
        /\ ~overlapped => (found'[d] > 0 <=> "analyzed" = "analyzed") /\ found'[d] <= 1
    BY <1>2, <1>5, <1>6
  <1>9. exec[w].stage \in {"next", "asking"} /\ e.stage \in {"next", "asking"}
    BY <1>1, <1>2
  <1>10. ~overlapped => \A x \in Entries \ e.todo : x # d => rows[x] \in Extraction!TerminalRow  BY <1>2
  <1> QED BY <1>1, <1>2, <1>3, <1>6, <1>7, <1>8, <1>9, <1>10, DocumentMoves

LEMMA DocumentFailedInv ==
  ASSUME ExtractionIInv, NEW w \in Workers, Extraction!DocumentFailed(w)
  PROVE  ExtractionIInv'
  <1> DEFINE d == exec[w].doc
             e == [exec[w] EXCEPT !.stage = "next", !.doc = Nobody]
  <1>1. /\ exec[w].stage = "asking"
        /\ UNCHANGED <<item, task, ext, manifest, found, report, Extraction!endpoints, overlapped>>
    BY DEF Extraction!DocumentFailed
  <1>2. /\ d \in Entries /\ d \in manifest /\ e \in Executions /\ e.stage = "next"
        /\ ~overlapped =>
             found[d] = 0 /\ \A x \in Entries \ e.todo : x # d => rows[x] \in Extraction!TerminalRow
    BY <1>1, AskedDocument
  <1>3. exec' = [exec EXCEPT ![w] = e] /\ rows' = [rows EXCEPT ![d] = "failed"]
    BY DEF Extraction!DocumentFailed
  <1> HIDE DEF e, d
  <1>4. found' \in [Entries -> Nat] /\ found' = found
    BY <1>1 DEF ExtractionIInv, ExtractionShapes
  <1>5. "failed" \in Extraction!TerminalRow  BY DEF Extraction!TerminalRow
  <1>6. ~overlapped => ~(found'[d] > 0) /\ found'[d] <= 1  BY <1>2, <1>4
  <1> QED BY <1>1, <1>2, <1>3, <1>4, <1>5, <1>6, DocumentMoves

\* The result counts what has been analysed, when every document has ended.
LEMMA AggregateInv ==
  ASSUME ExtractionIInv, NEW w \in Workers, Extraction!Aggregate(w)
  PROVE  ExtractionIInv'
  <1> DEFINE e == [Extraction!Idle EXCEPT !.stage = "returned"]
  <1>1. /\ exec[w].stage = "next" /\ exec[w].todo = {} /\ exec' = [exec EXCEPT ![w] = e]
        /\ ext' = "completed" /\ task' = "completed"
        /\ report' = {d \in Entries : rows[d] = "analyzed"}
        /\ UNCHANGED <<item, manifest, rows, found, Extraction!endpoints, overlapped>>
    BY DEF Extraction!Aggregate
  <1>2. exec \in [Workers -> Executions] /\ Works(w)
    BY <1>1 DEF ExtractionIInv, ExtractionShapes, Works
  <1>3. e \in Executions /\ e.stage = "returned"  BY DEF Extraction!Idle, Executions, ExecutionStages
  <1> HIDE DEF e
  <1>4. /\ exec' \in [Workers -> Executions] /\ exec'[w] = e
        /\ \A v \in Workers \ {w} : exec'[v] = exec[v]
    BY <1>1, <1>2, <1>3
  <1>5. request = "done"  BY <1>2 DEF ExtractionIInv, CreatedInOrder
  <1>6. CreatedInOrder'
    BY <1>1, <1>3, <1>4, <1>5 DEF ExtractionIInv, CreatedInOrder, Works, Extraction!endpoints
  <1>7. ExtractionShapes'
    BY <1>1, <1>4 DEF ExtractionIInv, ExtractionShapes, Extraction!Terminal, Extraction!endpoints
  <1>8. ManifestIsWhole'
    BY <1>1, <1>3, <1>4 DEF ExtractionIInv, ManifestIsWhole, Extraction!Frozen
  <1>9. ASSUME ~overlapped
        PROVE  /\ \A v \in Workers : v # w => exec'[v].stage = "idle"
               /\ \A d \in Entries : rows'[d] \in Extraction!TerminalRow
               /\ \A d \in Entries : found'[d] > 0 <=> rows'[d] = "analyzed"
    BY <1>1, <1>2, <1>4, <1>9 DEF ExtractionIInv, OneLoopAtATime, Works
  <1>10. OneLoopAtATime'
    BY <1>1, <1>3, <1>4, <1>9 DEF OneLoopAtATime, Works
  <1>11. Extraction!ReportCoversManifest'
    BY <1>1, <1>9 DEF Extraction!ReportCoversManifest
  <1>12. Extraction!AnalysedOnce'  BY <1>1 DEF ExtractionIInv, Extraction!AnalysedOnce
  <1>13. Extraction!TaskShowsExtraction'  BY <1>1 DEF Extraction!TaskShowsExtraction
  <1> QED BY <1>6, <1>7, <1>8, <1>10, <1>11, <1>12, <1>13 DEF ExtractionIInv

\* Every step of the extraction.
LEMMA ExtractionNextInv ==
  ASSUME ExtractionIInv, Extraction!Next
  PROVE  ExtractionIInv'
  <1>1. CASE Extraction!CreateTask \/ Extraction!CreateRecord \/ Extraction!RequestCancel \/ Extraction!EndpointCancelsRecord \/ Extraction!ExpireLease
    BY <1>1, EndpointsInv
  <1>2. CASE Extraction!Restart
    BY <1>2, RestartInv
  <1>3. ASSUME NEW w \in Workers,
               Extraction!ClaimItem(w) \/ Extraction!Execute(w) \/ Extraction!Interrupt(w) \/ Extraction!Shutdown(w) \/ Extraction!AbandonItem(w)
               \/ Extraction!Finish(w)
        PROVE  ExtractionIInv'
    <2>1. CASE Extraction!ClaimItem(w)  BY <2>1, ClaimItemInv
    <2>2. CASE Extraction!Start(w)  BY <2>2, StartInv
    <2>3. CASE Extraction!PrepareManifest(w)  BY <2>3, PrepareManifestInv
    <2>4. CASE Extraction!BeginDocument(w)  BY <2>4, BeginDocumentInv
    <2>5. CASE Extraction!DocumentAnalysed(w)  BY <2>5, DocumentAnalysedInv
    <2>6. CASE Extraction!DocumentFailed(w)  BY <2>6, DocumentFailedInv
    <2>7. CASE Extraction!Aggregate(w)  BY <2>7, AggregateInv
    <2>8. CASE Extraction!Raise(w) \/ Extraction!Interrupt(w) \/ Extraction!Shutdown(w)  BY <2>8, LeaveInv
    <2>9. CASE Extraction!Finish(w) \/ Extraction!AbandonItem(w)  BY <2>9, GiveBackInv
    <2> QED
      BY <1>3, <2>1, <2>2, <2>3, <2>4, <2>5, <2>6, <2>7, <2>8, <2>9 DEF Extraction!Execute
  <1> QED BY <1>1, <1>2, <1>3 DEF Extraction!Next

\* The invariant behind the theorem below.
THEOREM ExtractionInvariant == ServicesSpec => []ExtractionIInv
  <1>1. ServicesInit => ExtractionIInv  BY ExtractionInitInv DEF ServicesInit
  <1>2. ExtractionIInv /\ [Extraction!Next]_extractionVars => ExtractionIInv'
    BY ExtractionNextInv, ExtractionStutterInv DEF extractionVars, Extraction!vars
  <1> QED BY <1>1, <1>2, ExtractionSteps, PTL DEF ServicesSpec

\* However often an extraction is attempted, interrupted and cancelled, a completed
\* one reports on every document of its manifest, no document has its candidates
\* twice and the Task shows how it ended, as long as no two loops have executed it
\* at once (execute, _extract_document, _aggregate, _fail, cancel).
THEOREM ExtractionOneResult == ServicesSpec => []AttemptsLeaveOneResult
  <1>1. ExtractionIInv => AttemptsLeaveOneResult
    BY DEF ExtractionIInv, AttemptsLeaveOneResult, Extraction!AttemptsLeaveOneResult
  <1> QED BY <1>1, ExtractionInvariant, PTL

-----------------------------------------------------------------------------
\* Every variable of every service keeps its type, and the ledger has candidates
\* only of analysed documents.
THEOREM ServicesTypes == ServicesSpec => []ServicesTypeOK
  <1>1. /\ ScopeIInv /\ LedgerIInv /\ ExtractionIInv /\ CapabilityIInv
        /\ ArtifactIInv /\ ProvenanceIInv /\ CodexIInv
        => /\ TypeOK /\ Ledger!TypeOK /\ Extraction!TypeOK /\ Capabilities!TypeOK
           /\ Artifacts!TypeOK /\ Provenance!TypeOK /\ Codex!TypeOK
    BY ScopeTypes, LedgerTypes, ExtractionTypes, CapabilityTypes,
       ArtifactTypes, ProvenanceTypes, CodexTypes
  <1>2. /\ TypeOK /\ Ledger!TypeOK /\ Extraction!TypeOK /\ Capabilities!TypeOK
        /\ Artifacts!TypeOK /\ Provenance!TypeOK /\ Codex!TypeOK
        /\ Notifier!TypeOK
        => ServicesTypeOK
    BY DEF ServicesTypeOK
  <1> QED
    BY <1>1, <1>2, ScopeInvariant, LedgerInvariant, ExtractionInvariant, CapabilityInvariant,
       ArtifactInvariant, ProvenanceInvariant, CodexInvariant,
       NotifierTypes, PTL

=============================================================================
