------------------------ MODULE SourceIngestionProofs ------------------------
(* Proofs about SourceIngestion for any loops, ingestions, paths and edits.  *)
EXTENDS SourceIngestion, TLAPS

-----------------------------------------------------------------------------
(* The invariant.                                                           *)

Owners == {"none", "scheduler", "extraction"} \union Ingestions
Source == [enabled : BOOLEAN, scheduled : BOOLEAN, owner : Owners, lapsed : BOOLEAN,
           status : {"draft", "indexing", "ready", "failed", "disabled"}]
Ingestion == [status : {"absent", "queued", "running", "completed", "failed", "cancelled"},
              trigger : {"manual", "scheduled", "scope_repair"},
              item : {"none", "queued", "leased", "closed"},
              cancel : {"no", "early", "late"}]
Entry == [known : BOOLEAN, present : BOOLEAN, rejected : BOOLEAN,
          by : Ingestions \union {None}]
Columns == {"lease", "status"}
Execution == [ing : Ingestions \union {None},
              stage : Inside \union {"idle", "waiting", "executed"},
              held : {"own", "lost", "left"},
              location : {"none", "present", "former"},
              reusable : SUBSET Paths, refused : SUBSET Paths, seen : SUBSET Paths,
              newer : SUBSET Paths, changed : SUBSET Paths, removed : SUBSET Paths,
              rows : SUBSET Paths, writes : SUBSET Columns]
Extraction == [stage : {"idle", "preparing", "repairing", "waiting", "analysing"},
               awaited : Ingestions \union {None}]
Editing == [edit : Edits \union {"none"}, writes : SUBSET Columns,
            docs : SUBSET Paths, entries : SUBSET Paths]

Types ==
  /\ source \in Source
  /\ archived \in BOOLEAN /\ stolen \in BOOLEAN /\ crossed \in BOOLEAN
  /\ faults \in 0..MaxFaults
  /\ docs \in [Paths -> {"none", "present", "former"}]
  /\ entries \in [Paths -> Entry]
  /\ ing \in [Ingestions -> Ingestion]
  /\ exec \in [Executors -> Execution]
  /\ scheduler \in {"idle", "claimed", "created"}
  /\ extraction \in Extraction
  /\ editing \in Editing

\* Only ingestions that were created have items and executions.
Begun ==
  /\ \A i \in Ingestions : ing[i].status = "absent" => ing[i].item = "none"
  /\ \A e \in Executors :
       /\ exec[e].stage = "idle" => exec[e] = Idle
       /\ exec[e].stage # "idle" =>
            exec[e].ing \in Ingestions /\ ing[exec[e].ing].status # "absent"
       /\ exec[e].stage \in Inside => exec[e].location \in {"present", "former"}

\* Unless a relocation and a commit have overlapped: what is about to be
\* inserted is known, and a relocation has read every document.
Indexed ==
  ~crossed =>
    /\ \A p \in Paths : docs[p] # "none" => entries[p].known
    /\ \A e \in Executors : exec[e].stage = "checked" =>
         \A p \in exec[e].changed : entries[p].known
    /\ editing.edit = "relocate" => \A p \in Paths : docs[p] # "none" => p \in editing.docs

\* An ingestion and its queue item agree.
Agrees(i) ==
  /\ ing[i].status = "queued" => ing[i].item = "queued"
  /\ ing[i].status = "running" => ing[i].item \in {"none", "leased"}
Agree == \A i \in Ingestions : Agrees(i)

\* An execution that has not returned is of a running ingestion, of which it
\* is the only one; the extraction repairs the scope without an item.
Going == Inside \union {"waiting"}
Executes(e) ==
  /\ exec[e].stage # "idle" =>
       /\ IF e \in Workers THEN ing[exec[e].ing].item = "leased"
          ELSE /\ ing[exec[e].ing].item = "none" /\ extraction.stage = "repairing"
               /\ ing[exec[e].ing].trigger = "scope_repair"
       /\ \A f \in Executors : exec[f].ing = exec[e].ing => f = e
  /\ exec[e].stage \in Going => ing[exec[e].ing].status = "running"
  /\ exec[e].stage = "executed" => Ended(exec[e].ing)
Executing == \A e \in Executors : Executes(e)

\* Who is inside works under a lease that has not run out: its own, or for a
\* scope repair that of the extraction.
Holds(e) ==
  /\ ~source.lapsed
  /\ \/ source.owner = exec[e].ing
     \/ source.owner = "extraction" /\ ing[exec[e].ing].trigger = "scope_repair"
Holding == \A e \in Executors : exec[e].stage \in Inside => Holds(e)

\* The documents are those the execution has looked at, if the source has not
\* been relocated since.
Gone(e) == IF exec[e].stage = "checked" THEN exec[e].rows ELSE exec[e].removed
Loaded(e) ==
  /\ \A p \in exec[e].reusable : docs[p] # "none"
  /\ \A p \in exec[e].refused : docs[p] = "none"
Observed(e) ==
  /\ exec[e].reusable \subseteq exec[e].seen
  /\ exec[e].seen \subseteq PathsOf(exec[e].ing)
  /\ \A p \in exec[e].seen : entries[p].known /\ p \notin exec[e].refused
Decided(e) ==
  /\ exec[e].changed \subseteq exec[e].seen
  /\ \A p \in PathsOf(exec[e].ing) :
       IF p \in exec[e].seen
       THEN p \in exec[e].changed \/ (docs[p] # "none" /\ p \notin Gone(e))
       ELSE docs[p] # "none" => p \in Gone(e)
Looked(e) ==
  exec[e].location = "present" =>
    /\ exec[e].stage \in {"collecting", "collected"} => Loaded(e)
    /\ exec[e].stage = "collected" => Observed(e)
    /\ exec[e].stage \in {"compared", "checked"} => Decided(e)
Looking == \A e \in Executors : Looked(e)

\* What holds as long as no execution has lost its lease or its item.
Sound == Agree /\ Executing /\ Holding /\ Looking

IInv == Types /\ Begun /\ OneActiveOfAKind /\ Indexed /\ (~stolen => Sound)

-----------------------------------------------------------------------------
(* Values.                                                                  *)

\* The values the helpers build.
LEMMA Values ==
  /\ Idle \in Execution /\ Idle.stage = "idle" /\ Idle.ing = None
  /\ Idle.location = "none" /\ Idle.rows = {}
  /\ Unused \in Ingestion /\ Unused.status = "absent" /\ Unused.item = "none"
  /\ NoEntry \in Entry /\ NoEdit \in Editing /\ NoEdit.edit = "none"
  /\ \A i \in Ingestions : i # None /\ i # "none" /\ i # "scheduler" /\ i # "extraction"
  /\ Extractor \notin Workers /\ "idle" \notin Inside /\ "executed" \notin Inside
  <1>1. Idle \in Execution  BY DEF Idle, Execution, Columns
  <1>2. Unused \in Ingestion  BY DEF Unused, Ingestion
  <1>3. NoEntry \in Entry  BY DEF NoEntry, Entry
  <1>4. NoEdit \in Editing /\ NoEdit.edit = "none"  BY DEF NoEdit, Editing, Columns
  <1> QED BY <1>1, <1>2, <1>3, <1>4, SourceAssumption DEF Idle, Unused, Inside

\* The types, field by field.
LEMMA Fields ==
  ASSUME IInv
  PROVE  /\ \A i \in Ingestions : ing[i] \in Ingestion
         /\ \A e \in Executors : exec[e] \in Execution
         /\ \A p \in Paths : entries[p] \in Entry
         /\ source \in Source /\ source.owner \in Owners /\ source.lapsed \in BOOLEAN
         /\ extraction \in Extraction /\ editing \in Editing
         /\ \A i \in Ingestions \union {None} : PathsOf(i) \subseteq Paths
  BY SourceAssumption DEF IInv, Types, Source, PathsOf

\* The lease of the source is taken, cleared and released.
LEMMA LeaseValues ==
  ASSUME NEW src \in Source, NEW owner \in Owners
  PROVE  /\ Taken(src, owner) \in Source /\ Taken(src, owner).owner = owner
         /\ ~Taken(src, owner).lapsed
         /\ Cleared(src) \in Source /\ Cleared(src).owner = "none" /\ ~Cleared(src).lapsed
         /\ Released(src, owner) = IF src.owner \in {"none", owner} THEN Cleared(src) ELSE src
         /\ Released(src, owner) \in Source
  <1>1. Taken(src, owner) \in Source /\ Taken(src, owner).owner = owner
        /\ Taken(src, owner).lapsed = FALSE
    BY DEF Taken, Source
  <1>2. Cleared(src) \in Source /\ Cleared(src).owner = "none" /\ Cleared(src).lapsed = FALSE
    BY DEF Cleared, Source, Owners
  <1> QED BY <1>1, <1>2 DEF Released

\* Its status is no part of the lease.
LEMMA StatusValues ==
  ASSUME NEW src \in Source, NEW status \in {"draft", "indexing", "ready", "failed", "disabled"}
  PROVE  LET new == [src EXCEPT !.status = status]
         IN new \in Source /\ new.owner = src.owner /\ new.lapsed = src.lapsed
  BY DEF Source

\* A transaction writes the lease only if it has changed it.
LEMMA WrittenValues ==
  ASSUME NEW src \in Source, NEW writes \in SUBSET Columns,
         NEW status \in {"draft", "indexing", "ready", "failed", "disabled"}
  PROVE  /\ Written(src, writes, status) \in Source
         /\ "lease" \notin writes =>
              /\ Written(src, writes, status).owner = src.owner
              /\ Written(src, writes, status).lapsed = src.lapsed
  <1>1. Cleared(src) \in Source  BY LeaseValues DEF Owners
  <1> QED BY <1>1, StatusValues DEF Written

\* An event renews the lease of who works under it.
LEMMA RenewedValues ==
  ASSUME NEW e, source \in Source
  PROVE  /\ Renewed(e) \in Source /\ Renewed(e).owner = source.owner
         /\ Renewed(e).lapsed => source.lapsed
  <1>1. LET new == [source EXCEPT !.lapsed = FALSE]
        IN new \in Source /\ new.owner = source.owner /\ new.lapsed = FALSE
    BY DEF Source
  <1> QED BY <1>1 DEF Renewed

\* An execution of which only one field changes.
LEMMA ExecutionValues ==
  ASSUME NEW x \in Execution, NEW S \in SUBSET Paths, NEW h \in {"own", "lost", "left"}
  PROVE  /\ [x EXCEPT !.held = h] \in Execution
         /\ [x EXCEPT !.newer = S] \in Execution
         /\ [x EXCEPT !.rows = S] \in Execution
         /\ [x EXCEPT !.location = "former", !.rows = S] \in Execution
  BY DEF Execution

-----------------------------------------------------------------------------
(* What keeps each part of the invariant.                                   *)

\* The same work: held and newer do not count.
SameWork(e) ==
  /\ exec[e].stage # "idle"
  /\ exec'[e].ing = exec[e].ing /\ exec'[e].stage = exec[e].stage
  /\ exec'[e].location = exec[e].location
  /\ exec'[e].reusable = exec[e].reusable /\ exec'[e].refused = exec[e].refused
  /\ exec'[e].seen = exec[e].seen /\ exec'[e].changed = exec[e].changed
  /\ exec'[e].removed = exec[e].removed /\ exec'[e].rows = exec[e].rows

\* An execution goes on, in whatever stage, with its ingestion.
GoesOn(e) ==
  /\ exec[e].stage # "idle" /\ exec'[e].stage # "idle" /\ exec'[e].ing = exec[e].ing
  /\ exec'[e].stage \in Inside => exec'[e].location \in {"present", "former"}

\* No ingestion becomes active, or is forgotten.
Follows(i) ==
  /\ ing'[i].trigger = ing[i].trigger
  /\ ing'[i].status \in {"queued", "running"} => Active(i)
  /\ ing'[i].status = "absent" => ing[i].status = "absent" /\ ing'[i].item = "none"

LEMMA FollowsFacts ==
  ASSUME IInv, \A i \in Ingestions : Follows(i)
  PROVE  /\ OneActiveOfAKind'
         /\ \A i \in Ingestions : ing'[i].status = "absent" =>
              ing[i].status = "absent" /\ ing'[i].item = "none"
         /\ \A e \in Executors : exec[e].stage # "idle" =>
              ing'[exec[e].ing].trigger = ing[exec[e].ing].trigger
  <1>1. OneActiveOfAKind'  BY DEF IInv, OneActiveOfAKind, Follows, Active
  <1> QED BY <1>1 DEF Follows, IInv, Begun

\* An idle execution that stays as it is stays idle.
LEMMA IdleStays ==
  ASSUME IInv, NEW e \in Executors, exec[e].stage = "idle"
  PROVE  exec[e] = Idle /\ exec[e].ing = None
  BY Values DEF IInv, Begun

LEMMA BegunStays ==
  ASSUME IInv,
         \A i \in Ingestions : ing'[i].status = "absent" =>
           ing[i].status = "absent" /\ ing'[i].item = "none",
         \A e \in Executors : exec'[e] = Idle \/ GoesOn(e)
  PROVE  Begun'
  <1>1. ASSUME NEW e \in Executors
        PROVE  /\ exec'[e].stage = "idle" => exec'[e] = Idle
               /\ exec'[e].stage # "idle" =>
                    exec'[e].ing \in Ingestions /\ ing'[exec'[e].ing].status # "absent"
               /\ exec'[e].stage \in Inside => exec'[e].location \in {"present", "former"}
    <2>1. CASE exec'[e] = Idle  BY <2>1, Values
    <2>2. CASE GoesOn(e)  BY <2>2 DEF GoesOn, IInv, Begun
    <2> QED BY <2>1, <2>2
  <1> QED BY <1>1 DEF Begun

\* An edit that has read the source has read every document it will move.
Rereads ==
  \/ editing' = editing \/ editing'.edit # "relocate"
  \/ \A p \in Paths : docs[p] # "none" => p \in editing'.docs

\* Steps that leave the documents and keep the entries.
LEMMA IndexedStays ==
  ASSUME IInv, UNCHANGED <<docs, crossed>>, Rereads,
         \A p \in Paths : entries[p].known => entries'[p].known,
         \A e \in Executors : exec'[e].stage = "checked" =>
           exec[e].stage = "checked" /\ exec'[e].changed = exec[e].changed
  PROVE  Indexed'
  <1>1. \A e \in Executors : exec[e].changed \subseteq Paths  BY Fields DEF Execution
  <1> QED BY <1>1 DEF IInv, Indexed, Rereads

\* Executions stay in order when each goes on or ends.
LEMMA ExecutingStays ==
  ASSUME IInv, Sound,
         \A e \in Executors :
           \/ exec'[e] = Idle
           \/ /\ exec[e].stage # "idle" /\ exec'[e].stage # "idle" /\ exec'[e].ing = exec[e].ing
              /\ ing'[exec[e].ing].item = ing[exec[e].ing].item
              /\ ing'[exec[e].ing].trigger = ing[exec[e].ing].trigger
              /\ e \notin Workers => extraction'.stage = "repairing"
              /\ exec'[e].stage \in Going => ing'[exec[e].ing].status = "running"
              /\ exec'[e].stage = "executed" =>
                   ing'[exec[e].ing].status \in {"completed", "failed", "cancelled"}
  PROVE  Executing'
  <1> SUFFICES ASSUME NEW e \in Executors PROVE Executes(e)'  BY DEF Executing
  <1>1. CASE exec'[e] = Idle
    BY <1>1, Values DEF Executes, Going, Inside
  <1>2. CASE exec'[e] # Idle
    <2>1. Executes(e) /\ exec[e].stage # "idle"  BY <1>2 DEF Sound, Executing
    <2>2. exec[e].ing \in Ingestions  BY <2>1 DEF IInv, Begun
    <2>3. \A f \in Executors : exec'[f].ing = exec'[e].ing => f = e
      <3> SUFFICES ASSUME NEW f \in Executors, exec'[f].ing = exec'[e].ing PROVE f = e  OBVIOUS
      <3>1. exec'[e].ing = exec[e].ing  BY <1>2
      <3>2. exec'[f] # Idle  BY <2>2, <3>1, Values
      <3> QED BY <2>1, <3>1, <3>2 DEF Executes
    <2> QED BY <1>2, <2>1, <2>3 DEF Executes, Ended
  <1> QED BY <1>1, <1>2

\* What an untouched execution looked at stays current while documents and
\* inventory stay.
LEMMA LookedStays ==
  ASSUME IInv, Sound, NEW e \in Executors, SameWork(e), docs' = docs,
         \A p \in Paths : entries[p].known => entries'[p].known,
         ing'[exec[e].ing].trigger = ing[exec[e].ing].trigger
  PROVE  Looked(e)'
  <1>1. Looked(e)  BY DEF Sound, Looking
  <1>2. exec[e].seen \subseteq Paths  BY Fields DEF Execution
  <1>3. Loaded(e) => Loaded(e)'  BY DEF SameWork, Loaded
  <1>4. Observed(e) => Observed(e)'  BY <1>2 DEF SameWork, Observed, PathsOf
  <1>5. Decided(e) => Decided(e)'  BY DEF SameWork, Decided, Gone, PathsOf
  <1> QED BY <1>1, <1>3, <1>4, <1>5 DEF Looked, SameWork

\* An execution outside has nothing to look at.
LEMMA OutsideLooks ==
  ASSUME NEW e \in Executors, exec[e].stage \notin Inside
  PROVE  Looked(e)
  BY DEF Looked, Inside

LEMMA OutsideLooksNext ==
  ASSUME NEW e \in Executors, exec'[e].stage \notin Inside
  PROVE  Looked(e)'
  BY DEF Looked, Inside

-----------------------------------------------------------------------------
(* Steps that leave documents and inventory alone, and in which executions   *)
(* only end.                                                                *)

\* Nobody who goes on loses its item or its lease by the step.
Undisturbed ==
  /\ ~stolen /\ Agree'
  /\ \A e \in Executors : exec'[e] # Idle =>
       /\ ing'[exec[e].ing].item = ing[exec[e].ing].item
       /\ ing'[exec[e].ing].status = ing[exec[e].ing].status
       /\ e \notin Workers => extraction'.stage = "repairing"
       /\ exec[e].stage \in Inside => source'.owner = source.owner /\ ~source'.lapsed

LEMMA QuietInv ==
  ASSUME IInv, Types', UNCHANGED <<index, crossed>>,
         Rereads,
         OneActiveOfAKind',
         \A i \in Ingestions : ing'[i].status = "absent" =>
           ing[i].status = "absent" /\ ing'[i].item = "none",
         \A e \in Executors : exec[e].stage # "idle" =>
           ing'[exec[e].ing].trigger = ing[exec[e].ing].trigger,
         \A e \in Executors : exec'[e] = Idle \/ SameWork(e),
         ~stolen' => Undisturbed
  PROVE  IInv'
  <1>1. Begun'
    <2>1. \A e \in Executors : exec'[e] = Idle \/ GoesOn(e)
      BY DEF SameWork, GoesOn, IInv, Begun
    <2> QED BY <2>1, BegunStays
  <1>2. Indexed'
    <2>1. \A e \in Executors : exec'[e].stage = "checked" =>
            exec[e].stage = "checked" /\ exec'[e].changed = exec[e].changed
      BY Values DEF SameWork
    <2> QED BY <2>1, IndexedStays DEF index, Rereads
  <1>3. ASSUME ~stolen' PROVE Sound'
    <2>1. Undisturbed /\ Sound  BY <1>3 DEF Undisturbed, IInv
    <2>2. Executing'
      <3>1. ASSUME NEW e \in Executors, exec'[e] # Idle
            PROVE  /\ exec[e].stage \in Going => ing[exec[e].ing].status = "running"
                   /\ exec[e].stage = "executed" =>
                        ing[exec[e].ing].status \in {"completed", "failed", "cancelled"}
        BY <2>1 DEF Sound, Executing, Executes, Ended
      <3> QED BY <2>1, <3>1, ExecutingStays DEF SameWork, Undisturbed
    <2>3. Holding'
      <3> SUFFICES ASSUME NEW e \in Executors, exec'[e].stage \in Inside PROVE Holds(e)'
        BY DEF Holding
      <3>1. exec'[e] # Idle  BY Values
      <3>2. SameWork(e) /\ exec[e].stage \in Inside /\ Holds(e)
        BY <2>1, <3>1 DEF SameWork, Sound, Holding
      <3> QED BY <2>1, <3>1, <3>2 DEF Undisturbed, Holds, SameWork
    <2>4. Looking'
      <3> SUFFICES ASSUME NEW e \in Executors PROVE Looked(e)'  BY DEF Looking
      <3>1. CASE exec'[e] = Idle  BY <3>1, Values, OutsideLooksNext
      <3>2. CASE SameWork(e)  BY <2>1, <3>2, LookedStays DEF SameWork, index
      <3> QED BY <3>1, <3>2
    <2> QED BY <2>1, <2>2, <2>3, <2>4 DEF Sound, Undisturbed
  <1> QED BY <1>1, <1>2, <1>3 DEF IInv

\* Executions that are left alone.
LEMMA AloneWork ==
  ASSUME IInv, NEW e \in Executors, exec'[e] = exec[e] \/ exec'[e] = Idle
  PROVE  exec'[e] = Idle \/ SameWork(e)
  BY IdleStays DEF SameWork

\* Who is inside is the owner, or repairs the scope for the extraction.
LEMMA InsideOwner ==
  ASSUME IInv, ~stolen, NEW e \in Executors, exec[e].stage \in Inside
  PROVE  /\ ~source.lapsed /\ exec[e].ing \in Ingestions /\ e \in Holders
         /\ source.owner \notin {"none", "scheduler"}
         /\ \/ source.owner = exec[e].ing
            \/ source.owner = "extraction" /\ ing[exec[e].ing].trigger = "scope_repair"
  <1>1. Holds(e)  BY DEF IInv, Sound, Holding
  <1>2. exec[e].ing \in Ingestions  BY Values DEF IInv, Begun
  <1> QED BY <1>1, <1>2, Values DEF Holds, Holders

\* Such a step keeps the invariant if it leaves the lease to who is inside.
LEMMA LeaseStepInv ==
  ASSUME IInv, UNCHANGED <<ing, exec, index, crossed>>,
         source' \in Source, scheduler' \in {"idle", "claimed", "created"},
         extraction' \in Extraction, stolen' \in BOOLEAN, faults' \in 0..MaxFaults,
         editing' \in Editing, Rereads,
         extraction.stage = "repairing" => extraction'.stage = "repairing",
         ~stolen' => ~stolen,
         ~stolen' => \A e \in Executors : exec[e].stage \in Inside =>
           source'.owner = source.owner /\ ~source'.lapsed
  PROVE  IInv'
  <1>1. Types'  BY DEF IInv, Types, index
  <1>2. OneActiveOfAKind'  BY DEF IInv, OneActiveOfAKind, Active
  <1>3. \A e \in Executors : exec'[e] = Idle \/ SameWork(e)  BY AloneWork
  <1>4. ASSUME ~stolen' PROVE Undisturbed
    <2>1. \A e \in Executors : exec'[e] # Idle /\ e \notin Workers => extraction.stage = "repairing"
      BY <1>3, <1>4 DEF SameWork, IInv, Sound, Executing, Executes
    <2>2. Agree'  BY <1>4 DEF IInv, Sound, Agree, Agrees
    <2> QED BY <1>4, <2>1, <2>2 DEF Undisturbed
  <1> QED BY <1>1, <1>2, <1>3, <1>4, QuietInv DEF IInv, Begun, Rereads

\* Counting the faults keeps their type.
LEMMA FaultValues ==
  ASSUME IInv, faults' = faults \/ Counted
  PROVE  faults' \in 0..MaxFaults
  BY SourceAssumption DEF Counted, IInv, Types

\* A lease that runs out under an execution is stolen.
LEMMA LeaseLapsesInv == ASSUME IInv, LeaseLapses PROVE IInv'
  <1>1. /\ source' = [source EXCEPT !.lapsed = TRUE]
        /\ stolen' = (stolen \/ Holders # {})
        /\ UNCHANGED <<ing, exec, index, crossed, scheduler, extraction, editing>>
        /\ faults' = faults \/ Counted
    BY DEF LeaseLapses, Strikes
  <1>2. source' \in Source  BY <1>1 DEF IInv, Types, Source
  <1>3. ASSUME ~stolen', NEW e \in Executors, exec[e].stage \in Inside PROVE FALSE
    BY <1>1, <1>3, InsideOwner
  <1> QED BY <1>1, <1>2, <1>3, FaultValues, LeaseStepInv DEF IInv, Types, Rereads

\* The scheduler takes and releases the source when nobody is inside.
LEMMA SchedulerInv == ASSUME IInv, ClaimDueSource \/ ReleaseSyncLease PROVE IInv'
  <1>1. /\ UNCHANGED <<ing, exec, index, stolen, crossed, faults, extraction, editing>>
        /\ scheduler' \in {"idle", "claimed", "created"}
    BY DEF ClaimDueSource, ReleaseSyncLease
  <1>2. source \in Source /\ "scheduler" \in Owners  BY DEF IInv, Types, Owners
  <1>3. /\ source' \in Source
        /\ source' = source \/ source.owner \in {"none", "scheduler"} \/ source.lapsed
    <2>1. CASE ClaimDueSource  BY <2>1, <1>2, LeaseValues DEF ClaimDueSource
    <2>2. CASE ReleaseSyncLease  BY <2>2, <1>2, LeaseValues DEF ReleaseSyncLease
    <2> QED BY <2>1, <2>2
  <1>4. ASSUME ~stolen', NEW e \in Executors, exec[e].stage \in Inside
        PROVE  source'.owner = source.owner /\ ~source'.lapsed
    BY <1>1, <1>3, <1>4, InsideOwner
  <1> QED BY <1>1, <1>3, <1>4, LeaseStepInv DEF IInv, Types, Rereads

\* The extraction takes a free source, or one it has already.
LEMMA AcquireSourceInv == ASSUME IInv, AcquireSource PROVE IInv'
  <1>1. /\ UNCHANGED <<ing, exec, index, stolen, crossed, faults, scheduler, editing>>
        /\ extraction.stage = "idle" /\ Available("extraction")
        /\ source' = Taken(source, "extraction")
        /\ extraction' = [extraction EXCEPT !.stage = "preparing"]
    BY DEF AcquireSource, Go
  <1>2. source \in Source /\ "extraction" \in Owners  BY DEF IInv, Types, Owners
  <1>3. source' \in Source /\ source'.owner = "extraction" /\ ~source'.lapsed
    BY <1>1, <1>2, LeaseValues
  <1>4. extraction' \in Extraction  BY <1>1 DEF IInv, Types, Extraction
  <1>5. ASSUME ~stolen', NEW e \in Executors, exec[e].stage \in Inside
        PROVE  source'.owner = source.owner /\ ~source'.lapsed
    BY <1>1, <1>3, <1>5, InsideOwner DEF Available
  <1> QED BY <1>1, <1>3, <1>4, <1>5, LeaseStepInv DEF IInv, Types, Rereads

\* The extraction goes on with its analysis.
LEMMA ObserveRepairInv == ASSUME IInv, ObserveRepair PROVE IInv'
  <1>1. /\ UNCHANGED <<source, ing, exec, index, stolen, crossed, faults, scheduler, editing>>
        /\ extraction.stage = "waiting"
        /\ extraction' = [extraction EXCEPT !.stage = "analysing"]
    BY DEF ObserveRepair, Go
  <1>2. extraction' \in Extraction  BY <1>1 DEF IInv, Types, Extraction
  <1>3. ASSUME ~stolen', NEW e \in Executors, exec[e].stage \in Inside
        PROVE  source'.owner = source.owner /\ ~source'.lapsed
    BY <1>1, <1>3, InsideOwner
  <1> QED BY <1>1, <1>2, <1>3, LeaseStepInv DEF IInv, Types, Rereads

-----------------------------------------------------------------------------
(* Steps that create ingestions.                                            *)

\* A new ingestion is the only active one of its kind, and nobody executes it.
LEMMA CreatedFacts ==
  ASSUME IInv, NEW i \in Ingestions, NEW trigger \in {"manual", "scheduled", "scope_repair"},
         NEW item \in {"none", "queued"}, NEW status \in {"queued", "running"},
         item = "queued" <=> status = "queued",
         Reused(trigger) = {}, Created(i, trigger, item, status)
  PROVE  /\ ing' \in [Ingestions -> Ingestion] /\ source' \in Source
         /\ source'.owner = source.owner /\ source'.lapsed = source.lapsed
         /\ ing'[i].item = item /\ ing'[i].trigger = trigger /\ ing'[i].status = status
         /\ \A j \in Ingestions \ {i} : ing'[j] = ing[j]
         /\ OneActiveOfAKind' /\ (~stolen => Agree')
         /\ \A j \in Ingestions : ing'[j].status = "absent" =>
              ing[j].status = "absent" /\ ing'[j].item = "none"
         /\ \A e \in Executors : exec[e].stage # "idle" => exec[e].ing # i
  <1> DEFINE new == [Unused EXCEPT !.status = status, !.trigger = trigger, !.item = item]
  <1>1. new \in Ingestion /\ new.status = status /\ new.trigger = trigger /\ new.item = item
    BY DEF Unused, Ingestion
  <1>2. ing[i].status = "absent" /\ ing' = [ing EXCEPT ![i] = new]  BY DEF Created
  <1> HIDE DEF new
  <1>3. /\ ing' \in [Ingestions -> Ingestion] /\ ing'[i] = new
        /\ \A j \in Ingestions \ {i} : ing'[j] = ing[j]
    BY <1>1, <1>2 DEF IInv, Types
  <1>4. /\ source' \in Source
        /\ source'.owner = source.owner /\ source'.lapsed = source.lapsed
    BY StatusValues DEF IInv, Types, Created, Source
  <1>5. OneActiveOfAKind'
    <2>1. \A j \in Ingestions : Active(j) =>
            trigger # "scheduled" /\ (trigger = "scope_repair") # (ing[j].trigger = "scope_repair")
      BY DEF Reused
    <2> QED BY <1>1, <1>2, <1>3, <2>1 DEF IInv, OneActiveOfAKind, Active
  <1>6. ~stolen => Agree'
    BY <1>1, <1>3 DEF IInv, Sound, Agree, Agrees
  <1>7. \A e \in Executors : exec[e].stage # "idle" => exec[e].ing # i
    BY <1>2 DEF IInv, Begun
  <1>8. \A j \in Ingestions : ing'[j].status = "absent" =>
          ing[j].status = "absent" /\ ing'[j].item = "none"
    BY <1>1, <1>3 DEF IInv, Begun
  <1> QED BY <1>1, <1>3, <1>4, <1>5, <1>6, <1>7, <1>8

\* Endpoints and the scheduler create ingestions with an item.
LEMMA CreateInv ==
  ASSUME IInv, CreateScheduled \/ \E i \in Ingestions : CreateIngestion(i)
  PROVE  IInv'
  <1>1. /\ UNCHANGED <<exec, index, stolen, crossed, faults, extraction, editing>>
        /\ scheduler' \in {"idle", "claimed", "created"}
    BY DEF CreateScheduled, CreateIngestion, IInv, Types
  <1>2. CASE UNCHANGED <<ing, source>>
    <2>1. ASSUME ~stolen', NEW e \in Executors, exec[e].stage \in Inside
          PROVE  source'.owner = source.owner /\ ~source'.lapsed
      BY <1>1, <1>2, <2>1, InsideOwner
    <2> QED BY <1>1, <1>2, <2>1, LeaseStepInv DEF IInv, Types, Rereads
  <1>3. ASSUME NEW i \in Ingestions, NEW trigger \in {"manual", "scheduled", "scope_repair"},
               Reused(trigger) = {}, Created(i, trigger, "queued", "queued")
        PROVE  IInv'
    <2>1. /\ ing' \in [Ingestions -> Ingestion] /\ source' \in Source
          /\ source'.owner = source.owner /\ source'.lapsed = source.lapsed
          /\ \A j \in Ingestions \ {i} : ing'[j] = ing[j]
          /\ OneActiveOfAKind' /\ (~stolen => Agree')
          /\ \A j \in Ingestions : ing'[j].status = "absent" =>
               ing[j].status = "absent" /\ ing'[j].item = "none"
          /\ \A e \in Executors : exec[e].stage # "idle" => exec[e].ing # i
      BY <1>3, CreatedFacts
    <2>2. Types'  BY <1>1, <2>1 DEF IInv, Types, index
    <2>3. ASSUME NEW e \in Executors, exec[e].stage # "idle"
          PROVE  ing'[exec[e].ing] = ing[exec[e].ing]
      BY <2>1, <2>3 DEF IInv, Begun
    <2>4. \A e \in Executors : exec'[e] = Idle \/ SameWork(e)  BY <1>1, AloneWork
    <2>5. ASSUME ~stolen' PROVE Undisturbed
      <3>1. ASSUME NEW e \in Executors, exec'[e] # Idle
            PROVE  exec[e].stage # "idle" /\ (e \notin Workers => extraction.stage = "repairing")
        BY <1>1, <2>4, <2>5, <3>1 DEF SameWork, IInv, Sound, Executing, Executes
      <3>2. ASSUME NEW e \in Executors, exec[e].stage \in Inside
            PROVE  source'.owner = source.owner /\ ~source'.lapsed
        BY <1>1, <2>1, <2>5, <3>2, InsideOwner
      <3> QED BY <1>1, <2>1, <2>3, <2>5, <3>1, <3>2 DEF Undisturbed
    <2> QED BY <1>1, <2>1, <2>2, <2>3, <2>4, <2>5, QuietInv DEF Rereads
  <1> QED BY <1>2, <1>3 DEF CreateScheduled, CreateIngestion

-----------------------------------------------------------------------------
(* Queue items.                                                             *)

\* What is known of a created ingestion.
LEMMA IngestionValues ==
  ASSUME IInv, NEW i \in Ingestions, NEW new \in Ingestion, new.trigger = ing[i].trigger,
         new.status \in {"queued", "running"} => Active(i), new.status # "absent",
         ing' = [ing EXCEPT ![i] = new]
  PROVE  /\ ing' \in [Ingestions -> Ingestion] /\ ing'[i] = new
         /\ \A j \in Ingestions \ {i} : ing'[j] = ing[j]
         /\ \A j \in Ingestions : Follows(j)
         /\ (~stolen /\ Agrees(i)') => Agree'
  <1>1. /\ ing' \in [Ingestions -> Ingestion] /\ ing'[i] = new
        /\ \A j \in Ingestions \ {i} : ing'[j] = ing[j]
    BY DEF IInv, Types
  <1>2. \A j \in Ingestions : Follows(j)
    BY <1>1, Fields DEF Follows, IInv, Begun, Active
  <1>3. (~stolen /\ Agrees(i)') => Agree'
    BY <1>1 DEF IInv, Sound, Agree, Agrees
  <1> QED BY <1>1, <1>2, <1>3

\* Who cancels an item ends its ingestion, and clears the lease of nobody who
\* is inside unless it says so.
LEMMA CancelFacts ==
  ASSUME IInv, NEW i \in Ingestions, CancelIngestion(i)
  PROVE  \E new \in Ingestion :
           /\ ing' = [ing EXCEPT ![i] = new]
           /\ new.trigger = ing[i].trigger /\ new.item = "closed"
           /\ new.status \in {"completed", "failed", "cancelled"}
           /\ source' \in Source
           /\ Robs(i) \/ source' = source \/ \A e \in Holders : exec[e].ing = i
  <1> DEFINE new == [ing[i] EXCEPT !.item = "closed",
                                   !.status = IF Late(i) THEN ing[i].status ELSE "cancelled"]
  <1>1. ing[i] \in Ingestion  BY Fields
  <1>2. /\ new \in Ingestion /\ new.trigger = ing[i].trigger /\ new.item = "closed"
        /\ new.status \in {"completed", "failed", "cancelled"}
    BY <1>1 DEF Ingestion, Ended, Late
  <1>3. ing' = [ing EXCEPT ![i] = new]
    BY <1>1 DEF CancelIngestion, IInv, Types, Ingestion
  <1>4. source' \in Source  BY LeaseValues, Fields DEF CancelIngestion, Owners
  <1>5. Robs(i) \/ source' = source \/ \A e \in Holders : exec[e].ing = i
    BY DEF CancelIngestion, Robs
  <1> HIDE DEF new
  <1> QED BY <1>2, <1>3, <1>4, <1>5

\* A change of one ingestion beside executions that end or stay: theirs is
\* another, or nothing they rely on changes.
LEMMA ItemStepInv ==
  ASSUME IInv, NEW i \in Ingestions, NEW new \in Ingestion, ing' = [ing EXCEPT ![i] = new],
         new.trigger = ing[i].trigger, new.status \in {"queued", "running"} => Active(i),
         new.status # "absent", source' \in Source, stolen' \in BOOLEAN,
         exec' \in [Executors -> Execution], faults' \in 0..MaxFaults,
         UNCHANGED <<index, crossed, scheduler, extraction, editing>>,
         \A e \in Executors : exec'[e] = Idle \/ SameWork(e),
         ~stolen' =>
           /\ ~stolen
           /\ new.status = "queued" => new.item = "queued"
           /\ new.status = "running" => new.item \in {"none", "leased"}
           /\ source' = source \/ \A e \in Holders : exec[e].ing = i
           /\ \A e \in Executors : exec'[e] # Idle /\ exec[e].ing = i =>
                source' = source /\ new.item = ing[i].item /\ new.status = ing[i].status
  PROVE  IInv'
  <1>1. /\ ing' \in [Ingestions -> Ingestion] /\ ing'[i] = new
        /\ \A j \in Ingestions \ {i} : ing'[j] = ing[j]
        /\ \A j \in Ingestions : Follows(j)
        /\ (~stolen /\ Agrees(i)') => Agree'
    BY IngestionValues
  <1>2. Types'  BY <1>1 DEF IInv, Types, index
  <1>3. /\ OneActiveOfAKind'
        /\ \A j \in Ingestions : ing'[j].status = "absent" =>
             ing[j].status = "absent" /\ ing'[j].item = "none"
        /\ \A e \in Executors : exec[e].stage # "idle" =>
             ing'[exec[e].ing].trigger = ing[exec[e].ing].trigger
    BY <1>1, FollowsFacts
  <1>4. ASSUME ~stolen' PROVE Undisturbed
    <2>1. Agree'  BY <1>1, <1>4 DEF Agrees
    <2>2. ASSUME NEW e \in Executors, exec'[e] # Idle
          PROVE  /\ ing'[exec[e].ing].item = ing[exec[e].ing].item
                 /\ ing'[exec[e].ing].status = ing[exec[e].ing].status
                 /\ e \notin Workers => extraction'.stage = "repairing"
                 /\ exec[e].stage \in Inside => source'.owner = source.owner /\ ~source'.lapsed
      <3>1. exec[e].stage # "idle" /\ exec[e].ing \in Ingestions
        BY <2>2 DEF SameWork, IInv, Begun
      <3>2. e \notin Workers => extraction.stage = "repairing"
        BY <1>4, <3>1 DEF IInv, Sound, Executing, Executes
      <3>3. ASSUME exec[e].stage \in Inside PROVE source'.owner = source.owner /\ ~source'.lapsed
        <4>1. source' = source  BY <1>4, <2>2, <3>3, InsideOwner
        <4> QED BY <1>4, <3>3, <4>1, InsideOwner
      <3>4. ing'[exec[e].ing].item = ing[exec[e].ing].item
            /\ ing'[exec[e].ing].status = ing[exec[e].ing].status
        BY <1>1, <1>4, <2>2, <3>1
      <3> QED BY <3>2, <3>3, <3>4
    <2> QED BY <1>4, <2>1, <2>2 DEF Undisturbed
  <1> QED BY <1>2, <1>3, <1>4, QuietInv DEF index, Rereads

\* An item is given back: the ingestion waits again, unless it has ended.
LEMMA RequeuedFacts ==
  ASSUME IInv, NEW i \in Ingestions, ing[i].status # "absent", Requeued(i)
  PROVE  \E new \in Ingestion :
           /\ ing' = [ing EXCEPT ![i] = new]
           /\ new.trigger = ing[i].trigger /\ new.item = "queued"
           /\ new.status = IF Ended(i) THEN ing[i].status ELSE "queued"
           /\ new.status # "absent" /\ (new.status \in {"queued", "running"} => Active(i))
           /\ new.status # "running"
  <1> DEFINE new == [ing[i] EXCEPT !.item = "queued",
                                   !.status = IF Ended(i) THEN ing[i].status ELSE "queued"]
  <1>1. ing[i] \in Ingestion  BY Fields
  <1>2. /\ new \in Ingestion /\ new.trigger = ing[i].trigger /\ new.item = "queued"
        /\ new.status = IF Ended(i) THEN ing[i].status ELSE "queued"
    BY <1>1 DEF Ingestion
  <1>3. ing' = [ing EXCEPT ![i] = new]  BY <1>1 DEF Requeued, IInv, Types, Ingestion
  <1>4. ~Ended(i) => Active(i)  BY <1>1 DEF Ended, Active, Ingestion
  <1> HIDE DEF new
  <1> QED BY <1>2, <1>3, <1>4 DEF Ended

\* Disowned executions work as before.
LEMMA DisownedFacts ==
  ASSUME IInv, NEW i \in Ingestions
  PROVE  /\ Disowned(i) \in [Executors -> Execution]
         /\ \A e \in Executors :
              /\ Disowned(i)[e] = Idle <=> exec[e].stage = "idle"
              /\ exec[e].stage # "idle" =>
                   \E h \in {"own", "lost", "left"} : Disowned(i)[e] = [exec[e] EXCEPT !.held = h]
              /\ exec[e].ing # i => Disowned(i)[e] = exec[e]
  <1> SUFFICES ASSUME NEW e \in Executors
               PROVE  /\ Disowned(i)[e] \in Execution
                      /\ Disowned(i)[e] = Idle <=> exec[e].stage = "idle"
                      /\ exec[e].stage # "idle" =>
                           \E h \in {"own", "lost", "left"} :
                             Disowned(i)[e] = [exec[e] EXCEPT !.held = h]
                      /\ exec[e].ing # i => Disowned(i)[e] = exec[e]
    BY DEF Disowned
  <1>1. exec[e] \in Execution  BY Fields
  <1>2. CASE exec[e].ing = i /\ exec[e].held = "own"
    <2>1. Disowned(i)[e] = [exec[e] EXCEPT !.held = "lost"]  BY <1>2 DEF Disowned
    <2>2. [exec[e] EXCEPT !.held = "lost"].stage = exec[e].stage  BY <1>1 DEF Execution
    <2>3. exec[e].stage # "idle"  BY <1>2, IdleStays, Values
    <2> QED BY <1>1, <1>2, <2>1, <2>2, <2>3, ExecutionValues, Values
  <1>3. CASE ~(exec[e].ing = i /\ exec[e].held = "own")
    <2>1. Disowned(i)[e] = exec[e]  BY <1>3 DEF Disowned
    <2>2. exec[e] = [exec[e] EXCEPT !.held = exec[e].held] /\ exec[e].held \in {"own", "lost", "left"}
      BY <1>1 DEF Execution
    <2> QED BY <1>1, <2>1, <2>2, IdleStays, Values
  <1> QED BY <1>2, <1>3

\* Who holds an item does not matter to the work.
LEMMA HeldWork ==
  ASSUME IInv, NEW e \in Executors, exec[e].stage # "idle", NEW h \in {"own", "lost", "left"},
         exec'[e] = [exec[e] EXCEPT !.held = h]
  PROVE  SameWork(e)
  BY Fields DEF SameWork, Execution

LEMMA DisownedWork ==
  ASSUME IInv, NEW i \in Ingestions, NEW e \in Executors, exec'[e] = Disowned(i)[e]
  PROVE  exec'[e] = Idle \/ SameWork(e)
  <1>1. CASE exec[e].stage = "idle"  BY <1>1, DisownedFacts
  <1>2. CASE exec[e].stage # "idle"
    <2>1. PICK h \in {"own", "lost", "left"} : exec'[e] = [exec[e] EXCEPT !.held = h]
      BY <1>2, DisownedFacts
    <2> QED BY <1>2, <2>1, HeldWork
  <1> QED BY <1>1, <1>2

\* The lease of an item is recovered; who executes it has lost it.
LEMMA RecoverItemInv == ASSUME IInv, NEW i \in Ingestions, RecoverItem(i) PROVE IInv'
  <1>1. /\ ing[i].item = "leased" /\ exec' = Disowned(i)
        /\ stolen' = (stolen \/ ExecutedBy(i) # {} \/ (ing[i].cancel # "no" /\ Robs(i)))
        /\ UNCHANGED <<index, crossed, scheduler, extraction, editing>>
        /\ faults' = faults \/ Counted
    BY DEF RecoverItem, Strikes
  <1>2. /\ exec' \in [Executors -> Execution] /\ faults' \in 0..MaxFaults
        /\ stolen' \in BOOLEAN /\ ing[i].status # "absent"
        /\ \A e \in Executors : exec'[e] = Idle \/ SameWork(e)
    BY <1>1, DisownedFacts, DisownedWork, FaultValues DEF IInv, Types, Begun
  <1>3. ~stolen' => ~stolen /\ \A e \in Executors : exec[e].ing # i
    BY <1>1 DEF ExecutedBy
  <1>4. CASE ing[i].cancel # "no" /\ CancelIngestion(i)
    <2>1. PICK new \in Ingestion :
            /\ ing' = [ing EXCEPT ![i] = new]
            /\ new.trigger = ing[i].trigger /\ new.item = "closed"
            /\ new.status \in {"completed", "failed", "cancelled"}
            /\ source' \in Source
            /\ Robs(i) \/ source' = source \/ \A e \in Holders : exec[e].ing = i
      BY <1>4, CancelFacts
    <2> QED BY <1>1, <1>2, <1>3, <1>4, <2>1, ItemStepInv
  <1>5. CASE Requeued(i) /\ UNCHANGED source
    <2>1. PICK new \in Ingestion :
            /\ ing' = [ing EXCEPT ![i] = new]
            /\ new.trigger = ing[i].trigger /\ new.item = "queued"
            /\ new.status # "absent" /\ (new.status \in {"queued", "running"} => Active(i))
            /\ new.status # "running"
      BY <1>2, <1>5, RequeuedFacts
    <2> QED BY <1>1, <1>2, <1>3, <1>5, <2>1, ItemStepInv DEF IInv, Types
  <1> QED BY <1>4, <1>5 DEF RecoverItem

\* A cancellation takes a queued item at once and marks a leased one.
LEMMA RequestCancelInv == ASSUME IInv, NEW i \in Ingestions, RequestCancel(i) PROVE IInv'
  <1>1. /\ UNCHANGED <<index, crossed, exec, scheduler, extraction, editing>>
        /\ ing[i].item # "none"
        /\ faults' = faults \/ Counted
    BY DEF RequestCancel, Strikes
  <1>2. /\ exec' \in [Executors -> Execution] /\ faults' \in 0..MaxFaults
        /\ ing[i].status # "absent"
        /\ \A e \in Executors : exec'[e] = Idle \/ SameWork(e)
    <2>1. \A e \in Executors : exec'[e] = Idle \/ SameWork(e)  BY <1>1, AloneWork
    <2>2. faults' \in 0..MaxFaults  BY <1>1, FaultValues
    <2>3. exec' \in [Executors -> Execution]  BY <1>1 DEF IInv, Types
    <2>4. ing[i].status # "absent"  BY <1>1 DEF IInv, Begun
    <2> QED BY <2>1, <2>2, <2>3, <2>4
  <1>3. CASE ing[i].item = "queued" /\ CancelIngestion(i) /\ stolen' = (stolen \/ Robs(i))
    <2>1. PICK new \in Ingestion :
            /\ ing' = [ing EXCEPT ![i] = new]
            /\ new.trigger = ing[i].trigger /\ new.item = "closed"
            /\ new.status \in {"completed", "failed", "cancelled"}
            /\ source' \in Source
            /\ Robs(i) \/ source' = source \/ \A e \in Holders : exec[e].ing = i
      BY <1>3, CancelFacts
    <2>2. stolen' \in BOOLEAN  BY <1>3 DEF IInv, Types
    <2>3. ASSUME ~stolen', NEW e \in Executors, exec'[e] # Idle PROVE exec[e].ing # i
      BY <1>2, <1>3, <2>3 DEF SameWork, IInv, Sound, Executing, Executes
    <2> QED BY <1>1, <1>2, <1>3, <2>1, <2>2, <2>3, ItemStepInv
  <1>4. ASSUME ing[i].item = "leased", NEW cancel \in {"late", "early"},
               ing' = [ing EXCEPT ![i].cancel = cancel], UNCHANGED <<source, stolen>>
        PROVE  IInv'
    <2> DEFINE new == [ing[i] EXCEPT !.cancel = cancel]
    <2>1. ing[i] \in Ingestion  BY Fields
    <2>2. /\ new \in Ingestion /\ new.trigger = ing[i].trigger /\ new.item = ing[i].item
          /\ new.status = ing[i].status
      BY <2>1 DEF Ingestion
    <2>3. ing' = [ing EXCEPT ![i] = new]  BY <1>4, <2>1 DEF IInv, Types, Ingestion
    <2>4. ~stolen => Agrees(i)  BY DEF IInv, Sound, Agree
    <2> HIDE DEF new
    <2> QED BY <1>1, <1>2, <1>4, <2>2, <2>3, <2>4, ItemStepInv DEF Active, Agrees, IInv, Types
  <1> QED BY <1>3, <1>4 DEF RequestCancel

\* A loop whose heartbeat raises leaves its item; unless its execution has
\* returned, the execution goes on without it.
LEMMA HeartbeatRaisesInv == ASSUME IInv, NEW w \in Workers, HeartbeatRaises(w) PROVE IInv'
  <1> DEFINE i == exec[w].ing
  <1>1. /\ exec[w].stage # "idle"
        /\ exec' = [exec EXCEPT ![w] = IF exec[w].stage = "executed" THEN Idle
                                       ELSE [exec[w] EXCEPT !.held = "left"]]
        /\ stolen' = (stolen \/ exec[w].stage # "executed" \/ (ing[i].cancel # "no" /\ Robs(i)))
        /\ UNCHANGED <<index, crossed, scheduler, extraction, editing>>
        /\ faults' = faults \/ Counted
    BY DEF HeartbeatRaises, Strikes
  <1>2. w \in Executors  BY DEF Executors
  <1>3. i \in Ingestions /\ ing[i].status # "absent"  BY <1>1, <1>2 DEF IInv, Begun
  <1>4. exec' \in [Executors -> Execution]
    <2>1. exec[w] \in Execution  BY <1>2, Fields
    <2>2. [exec[w] EXCEPT !.held = "left"] \in Execution  BY <2>1, ExecutionValues
    <2> QED BY <1>1, <2>2, Values DEF IInv, Types
  <1>5. \A e \in Executors : exec'[e] = Idle \/ SameWork(e)
    <2> SUFFICES ASSUME NEW e \in Executors PROVE exec'[e] = Idle \/ SameWork(e)  OBVIOUS
    <2>1. CASE e = w
      <3>1. exec'[w] = Idle \/ exec'[w] = [exec[w] EXCEPT !.held = "left"]
        BY <1>1, <1>2 DEF IInv, Types
      <3> QED BY <1>1, <1>2, <2>1, <3>1, HeldWork
    <2>2. CASE e # w
      <3>1. exec'[e] = exec[e]  BY <1>1, <2>2 DEF IInv, Types
      <3> QED BY <3>1, AloneWork
    <2> QED BY <2>1, <2>2
  <1>6. faults' \in 0..MaxFaults /\ stolen' \in BOOLEAN
    BY <1>1, FaultValues DEF IInv, Types
  <1>7. ASSUME ~stolen'
        PROVE  /\ ~stolen /\ exec[w].stage = "executed" /\ Ended(i)
               /\ \A e \in Executors : exec'[e] # Idle => exec[e].ing # i
    <2>1. ~stolen /\ exec[w].stage = "executed"  BY <1>1, <1>7
    <2>2. Executes(w)  BY <1>2, <2>1 DEF IInv, Sound, Executing
    <2>3. exec'[w] = Idle  BY <1>1, <1>2, <2>1 DEF IInv, Types
    <2> QED BY <2>1, <2>2, <2>3 DEF Executes
  <1>8. \/ UNCHANGED <<ing, source>>
        \/ ing[i].cancel # "no" /\ CancelIngestion(i)
        \/ /\ UNCHANGED source
           /\ \/ Requeued(i)
              \/ ing' = [ing EXCEPT ![i].item = "closed",
                                    ![i].status = IF Ended(i) THEN @ ELSE "failed"]
    BY DEF HeartbeatRaises
  <1> HIDE DEF i
  <1>9. CASE UNCHANGED <<ing, source>>
    <2>1. ing[i] \in Ingestion /\ ing' = [ing EXCEPT ![i] = ing[i]]
      BY <1>3, <1>9, Fields DEF IInv, Types
    <2>2. ing[i].status \in {"queued", "running"} => Active(i)  BY DEF Active
    <2>3. source' \in Source  BY <1>9, Fields
    <2> QED BY <1>1, <1>3, <1>4, <1>5, <1>6, <1>7, <1>9, <2>1, <2>2, <2>3, ItemStepInv DEF Ended
  <1>10. CASE ing[i].cancel # "no" /\ CancelIngestion(i)
    <2>1. PICK new \in Ingestion :
            /\ ing' = [ing EXCEPT ![i] = new]
            /\ new.trigger = ing[i].trigger /\ new.item = "closed"
            /\ new.status \in {"completed", "failed", "cancelled"}
            /\ source' \in Source
            /\ Robs(i) \/ source' = source \/ \A e \in Holders : exec[e].ing = i
      BY <1>3, <1>10, CancelFacts
    <2>2. ~stolen' => ~Robs(i)  BY <1>1, <1>10 DEF i
    <2> QED BY <1>1, <1>3, <1>4, <1>5, <1>6, <1>7, <2>1, <2>2, ItemStepInv
  <1>11. CASE Requeued(i) /\ UNCHANGED source
    <2>1. PICK new \in Ingestion :
            /\ ing' = [ing EXCEPT ![i] = new]
            /\ new.trigger = ing[i].trigger /\ new.item = "queued"
            /\ new.status # "absent" /\ (new.status \in {"queued", "running"} => Active(i))
            /\ new.status # "running"
      BY <1>3, <1>11, RequeuedFacts
    <2>2. source' \in Source  BY <1>11, Fields
    <2> QED BY <1>1, <1>3, <1>4, <1>5, <1>6, <1>7, <1>11, <2>1, <2>2, ItemStepInv
  <1>12. CASE /\ UNCHANGED source
              /\ ing' = [ing EXCEPT ![i].item = "closed",
                                    ![i].status = IF Ended(i) THEN @ ELSE "failed"]
    <2> DEFINE new == [ing[i] EXCEPT !.item = "closed",
                                     !.status = IF Ended(i) THEN ing[i].status ELSE "failed"]
    <2>1. ing[i] \in Ingestion  BY <1>3, Fields
    <2>2. /\ new \in Ingestion /\ new.trigger = ing[i].trigger /\ new.item = "closed"
          /\ new.status \in {"completed", "failed", "cancelled"}
      BY <2>1 DEF Ingestion, Ended
    <2>3. ing' = [ing EXCEPT ![i] = new]  BY <1>3, <1>12, <2>1 DEF IInv, Types, Ingestion
    <2>4. source' \in Source  BY <1>12, Fields
    <2> HIDE DEF new
    <2> QED BY <1>1, <1>3, <1>4, <1>5, <1>6, <1>7, <1>12, <2>2, <2>3, <2>4, ItemStepInv
  <1> QED BY <1>8, <1>9, <1>10, <1>11, <1>12

\* A loop that cancels its execution, or is done, leaves its item.
LEMMA LeaveItemInv == ASSUME IInv, NEW w \in Workers, Interrupt(w) \/ Finish(w) PROVE IInv'
  <1> DEFINE i == exec[w].ing
  <1>1. /\ UNCHANGED <<index, crossed, scheduler, extraction, editing, faults>>
        /\ exec' = [exec EXCEPT ![w] = Idle] \/ exec' = [Disowned(i) EXCEPT ![w] = Idle]
        /\ exec[w].stage \in {"waiting", "collecting", "compared", "executed"}
    BY DEF Interrupt, Finish
  <1>2. w \in Executors  BY DEF Executors
  <1>3. i \in Ingestions /\ ing[i].status # "absent"  BY <1>1, <1>2 DEF IInv, Begun
  <1>4. /\ exec' \in [Executors -> Execution] /\ exec'[w] = Idle
        /\ \A e \in Executors \ {w} : exec'[e] = exec[e] \/ exec'[e] = Disowned(i)[e]
    BY <1>1, <1>2, <1>3, Values, DisownedFacts DEF IInv, Types
  <1>5. \A e \in Executors : exec'[e] = Idle \/ SameWork(e)
    BY <1>3, <1>4, AloneWork, DisownedWork
  <1>6. ASSUME ~stolen PROVE \A e \in Executors : exec'[e] # Idle => exec[e].ing # i
    BY <1>1, <1>2, <1>4, <1>6 DEF IInv, Sound, Executing, Executes
  <1>7. \/ UNCHANGED <<ing, source, stolen>>
        \/ CancelIngestion(i) /\ stolen' = (stolen \/ Robs(i))
        \/ /\ exec[w].stage = "executed" /\ UNCHANGED <<source, stolen>>
           /\ ing' = [ing EXCEPT ![i].item = "closed"]
    BY DEF Interrupt, Finish
  <1>8. stolen' \in BOOLEAN /\ (~stolen' => ~stolen)  BY <1>7 DEF IInv, Types
  <1>9. faults' \in 0..MaxFaults  BY <1>1 DEF IInv, Types
  <1> HIDE DEF i
  <1>10. CASE UNCHANGED <<ing, source, stolen>>
    <2>1. ing[i] \in Ingestion /\ ing' = [ing EXCEPT ![i] = ing[i]]
      BY <1>3, <1>10, Fields DEF IInv, Types
    <2>2. ing[i].status \in {"queued", "running"} => Active(i)  BY DEF Active
    <2>3. source' \in Source  BY <1>10, Fields
    <2>4. ~stolen => Agrees(i)  BY <1>3 DEF IInv, Sound, Agree
    <2> QED BY <1>1, <1>3, <1>4, <1>5, <1>6, <1>8, <1>9, <1>10, <2>1, <2>2, <2>3, <2>4,
               ItemStepInv DEF Agrees
  <1>11. CASE CancelIngestion(i) /\ stolen' = (stolen \/ Robs(i))
    <2>1. PICK new \in Ingestion :
            /\ ing' = [ing EXCEPT ![i] = new]
            /\ new.trigger = ing[i].trigger /\ new.item = "closed"
            /\ new.status \in {"completed", "failed", "cancelled"}
            /\ source' \in Source
            /\ Robs(i) \/ source' = source \/ \A e \in Holders : exec[e].ing = i
      BY <1>3, <1>11, CancelFacts
    <2> QED BY <1>1, <1>3, <1>4, <1>5, <1>6, <1>8, <1>9, <1>11, <2>1, ItemStepInv
  <1>12. CASE /\ exec[w].stage = "executed" /\ UNCHANGED <<source, stolen>>
              /\ ing' = [ing EXCEPT ![i].item = "closed"]
    <2> DEFINE new == [ing[i] EXCEPT !.item = "closed"]
    <2>1. ing[i] \in Ingestion  BY <1>3, Fields
    <2>2. /\ new \in Ingestion /\ new.trigger = ing[i].trigger /\ new.item = "closed"
          /\ new.status = ing[i].status
      BY <2>1 DEF Ingestion
    <2>3. ing' = [ing EXCEPT ![i] = new]  BY <1>3, <1>12, <2>1 DEF IInv, Types, Ingestion
    <2>4. ~stolen => new.status \notin {"queued", "running"}
      BY <1>2, <1>12, <2>2 DEF IInv, Sound, Executing, Executes, Ended, i
    <2>5. source' \in Source  BY <1>12, Fields
    <2> HIDE DEF new
    <2>6. (new.status \in {"queued", "running"} => Active(i)) /\ new.status # "absent"
      BY <1>3, <2>2 DEF Active
    <2>7. UNCHANGED <<index, crossed, scheduler, extraction, editing, source, stolen>>
      BY <1>1, <1>12
    <2>8. ~stolen' =>
            /\ ~stolen /\ new.status # "queued" /\ new.status # "running"
            /\ \A e \in Executors : exec'[e] # Idle => exec[e].ing # i
      BY <1>6, <1>8, <2>4
    <2> QED BY <1>3, <1>4, <1>5, <1>8, <1>9, <2>2, <2>3, <2>5, <2>6, <2>7, <2>8, ItemStepInv
  <1> QED BY <1>7, <1>10, <1>11, <1>12

-----------------------------------------------------------------------------
(* Executions begin.                                                        *)

\* An execution that begins has its ingestion to itself.
LEMMA JoinInv ==
  ASSUME IInv, Types', UNCHANGED <<index, crossed, editing>>,
         NEW w \in Executors, NEW i \in Ingestions,
         exec'[w].stage \in {"waiting", "executed"}, exec'[w].ing = i,
         ing'[i].status # "absent",
         \A e \in Executors \ {w} : exec'[e] = exec[e],
         OneActiveOfAKind',
         \A j \in Ingestions : ing'[j].status = "absent" =>
           ing[j].status = "absent" /\ ing'[j].item = "none",
         ~stolen' =>
           /\ ~stolen /\ Agree'
           /\ \A e \in Executors : exec[e].stage # "idle" =>
                exec[e].ing # i /\ ing'[exec[e].ing] = ing[exec[e].ing]
           /\ source'.owner = source.owner /\ source'.lapsed = source.lapsed
           /\ extraction.stage = "repairing" => extraction'.stage = "repairing"
           /\ IF w \in Workers THEN ing'[i].item = "leased"
              ELSE /\ ing'[i].item = "none" /\ extraction'.stage = "repairing"
                   /\ ing'[i].trigger = "scope_repair"
           /\ exec'[w].stage = "waiting" => ing'[i].status = "running"
           /\ exec'[w].stage = "executed" =>
                ing'[i].status \in {"completed", "failed", "cancelled"}
  PROVE  IInv'
  <1>1. Begun'
    <2>1. ASSUME NEW e \in Executors
          PROVE  /\ exec'[e].stage = "idle" => exec'[e] = Idle
                 /\ exec'[e].stage # "idle" =>
                      exec'[e].ing \in Ingestions /\ ing'[exec'[e].ing].status # "absent"
                 /\ exec'[e].stage \in Inside => exec'[e].location \in {"present", "former"}
      <3>1. CASE e = w  BY <3>1, Values DEF Inside
      <3>2. CASE e # w  BY <3>2 DEF IInv, Begun
      <3> QED BY <3>1, <3>2
    <2> QED BY <2>1 DEF Begun
  <1>2. Indexed'
    <2>1. \A e \in Executors : exec'[e].stage = "checked" => e # w  OBVIOUS
    <2> QED BY <2>1, IndexedStays DEF index, Rereads
  <1>3. ASSUME ~stolen' PROVE Sound'
    <2>1. ~stolen /\ Agree' /\ Sound  BY <1>3 DEF IInv
    <2>2. \A e \in Executors \ {w} : exec'[e].ing # i
      BY <1>3, IdleStays, Values
    <2>3. Executes(w)'
      BY <1>3, <2>2 DEF Executes, Going, Inside, Ended
    <2>4. ASSUME NEW e \in Executors \ {w} PROVE Executes(e)'
      <3>1. exec'[e] = exec[e] /\ Executes(e)  BY <2>1 DEF Sound, Executing
      <3>2. CASE exec[e].stage = "idle"  BY <3>1, <3>2 DEF Executes, Going, Inside
      <3>3. CASE exec[e].stage # "idle"
        <4>1. exec[e].ing # i /\ ing'[exec[e].ing] = ing[exec[e].ing]  BY <1>3, <3>3
        <4>2. \A f \in Executors : exec'[f].ing = exec'[e].ing => f = e
          BY <3>1, <3>3, <4>1 DEF Executes
        <4> QED BY <1>3, <3>1, <3>3, <4>1, <4>2 DEF Executes, Ended
      <3> QED BY <3>2, <3>3
    <2>5. Holding'
      <3> SUFFICES ASSUME NEW e \in Executors, exec'[e].stage \in Inside PROVE Holds(e)'
        BY DEF Holding
      <3>1. e # w  BY DEF Inside
      <3>2. exec'[e] = exec[e] /\ exec[e].stage # "idle" /\ Holds(e)
        BY <2>1, <3>1, Values DEF Sound, Holding
      <3> QED BY <1>3, <3>2 DEF Holds
    <2>6. Looking'
      <3> SUFFICES ASSUME NEW e \in Executors, exec'[e].stage \in Inside PROVE Looked(e)'
        BY OutsideLooksNext DEF Looking
      <3>1. e # w  BY DEF Inside
      <3>2. SameWork(e)  BY <3>1, Values DEF SameWork
      <3> QED BY <1>3, <2>1, <3>2, LookedStays DEF SameWork, index
    <2> QED BY <2>1, <2>3, <2>4, <2>5, <2>6 DEF Sound, Executing
  <1> QED BY <1>1, <1>2, <1>3 DEF IInv

\* A loop claims a queued item, whose ingestion nobody executes.
LEMMA ClaimItemInv ==
  ASSUME IInv, NEW w \in Workers, NEW i \in Ingestions, ClaimItem(w, i)
  PROVE  IInv'
  <1> DEFINE stage == IF ing[i].status = "queued" THEN "waiting" ELSE "executed"
             new == [Idle EXCEPT !.ing = i, !.stage = stage]
             row == [ing[i] EXCEPT !.item = "leased",
                       !.status = IF ing[i].status = "queued" THEN "running" ELSE ing[i].status]
  <1>1. /\ exec[w].stage = "idle" /\ ing[i].item = "queued"
        /\ UNCHANGED <<source, index, scheduler, extraction, editing, stolen, crossed, faults>>
        /\ exec' = [exec EXCEPT ![w] = new]
    BY DEF ClaimItem
  <1>2. w \in Executors /\ ing[i] \in Ingestion /\ (~stolen => Agrees(i)) /\ ing[i].status # "absent"
    BY <1>1, Fields DEF Executors, IInv, Sound, Agree, Begun
  <1>3. ing' = [ing EXCEPT ![i] = row]
    BY <1>2 DEF ClaimItem, IInv, Types, Ingestion
  <1>4. /\ row \in Ingestion /\ row.item = "leased" /\ row.trigger = ing[i].trigger
        /\ row.status = IF ing[i].status = "queued" THEN "running" ELSE ing[i].status
    BY <1>2 DEF Ingestion
  <1>5. new \in Execution /\ new.ing = i /\ new.stage = stage
    BY DEF Idle, Execution, Columns
  <1> HIDE DEF row, new
  <1>6. /\ ing' \in [Ingestions -> Ingestion] /\ ing'[i] = row
        /\ \A j \in Ingestions \ {i} : ing'[j] = ing[j]
        /\ \A j \in Ingestions : Follows(j)
        /\ (~stolen /\ Agrees(i)') => Agree'
    BY <1>2, <1>3, <1>4, IngestionValues DEF Active
  <1>7. /\ exec' \in [Executors -> Execution] /\ exec'[w] = new
        /\ \A e \in Executors \ {w} : exec'[e] = exec[e]
    BY <1>1, <1>2, <1>5 DEF IInv, Types
  <1>8. Types'  BY <1>1, <1>6, <1>7 DEF IInv, Types, index
  <1>9. /\ OneActiveOfAKind'
        /\ \A j \in Ingestions : ing'[j].status = "absent" =>
             ing[j].status = "absent" /\ ing'[j].item = "none"
    BY <1>6, FollowsFacts
  <1>10. ASSUME ~stolen
         PROVE  /\ Agree'
                /\ \A e \in Executors : exec[e].stage # "idle" =>
                     exec[e].ing # i /\ ing'[exec[e].ing] = ing[exec[e].ing]
                /\ ing[i].status # "queued" => ing[i].status \in {"completed", "failed", "cancelled"}
    <2>1. ing[i].status # "queued" => ing[i].status \in {"completed", "failed", "cancelled"}
      BY <1>1, <1>2, <1>10 DEF Ingestion, Agrees
    <2>2. Agree'  BY <1>4, <1>6, <1>10, <2>1 DEF Agrees
    <2>3. ASSUME NEW e \in Executors, exec[e].stage # "idle"
          PROVE  exec[e].ing # i /\ exec[e].ing \in Ingestions
      BY <1>1, <1>10, <2>3 DEF IInv, Sound, Executing, Executes, Begun
    <2> QED BY <1>6, <2>1, <2>2, <2>3
  <1>11. stage \in {"waiting", "executed"}  OBVIOUS
  <1>12. UNCHANGED <<index, crossed, editing, source, extraction, stolen>>  BY <1>1
  <1>13. ing'[i].status # "absent"  BY <1>2, <1>4, <1>6
  <1> QED BY <1>2, <1>4, <1>5, <1>6, <1>7, <1>8, <1>9, <1>10, <1>11, <1>12, <1>13, JoinInv

\* An extraction repairs the scope, or waits for a repair that has begun.
LEMMA PrepareVersionsInv == ASSUME IInv, PrepareVersions PROVE IInv'
  <1>1. /\ extraction.stage = "preparing"
        /\ UNCHANGED <<index, crossed, scheduler, stolen, faults, editing>>
    BY DEF PrepareVersions
  <1>2. ASSUME NEW i \in Reused("scope_repair"),
               extraction' = [stage |-> "waiting", awaited |-> i],
               UNCHANGED <<ing, source, exec>>
        PROVE  IInv'
    <2>1. extraction' \in Extraction  BY <1>2 DEF Extraction, Reused
    <2>2. ASSUME ~stolen', NEW e \in Executors, exec[e].stage \in Inside
          PROVE  source'.owner = source.owner /\ ~source'.lapsed
      BY <1>1, <1>2, <2>2, InsideOwner
    <2> QED BY <1>1, <1>2, <2>1, <2>2, LeaseStepInv DEF IInv, Types, Rereads
  <1>3. ASSUME NEW i \in Ingestions, Reused("scope_repair") = {},
               Created(i, "scope_repair", "none", "running"),
               extraction' = [stage |-> "repairing", awaited |-> i],
               exec' = [exec EXCEPT ![Extractor] = [Idle EXCEPT !.ing = i, !.stage = "waiting"]]
        PROVE  IInv'
    <2> DEFINE new == [Idle EXCEPT !.ing = i, !.stage = "waiting"]
    <2>1. /\ ing' \in [Ingestions -> Ingestion] /\ source' \in Source
          /\ source'.owner = source.owner /\ source'.lapsed = source.lapsed
          /\ ing'[i].item = "none" /\ ing'[i].trigger = "scope_repair"
          /\ ing'[i].status = "running"
          /\ \A j \in Ingestions \ {i} : ing'[j] = ing[j]
          /\ OneActiveOfAKind' /\ (~stolen => Agree')
          /\ \A j \in Ingestions : ing'[j].status = "absent" =>
               ing[j].status = "absent" /\ ing'[j].item = "none"
          /\ \A e \in Executors : exec[e].stage # "idle" => exec[e].ing # i
      BY <1>3, CreatedFacts
    <2>2. new \in Execution /\ new.ing = i /\ new.stage = "waiting"
      BY DEF Idle, Execution, Columns
    <2> HIDE DEF new
    <2>3. Extractor \in Executors /\ Extractor \notin Workers  BY Values DEF Executors
    <2>4. /\ exec' \in [Executors -> Execution] /\ exec'[Extractor] = new
          /\ \A e \in Executors \ {Extractor} : exec'[e] = exec[e]
      BY <1>3, <2>2, <2>3 DEF IInv, Types, new
    <2>5. extraction' \in Extraction /\ extraction'.stage = "repairing"
      BY <1>3 DEF Extraction
    <2>6. Types'  BY <1>1, <2>1, <2>4, <2>5 DEF IInv, Types, index
    <2>7. \A e \in Executors : exec[e].stage # "idle" =>
            exec[e].ing # i /\ ing'[exec[e].ing] = ing[exec[e].ing]
      BY <2>1 DEF IInv, Begun
    <2> QED BY <1>1, <2>1, <2>2, <2>3, <2>4, <2>5, <2>6, <2>7, JoinInv
  <1> QED BY <1>2, <1>3 DEF PrepareVersions

\* A repair returns to the extraction, or is cancelled with it; the loops that
\* repair under its lease lose it, and then stolen says so.
LEMMA RepairEndsInv == ASSUME IInv, RepairReturns \/ ReleaseSource PROVE IInv'
  <1>1. /\ UNCHANGED <<index, crossed, ing, scheduler, faults, editing>>
        /\ exec' = [exec EXCEPT ![Extractor] = Idle]
    BY DEF RepairReturns, ReleaseSource
  <1>2. Extractor \in Executors /\ source \in Source /\ "extraction" \in Owners
    BY DEF Executors, IInv, Types, Owners
  <1>3. /\ exec' \in [Executors -> Execution] /\ exec'[Extractor] = Idle
        /\ \A e \in Executors \ {Extractor} : exec'[e] = exec[e] /\ e \in Workers
    BY <1>1, <1>2, Values DEF IInv, Types, Executors
  <1>4. extraction' \in Extraction
    BY DEF RepairReturns, ReleaseSource, Go, IInv, Types, Extraction
  <1>5. /\ source' \in Source
        /\ source' = source \/ source.owner \in {"none", "extraction"}
    <2>1. CASE RepairReturns  BY <2>1, <1>2 DEF RepairReturns
    <2>2. CASE ReleaseSource  BY <2>2, <1>2, LeaseValues DEF ReleaseSource
    <2> QED BY <2>1, <2>2
  <1>6. /\ stolen' \in BOOLEAN
        /\ ~stolen' => /\ ~stolen
                       /\ \/ source' = source \/ source.owner = "none"
                          \/ Holders \subseteq {Extractor}
    <2>1. CASE RepairReturns  BY <2>1 DEF RepairReturns, IInv, Types
    <2>2. CASE ReleaseSource
      BY <2>2, <1>5 DEF ReleaseSource, IInv, Types
    <2> QED BY <2>1, <2>2
  <1>7. Types'  BY <1>1, <1>3, <1>4, <1>5, <1>6 DEF IInv, Types, index
  <1>8. OneActiveOfAKind'  BY <1>1 DEF IInv, OneActiveOfAKind, Active
  <1>9. \A e \in Executors : exec'[e] = Idle \/ SameWork(e)  BY <1>3, AloneWork
  <1>10. ASSUME ~stolen' PROVE Undisturbed
    <2>1. Agree'  BY <1>1, <1>6, <1>10 DEF IInv, Sound, Agree, Agrees
    <2>2. ASSUME NEW e \in Executors, exec'[e] # Idle
          PROVE  /\ e \in Workers
                 /\ exec[e].stage \in Inside => source'.owner = source.owner /\ ~source'.lapsed
      <3>1. e # Extractor /\ e \in Workers  BY <1>3, <2>2
      <3>2. ASSUME exec[e].stage \in Inside
            PROVE  source'.owner = source.owner /\ ~source'.lapsed
        BY <1>6, <1>10, <3>1, <3>2, InsideOwner
      <3> QED BY <3>1, <3>2
    <2> QED BY <1>1, <1>6, <1>10, <2>1, <2>2 DEF Undisturbed
  <1>11. /\ \A i \in Ingestions : ing'[i].status = "absent" =>
              ing[i].status = "absent" /\ ing'[i].item = "none"
         /\ \A e \in Executors : ing'[exec[e].ing].trigger = ing[exec[e].ing].trigger
    BY <1>1 DEF IInv, Begun
  <1> QED BY <1>1, <1>7, <1>8, <1>9, <1>10, <1>11, QuietInv DEF Rereads

\* After a restart nobody executes anything, and every active ingestion has a
\* queue item.
LEMMA RestartInv == ASSUME IInv, Restart PROVE IInv'
  <1>1. /\ exec' = [e \in Executors |-> Idle]
        /\ scheduler' = "idle" /\ editing' = NoEdit
        /\ extraction' = [stage |-> "idle", awaited |-> None]
        /\ UNCHANGED <<source, index, stolen, crossed>>
        /\ faults' = faults \/ Counted
    BY DEF Restart, Strikes
  <1>2. \A e \in Executors : exec'[e] = Idle  BY <1>1
  <1>3. /\ ing' \in [Ingestions -> Ingestion] /\ \A j \in Ingestions : Follows(j)
        /\ ~stolen => Agree'
    <2>1. \A i \in Ingestions :
            LET row == [ing[i] EXCEPT !.status = "queued", !.item = "queued", !.cancel = "no"]
            IN /\ row \in Ingestion /\ row.trigger = ing[i].trigger /\ row.item = "queued"
               /\ row.status = "queued"
      BY Fields DEF Ingestion
    <2>2. ing' = [i \in Ingestions |-> IF Active(i) /\ ing[i].item \in {"none", "closed"}
             THEN [ing[i] EXCEPT !.status = "queued", !.item = "queued", !.cancel = "no"]
             ELSE ing[i]]
      BY DEF Restart
    <2>3. ing' \in [Ingestions -> Ingestion]  BY <2>1, <2>2 DEF IInv, Types
    <2>4. \A j \in Ingestions : Follows(j)
      BY <2>1, <2>2 DEF IInv, Begun, Follows, Active
    <2>5. ~stolen => Agree'
      BY <2>1, <2>2 DEF IInv, Sound, Agree, Agrees, Active
    <2> QED BY <2>3, <2>4, <2>5
  <1>4. Types'
    <2>1. exec' \in [Executors -> Execution] /\ extraction' \in Extraction /\ editing' \in Editing
      BY <1>1, Values DEF Extraction
    <2>2. faults' \in 0..MaxFaults  BY <1>1, FaultValues
    <2> QED BY <1>1, <1>3, <2>1, <2>2 DEF IInv, Types, index
  <1>5. ~stolen' => Undisturbed  BY <1>1, <1>2, <1>3 DEF Undisturbed
  <1> QED BY <1>1, <1>2, <1>3, <1>4, <1>5, FollowsFacts, QuietInv, Values DEF Rereads

-----------------------------------------------------------------------------
(* Executions at work on the source.                                        *)

\* One execution at a time is inside the source.
LEMMA AloneInside ==
  ASSUME IInv, ~stolen, NEW e \in Executors, NEW f \in Executors,
         exec[e].stage \in Inside, exec[f].stage \in Inside
  PROVE  e = f
  <1>1. Executes(e) /\ Executes(f)  BY DEF IInv, Sound, Executing
  <1>2. /\ exec[e].ing \in Ingestions /\ exec[f].ing \in Ingestions
        /\ Active(exec[e].ing) /\ Active(exec[f].ing)
    BY <1>1, InsideOwner DEF Executes, Going, Active
  <1>3. \/ source.owner = exec[e].ing /\ source.owner = exec[f].ing
        \/ /\ ing[exec[e].ing].trigger = "scope_repair"
           /\ ing[exec[f].ing].trigger = "scope_repair"
    BY <1>2, InsideOwner, Values
  <1>4. exec[e].ing = exec[f].ing  BY <1>2, <1>3 DEF IInv, OneActiveOfAKind
  <1> QED BY <1>1, <1>4, Values DEF Executes

\* A step of an execution that has not returned, with its ingestion.
LEMMA WorkInv ==
  ASSUME IInv, Types', Indexed', NEW e \in Executors, exec[e].stage \in Going,
         exec'[e].ing = exec[e].ing, exec'[e].stage \in Inside \union {"executed"},
         exec'[e].stage \in Inside => exec'[e].location \in {"present", "former"},
         extraction' = extraction,
         \A f \in Executors \ {e} :
           exec'[f] = Idle \/ (GoesOn(f) /\ exec'[f].stage = exec[f].stage),
         NEW new \in Ingestion, ing' = [ing EXCEPT ![exec[e].ing] = new],
         new.trigger = ing[exec[e].ing].trigger, new.item = ing[exec[e].ing].item,
         new.status \in {"queued", "running"} => new.status = ing[exec[e].ing].status,
         new.status # "absent",
         ~stolen' =>
           /\ ~stolen /\ Holding' /\ Looking'
           /\ exec'[e].stage \in Inside => new.status = "running"
           /\ exec'[e].stage = "executed" => new.status \in {"completed", "failed", "cancelled"}
  PROVE  IInv'
  <1> DEFINE i == exec[e].ing
  <1>1. i \in Ingestions /\ exec[e].stage # "idle"
    BY DEF IInv, Begun, Going, Inside
  <1>2. /\ ing' \in [Ingestions -> Ingestion] /\ ing'[i] = new
        /\ \A j \in Ingestions \ {i} : ing'[j] = ing[j]
        /\ \A j \in Ingestions : Follows(j)
        /\ (~stolen /\ Agrees(i)') => Agree'
    BY <1>1, IngestionValues DEF Active
  <1>3. GoesOn(e)  BY <1>1, Values DEF GoesOn
  <1>4. Begun'
    <2>1. \A j \in Ingestions : ing'[j].status = "absent" =>
            ing[j].status = "absent" /\ ing'[j].item = "none"
      BY <1>2, FollowsFacts
    <2> QED BY <1>3, <2>1, BegunStays
  <1>5. OneActiveOfAKind'  BY <1>2, FollowsFacts
  <1>6. ASSUME ~stolen' PROVE Sound'
    <2>1. ~stolen /\ Sound  BY <1>6 DEF IInv
    <2>2. Agree'
      BY <1>1, <1>2, <2>1 DEF Sound, Agree, Agrees
    <2>3. Executing'
      <3>1. ASSUME NEW f \in Executors, exec'[f] # Idle
            PROVE  /\ exec[f].stage # "idle" /\ exec'[f].stage # "idle"
                   /\ exec'[f].ing = exec[f].ing
                   /\ ing'[exec[f].ing].item = ing[exec[f].ing].item
                   /\ ing'[exec[f].ing].trigger = ing[exec[f].ing].trigger
                   /\ f \notin Workers => extraction'.stage = "repairing"
                   /\ exec'[f].stage \in Going => ing'[exec[f].ing].status = "running"
                   /\ exec'[f].stage = "executed" =>
                        ing'[exec[f].ing].status \in {"completed", "failed", "cancelled"}
        <4>1. GoesOn(f) /\ Executes(f) /\ exec[f].ing \in Ingestions
          BY <1>3, <2>1, <3>1 DEF GoesOn, Sound, Executing, IInv, Begun
        <4>2. CASE f = e
          BY <1>1, <1>2, <1>6, <4>1, <4>2, Values DEF GoesOn, Executes, Going, Ended
        <4>3. CASE f # e
          <5>1. exec'[f].stage = exec[f].stage  BY <3>1, <4>3
          <5>2. exec[f].ing # i
            BY <1>1, <2>1, <4>3 DEF Sound, Executing, Executes
          <5> QED BY <1>2, <4>1, <5>1, <5>2 DEF GoesOn, Executes, Ended
        <4> QED BY <4>2, <4>3
      <3> QED BY <2>1, <3>1, ExecutingStays
    <2> QED BY <1>6, <2>2, <2>3 DEF Sound
  <1> QED BY <1>4, <1>5, <1>6 DEF IInv

\* Such a step changes one execution.
LEMMA WorkValues ==
  ASSUME IInv, NEW e \in Executors, NEW new \in Execution, exec' = [exec EXCEPT ![e] = new]
  PROVE  /\ exec' \in [Executors -> Execution] /\ exec'[e] = new
         /\ \A f \in Executors \ {e} : exec'[f] = exec[f]
         /\ \A f \in Executors \ {e} :
              exec'[f] = Idle \/ (SameWork(f) /\ GoesOn(f) /\ exec'[f].stage = exec[f].stage)
  <1>1. /\ exec' \in [Executors -> Execution] /\ exec'[e] = new
        /\ \A f \in Executors \ {e} : exec'[f] = exec[f]
    BY DEF IInv, Types
  <1>2. ASSUME NEW f \in Executors \ {e}
        PROVE  exec'[f] = Idle \/ (SameWork(f) /\ GoesOn(f) /\ exec'[f].stage = exec[f].stage)
    BY <1>1, AloneWork DEF SameWork, GoesOn, IInv, Begun
  <1> QED BY <1>1, <1>2

\* Who works on the source leaves what others look at.
LEMMA OthersLook ==
  ASSUME IInv, ~stolen, docs' = docs, \A p \in Paths : entries[p].known => entries'[p].known,
         \A i \in Ingestions : ing'[i].trigger = ing[i].trigger,
         NEW f \in Executors, exec'[f] = Idle \/ SameWork(f)
  PROVE  Looked(f)'
  <1>1. CASE exec'[f] = Idle  BY <1>1, Values, OutsideLooksNext
  <1>2. CASE SameWork(f)
    <2>1. ing'[exec[f].ing].trigger = ing[exec[f].ing].trigger
      BY <1>2 DEF SameWork, IInv, Begun
    <2> QED BY <1>2, <2>1, LookedStays DEF IInv
  <1> QED BY <1>1, <1>2

\* An execution has its ingestion, which has begun.
LEMMA GoingFacts ==
  ASSUME IInv, NEW e \in Executors, exec[e].stage \in Going
  PROVE  /\ exec[e] \in Execution /\ exec[e].ing \in Ingestions
         /\ ing[exec[e].ing] \in Ingestion /\ ing[exec[e].ing].status # "absent"
         /\ exec[e].ing \in Owners /\ PathsOf(exec[e].ing) \subseteq Paths
         /\ ~stolen => ing[exec[e].ing].status = "running"
  <1>1. exec[e].stage # "idle"  BY DEF Going, Inside
  <1>2. exec[e].ing \in Ingestions /\ ing[exec[e].ing].status # "absent"
    BY <1>1 DEF IInv, Begun
  <1> QED BY <1>2, Fields DEF Owners, IInv, Sound, Executing, Executes

\* A return without a commit.
LEMMA ReturnValues ==
  ASSUME IInv, NEW e \in Executors, exec[e].stage \in Going
  PROVE  LET new == [Idle EXCEPT !.ing = exec[e].ing, !.stage = "executed",
                                 !.held = exec[e].held]
         IN new \in Execution /\ new.ing = exec[e].ing /\ new.stage = "executed"
  <1>1. exec[e] \in Execution  BY Fields
  <1> QED BY <1>1 DEF Idle, Execution, Columns

\* A return that changes at most the ingestion and the source.
LEMMA ReturnInv ==
  ASSUME IInv, NEW e \in Executors, exec[e].stage \in Going, Return(e),
         UNCHANGED <<index, scheduler, extraction, editing, stolen, crossed, faults>>,
         source' \in Source, NEW new \in Ingestion, ing' = [ing EXCEPT ![exec[e].ing] = new],
         new.trigger = ing[exec[e].ing].trigger, new.item = ing[exec[e].ing].item,
         new.status \in {"queued", "running"} => new.status = ing[exec[e].ing].status,
         new.status # "absent",
         ~stolen =>
           /\ new.status \in {"completed", "failed", "cancelled"}
           /\ \A f \in Executors \ {e} : exec[f].stage \notin Inside
  PROVE  IInv'
  <1> DEFINE done == [Idle EXCEPT !.ing = exec[e].ing, !.stage = "executed",
                                  !.held = exec[e].held]
  <1>1. done \in Execution /\ done.ing = exec[e].ing /\ done.stage = "executed"
    BY ReturnValues
  <1>2. exec' = [exec EXCEPT ![e] = done]  BY DEF Return
  <1> HIDE DEF done
  <1>3. /\ exec' \in [Executors -> Execution] /\ exec'[e] = done
        /\ \A f \in Executors \ {e} : exec'[f] = exec[f]
        /\ \A f \in Executors \ {e} :
             exec'[f] = Idle \/ (SameWork(f) /\ GoesOn(f) /\ exec'[f].stage = exec[f].stage)
    BY <1>1, <1>2, WorkValues
  <1>4. exec[e].ing \in Ingestions  BY GoingFacts
  <1>5. /\ ing' \in [Ingestions -> Ingestion]
        /\ \A i \in Ingestions : ing'[i].trigger = ing[i].trigger
    BY <1>4 DEF IInv, Types
  <1>6. Types'  BY <1>3, <1>5 DEF IInv, Types, index
  <1>7. Indexed'
    <2>1. \A f \in Executors : exec'[f].stage = "checked" =>
            exec[f].stage = "checked" /\ exec'[f].changed = exec[f].changed
      BY <1>1, <1>3
    <2> QED BY <2>1, IndexedStays DEF index, Rereads
  <1>8. ASSUME ~stolen' PROVE Holding' /\ Looking'
    <2>1. \A f \in Executors : exec'[f].stage \notin Inside
      BY <1>1, <1>3, <1>8, Values
    <2> QED BY <2>1, OutsideLooksNext DEF Holding, Looking
  <1> QED BY <1>1, <1>3, <1>6, <1>7, <1>8, Values, WorkInv

\* Only an execution that lost its item finds the ingestion ended.
LEMMA GiveUpInv == ASSUME IInv, NEW e \in Executors, GiveUp(e) PROVE IInv'
  <1> DEFINE i == exec[e].ing
  <1>1. /\ exec[e].stage \in Going /\ ~Active(i) /\ Return(e)
        /\ UNCHANGED <<source, index, ing, scheduler, extraction, editing, stolen, crossed, faults>>
    BY DEF GiveUp, Going
  <1>2. i \in Ingestions /\ ing[i] \in Ingestion /\ ing[i].status # "absent" /\ stolen
    BY <1>1, GoingFacts DEF Active
  <1>3. ing' = [ing EXCEPT ![i] = ing[i]] /\ source' \in Source
    BY <1>1, <1>2 DEF IInv, Types
  <1> QED BY <1>1, <1>2, <1>3, ReturnInv

\* One execution enters the source, and finds nobody inside.
LEMMA ObtainSourceInv == ASSUME IInv, NEW e \in Executors, ObtainSource(e) PROVE IInv'
  <1> DEFINE i == exec[e].ing
             listed == {p \in PathsOf(i) : entries[p].present}
             new == [exec[e] EXCEPT !.stage = "collecting", !.location = "present",
                       !.reusable = {p \in listed : docs[p] # "none"},
                       !.refused = {p \in listed : docs[p] = "none" /\ entries[p].rejected}]
  <1>1. /\ exec[e].stage = "waiting" /\ exec[e].stage \in Going
        /\ UNCHANGED <<index, ing, scheduler, extraction, editing, stolen, crossed, faults>>
    BY DEF ObtainSource, Going
  <1>2. /\ exec[e] \in Execution /\ i \in Ingestions /\ ing[i] \in Ingestion
        /\ ing[i].status # "absent" /\ i \in Owners /\ PathsOf(i) \subseteq Paths
        /\ ~stolen => ing[i].status = "running"
    BY <1>1, GoingFacts
  <1>3. \/ /\ ing[i].trigger = "scope_repair" /\ source.owner = "extraction"
           /\ source' = [source EXCEPT !.lapsed = FALSE]
        \/ /\ source.owner \in {"none", "scheduler", i} \/ source.lapsed
           /\ source' = Taken(source, i)
    BY DEF ObtainSource, HandOff, Available
  <1>4. /\ source' \in Source /\ ~source'.lapsed
        /\ \/ source'.owner = i
           \/ source'.owner = "extraction" /\ ing[i].trigger = "scope_repair"
    <2>1. CASE source.owner = "extraction" /\ source' = [source EXCEPT !.lapsed = FALSE]
               /\ ing[i].trigger = "scope_repair"
      <3>1. source' \in Source /\ source'.owner = source.owner /\ source'.lapsed = FALSE
        BY <2>1, Fields DEF Source
      <3> QED BY <2>1, <3>1
    <2>2. CASE source' = Taken(source, i)  BY <1>2, <2>2, Fields, LeaseValues
    <2> QED BY <1>3, <2>1, <2>2
  <1>5. ASSUME NEW f \in Executors, exec[f].stage \in Inside, ~stolen PROVE FALSE
    <2>1. Executes(e) /\ Executes(f)  BY <1>5 DEF IInv, Sound, Executing
    <2>2. /\ ~source.lapsed /\ source.owner \notin {"none", "scheduler"}
          /\ exec[f].ing \in Ingestions /\ f # e /\ exec[f].ing # i
      BY <1>1, <1>5, <2>1, InsideOwner DEF Executes, Inside
    <2>3. source.owner = "extraction" /\ ing[exec[f].ing].trigger = "scope_repair"
          /\ ing[i].trigger = "scope_repair"
      BY <1>2, <1>3, <1>5, <2>2, InsideOwner, Values
    <2>4. Active(exec[f].ing) /\ Active(i)
      BY <1>2, <1>5, <2>1 DEF Executes, Going, Active
    <2> QED BY <1>2, <2>2, <2>3, <2>4 DEF IInv, OneActiveOfAKind
  <1>6. ing' = [ing EXCEPT ![i] = ing[i]]  BY <1>1, <1>2 DEF IInv, Types
  <1>7. CASE ing[i].status # "running"
    <2>1. Return(e) /\ stolen  BY <1>2, <1>7 DEF ObtainSource
    <2> QED BY <1>1, <1>2, <1>4, <1>6, <2>1, ReturnInv
  <1>8. CASE ing[i].status = "running"
    <2>1. exec' = [exec EXCEPT ![e] = new]
      BY <1>2, <1>8 DEF ObtainSource, IInv, Types, Execution
    <2>2. /\ new \in Execution /\ new.stage = "collecting" /\ new.ing = i
          /\ new.location = "present"
          /\ \A p \in new.reusable : docs[p] # "none"
          /\ \A p \in new.refused : docs[p] = "none"
      BY <1>2 DEF Execution, Inside
    <2> HIDE DEF new
    <2>3. /\ exec' \in [Executors -> Execution] /\ exec'[e] = new
          /\ \A f \in Executors \ {e} : exec'[f] = exec[f]
          /\ \A f \in Executors \ {e} :
               exec'[f] = Idle \/ (SameWork(f) /\ GoesOn(f) /\ exec'[f].stage = exec[f].stage)
      BY <2>1, <2>2, WorkValues
    <2>4. Types'  BY <1>1, <1>4, <2>3 DEF IInv, Types, index
    <2>5. Indexed'
      <3>1. \A f \in Executors : exec'[f].stage = "checked" =>
              exec[f].stage = "checked" /\ exec'[f].changed = exec[f].changed
        BY <2>2, <2>3
      <3> QED BY <1>1, <3>1, IndexedStays DEF index, Rereads
    <2>6. ASSUME ~stolen' PROVE Holding' /\ Looking'
      <3>1. \A f \in Executors \ {e} : exec'[f].stage \notin Inside
        BY <1>1, <1>5, <2>3, <2>6
      <3>2. Holds(e)'  BY <1>1, <1>4, <2>2, <2>3 DEF Holds
      <3>3. Looked(e)'
        BY <1>1, <2>2, <2>3 DEF Looked, Loaded, index
      <3> QED BY <3>1, <3>2, <3>3, OutsideLooksNext DEF Holding, Looking
    <2> QED BY <1>1, <1>2, <1>6, <1>8, <2>2, <2>3, <2>4, <2>5, <2>6, WorkInv DEF Inside
  <1> QED BY <1>7, <1>8

\* A failure leaves documents and inventory as they are.
LEMMA FailInv ==
  ASSUME IInv, NEW e \in Executors, exec[e].stage \in Inside, Fail(e)
  PROVE  IInv'
  <1> DEFINE i == exec[e].ing
             row == [ing[i] EXCEPT !.status = "failed"]
  <1>1. /\ Return(e) /\ exec[e].stage \in Going
        /\ UNCHANGED <<index, scheduler, extraction, editing, stolen, crossed, faults>>
    BY DEF Fail, Going
  <1>2. i \in Ingestions /\ ing[i] \in Ingestion /\ i \in Owners  BY <1>1, GoingFacts
  <1>3. /\ row \in Ingestion /\ row.trigger = ing[i].trigger /\ row.item = ing[i].item
        /\ row.status = "failed"
    BY <1>2 DEF Ingestion
  <1>4. ing' = [ing EXCEPT ![i] = row]  BY <1>2 DEF Fail, IInv, Types, Ingestion
  <1> HIDE DEF row
  <1>5. source' \in Source
    <2>1. Released(source, i) \in Source  BY <1>2, Fields, LeaseValues
    <2> QED BY <2>1, StatusValues DEF Fail
  <1>6. ~stolen => \A f \in Executors \ {e} : exec[f].stage \notin Inside
    BY AloneInside
  <1> QED BY <1>1, <1>3, <1>4, <1>5, <1>6, ReturnInv

\* An event keeps the lease with who holds it.
LEMMA RenewedHolds ==
  ASSUME IInv, NEW e \in Executors, source' = Renewed(e), ing' = ing, stolen' = stolen,
         \A f \in Executors : exec'[f] = Idle \/
           (exec'[f].ing = exec[f].ing /\ (exec'[f].stage \in Inside => exec[f].stage \in Inside))
  PROVE  source' \in Source /\ (~stolen' => Holding')
  <1>1. source' \in Source /\ source'.owner = source.owner /\ (source'.lapsed => source.lapsed)
    BY Fields, RenewedValues
  <1>2. ASSUME ~stolen', NEW f \in Executors, exec'[f].stage \in Inside PROVE Holds(f)'
    <2>1. exec'[f] # Idle  BY <1>2, Values
    <2>2. Holds(f)  BY <1>2, <2>1 DEF IInv, Sound, Holding
    <2> QED BY <1>1, <1>2, <2>1, <2>2 DEF Holds
  <1> QED BY <1>1, <1>2 DEF Holding

\* A collection adds what it sees to the inventory.
LEMMA CollectInv == ASSUME IInv, NEW e \in Executors, Collect(e) PROVE IInv'
  <1> DEFINE i == exec[e].ing
  <1>1. PICK observed \in SUBSET PathsOf(i) :
        \E kept \in SUBSET (observed \intersect (exec[e].reusable \union exec[e].refused)),
           read, rejected \in SUBSET observed :
          /\ kept \intersect (read \union rejected) = {}
          /\ exec' = [f \in Executors |->
               IF f = e THEN [exec[e] EXCEPT !.stage = "collected",
                                !.reusable = @ \intersect kept, !.refused = @ \intersect kept,
                                !.seen = read \union (exec[e].reusable \intersect kept)]
               ELSE IF exec[f].stage \in {"waiting", "collecting", "collected"}
                    THEN [exec[f] EXCEPT !.newer = @ \union (observed \intersect PathsOf(exec[f].ing))]
                    ELSE exec[f]]
          /\ entries' = [p \in Paths |-> IF p \notin observed THEN entries[p]
               ELSE [known |-> TRUE, present |-> TRUE, by |-> i,
                     rejected |-> p \in rejected \/ (p \in kept /\ p \in exec[e].refused)]]
    BY DEF Collect
  <1>2. PICK kept \in SUBSET (observed \intersect (exec[e].reusable \union exec[e].refused)),
             read \in SUBSET observed, rejected \in SUBSET observed :
          /\ kept \intersect (read \union rejected) = {}
          /\ exec' = [f \in Executors |->
               IF f = e THEN [exec[e] EXCEPT !.stage = "collected",
                                !.reusable = @ \intersect kept, !.refused = @ \intersect kept,
                                !.seen = read \union (exec[e].reusable \intersect kept)]
               ELSE IF exec[f].stage \in {"waiting", "collecting", "collected"}
                    THEN [exec[f] EXCEPT !.newer = @ \union (observed \intersect PathsOf(exec[f].ing))]
                    ELSE exec[f]]
          /\ entries' = [p \in Paths |-> IF p \notin observed THEN entries[p]
               ELSE [known |-> TRUE, present |-> TRUE, by |-> i,
                     rejected |-> p \in rejected \/ (p \in kept /\ p \in exec[e].refused)]]
    BY <1>1
  <1> DEFINE seen == read \union (exec[e].reusable \intersect kept)
             new == [exec[e] EXCEPT !.stage = "collected",
                       !.reusable = exec[e].reusable \intersect kept,
                       !.refused = exec[e].refused \intersect kept, !.seen = seen]
  <1>3. /\ exec[e].stage = "collecting" /\ exec[e].stage \in Going
        /\ source' = Renewed(e)
        /\ UNCHANGED <<archived, docs, ing, scheduler, extraction, editing, stolen, crossed, faults>>
    BY DEF Collect, Going, Inside
  <1>4. /\ exec[e] \in Execution /\ i \in Ingestions /\ ing[i] \in Ingestion
        /\ ing[i].status # "absent" /\ PathsOf(i) \subseteq Paths
        /\ ~stolen => ing[i].status = "running"
    BY <1>3, GoingFacts
  <1>5. /\ new \in Execution /\ new.stage = "collected" /\ new.ing = i
        /\ new.location = exec[e].location /\ new.seen = seen
        /\ new.reusable = exec[e].reusable \intersect kept
        /\ new.refused = exec[e].refused \intersect kept
    BY <1>4 DEF Execution, Inside
  <1>6. exec'[e] = new  BY <1>2, <1>4 DEF Execution
  <1> HIDE DEF new
  <1>7. ASSUME NEW f \in Executors \ {e}
        PROVE  /\ exec'[f] \in Execution
               /\ exec'[f] = Idle \/ (SameWork(f) /\ GoesOn(f) /\ exec'[f].stage = exec[f].stage)
    <2>1. exec[f] \in Execution  BY Fields
    <2>2. CASE exec[f].stage \in {"waiting", "collecting", "collected"}
      <3> DEFINE newer == exec[f].newer \union (observed \intersect PathsOf(exec[f].ing))
      <3>1. exec'[f] = [exec[f] EXCEPT !.newer = newer]  BY <1>2, <2>1, <2>2 DEF Execution
      <3>2. newer \in SUBSET Paths  BY <1>4, <2>1 DEF Execution
      <3>3. SameWork(f)  BY <2>1, <2>2, <3>1 DEF SameWork, Execution
      <3> HIDE DEF newer
      <3>4. exec'[f] \in Execution  BY <2>1, <3>1, <3>2, ExecutionValues
      <3>5. GoesOn(f) /\ exec'[f].stage = exec[f].stage
        BY <2>2, <3>3 DEF SameWork, GoesOn, IInv, Begun
      <3> QED BY <3>3, <3>4, <3>5
    <2>3. CASE exec[f].stage \notin {"waiting", "collecting", "collected"}
      <3>1. exec'[f] = exec[f]  BY <1>2, <2>3
      <3> QED BY <2>1, <3>1, AloneWork DEF SameWork, GoesOn, IInv, Begun
    <2> QED BY <2>2, <2>3
  <1>8. exec' \in [Executors -> Execution]
    <2>1. \A f \in Executors : exec'[f] \in Execution  BY <1>5, <1>6, <1>7
    <2> QED BY <1>2, <2>1
  <1>9. /\ entries' \in [Paths -> Entry]
        /\ \A p \in Paths : entries[p].known => entries'[p].known
        /\ \A p \in observed : entries'[p].known
    BY <1>2, <1>4 DEF IInv, Types, Entry
  <1>10. ing' = [ing EXCEPT ![i] = ing[i]]  BY <1>3, <1>4 DEF IInv, Types
  <1>11. \A f \in Executors : exec'[f] = Idle \/
           (exec'[f].ing = exec[f].ing /\ (exec'[f].stage \in Inside => exec[f].stage \in Inside))
    BY <1>3, <1>5, <1>6, <1>7 DEF GoesOn, Inside
  <1>12. source' \in Source /\ (~stolen' => Holding')  BY <1>3, <1>11, RenewedHolds
  <1>13. Types'  BY <1>3, <1>8, <1>9, <1>12 DEF IInv, Types
  <1>14. Indexed'
    <2>1. \A f \in Executors : exec'[f].stage = "checked" =>
            exec[f].stage = "checked" /\ exec'[f].changed = exec[f].changed
      BY <1>5, <1>6, <1>7, Values DEF SameWork
    <2> QED BY <1>3, <1>9, <2>1, IndexedStays DEF Rereads
  <1>15. ASSUME ~stolen' PROVE Looking'
    <2>1. ASSUME NEW f \in Executors \ {e} PROVE Looked(f)'
      BY <1>3, <1>7, <1>9, <1>15, OthersLook
    <2>2. ASSUME exec[e].location = "present" PROVE Loaded(e)' /\ Observed(e)'
      <3>1. Loaded(e)  BY <1>3, <1>15, <2>2 DEF IInv, Sound, Looking, Looked
      <3>2. Loaded(e)'  BY <1>3, <1>5, <1>6, <3>1 DEF Loaded
      <3>3. Observed(e)'
        BY <1>2, <1>3, <1>5, <1>6, <1>9, <3>1 DEF Loaded, Observed, PathsOf
      <3> QED BY <3>2, <3>3
    <2>3. Looked(e)'  BY <1>5, <1>6, <2>2 DEF Looked
    <2> QED BY <2>1, <2>3 DEF Looking
  <1>16. exec[e].location \in {"present", "former"}
    BY <1>3 DEF IInv, Begun, Inside
  <1>17. \A f \in Executors \ {e} :
           exec'[f] = Idle \/ (GoesOn(f) /\ exec'[f].stage = exec[f].stage)
    BY <1>7
  <1> QED BY <1>3, <1>4, <1>5, <1>6, <1>10, <1>12, <1>13, <1>14, <1>15, <1>16, <1>17,
             WorkInv DEF Inside

\* What is hashed for the comparison is what was seen.
LEMMA HashedIsSeen ==
  ASSUME NEW e \in Executors, exec[e] \in Execution, Loaded(e), Observed(e)
  PROVE  LET kept == exec[e].reusable \union exec[e].refused
         IN (exec[e].seen \ kept)
              \union {p \in kept : docs[p] # "none" /\ entries[p].known} = exec[e].seen
  BY DEF Loaded, Observed, Execution

\* A comparison decides by the documents it finds and what it has seen.
LEMMA CompareInv == ASSUME IInv, NEW e \in Executors, Compare(e) PROVE IInv'
  <1> DEFINE i == exec[e].ing
             kept == exec[e].reusable \union exec[e].refused
             hashed == (exec[e].seen \ kept)
                         \union {p \in kept : docs[p] # "none" /\ entries[p].known}
  <1>1. PICK edited \in SUBSET (hashed \ kept) :
          exec' = [exec EXCEPT ![e].stage = "compared", ![e].reusable = {}, ![e].refused = {},
            ![e].newer = {}, ![e].changed = {p \in hashed : docs[p] = "none"} \union edited,
            ![e].removed = Removed(i, hashed)]
    BY DEF Compare
  <1> DEFINE changed == {p \in hashed : docs[p] = "none"} \union edited
             removed == Removed(i, hashed)
             new == [exec[e] EXCEPT !.stage = "compared", !.reusable = {}, !.refused = {},
                       !.newer = {}, !.changed = changed, !.removed = removed]
  <1>2. /\ exec[e].stage = "collected" /\ exec[e].stage \in Going /\ source' = Renewed(e)
        /\ UNCHANGED <<archived, docs, ing, scheduler, extraction, editing, stolen, crossed, faults>>
        /\ entries' = [p \in Paths |->
             IF p \in PathsOf(i) \ exec[e].newer /\ entries[p].by # i
             THEN [entries[p] EXCEPT !.present = FALSE, !.rejected = FALSE] ELSE entries[p]]
    BY DEF Compare, Going, Inside
  <1>3. /\ exec[e] \in Execution /\ i \in Ingestions /\ ing[i] \in Ingestion
        /\ ing[i].status # "absent" /\ PathsOf(i) \subseteq Paths
        /\ ~stolen => ing[i].status = "running"
    BY <1>2, GoingFacts
  <1>4. kept \subseteq Paths /\ hashed \subseteq Paths  BY <1>3 DEF Execution
  <1>5. changed \subseteq hashed /\ changed \subseteq Paths /\ removed \subseteq Paths
    <2> HIDE DEF hashed
    <2> QED BY <1>3, <1>4 DEF Removed
  <1>6. exec' = [exec EXCEPT ![e] = new]
    BY <1>1, <1>3 DEF IInv, Types, Execution
  <1>7. ASSUME ~stolen, exec[e].location = "present"
        PROVE  /\ changed \subseteq exec[e].seen
               /\ \A p \in PathsOf(i) :
                    IF p \in exec[e].seen THEN p \in changed \/ (docs[p] # "none" /\ p \notin removed)
                    ELSE docs[p] # "none" => p \in removed
    <2>1. Loaded(e) /\ Observed(e)  BY <1>2, <1>7 DEF IInv, Sound, Looking, Looked
    <2>2. hashed = exec[e].seen  BY <1>3, <2>1, HashedIsSeen
    <2> HIDE DEF hashed
    <2> QED BY <1>5, <2>2 DEF Removed
  <1> HIDE DEF changed, removed, hashed, kept
  <1>8. /\ new \in Execution /\ new.stage = "compared" /\ new.ing = i
        /\ new.seen = exec[e].seen /\ new.location = exec[e].location
        /\ new.changed = changed /\ new.removed = removed
    BY <1>3, <1>5 DEF Execution, Inside
  <1> HIDE DEF new
  <1>9. /\ exec' \in [Executors -> Execution] /\ exec'[e] = new
        /\ \A f \in Executors \ {e} : exec'[f] = exec[f]
        /\ \A f \in Executors \ {e} :
             exec'[f] = Idle \/ (SameWork(f) /\ GoesOn(f) /\ exec'[f].stage = exec[f].stage)
    BY <1>6, <1>8, WorkValues
  <1>10. /\ entries' \in [Paths -> Entry]
         /\ \A p \in Paths : entries[p].known => entries'[p].known
    BY <1>2 DEF IInv, Types, Entry
  <1>11. ing' = [ing EXCEPT ![i] = ing[i]]  BY <1>2, <1>3 DEF IInv, Types
  <1>12. source' \in Source /\ (~stolen' => Holding')
    <2>1. \A f \in Executors : exec'[f] = Idle \/
            (exec'[f].ing = exec[f].ing /\ (exec'[f].stage \in Inside => exec[f].stage \in Inside))
      BY <1>2, <1>8, <1>9 DEF Inside
    <2> QED BY <1>2, <2>1, RenewedHolds
  <1>13. Types'  BY <1>2, <1>9, <1>10, <1>12 DEF IInv, Types
  <1>14. Indexed'
    <2>1. \A f \in Executors : exec'[f].stage = "checked" =>
            exec[f].stage = "checked" /\ exec'[f].changed = exec[f].changed
      BY <1>8, <1>9
    <2> QED BY <1>2, <1>10, <2>1, IndexedStays DEF Rereads
  <1>15. ASSUME ~stolen' PROVE Looking'
    <2>1. ASSUME NEW f \in Executors \ {e} PROVE Looked(f)'
      BY <1>2, <1>9, <1>10, <1>15, OthersLook
    <2>2. Looked(e)'
      BY <1>2, <1>7, <1>8, <1>9, <1>15 DEF Looked, Decided, Gone, PathsOf
    <2> QED BY <2>1, <2>2 DEF Looking
  <1>16. exec[e].location \in {"present", "former"}
    BY <1>2 DEF IInv, Begun, Inside
  <1> QED BY <1>2, <1>3, <1>8, <1>9, <1>11, <1>12, <1>13, <1>14, <1>15, <1>16, WorkInv DEF Inside

\* A transaction that is about to commit has found the entries of what it
\* inserts.
LEMMA LoadReplacedInv == ASSUME IInv, NEW e \in Executors, LoadReplaced(e) PROVE IInv'
  <1> DEFINE i == exec[e].ing
             rows == {p \in exec[e].changed \union exec[e].removed : docs[p] # "none"}
             writes == {c \in Columns :
                          IF c = "lease" THEN source.owner = i ELSE source.status # "ready"}
             new == [exec[e] EXCEPT !.stage = "checked", !.removed = {}, !.rows = rows,
                                    !.writes = writes]
  <1>1. exec[e].stage = "compared" /\ exec[e].stage \in Inside /\ exec[e].stage \in Going
    BY DEF LoadReplaced, Going, Inside
  <1>2. CASE EntryMissing(e)  BY <1>1, <1>2, FailInv DEF LoadReplaced
  <1>3. CASE ~EntryMissing(e)
    <2>1. /\ exec[e] \in Execution /\ i \in Ingestions /\ ing[i] \in Ingestion
          /\ ing[i].status # "absent" /\ (~stolen => ing[i].status = "running")
      BY <1>1, GoingFacts
    <2>2. /\ exec' = [exec EXCEPT ![e] = new]
          /\ UNCHANGED <<source, index, ing, scheduler, extraction, editing, stolen, crossed, faults>>
      BY <1>3, <2>1 DEF LoadReplaced, IInv, Types, Execution, Columns
    <2>3. rows \in SUBSET Paths /\ writes \in SUBSET Columns  BY <2>1 DEF Execution
    <2>4. \A p \in Paths : p \in rows <=>
            (p \in exec[e].changed \/ p \in exec[e].removed) /\ docs[p] # "none"
      OBVIOUS
    <2> HIDE DEF rows, writes
    <2>5. /\ new \in Execution /\ new.stage = "checked" /\ new.ing = i
          /\ new.seen = exec[e].seen /\ new.location = exec[e].location
          /\ new.changed = exec[e].changed /\ new.rows = rows
      BY <2>1, <2>3 DEF Execution, Inside
    <2> HIDE DEF new
    <2>6. /\ exec' \in [Executors -> Execution] /\ exec'[e] = new
          /\ \A f \in Executors \ {e} : exec'[f] = exec[f]
          /\ \A f \in Executors \ {e} :
               exec'[f] = Idle \/ (SameWork(f) /\ GoesOn(f) /\ exec'[f].stage = exec[f].stage)
      BY <2>2, <2>5, WorkValues
    <2>7. ing' = [ing EXCEPT ![i] = ing[i]]  BY <2>1, <2>2 DEF IInv, Types
    <2>8. Types'  BY <2>2, <2>6 DEF IInv, Types, index
    <2>9. Indexed'
      <3>1. \A p \in exec[e].changed : entries[p].known  BY <1>3 DEF EntryMissing
      <3> QED BY <2>2, <2>5, <2>6, <3>1 DEF IInv, Indexed, index
    <2>10. ASSUME ~stolen' PROVE Holding' /\ Looking'
      <3>1. Holding'
        BY <1>1, <2>2, <2>5, <2>6, <2>10 DEF IInv, Sound, Holding, Holds
      <3>2. ASSUME NEW f \in Executors \ {e} PROVE Looked(f)'
        BY <2>2, <2>6, <2>10, OthersLook DEF index
      <3>3. Looked(e) /\ PathsOf(i) \subseteq Paths
        BY <1>1, <2>2, <2>10, GoingFacts DEF IInv, Sound, Looking
      <3>4. Looked(e)'
        BY <1>1, <2>2, <2>4, <2>5, <2>6, <3>3 DEF Looked, Decided, Gone, PathsOf, index
      <3> QED BY <3>1, <3>2, <3>4 DEF Looking
    <2>11. exec[e].location \in {"present", "former"}  BY <1>1 DEF IInv, Begun
    <2> QED BY <1>1, <2>1, <2>2, <2>5, <2>6, <2>7, <2>8, <2>9, <2>10, <2>11, WorkInv DEF Inside
  <1> QED BY <1>2, <1>3

\* A commit replaces documents that have their entries; who is inside with it
\* has been robbed.
LEMMA ReplaceInv ==
  ASSUME IInv, NEW e \in Executors, exec[e].stage = "checked", Replace(e)
  PROVE  IInv'
  <1> DEFINE i == exec[e].ing
             row == [ing[i] EXCEPT !.status = "completed"]
             done == [Idle EXCEPT !.ing = i, !.stage = "executed", !.held = exec[e].held]
  <1>1. /\ exec[e].stage \in Inside /\ exec[e].stage \in Going
        /\ UNCHANGED <<entries, scheduler, extraction, faults>>
    BY DEF Replace, Going, Inside
  <1>2. /\ exec[e] \in Execution /\ i \in Ingestions /\ ing[i] \in Ingestion
        /\ exec[e].location \in {"present", "former"}
    BY <1>1, GoingFacts DEF IInv, Begun
  <1>3. /\ row \in Ingestion /\ row.trigger = ing[i].trigger /\ row.item = ing[i].item
        /\ row.status = "completed"
    BY <1>2 DEF Ingestion
  <1>4. ing' = [ing EXCEPT ![i] = row]  BY <1>2 DEF Replace, IInv, Types, Ingestion
  <1>5. done \in Execution /\ done.ing = i /\ done.stage = "executed"
    BY <1>1, ReturnValues
  <1>6. exec' = [f \in Executors |-> IF f = e THEN done
                                     ELSE [exec[f] EXCEPT !.rows = @ \ exec[e].rows]]
    BY DEF Replace
  <1> HIDE DEF row, done
  <1>7. ASSUME NEW f \in Executors \ {e}
        PROVE  /\ exec'[f] \in Execution /\ exec'[f].stage = exec[f].stage
               /\ exec'[f].changed = exec[f].changed
               /\ exec'[f] = Idle \/ GoesOn(f)
    <2> DEFINE rows == exec[f].rows \ exec[e].rows
    <2>1. exec[f] \in Execution  BY Fields
    <2>2. exec'[f] = [exec[f] EXCEPT !.rows = rows]  BY <1>6, <2>1 DEF Execution
    <2>3. rows \in SUBSET Paths  BY <2>1 DEF Execution
    <2>4. CASE exec[f].stage = "idle"
      <3>1. exec[f] = Idle /\ rows = {}  BY <2>4, IdleStays, Values
      <3>2. exec'[f] = Idle  BY <2>2, <3>1 DEF Idle
      <3> QED BY <2>1, <3>1, <3>2
    <2> HIDE DEF rows
    <2>5. exec'[f] \in Execution  BY <2>1, <2>2, <2>3, ExecutionValues
    <2>6. /\ exec'[f].stage = exec[f].stage /\ exec'[f].changed = exec[f].changed
          /\ exec'[f].ing = exec[f].ing /\ exec'[f].location = exec[f].location
      BY <2>1, <2>2 DEF Execution
    <2>7. CASE exec[f].stage # "idle"
      <3>1. GoesOn(f)  BY <2>6, <2>7 DEF GoesOn, IInv, Begun
      <3> QED BY <2>5, <2>6, <3>1
    <2> QED BY <2>4, <2>7
  <1>8. exec'[e] = done /\ exec' \in [Executors -> Execution]
    <2>1. exec'[e] = done  BY <1>6
    <2>2. \A f \in Executors : exec'[f] \in Execution  BY <1>5, <1>7, <2>1
    <2> QED BY <1>6, <2>1, <2>2
  <1>9. docs' = [p \in Paths |-> IF p \in exec[e].changed THEN exec[e].location
                                 ELSE IF p \in exec[e].rows THEN "none" ELSE docs[p]]
        /\ archived' \in BOOLEAN /\ crossed' = (crossed \/ editing.edit = "relocate")
        /\ stolen' = (stolen \/ ("lease" \in exec[e].writes /\ Holders \ {e} # {}))
    BY DEF Replace, IInv, Types
  <1>10. editing' \in Editing /\ editing'.edit = editing.edit
    <2>1. editing' = [editing EXCEPT !.docs = @ \ exec[e].rows]  BY DEF Replace
    <2> QED BY <2>1, Fields DEF Editing
  <1>11. source' \in Source
    <2>1. exec[e].writes \in SUBSET Columns  BY <1>2 DEF Execution
    <2> QED BY <2>1, Fields, WrittenValues DEF Replace
  <1>12. Types'
    <2>1. docs' \in [Paths -> {"none", "present", "former"}]
      BY <1>2, <1>9 DEF IInv, Types
    <2>2. stolen' \in BOOLEAN /\ crossed' \in BOOLEAN  BY <1>9 DEF IInv, Types
    <2>3. ing' \in [Ingestions -> Ingestion]  BY <1>3, <1>4 DEF IInv, Types
    <2> QED BY <1>1, <1>8, <1>9, <1>10, <1>11, <2>1, <2>2, <2>3 DEF IInv, Types
  <1>13. Indexed'
    <2> SUFFICES ASSUME ~crossed'
                 PROVE  /\ \A p \in Paths : docs'[p] # "none" => entries'[p].known
                        /\ \A f \in Executors : exec'[f].stage = "checked" =>
                             \A p \in exec'[f].changed : entries'[p].known
                        /\ editing'.edit # "relocate"
      BY DEF Indexed
    <2>1. ~crossed /\ editing.edit # "relocate"  BY <1>9
    <2>2. /\ \A p \in Paths : docs[p] # "none" => entries[p].known
          /\ \A f \in Executors : exec[f].stage = "checked" =>
               \A p \in exec[f].changed : entries[p].known
      BY <2>1 DEF IInv, Indexed
    <2>3. \A p \in Paths : docs'[p] # "none" => entries'[p].known
      BY <1>1, <1>9, <2>2
    <2>4. \A f \in Executors : exec'[f].stage = "checked" =>
            \A p \in exec'[f].changed : entries'[p].known
      BY <1>1, <1>5, <1>7, <1>8, <2>2
    <2> QED BY <1>10, <2>1, <2>3, <2>4
  <1>14. ASSUME ~stolen' PROVE ~stolen /\ Holding' /\ Looking'
    <2>1. ~stolen  BY <1>9, <1>14
    <2>2. \A f \in Executors : exec'[f].stage \notin Inside
      BY <1>1, <1>5, <1>7, <1>8, <2>1, AloneInside, Values
    <2> QED BY <2>1, <2>2, OutsideLooksNext DEF Holding, Looking
  <1>15. exec'[e].stage \notin Inside  BY <1>5, <1>8, Values
  <1> QED BY <1>1, <1>3, <1>4, <1>5, <1>7, <1>8, <1>12, <1>13, <1>14, <1>15, WorkInv

LEMMA CommitInv == ASSUME IInv, NEW e \in Executors, CommitIngestion(e) PROVE IInv'
  BY ReplaceInv, FailInv DEF CommitIngestion, Inside

\* A failing connector, conversion, model server or database.
LEMMA RaiseInv == ASSUME IInv, NEW e \in Executors, Raise(e) PROVE IInv'
  BY FailInv DEF Raise

-----------------------------------------------------------------------------
(* Administrators.                                                          *)

\* An edit that reads the source reads every document it will move.
LEMMA ReadSourceInv == ASSUME IInv, ReadSource PROVE IInv'
  <1>1. /\ UNCHANGED <<source, index, ing, exec, scheduler, extraction, stolen, crossed>>
        /\ faults' = faults \/ Counted
    BY DEF ReadSource
  <1>2. editing' \in Editing /\ Rereads
    <2> DEFINE moves(edit, S) == IF edit = "relocate" THEN S ELSE {}
    <2>1. PICK edit \in Edits :
            editing' = [edit |-> edit,
              writes |-> {c \in {"lease", "status"} :
                IF c = "lease" THEN (~Enabled(edit) \/ ~source.scheduled) /\ source.owner # "none"
                ELSE StatusAfter(edit) # source.status},
              docs |-> moves(edit, {p \in Paths : docs[p] # "none"}),
              entries |-> moves(edit, {p \in Paths : entries[p].known})]
      BY DEF ReadSource
    <2>2. editing'.docs = moves(edit, {p \in Paths : docs[p] # "none"}) /\ editing'.edit = edit
      BY <2>1
    <2>3. editing' \in Editing  BY <2>1 DEF Editing, Columns
    <2>4. CASE edit = "relocate"  BY <2>2, <2>3, <2>4 DEF Rereads
    <2>5. CASE edit # "relocate"  BY <2>2, <2>3, <2>5 DEF Rereads
    <2> QED BY <2>4, <2>5
  <1>3. ASSUME ~stolen', NEW e \in Executors, exec[e].stage \in Inside
        PROVE  source'.owner = source.owner /\ ~source'.lapsed
    BY <1>1, <1>3, InsideOwner
  <1> QED BY <1>1, <1>2, <1>3, FaultValues, LeaseStepInv DEF IInv, Types

\* The commit of an edit, as the source has it.
LEMMA EditedSource ==
  ASSUME IInv, UpdateSource
  PROVE  /\ source' \in Source
         /\ "lease" \notin editing.writes =>
              source'.owner = source.owner /\ source'.lapsed = source.lapsed
  <1> DEFINE status == IF editing.edit = "disable" THEN "disabled" ELSE "draft"
             new == Written(source, editing.writes, status)
  <1>1. source' = [new EXCEPT !.enabled = Enabled(editing.edit)]  BY DEF UpdateSource
  <1>2. editing.writes \in SUBSET Columns /\ source \in Source  BY Fields DEF Editing
  <1>3. status \in {"draft", "indexing", "ready", "failed", "disabled"}  OBVIOUS
  <1>4. Enabled(editing.edit) \in BOOLEAN  BY <1>2 DEF Enabled, Source
  <1> HIDE DEF status
  <1>5. /\ new \in Source
        /\ "lease" \notin editing.writes =>
             new.owner = source.owner /\ new.lapsed = source.lapsed
    BY <1>2, <1>3, WrittenValues
  <1> HIDE DEF new
  <1> QED BY <1>1, <1>4, <1>5 DEF Source

\* An edit leaves a lease alone unless it says so; a relocation is known to
\* every execution, and moves every document.
LEMMA UpdateSourceInv == ASSUME IInv, UpdateSource PROVE IInv'
  <1>1. /\ UNCHANGED <<ing, scheduler, extraction, faults>> /\ editing' = NoEdit
        /\ stolen' = (stolen \/ ("lease" \in editing.writes /\ Holders # {}))
        /\ IF editing.edit = "relocate" THEN Relocate ELSE UNCHANGED <<index, exec, crossed>>
    BY DEF UpdateSource
  <1>2. /\ editing' \in Editing /\ editing'.edit = "none" /\ stolen' \in BOOLEAN
        /\ source' \in Source
    BY <1>1, Values, EditedSource DEF IInv, Types
  <1>3. ASSUME ~stolen', NEW e \in Executors, exec[e].stage \in Inside
        PROVE  source'.owner = source.owner /\ ~source'.lapsed
    <2>1. ~stolen  BY <1>1, <1>3
    <2>2. e \in Holders /\ ~source.lapsed  BY <1>3, <2>1, InsideOwner
    <2>3. "lease" \notin editing.writes  BY <1>1, <1>3, <2>2
    <2> QED BY <2>2, <2>3, EditedSource
  <1>4. CASE editing.edit # "relocate"
    <2>1. UNCHANGED <<ing, exec, index, crossed, scheduler, extraction, faults>> /\ Rereads
      BY <1>1, <1>2, <1>4 DEF Rereads
    <2>2. ~stolen' => ~stolen  BY <1>1
    <2> QED BY <1>2, <1>3, <2>1, <2>2, LeaseStepInv DEF IInv, Types
  <1>5. CASE editing.edit = "relocate"
    <2>1. Relocate  BY <1>1, <1>5
    <2>2. ASSUME NEW e \in Executors
          PROVE  /\ exec'[e] \in Execution
                 /\ exec[e].stage = "idle" => exec'[e] = Idle
                 /\ exec'[e].ing = exec[e].ing /\ exec'[e].stage = exec[e].stage
                 /\ exec'[e].location # "present"
                 /\ exec[e].location = "present" => exec'[e].location = "former"
                 /\ exec[e].location # "present" => exec'[e].location = exec[e].location
      <3> DEFINE rows == exec[e].rows \ editing.docs
      <3>1. exec[e] \in Execution  BY Fields
      <3>2. exec'[e] = IF exec[e].location = "present"
                       THEN [exec[e] EXCEPT !.location = "former", !.rows = rows]
                       ELSE [exec[e] EXCEPT !.rows = rows]
        BY <2>1, <3>1 DEF Relocate, Execution
      <3>3. rows \in SUBSET Paths  BY <3>1 DEF Execution
      <3>4. ASSUME exec[e].stage = "idle" PROVE exec'[e] = Idle
        <4>1. exec[e] = Idle /\ rows = {}  BY <3>4, IdleStays, Values
        <4> QED BY <3>2, <4>1 DEF Idle
      <3> HIDE DEF rows
      <3>5. exec'[e] \in Execution  BY <3>1, <3>2, <3>3, ExecutionValues
      <3> QED BY <3>1, <3>2, <3>4, <3>5 DEF Execution
    <2>3. exec' \in [Executors -> Execution]  BY <2>1, <2>2 DEF Relocate
    <2>4. Types'
      <3>1. archived' \in BOOLEAN /\ crossed' \in BOOLEAN
        BY <2>1 DEF Relocate, IInv, Types
      <3>2. docs' \in [Paths -> {"none", "present", "former"}]
        BY <2>1 DEF Relocate, IInv, Types
      <3>3. entries' \in [Paths -> Entry]  BY <2>1, Values, Fields DEF Relocate
      <3> QED BY <1>1, <1>2, <2>3, <3>1, <3>2, <3>3 DEF IInv, Types
    <2>5. Begun'
      <3>1. \A e \in Executors : exec'[e] = Idle \/ GoesOn(e)
        BY <2>2 DEF GoesOn, IInv, Begun
      <3>2. \A i \in Ingestions : ing'[i].status = "absent" =>
              ing[i].status = "absent" /\ ing'[i].item = "none"
        BY <1>1 DEF IInv, Begun
      <3> QED BY <3>1, <3>2, BegunStays
    <2>6. OneActiveOfAKind'  BY <1>1 DEF IInv, OneActiveOfAKind, Active
    <2>7. Indexed'
      <3> SUFFICES ASSUME ~crossed'
                   PROVE  /\ \A p \in Paths : docs'[p] = "none"
                          /\ \A e \in Executors : exec'[e].stage # "checked"
        BY <1>2 DEF Indexed
      <3>1. ~crossed /\ \A e \in Executors : exec[e].stage # "checked"
        BY <2>1 DEF Relocate
      <3>2. \A p \in Paths : docs[p] # "none" => p \in editing.docs
        BY <1>5, <3>1 DEF IInv, Indexed
      <3>3. docs' = [p \in Paths |-> IF p \in editing.docs THEN "none"
                       ELSE IF docs[p] = "present" THEN "former" ELSE docs[p]]
        BY <2>1 DEF Relocate
      <3> QED BY <2>2, <3>1, <3>2, <3>3
    <2>8. ASSUME ~stolen' PROVE Sound'
      <3>1. ~stolen /\ Sound  BY <1>1, <2>8 DEF IInv
      <3>2. Agree'  BY <1>1, <3>1 DEF Sound, Agree, Agrees
      <3>3. Executing'
        <4>1. ASSUME NEW e \in Executors, exec'[e] # Idle
              PROVE  /\ exec[e].stage # "idle" /\ exec'[e].stage # "idle"
                     /\ exec'[e].ing = exec[e].ing
                     /\ e \notin Workers => extraction.stage = "repairing"
                     /\ exec'[e].stage \in Going => ing[exec[e].ing].status = "running"
                     /\ exec'[e].stage = "executed" =>
                          ing[exec[e].ing].status \in {"completed", "failed", "cancelled"}
          BY <2>2, <3>1, <4>1 DEF Sound, Executing, Executes, Ended
        <4>2. UNCHANGED <<ing, extraction>>  BY <1>1
        <4> QED BY <3>1, <4>1, <4>2, ExecutingStays
      <3>4. Holding'
        BY <1>1, <1>3, <2>2, <2>8, <3>1 DEF Sound, Holding, Holds
      <3>5. Looking'  BY <2>2 DEF Looking, Looked
      <3> QED BY <3>2, <3>3, <3>4, <3>5 DEF Sound
    <2> QED BY <2>4, <2>5, <2>6, <2>7, <2>8 DEF IInv
  <1> QED BY <1>4, <1>5

-----------------------------------------------------------------------------
(* The results.                                                             *)

\* The invariant holds in every behaviour.
THEOREM IngestionInvariant == Spec => []IInv
  <1>1. Init => IInv
    <2> SUFFICES ASSUME Init PROVE IInv  OBVIOUS
    <2>1. Types
      <3>1. source \in Source  BY SourceAssumption DEF Init, Source, Owners
      <3>2. faults \in 0..MaxFaults  BY SourceAssumption DEF Init
      <3>3. extraction \in Extraction  BY DEF Init, Extraction
      <3> QED BY <3>1, <3>2, <3>3, Values DEF Init, Types
    <2>2. \A e \in Executors : exec[e] = Idle  BY DEF Init
    <2>3. \A i \in Ingestions : ing[i] = Unused  BY DEF Init
    <2>4. Begun  BY <2>2, <2>3, Values DEF Begun
    <2>5. OneActiveOfAKind  BY <2>3, Values DEF OneActiveOfAKind, Active
    <2>6. Indexed
      <3>1. \A p \in Paths : docs[p] = "none"  BY DEF Init
      <3>2. editing.edit = "none" /\ \A e \in Executors : exec[e].stage # "checked"
        BY <2>2, Values DEF Init
      <3> QED BY <3>1, <3>2 DEF Indexed
    <2>7. Sound
      <3>1. Agree  BY <2>3, Values DEF Agree, Agrees
      <3>2. Executing  BY <2>2, Values DEF Executing, Executes, Going, Inside
      <3>3. Holding /\ Looking  BY <2>2, Values, OutsideLooks DEF Holding, Looking
      <3> QED BY <3>1, <3>2, <3>3 DEF Sound
    <2> QED BY <2>1, <2>4, <2>5, <2>6, <2>7 DEF IInv
  <1>2. IInv /\ [Next]_vars => IInv'
    <2> SUFFICES ASSUME IInv, [Next]_vars PROVE IInv'  OBVIOUS
    <2>1. ASSUME NEW e \in Executors, Ingest(e) PROVE IInv'
      BY <2>1, ObtainSourceInv, GiveUpInv, CollectInv, CompareInv, LoadReplacedInv,
         CommitInv, RaiseInv DEF Ingest
    <2>2. ASSUME NEW w \in Workers, WorkerStep(w) PROVE IInv'
      <3>1. w \in Executors  BY DEF Executors
      <3> QED BY <2>1, <2>2, <3>1, ClaimItemInv, HeartbeatRaisesInv, LeaveItemInv DEF WorkerStep
    <2>3. CASE Schedule  BY <2>3, SchedulerInv, CreateInv DEF Schedule
    <2>4. CASE Extract
      <3>1. Extractor \in Executors  BY DEF Executors
      <3> QED BY <2>1, <2>4, <3>1, AcquireSourceInv, PrepareVersionsInv, RepairEndsInv,
                ObserveRepairInv DEF Extract
    <2>5. CASE Edit  BY <2>5, ReadSourceInv, UpdateSourceInv DEF Edit
    <2>6. CASE UNCHANGED vars
      <3>1. Rereads  BY <2>6 DEF vars, Rereads
      <3> QED BY <2>6, <3>1, LeaseStepInv, InsideOwner DEF vars, index, IInv, Types
    <2> QED BY <2>2, <2>3, <2>4, <2>5, <2>6, CreateInv, RecoverItemInv, RequestCancelInv,
              LeaseLapsesInv, RestartInv DEF Next
  <1> QED BY <1>1, <1>2, PTL DEF Spec

\* The variables keep their values; as long as no execution lost its lease or
\* its item, active ingestions have theirs.
THEOREM IngestionTypeOK == Spec => []TypeOK
  <1>1. IInv => TypeOK
    <2> SUFFICES ASSUME IInv PROVE TypeOK  OBVIOUS
    <2>1. \A i \in Ingestions : ing[i] \in Ingestion /\ (~stolen => Agrees(i))
      BY Fields DEF IInv, Sound, Agree
    <2>2. \A e \in Executors : exec[e] \in Execution  BY Fields
    <2> QED BY <2>1, <2>2
          DEF IInv, Types, TypeOK, Source, Owners, Entry, Ingestion, Execution, Agrees
  <1> QED BY <1>1, IngestionInvariant, PTL

\* A source has one full ingestion and one scope repair at a time, whatever
\* leases and items are lost.
THEOREM IngestionOneOfAKind == Spec => []OneActiveOfAKind
  <1>1. IInv => OneActiveOfAKind  BY DEF IInv
  <1> QED BY <1>1, IngestionInvariant, PTL

\* As long as no execution lost its lease or its item, one at a time is inside
\* the source, of loops and extractions alike.
THEOREM IngestionExclusive == Spec => []Exclusive
  <1>1. IInv => Exclusive
    <2> SUFFICES ASSUME IInv, ~stolen
                 PROVE  /\ \A e, f \in Executors :
                             exec[e].stage \in Inside /\ exec[f].stage \in Inside => e = f
                        /\ source.owner = "extraction" /\ ~source.lapsed =>
                             \A e \in Executors : exec[e].stage \in Inside =>
                               ing[exec[e].ing].trigger = "scope_repair"
      BY DEF Exclusive
    <2> QED BY AloneInside, InsideOwner, Values
  <1> QED BY <1>1, IngestionInvariant, PTL

\* Every current document has its entry in the inventory, as long as no
\* relocation and commit have overlapped.
THEOREM IngestionIndexedIsObserved == Spec => []IndexedIsObserved
  <1>1. IInv => IndexedIsObserved  BY DEF IInv, Indexed, IndexedIsObserved
  <1> QED BY <1>1, IngestionInvariant, PTL

\* What is committed is what was collected, path by path, as long as no
\* execution lost its lease or its item and the source was not relocated.
THEOREM IngestionCommitShowsCollection == Spec => CommitShowsCollection
  <1>1. IInv /\ [Next]_vars =>
          [\A e \in Executors :
             CommitIngestion(e) /\ ing'[exec[e].ing].status = "completed"
               /\ ~stolen /\ exec[e].location = "present" =>
                 \A p \in PathsOf(exec[e].ing) : docs'[p] # "none" <=> p \in exec[e].seen]_vars
    <2> SUFFICES ASSUME IInv, NEW e \in Executors, CommitIngestion(e), ~stolen,
                        ing'[exec[e].ing].status = "completed",
                        exec[e].location = "present", NEW p \in PathsOf(exec[e].ing)
                 PROVE  docs'[p] # "none" <=> p \in exec[e].seen
      OBVIOUS
    <2>1. exec[e].stage = "checked" /\ exec[e].stage \in Inside
      BY DEF CommitIngestion, Inside
    <2>2. /\ exec[e].ing \in Ingestions /\ ing[exec[e].ing] \in Ingestion
          /\ PathsOf(exec[e].ing) \subseteq Paths
      BY <2>1, GoingFacts DEF Going
    <2>3. Decided(e)
      BY <2>1 DEF IInv, Sound, Looking, Looked
    <2>4. ~Fail(e)
      <3> SUFFICES ASSUME Fail(e) PROVE FALSE  OBVIOUS
      <3>1. ing'[exec[e].ing].status = "failed"
        BY <2>2 DEF Fail, IInv, Types, Ingestion
      <3> QED BY <3>1
    <2>5. docs'[p] = IF p \in exec[e].changed THEN "present"
                     ELSE IF p \in exec[e].rows THEN "none" ELSE docs[p]
      BY <2>2, <2>4 DEF CommitIngestion, Replace
    <2> QED BY <2>1, <2>3, <2>5 DEF Decided, Gone
  <1> QED BY <1>1, IngestionInvariant, PTL DEF Spec, CommitShowsCollection
=============================================================================
