--------------------------- MODULE ServicesProofs ---------------------------
(***************************************************************************)
(* Proofs about the smaller services, for any value of their constants.  A    *)
(* step of the services is a step of one of them, or it changes nothing of    *)
(* that one, so each invariant is proved for its own service.                 *)
(***************************************************************************)
EXTENDS MCServices, FiniteSetTheorems, SequenceTheorems, WellFoundedInduction, TLAPS

\* What the services assume of their bounds.
LEMMA BoundsAreNat ==
  /\ MaxFaults \in Nat
  /\ MaxVersion \in Nat \ {0}
  BY ServicesAssumption

\* What they assume of confidences.
LEMMA ConfidencesAreNat == Confidences \subseteq Nat /\ Minimum \in Nat
  BY ServicesAssumption

\* What a step of the services is to each of them.
LEMMA ScopeSteps == [ServicesNext]_ServicesVars => [Next]_scopeVars
  BY DEF ServicesNext, ServicesVars, scopeVars

\* The same of the backfills.
LEMMA ProvenanceSteps == [ServicesNext]_ServicesVars => [Provenance!Next]_provenanceVars
  BY DEF ServicesNext, ServicesVars, provenanceVars

\* The same of the artifacts.
LEMMA ArtifactSteps == [ServicesNext]_ServicesVars => [Artifacts!Next]_artifactVars
  BY DEF ServicesNext, ServicesVars, artifactVars

\* The same of the notifier.
LEMMA NotifierSteps == [ServicesNext]_ServicesVars => [Notifier!Next]_notifierVars
  BY DEF ServicesNext, ServicesVars, notifierVars

-----------------------------------------------------------------------------
(* The scopes of a customer (AnalysisScope).                                *)

Rows == [root : Roots, open : BOOLEAN]
Repairs == [scope : Nat, active : BOOLEAN]
Requested == [scope : Nat, key : {KeyOf[p] : p \in Posts}, repair : Nat]

ResolutionStates ==
  [stage : {"waiting", "failed"}] \union [stage : {"read"}, root : Roots, seen : Nat]
    \union [stage : {"resolved"}, scope : Nat]

PostStates ==
  [stage : {"waiting", "refused"}] \union [stage : {"checked"}, scope : Nat]
    \union [stage : {"created"}, scope : Nat, repair : Nat]
    \union [stage : {"answered"}, repair : Nat]

\* The shapes of the variables, which TypeOK leaves open.
ScopeShapes ==
  /\ layout \in SUBSET Roots
  /\ scopes \in Seq(Rows)
  /\ resolution \in [Extractions -> ResolutionStates]
  /\ repairs \in Seq(Repairs)
  /\ posts \in [Posts -> PostStates]
  /\ requested \in SUBSET Requested

\* An extraction read a scope that existed, so a revision after it that is not
\* taken is the next one.
SeenExists ==
  \A e \in Extractions : resolution[e].stage = "read" => resolution[e].seen <= Len(scopes)

RepairsHaveScopes == \A i \in 1..Len(repairs) : repairs[i].scope \in 1..Len(scopes)

RequestsNameRepairs ==
  \A q \in requested : /\ q.repair \in 1..Len(repairs)
                       /\ repairs[q.repair].scope = q.scope

KeysAreUnique == \A q, r \in requested : q.scope = r.scope /\ q.key = r.key => q = r

PostsNameRepairs ==
  \A p \in Posts :
    /\ posts[p].stage = "checked" => posts[p].scope \in 1..Len(scopes)
    /\ posts[p].stage = "created" => /\ posts[p].repair \in 1..Len(repairs)
                                     /\ repairs[posts[p].repair].scope = posts[p].scope

\* What was answered is on record under the key.
AnswersAreRecorded ==
  \A p \in Posts : posts[p].stage = "answered" =>
    \E q \in requested : q.key = KeyOf[p] /\ q.repair = posts[p].repair

ScopeIInv ==
  /\ ScopeShapes /\ LatestIsActive /\ SeenExists
  /\ RepairsHaveScopes /\ RequestsNameRepairs /\ KeysAreUnique
  /\ PostsNameRepairs /\ AnswersAreRecorded

\* The current scope is the latest one, so its revision is the number of rows.
LEMMA NewestIsLatest ==
  ASSUME ScopeShapes, LatestIsActive
  PROVE  Newest = Len(scopes)
  <1>1. CASE scopes = <<>>  BY <1>1 DEF Newest, Current
  <1>2. CASE scopes # <<>>
    <2>1. Current = {Len(scopes)}  BY <1>2 DEF LatestIsActive
    <2>2. Len(scopes) \in Nat  BY DEF ScopeShapes
    <2> QED BY <2>1, <2>2 DEF Newest
  <1> QED BY <1>1, <1>2

\* The invariant holds initially.
LEMMA ScopeInitInv == ScopeAssumption /\ Init => ScopeIInv
  BY DEF Init, Waiting, ScopeIInv, ScopeShapes, ResolutionStates, PostStates, LatestIsActive,
         SeenExists, RepairsHaveScopes, RequestsNameRepairs, KeysAreUnique,
         PostsNameRepairs, AnswersAreRecorded

\* Observing other roots touches nothing the invariant is about.
LEMMA ObserveInv == ScopeIInv /\ Observe => ScopeIInv'
  BY DEF Observe, ScopeIInv, ScopeShapes, LatestIsActive, Current, SeenExists,
       RepairsHaveScopes,
         RequestsNameRepairs, KeysAreUnique, PostsNameRepairs, AnswersAreRecorded

\* Reading the roots and the latest version into a session keeps the invariant.
LEMMA ReadRootsInv ==
  ASSUME ScopeIInv, NEW e \in Extractions, ReadRoots(e)
  PROVE  ScopeIInv'
  <1>1. resolution' \in [Extractions -> ResolutionStates] /\ SeenExists'
    <2>1. Newest = Len(scopes) /\ Len(scopes) \in Nat
      BY NewestIsLatest DEF ScopeIInv, ScopeShapes
    <2>2. CASE Cardinality(layout) # 1
      BY <2>2 DEF ReadRoots, ScopeIInv, ScopeShapes, SeenExists, ResolutionStates
    <2>3. CASE Cardinality(layout) = 1
      <3>1. layout # {}
        BY <2>3, FS_EmptySet
      <3>2. (CHOOSE r \in layout : TRUE) \in Roots
        BY <3>1 DEF ScopeIInv, ScopeShapes
      <3> QED BY <2>1, <2>3, <3>2 DEF ReadRoots, ScopeIInv, ScopeShapes, SeenExists,
                   ResolutionStates
    <2> QED BY <2>2, <2>3
  <1> QED
    BY <1>1 DEF ReadRoots, ScopeIInv, ScopeShapes, LatestIsActive, Current, RepairsHaveScopes,
         RequestsNameRepairs, KeysAreUnique, PostsNameRepairs, AnswersAreRecorded

\* What CommitScope inserts: the rows with the seen scope closed, and the new one.
LEMMA NextRevision ==
  ASSUME ScopeIInv, NEW r \in Roots, NEW n \in Nat, n = Len(scopes),
         scopes' = Append(Closed(n), [root |-> r, open |-> TRUE])
  PROVE  /\ scopes' \in Seq(Rows) /\ Len(scopes') = n + 1
         /\ Current' = {n + 1}
  <1>1. Closed(n) \in Seq(Rows) /\ Len(Closed(n)) = n
    <2>1. DOMAIN scopes = 1..n  BY LenProperties DEF ScopeIInv, ScopeShapes
    <2>2. \A i \in 1..n : Closed(n)[i] \in Rows
      <3> SUFFICES ASSUME NEW i \in 1..n PROVE Closed(n)[i] \in Rows  OBVIOUS
      <3>1. scopes[i] \in Rows  BY ElementOfSeq DEF ScopeIInv, ScopeShapes
      <3>2. [scopes[i] EXCEPT !.open = FALSE] \in Rows  BY <3>1 DEF Rows
      <3> QED BY <2>1, <3>1, <3>2 DEF Closed
    <2>3. Closed(n) \in [1..n -> Rows]  BY <2>1, <2>2 DEF Closed
    <2> QED BY <2>3
  <1>2. scopes' \in Seq(Rows) /\ Len(scopes') = n + 1
        /\ \A i \in 1..n : scopes'[i] = Closed(n)[i]
        /\ scopes'[n + 1] = [root |-> r, open |-> TRUE]
    BY <1>1, AppendProperties DEF Rows
  <1>3. \A i \in 1..n : scopes'[i].open = FALSE
    <2> SUFFICES ASSUME NEW i \in 1..n PROVE scopes'[i].open = FALSE  OBVIOUS
    <2>1. DOMAIN scopes = 1..n /\ scopes # <<>>  BY LenProperties DEF ScopeIInv, ScopeShapes
    <2>2. scopes[i] \in Rows  BY ElementOfSeq DEF ScopeIInv, ScopeShapes
    <2>3. CASE i = n  BY <1>2, <2>1, <2>2, <2>3 DEF Closed, Rows
    <2>4. CASE i # n
      <3>1. Closed(n)[i] = scopes[i]  BY <2>1, <2>4 DEF Closed
      <3>2. i \notin Current  BY <2>1, <2>4 DEF ScopeIInv, LatestIsActive
      <3>3. ~scopes[i].open  BY <2>1, <3>2 DEF Current
      <3>4. scopes[i].open = FALSE  BY <2>2, <3>3 DEF Rows
      <3> QED BY <1>2, <3>1, <3>4
    <2> QED BY <2>3, <2>4
  <1>4. DOMAIN scopes' = 1..(n + 1)  BY <1>2, LenProperties
  <1>5. Current' = {n + 1}
    BY <1>2, <1>3, <1>4 DEF Current
  <1> QED BY <1>2, <1>5

\* A scope is committed: the resolution ends without it, or with the next one.
LEMMA CommitScopeInv ==
  ASSUME ScopeIInv, NEW e \in Extractions, CommitScope(e)
  PROVE  ScopeIInv'
  <1> DEFINE r == resolution[e]
  <1>1. r.stage = "read" /\ r.seen \in Nat /\ r.root \in Roots /\ r.seen <= Len(scopes)
        /\ Len(scopes) \in Nat /\ DOMAIN scopes = 1..Len(scopes)
    BY LenProperties DEF CommitScope, ScopeIInv, ScopeShapes, ResolutionStates, SeenExists
  <1>2. resolution' \in [Extractions -> ResolutionStates]
        /\ \A x \in Extractions : resolution'[x].stage = "read" =>
             resolution'[x] = resolution[x]
    <2>1. PICK v \in ResolutionStates :
            v.stage # "read" /\ resolution' = [resolution EXCEPT ![e] = v]
      <3>1. [stage |-> "failed"] \in ResolutionStates
            /\ \A s \in Nat : [stage |-> "resolved", scope |-> s] \in ResolutionStates
        BY DEF ResolutionStates
      <3>2. r.seen + 1 \in Nat  BY <1>1
      <3> QED BY <1>1, <3>1, <3>2 DEF CommitScope
    <2> QED BY <2>1 DEF ScopeIInv, ScopeShapes
  <1>3. CASE UNCHANGED scopes
    BY <1>2, <1>3 DEF CommitScope, ScopeIInv, ScopeShapes, SeenExists, LatestIsActive, Current,
         RepairsHaveScopes, RequestsNameRepairs, KeysAreUnique, PostsNameRepairs,
         AnswersAreRecorded
  <1>4. CASE scopes' = Append(Closed(r.seen), [root |-> r.root, open |-> TRUE])
             /\ ~Taken(r.seen + 1)
    <2>1. r.seen = Len(scopes)  BY <1>1, <1>4 DEF Taken
    <2>2. /\ scopes' \in Seq(Rows) /\ Len(scopes') = Len(scopes) + 1
          /\ Current' = {Len(scopes) + 1}
      BY <1>1, <1>4, <2>1, NextRevision
    <2>3. ScopeShapes'  BY <1>2, <2>2 DEF CommitScope, ScopeIInv, ScopeShapes
    <2>4. LatestIsActive'  BY <2>2 DEF LatestIsActive
    <2>5. SeenExists'
      <3> SUFFICES ASSUME NEW x \in Extractions, resolution'[x].stage = "read"
                   PROVE  resolution'[x].seen <= Len(scopes')
          BY DEF SeenExists
      <3>1. resolution[x].stage = "read" /\ resolution'[x].seen = resolution[x].seen
        BY <1>2
      <3>2. resolution[x].seen \in Nat
        BY <3>1 DEF ScopeIInv, ScopeShapes, ResolutionStates
      <3> QED BY <1>1, <2>2, <3>1, <3>2 DEF ScopeIInv, SeenExists
    <2>6. 1..Len(scopes) \subseteq 1..Len(scopes')  BY <1>1, <2>2
    <2>7. RepairsHaveScopes' /\ PostsNameRepairs'
      BY <2>6 DEF CommitScope, ScopeIInv, RepairsHaveScopes, PostsNameRepairs
    <2>8. RequestsNameRepairs' /\ KeysAreUnique' /\ AnswersAreRecorded'
      BY DEF CommitScope, ScopeIInv, RequestsNameRepairs, KeysAreUnique, AnswersAreRecorded
    <2> QED BY <2>3, <2>4, <2>5, <2>7, <2>8 DEF ScopeIInv
  <1> QED BY <1>3, <1>4 DEF CommitScope

\* What a step of a request may leave behind.
Leaves(p, v) ==
  /\ v.stage = "checked" => v.scope \in 1..Len(scopes)
  /\ v.stage = "created" => /\ v.repair \in 1..Len(repairs)
                            /\ repairs[v.repair].scope = v.scope
  /\ v.stage = "answered" => \E q \in requested : q.key = KeyOf[p] /\ q.repair = v.repair

\* A post that goes on without writing a row keeps the invariant.
LEMMA PostChanges ==
  ASSUME ScopeIInv, NEW p \in Posts, NEW v \in PostStates, Leaves(p, v),
         posts' = [posts EXCEPT ![p] = v],
         UNCHANGED <<layout, scopes, resolution, repairs, requested>>
  PROVE  ScopeIInv'
  <1>1. posts' \in [Posts -> PostStates]  BY DEF ScopeIInv, ScopeShapes
  <1>2. \A x \in Posts : posts'[x] = IF x = p THEN v ELSE posts[x]  BY DEF ScopeIInv,
      ScopeShapes
  <1>3. PostsNameRepairs'  BY <1>2 DEF ScopeIInv, PostsNameRepairs, Leaves
  <1>4. AnswersAreRecorded'  BY <1>2 DEF ScopeIInv, AnswersAreRecorded, Leaves
  <1> QED
    BY <1>1, <1>3, <1>4 DEF ScopeIInv, ScopeShapes, LatestIsActive, Current, SeenExists,
         RepairsHaveScopes, RequestsNameRepairs, KeysAreUnique

\* Looking for a recorded request shows a repair only when it is recorded.
LEMMA CheckRequestInv ==
  ASSUME ScopeIInv, NEW p \in Posts, CheckRequest(p)
  PROVE  ScopeIInv'
  <1>1. PICK s \in Current :
          LET prior == {q \in requested : q.scope = s /\ q.key = KeyOf[p]}
          IN IF prior # {} THEN \E q \in prior : Answer(p, q.repair)
             ELSE posts' = [posts EXCEPT ![p] = [stage |-> "checked", scope |-> s]]
    BY DEF CheckRequest
  <1>2. UNCHANGED <<layout, scopes, resolution, repairs, requested>>  BY DEF CheckRequest
  <1>3. s \in 1..Len(scopes) /\ s \in Nat  BY LenProperties DEF Current, ScopeIInv, ScopeShapes
  <1>4. CASE posts' = [posts EXCEPT ![p] = [stage |-> "checked", scope |-> s]]
    <2> DEFINE v == [stage |-> "checked", scope |-> s]
    <2>1. v \in PostStates  BY <1>3 DEF PostStates
    <2>2. Leaves(p, v)  BY <1>3 DEF Leaves
    <2> QED BY <1>2, <1>4, <2>1, <2>2, PostChanges
  <1>5. CASE \E q \in requested : q.key = KeyOf[p] /\ Answer(p, q.repair)
    <2>1. PICK q \in requested : q.key = KeyOf[p] /\ Answer(p, q.repair)  BY <1>5
    <2> DEFINE v == [stage |-> "answered", repair |-> q.repair]
    <2>2. v \in PostStates  BY DEF PostStates, ScopeIInv, ScopeShapes, Requested
    <2>3. Leaves(p, v)  BY <2>1 DEF Leaves
    <2>4. posts' = [posts EXCEPT ![p] = v]  BY <2>1 DEF Answer
    <2> HIDE DEF v
    <2> QED BY <1>2, <2>2, <2>3, <2>4, PostChanges
  <1> QED BY <1>1, <1>4, <1>5

\* A repeated request starts over, with nothing but its key.
LEMMA RepeatInv ==
  ASSUME ScopeIInv, NEW p \in Posts, Repeat(p)
  PROVE  ScopeIInv'
  <1> DEFINE v == [stage |-> "waiting"]
  <1>1. v \in PostStates /\ Leaves(p, v)  BY DEF PostStates, Leaves
  <1> QED BY <1>1, PostChanges DEF Repeat, Waiting

\* A new repair is the next one; every index in use keeps its scope.
LEMMA NewRepair ==
  ASSUME ScopeIInv, NEW p \in Posts, NEW s \in 1..Len(scopes),
         repairs' = Append(repairs, [scope |-> s, active |-> TRUE]),
         posts' = [posts EXCEPT ![p] =
                     [stage |-> "created", scope |-> s, repair |-> Len(repairs) + 1]],
         UNCHANGED <<layout, scopes, resolution, requested>>
  PROVE  ScopeIInv'
  <1> DEFINE n == Len(repairs)
  <1>1. n \in Nat /\ Len(scopes) \in Nat  BY DEF ScopeIInv, ScopeShapes
  <1>2. s \in Nat  BY <1>1
  <1>3. [scope |-> s, active |-> TRUE] \in Repairs  BY <1>2 DEF Repairs
  <1>4. /\ repairs' \in Seq(Repairs) /\ Len(repairs') = n + 1
        /\ \A i \in 1..n : repairs'[i] = repairs[i]
        /\ repairs'[n + 1] = [scope |-> s, active |-> TRUE]
    BY <1>3, AppendProperties DEF ScopeIInv, ScopeShapes
  <1>5. [stage |-> "created", scope |-> s, repair |-> n + 1] \in PostStates
    BY <1>1, <1>2 DEF PostStates
  <1>6. ScopeShapes'  BY <1>4, <1>5 DEF ScopeIInv, ScopeShapes
  <1>7. \A x \in Posts : posts'[x] = IF x = p
          THEN [stage |-> "created", scope |-> s, repair |-> n + 1] ELSE posts[x]
    BY DEF ScopeIInv, ScopeShapes
  <1>8. RepairsHaveScopes'
    <2> SUFFICES ASSUME NEW i \in 1..(n + 1) PROVE repairs'[i].scope \in 1..Len(scopes)
      BY <1>4 DEF RepairsHaveScopes
    <2>1. CASE i = n + 1  BY <1>4, <2>1
    <2>2. CASE i \in 1..n  BY <1>4, <2>2 DEF ScopeIInv, RepairsHaveScopes
    <2> QED BY <1>1, <2>1, <2>2
  <1>9. RequestsNameRepairs'
    BY <1>1, <1>4 DEF ScopeIInv, RequestsNameRepairs
  <1>10. PostsNameRepairs'
    <2> SUFFICES ASSUME NEW x \in Posts
                 PROVE /\ posts'[x].stage = "checked" => posts'[x].scope \in 1..Len(scopes)
                       /\ posts'[x].stage = "created" =>
                            /\ posts'[x].repair \in 1..Len(repairs')
                            /\ repairs'[posts'[x].repair].scope = posts'[x].scope
      BY DEF PostsNameRepairs
    <2>1. CASE x = p  BY <1>1, <1>4, <1>7, <2>1
    <2>2. CASE x # p  BY <1>1, <1>4, <1>7, <2>2 DEF ScopeIInv, PostsNameRepairs
    <2> QED BY <2>1, <2>2
  <1>11. AnswersAreRecorded'
    BY <1>7 DEF ScopeIInv, AnswersAreRecorded
  <1> QED
    BY <1>6, <1>8, <1>9, <1>10, <1>11 DEF ScopeIInv, LatestIsActive, Current, SeenExists,
         KeysAreUnique

\* create_ingestion for a scope adds a repair of it or takes the active one.
LEMMA CreateRepairInv ==
  ASSUME ScopeIInv, NEW p \in Posts, CreateRepair(p)
  PROVE  ScopeIInv'
  <1> DEFINE s == posts[p].scope
  <1>1. posts[p].stage = "checked" /\ s \in 1..Len(scopes) /\ s \in Nat
    BY DEF CreateRepair, ScopeIInv, PostsNameRepairs, ScopeShapes, PostStates
  <1>2. UNCHANGED <<layout, scopes, resolution, requested>>  BY DEF CreateRepair
  <1>3. CASE \E i \in DOMAIN repairs :
               /\ repairs[i].scope = s /\ UNCHANGED repairs
               /\ posts' = [posts EXCEPT ![p] = [stage |-> "created", scope |-> s, repair |-> i]]
    <2>1. PICK i \in DOMAIN repairs :
               /\ repairs[i].scope = s /\ UNCHANGED repairs
               /\ posts' = [posts EXCEPT ![p] = [stage |-> "created", scope |-> s, repair |-> i]]
      BY <1>3
    <2> DEFINE v == [stage |-> "created", scope |-> s, repair |-> i]
    <2>2. i \in 1..Len(repairs) /\ i \in Nat  BY LenProperties DEF ScopeIInv, ScopeShapes
    <2>3. v \in PostStates /\ Leaves(p, v)
      BY <1>1, <2>1, <2>2 DEF PostStates, Leaves
    <2>4. posts' = [posts EXCEPT ![p] = v]  BY <2>1
    <2> HIDE DEF v
    <2> QED BY <1>2, <2>1, <2>3, <2>4, PostChanges
  <1>4. CASE /\ repairs' = Append(repairs, [scope |-> s, active |-> TRUE])
             /\ posts' = [posts EXCEPT ![p] =
                            [stage |-> "created", scope |-> s, repair |-> Len(repairs) + 1]]
    BY <1>1, <1>2, <1>4, NewRepair
  <1> QED BY <1>3, <1>4 DEF CreateRepair

\* The request is recorded and answered, or refused for its key.
LEMMA InsertRequestInv ==
  ASSUME ScopeIInv, NEW p \in Posts, InsertRequest(p)
  PROVE  ScopeIInv'
  <1> DEFINE s == posts[p].scope
             i == posts[p].repair
  <1>1. posts[p].stage = "created" /\ s \in Nat /\ i \in Nat
        /\ i \in 1..Len(repairs) /\ repairs[i].scope = s
    BY DEF InsertRequest, ScopeIInv, PostsNameRepairs, ScopeShapes, PostStates
  <1>2. UNCHANGED <<layout, scopes, resolution, repairs>>  BY DEF InsertRequest
  <1>3. CASE Used(p)
    <2> DEFINE v == [stage |-> "refused"]
    <2>1. v \in PostStates /\ Leaves(p, v)  BY DEF PostStates, Leaves
    <2>2. posts' = [posts EXCEPT ![p] = v] /\ UNCHANGED requested
      BY <1>3 DEF InsertRequest
    <2> QED BY <1>2, <2>1, <2>2, PostChanges
  <1>4. CASE ~Used(p)
    <2> DEFINE new == [scope |-> s, key |-> KeyOf[p], repair |-> i]
               v == [stage |-> "answered", repair |-> i]
    <2>1. requested' = requested \union {new} /\ posts' = [posts EXCEPT ![p] = v]
      BY <1>4 DEF InsertRequest, Answer
    <2>2. new \in Requested  BY <1>1 DEF Requested
    <2>3. v \in PostStates  BY <1>1 DEF PostStates
    <2>4. ScopeShapes'  BY <1>2, <2>1, <2>2, <2>3 DEF ScopeIInv, ScopeShapes
    <2>5. \A x \in Posts : posts'[x] = IF x = p THEN v ELSE posts[x]
      BY <2>1 DEF ScopeIInv, ScopeShapes
    <2>6. RequestsNameRepairs'
      BY <1>1, <1>2, <2>1 DEF ScopeIInv, RequestsNameRepairs
    <2>7. KeysAreUnique'
      BY <1>4, <2>1 DEF ScopeIInv, KeysAreUnique, Used
    <2>8. PostsNameRepairs'
      BY <1>2, <2>5 DEF ScopeIInv, PostsNameRepairs
    <2>9. AnswersAreRecorded'
      <3> SUFFICES ASSUME NEW x \in Posts, posts'[x].stage = "answered"
                   PROVE  \E q \in requested' : q.key = KeyOf[x] /\ q.repair = posts'[x].repair
        BY DEF AnswersAreRecorded
      <3>1. CASE x = p
        <4>1. new \in requested' /\ new.key = KeyOf[x] /\ new.repair = posts'[x].repair
          BY <2>1, <2>5, <3>1
        <4> QED BY <4>1
      <3>2. CASE x # p  BY <2>1, <2>5, <3>2 DEF ScopeIInv, AnswersAreRecorded
      <3> QED BY <3>1, <3>2
    <2> QED
      BY <1>2, <2>4, <2>6, <2>7, <2>8, <2>9
      DEF ScopeIInv, LatestIsActive, Current, SeenExists, RepairsHaveScopes
  <1> QED BY <1>3, <1>4

\* The end of a repair leaves scopes and recorded requests alone.
LEMMA EndRepairInv ==
  ASSUME ScopeIInv, NEW i \in DOMAIN repairs, EndRepair(i)
  PROVE  ScopeIInv'
  <1>1. repairs \in [1..Len(repairs) -> Repairs] /\ Len(repairs) \in Nat
        /\ i \in 1..Len(repairs)
    BY LenProperties DEF ScopeIInv, ScopeShapes
  <1>2. repairs[i] \in Repairs  BY <1>1
  <1>3. [repairs[i] EXCEPT !.active = FALSE] \in Repairs  BY <1>2 DEF Repairs
  <1>4. /\ repairs' \in Seq(Repairs) /\ Len(repairs') = Len(repairs)
        /\ \A j \in 1..Len(repairs) : repairs'[j].scope = repairs[j].scope
    BY <1>1, <1>2, <1>3, ExceptSeq DEF EndRepair, ScopeIInv, ScopeShapes, Repairs
  <1> QED
    BY <1>4 DEF EndRepair, ScopeIInv, ScopeShapes, LatestIsActive, Current, SeenExists,
         RepairsHaveScopes, RequestsNameRepairs, KeysAreUnique, PostsNameRepairs,
         AnswersAreRecorded


\* Nothing changes in a stuttering step.
LEMMA ScopeStutterInv == ScopeIInv /\ UNCHANGED vars => ScopeIInv'
  BY DEF vars, ScopeIInv, ScopeShapes, LatestIsActive, Current, SeenExists, RepairsHaveScopes,
         RequestsNameRepairs, KeysAreUnique, PostsNameRepairs, AnswersAreRecorded

\* The invariant behind the theorems below.
THEOREM ScopeInvariant == ServicesSpec => []ScopeIInv
  <1>1. ServicesInit => ScopeIInv
    BY ScopeInitInv, ScopeAssumption DEF ServicesInit
  <1>2. ScopeIInv /\ [Next]_scopeVars => ScopeIInv'
    <2> SUFFICES ASSUME ScopeIInv, [Next]_scopeVars PROVE ScopeIInv'  OBVIOUS
    <2>1. CASE Observe  BY <2>1, ObserveInv
    <2>2. CASE \E e \in Extractions : Resolve(e)
      BY <2>2, ReadRootsInv, CommitScopeInv DEF Resolve
    <2>3. CASE \E p \in Posts : Post(p)
      BY <2>3, CheckRequestInv, CreateRepairInv, InsertRequestInv, RepeatInv DEF Post
    <2>4. CASE \E i \in DOMAIN repairs : EndRepair(i)  BY <2>4, EndRepairInv
    <2>5. CASE UNCHANGED scopeVars  BY <2>5, ScopeStutterInv DEF scopeVars, vars
    <2> QED BY <2>1, <2>2, <2>3, <2>4, <2>5 DEF Next
  <1> QED BY <1>1, <1>2, ScopeSteps, PTL DEF ServicesSpec

\* The invariant has the types of the variables in it.
LEMMA ScopeTypes == ScopeIInv => TypeOK
  <1> SUFFICES ASSUME ScopeIInv PROVE TypeOK  OBVIOUS
  <1>1. \A i \in DOMAIN scopes : scopes[i] \in Rows
    BY LenProperties, ElementOfSeq DEF ScopeIInv, ScopeShapes
  <1>2. \A i \in DOMAIN repairs : repairs[i].scope \in DOMAIN scopes
    BY LenProperties DEF ScopeIInv, ScopeShapes, RepairsHaveScopes
  <1>3. \A p \in Posts : posts[p].stage = "answered" => posts[p].repair \in DOMAIN repairs
    BY LenProperties DEF ScopeIInv, ScopeShapes, AnswersAreRecorded, RequestsNameRepairs
  <1> QED BY <1>1, <1>2, <1>3 DEF TypeOK, ScopeIInv, ScopeShapes, Rows, KeysAreUnique

\* However extractions resolve the scope at once, from whatever states of the
\* source, the latest scope of a customer is its only active one
\* (_resolve_scope and the unique revision).
THEOREM ScopeLatestIsActive == ServicesSpec => []LatestIsActive
  <1>1. ScopeIInv => LatestIsActive  BY DEF ScopeIInv
  <1> QED BY <1>1, ScopeInvariant, PTL

\* Requests with one key are answered with one repair of a scope, through lost
\* answers and repeated requests (create_scope_ingestion).
THEOREM ScopeSameKeySameRepair == ServicesSpec => []SameKeySameRepair
  <1>1. ScopeIInv => SameKeySameRepair
    <2> SUFFICES ASSUME ScopeIInv, NEW p \in Posts, NEW q \in Posts,
                        posts[p].stage = "answered", posts[q].stage = "answered",
                        KeyOf[p] = KeyOf[q],
                        repairs[posts[p].repair].scope = repairs[posts[q].repair].scope
                 PROVE  posts[p].repair = posts[q].repair
      BY DEF SameKeySameRepair
    <2>1. PICK x \in requested : x.key = KeyOf[p] /\ x.repair = posts[p].repair
      BY DEF ScopeIInv, AnswersAreRecorded
    <2>2. PICK y \in requested : y.key = KeyOf[q] /\ y.repair = posts[q].repair
      BY DEF ScopeIInv, AnswersAreRecorded
    <2>3. x.scope = y.scope  BY <2>1, <2>2 DEF ScopeIInv, RequestsNameRepairs
    <2> QED BY <2>1, <2>2, <2>3 DEF ScopeIInv, KeysAreUnique
  <1> QED BY <1>1, ScopeInvariant, PTL

-----------------------------------------------------------------------------
(* The hashes of legacy entries (ProvenanceBackfill).                       *)

JobStages == {"idle", "selected", "reading", "half", "read", "hashed", "commit"}

Jobs == [stage : JobStages, item : 0..MaxVersion, hash : 0..Provenance!Torn]

Seen == [stat : 0..MaxVersion, hash : 0..Provenance!Torn]

Walks ==
  [stage : {"idle", "known", "seen", "half", "observed", "storing"}, row : Seen,
   stat : 0..MaxVersion, hash : 0..Provenance!Torn]

ProvenanceShapes ==
  /\ sourceFile \in 1..MaxVersion
  /\ entry \in Seen /\ entry.stat <= sourceFile
  /\ walk \in Walks /\ walk.stat <= sourceFile /\ walk.row.stat <= sourceFile
  /\ job \in [Backfills -> Jobs]
  /\ raced \in BOOLEAN

\* A size and time and a hash that were taken of the file: as long as the former are
\* those of the file, the hash is of it.
Fresh(stat, hash) == hash # Provenance!None /\ stat = sourceFile => hash = sourceFile

\* The versions the ingestion has met, from the one it has listed to the present one,
\* and what it will store.
WalkOK ==
  /\ walk.stage = "half" => walk.stat <= walk.hash /\ walk.hash <= sourceFile
  /\ ~raced => Fresh(entry.stat, entry.hash) /\ Fresh(walk.row.stat, walk.row.hash)
  /\ ~raced /\ walk.stage \in {"observed", "storing"} => Fresh(walk.stat, walk.hash)
  /\ walk.stage \in {"idle", "known", "seen"} => walk.hash = Provenance!None
  /\ ~raced /\ walk.stage = "storing" =>
       walk.row = entry /\ \A b \in Backfills : job[b].stage # "commit"

\* The versions a job has met, from the one of the entry to the present one:
\* when the file still is as it was selected, all blocks are of that version.
JobOK(j) ==
  /\ j.item <= sourceFile
  /\ j.stage = "half" => j.item <= j.hash /\ j.hash <= sourceFile
  /\ j.stage = "read" => \/ j.item <= j.hash /\ j.hash <= sourceFile
                         \/ j.hash = Provenance!Torn /\ j.item < sourceFile
  /\ j.stage \in {"hashed", "commit"} => j.hash = j.item
  /\ j.stage = "commit" /\ ~raced => j.item = entry.stat

ProvenanceIInv ==
  ProvenanceShapes /\ WalkOK /\ \A b \in Backfills : JobOK(job[b])

\* The rows that are nothing yet.
LEMMA RestingShapes ==
  ASSUME MaxVersion \in Nat \ {0}
  PROVE  /\ Provenance!Idle \in Jobs /\ Provenance!Idle.stage = "idle" /\ Provenance!Idle.item = 0
         /\ Provenance!Resting \in Walks /\ Provenance!Resting.stage = "idle"
         /\ Provenance!Resting.stat = 0 /\ Provenance!Resting.hash = 0
         /\ Provenance!Resting.row.stat = 0 /\ Provenance!Resting.row.hash = 0
  <1>1. 0 \in 0..MaxVersion /\ 0 \in 0..Provenance!Torn  BY DEF Provenance!Torn
  <1>2. Provenance!Unread \in Seen /\ Provenance!Unread.stat = 0 /\ Provenance!Unread.hash = 0
    BY <1>1 DEF Provenance!Unread, Provenance!None, Seen
  <1>3. Provenance!Idle \in Jobs /\ Provenance!Idle.stage = "idle" /\ Provenance!Idle.item = 0
    BY <1>1 DEF Provenance!Idle, Provenance!None, Jobs, JobStages
  <1> HIDE DEF Provenance!Unread
  <1>4. /\ Provenance!Resting \in Walks /\ Provenance!Resting.stage = "idle"
        /\ Provenance!Resting.stat = 0 /\ Provenance!Resting.hash = 0
        /\ Provenance!Resting.row = Provenance!Unread
    BY <1>1, <1>2 DEF Provenance!Resting, Provenance!None, Walks
  <1> QED BY <1>2, <1>3, <1>4

\* The invariant holds initially.
LEMMA ProvenanceInitInv == MaxVersion \in Nat \ {0} /\ Provenance!Init => ProvenanceIInv
  <1> SUFFICES ASSUME MaxVersion \in Nat \ {0}, Provenance!Init PROVE ProvenanceIInv  OBVIOUS
  <1>1. sourceFile = 1 /\ walk = Provenance!Resting /\ raced = FALSE
        /\ entry = [stat |-> 1, hash |-> 0] /\ job = [b \in Backfills |-> Provenance!Idle]
    BY DEF Provenance!Init, Provenance!None
  <1>2. 0 \in 0..MaxVersion /\ 1 \in 0..MaxVersion /\ 0 \in 0..Provenance!Torn
    BY DEF Provenance!Torn
  <1>3. entry \in Seen /\ entry.stat = 1 /\ entry.hash = 0  BY <1>1, <1>2 DEF Seen
  <1>4. ProvenanceShapes
    <2>1. walk \in Walks /\ walk.stat = 0 /\ walk.row.stat = 0  BY <1>1, RestingShapes
    <2>2. job \in [Backfills -> Jobs]
      <3>1. Provenance!Idle \in Jobs  BY RestingShapes
      <3> QED BY <1>1, <3>1
    <2>3. sourceFile \in 1..MaxVersion /\ raced \in BOOLEAN
      <3>1. 1 \in 1..MaxVersion  OBVIOUS
      <3> QED BY <1>1, <3>1
    <2>4. entry.stat <= sourceFile /\ walk.stat <= sourceFile /\ walk.row.stat <= sourceFile
      BY <1>1, <1>3, <2>1
    <2> QED BY <1>3, <2>1, <2>2, <2>3, <2>4 DEF ProvenanceShapes
  <1>5. WalkOK
    BY <1>1, <1>3, RestingShapes DEF WalkOK, Fresh, Provenance!None
  <1>6. ASSUME NEW b \in Backfills PROVE JobOK(job[b])
    BY <1>1, RestingShapes DEF JobOK
  <1> QED BY <1>4, <1>5, <1>6 DEF ProvenanceIInv

\* A write of the file makes a version later than all that was read.
LEMMA WriteSourceInv ==
  ASSUME MaxVersion \in Nat \ {0}, ProvenanceIInv, Provenance!Write
  PROVE  ProvenanceIInv'
  <1>1. sourceFile' = sourceFile + 1 /\ sourceFile < MaxVersion
        /\ UNCHANGED <<entry, walk, job, raced>>
    BY DEF Provenance!Write
  <1>2. /\ sourceFile \in Nat /\ entry.stat \in Nat /\ entry.stat <= sourceFile
        /\ walk.stat \in Nat /\ walk.stat <= sourceFile /\ walk.hash \in Nat
        /\ walk.row.stat \in Nat /\ walk.row.stat <= sourceFile
    BY DEF ProvenanceIInv, ProvenanceShapes, Walks, Seen, Provenance!Torn
  <1>3. ProvenanceShapes'  BY <1>1, <1>2 DEF ProvenanceIInv, ProvenanceShapes
  <1>4. WalkOK'  BY <1>1, <1>2 DEF ProvenanceIInv, WalkOK, Fresh
  <1>5. ASSUME NEW b \in Backfills PROVE JobOK(job[b])'
    <2>1. JobOK(job[b])  BY DEF ProvenanceIInv
    <2>2. job[b] \in Jobs
      BY DEF ProvenanceIInv, ProvenanceShapes
    <2> QED BY <1>1, <2>1, <2>2 DEF JobOK, ProvenanceIInv, ProvenanceShapes, Jobs,
                 Provenance!Torn
  <1> QED BY <1>3, <1>4, <1>5 DEF ProvenanceIInv

\* An ingestion that moves and leaves the entry as it is disturbs no backfill.
LEMMA WalkMoves ==
  ASSUME ProvenanceIInv, WalkOK', walk' \in Walks, walk'.stat <= sourceFile,
         walk'.row.stat <= sourceFile, UNCHANGED <<sourceFile, entry, job>>,
         raced' \in BOOLEAN, raced => raced'
  PROVE  ProvenanceIInv'
  <1>1. ProvenanceShapes'  BY DEF ProvenanceIInv, ProvenanceShapes
  <1>2. ASSUME NEW b \in Backfills PROVE JobOK(job[b])'
    BY DEF ProvenanceIInv, JobOK
  <1> QED BY <1>1, <1>2 DEF ProvenanceIInv

\* What an ingestion sees of the file is fresh when it is stored.
LEMMA WalkInv ==
  ASSUME MaxVersion \in Nat \ {0}, ProvenanceIInv,
         \/ Provenance!BeginWalk \/ Provenance!StatFile \/ Provenance!HashFirst
         \/ Provenance!HashRest \/ Provenance!LoadEntry \/ Provenance!WalkDies
  PROVE  ProvenanceIInv'
  <1> DEFINE T == Provenance!Torn
  <1>1. /\ UNCHANGED <<sourceFile, entry, job>> /\ raced \in BOOLEAN /\ raced' \in BOOLEAN
        /\ raced => raced'
    BY DEF ProvenanceIInv, ProvenanceShapes, Provenance!BeginWalk, Provenance!StatFile,
         Provenance!HashFirst, Provenance!HashRest, Provenance!LoadEntry, Provenance!WalkDies
  <1>2. /\ walk \in Walks /\ walk.stat <= sourceFile /\ walk.row.stat <= sourceFile /\ WalkOK
        /\ sourceFile \in 1..MaxVersion /\ entry \in Seen /\ entry.stat <= sourceFile
    BY DEF ProvenanceIInv, ProvenanceShapes
  <1>3. T = MaxVersion + 1 /\ sourceFile \in Nat /\ sourceFile # T /\ sourceFile \in 0..MaxVersion
        /\ sourceFile \in 0..T /\ T \in 0..T /\ 0 \in 0..T
    BY <1>2 DEF Provenance!Torn
  <1> HIDE DEF T
  <1>4. CASE Provenance!BeginWalk
    <2>1. walk' = [Provenance!Resting EXCEPT !.stage = "known", !.row = entry] /\ raced' = raced
      BY <1>4 DEF Provenance!BeginWalk
    <2>2. /\ walk' \in Walks /\ walk'.stage = "known" /\ walk'.row = entry
          /\ walk'.stat = 0 /\ walk'.hash = 0
      BY <1>2, <2>1, RestingShapes DEF Walks
    <2>3. WalkOK'  BY <1>1, <1>2, <2>1, <2>2 DEF WalkOK, Fresh, Provenance!None
    <2> QED BY <1>1, <1>2, <1>3, <2>2, <2>3, WalkMoves
  <1>5. CASE Provenance!WalkDies
    <2>1. walk' = Provenance!Resting /\ raced' = raced  BY <1>5 DEF Provenance!WalkDies
    <2>2. WalkOK'  BY <1>1, <1>2, <2>1, RestingShapes DEF WalkOK, Fresh, Provenance!None
    <2> QED BY <1>1, <1>2, <1>3, <2>1, <2>2, RestingShapes, WalkMoves
  <1>6. CASE Provenance!StatFile
    <2>1. /\ walk.stage = "known" /\ raced' = raced
          /\ \/ walk' = [walk EXCEPT !.stage = "seen", !.stat = sourceFile]
             \/ walk' = [walk EXCEPT !.stage = "observed"]
      BY <1>6 DEF Provenance!StatFile
    <2>2. /\ walk' \in Walks /\ walk'.row = walk.row /\ walk'.hash = walk.hash
          /\ walk'.stat \in {walk.stat, sourceFile} /\ walk'.stage \in {"seen", "observed"}
      BY <1>2, <1>3, <2>1 DEF Walks
    <2>3. walk'.hash = Provenance!None  BY <1>2, <2>1, <2>2 DEF WalkOK
    <2>4. WalkOK'  BY <1>1, <1>2, <2>1, <2>2, <2>3 DEF WalkOK, Fresh
    <2> QED BY <1>1, <1>2, <1>3, <2>2, <2>4, WalkMoves
  <1>7. CASE Provenance!HashFirst
    <2>1. /\ walk.stage = "seen" /\ raced' = raced /\ walk.hash = Provenance!None
          /\ \/ /\ walk.row.stat = walk.stat
                /\ walk' = [walk EXCEPT !.stage = "observed", !.hash = walk.row.hash]
             \/ walk' = [walk EXCEPT !.stage = "half", !.hash = sourceFile]
             \/ walk' = [walk EXCEPT !.stage = "observed"]
      BY <1>2, <1>7 DEF Provenance!HashFirst, Provenance!Reusable, WalkOK
    <2>2. /\ walk' \in Walks /\ walk'.row = walk.row /\ walk'.stat = walk.stat
          /\ \/ walk.row.stat = walk.stat /\ walk'.stage = "observed" /\ walk'.hash = walk.row.hash
             \/ walk'.stage = "half" /\ walk'.hash = sourceFile
             \/ walk'.stage = "observed" /\ walk'.hash = walk.hash
      <3>1. walk.row.hash \in 0..T  BY <1>2 DEF Walks, Seen, T
      <3> QED BY <1>2, <1>3, <2>1, <3>1 DEF Walks, T
    <2>3. WalkOK'  BY <1>1, <1>2, <1>3, <2>1, <2>2 DEF WalkOK, Fresh
    <2> QED BY <1>1, <1>2, <1>3, <2>2, <2>3, WalkMoves
  <1>8. CASE Provenance!HashRest
    <2>1. PICK h \in {IF walk.hash = sourceFile THEN sourceFile ELSE Provenance!Torn,
                      Provenance!None} :
            walk' = [walk EXCEPT !.stage = "observed", !.hash = h]
      BY <1>8 DEF Provenance!HashRest
    <2>2. walk.stage = "half" /\ raced' = raced  BY <1>8 DEF Provenance!HashRest
    <2>3. h \in 0..T  BY <1>3, <2>1 DEF T, Provenance!None
    <2>4. /\ walk' \in Walks /\ walk'.row = walk.row /\ walk'.stat = walk.stat
          /\ walk'.stage = "observed" /\ walk'.hash = h
      BY <1>2, <2>1, <2>3 DEF Walks, T
    <2>5. walk.stat <= walk.hash /\ walk.hash <= sourceFile /\ walk.stat \in Nat /\ walk.hash \in Nat
      BY <1>2, <2>2 DEF WalkOK, Walks, Provenance!Torn
    <2>6. Fresh(walk'.stat, walk'.hash)
      BY <1>3, <2>1, <2>4, <2>5 DEF Fresh
    <2>7. WalkOK'  BY <1>1, <1>2, <2>2, <2>4, <2>6 DEF WalkOK, Fresh
    <2> QED BY <1>1, <1>2, <1>3, <2>4, <2>7, WalkMoves
  <1>9. CASE Provenance!LoadEntry
    <2>1. /\ walk.stage = "observed" /\ walk' = [walk EXCEPT !.stage = "storing", !.row = entry]
          /\ raced' = (raced \/ \E b \in Backfills : job[b].stage = "commit")
      BY <1>9 DEF Provenance!LoadEntry
    <2>2. /\ walk' \in Walks /\ walk'.row = entry /\ walk'.stat = walk.stat
          /\ walk'.stage = "storing" /\ walk'.hash = walk.hash
      BY <1>2, <2>1 DEF Walks
    <2>3. ~raced' => ~raced /\ \A b \in Backfills : job'[b].stage # "commit"
      BY <1>1, <2>1
    <2>4. WalkOK'  BY <1>1, <1>2, <2>1, <2>2, <2>3 DEF WalkOK, Fresh
    <2> QED BY <1>1, <1>2, <1>3, <2>2, <2>4, WalkMoves
  <1> QED BY <1>4, <1>5, <1>6, <1>7, <1>8, <1>9

\* What an ingestion stores is what it has seen, unless it was raced.
LEMMA IngestSourceInv ==
  ASSUME MaxVersion \in Nat \ {0}, ProvenanceIInv, Provenance!Ingest
  PROVE  ProvenanceIInv'
  <1>1. /\ walk.stage = "storing" /\ walk' = Provenance!Resting
        /\ UNCHANGED <<sourceFile, job, raced>>
        /\ entry' = [stat |-> IF walk.stat # walk.row.stat THEN walk.stat ELSE entry.stat,
                     hash |-> IF walk.hash # walk.row.hash THEN walk.hash ELSE entry.hash]
    BY DEF Provenance!Ingest
  <1>2. /\ walk.stat \in 0..MaxVersion /\ walk.hash \in 0..Provenance!Torn
        /\ entry.stat \in 0..MaxVersion /\ entry.hash \in 0..Provenance!Torn
        /\ walk.stat <= sourceFile /\ entry.stat <= sourceFile /\ sourceFile \in 1..MaxVersion
    BY DEF ProvenanceIInv, ProvenanceShapes, Walks, Seen
  <1>3. /\ entry'.stat = IF walk.stat # walk.row.stat THEN walk.stat ELSE entry.stat
        /\ entry'.hash = IF walk.hash # walk.row.hash THEN walk.hash ELSE entry.hash
        /\ entry' \in Seen
    <2> DEFINE s == IF walk.stat # walk.row.stat THEN walk.stat ELSE entry.stat
               h == IF walk.hash # walk.row.hash THEN walk.hash ELSE entry.hash
    <2>1. s \in 0..MaxVersion /\ h \in 0..Provenance!Torn  BY <1>2
    <2>2. entry' = [stat |-> s, hash |-> h]  BY <1>1
    <2> HIDE DEF s, h
    <2>3. entry' \in Seen /\ entry'.stat = s /\ entry'.hash = h  BY <2>1, <2>2 DEF Seen
    <2> QED BY <2>3 DEF s, h
  <1>4. ProvenanceShapes'
    BY <1>1, <1>2, <1>3, RestingShapes DEF ProvenanceIInv, ProvenanceShapes
  <1>5. ~raced => /\ entry'.stat = walk.stat /\ entry'.hash = walk.hash
                  /\ Fresh(walk.stat, walk.hash)
                  /\ \A b \in Backfills : job[b].stage # "commit"
    BY <1>1, <1>3 DEF ProvenanceIInv, WalkOK
  <1>6. WalkOK'
    BY <1>1, <1>5, RestingShapes DEF WalkOK, Fresh, Provenance!None
  <1>7. ASSUME NEW b \in Backfills PROVE JobOK(job[b])'
    <2>1. JobOK(job[b])  BY DEF ProvenanceIInv
    <2> QED BY <1>1, <1>5, <2>1 DEF JobOK
  <1> QED BY <1>4, <1>6, <1>7 DEF ProvenanceIInv

\* A job that moves and leaves the entry as it is disturbs nobody else.
LEMMA JobInv ==
  ASSUME ProvenanceIInv, NEW b \in Backfills,
         NEW j \in Jobs,
         JobOK(j)', job' = [job EXCEPT ![b] = j], UNCHANGED <<sourceFile, entry, walk>>,
         raced' \in BOOLEAN, raced => raced',
         ~raced' /\ walk.stage = "storing" => j.stage # "commit"
  PROVE  ProvenanceIInv'
  <1>1. ProvenanceShapes'  BY DEF ProvenanceIInv, ProvenanceShapes
  <1>2. ASSUME NEW c \in Backfills PROVE JobOK(job[c])'
    <2>1. job'[c] = IF c = b THEN j ELSE job[c]  BY DEF ProvenanceIInv, ProvenanceShapes
    <2>2. JobOK(job[c])  BY DEF ProvenanceIInv
    <2> QED BY <2>1, <2>2 DEF JobOK
  <1>3. WalkOK'
    <2>1. \A c \in Backfills : job'[c] = IF c = b THEN j ELSE job[c]
      BY DEF ProvenanceIInv, ProvenanceShapes
    <2> QED BY <2>1 DEF ProvenanceIInv, WalkOK, Fresh
  <1> QED BY <1>1, <1>2, <1>3 DEF ProvenanceIInv

\* The steps of a backfill before its commit keep the invariant.
LEMMA BackfillInv ==
  ASSUME MaxVersion \in Nat \ {0}, ProvenanceIInv, NEW b \in Backfills,
         \/ Provenance!Select(b) \/ Provenance!StatBefore(b) \/ Provenance!ReadFirst(b)
         \/ Provenance!ReadRest(b) \/ Provenance!StatAfter(b)
         \/ Provenance!Check(b) \/ Provenance!Dies(b)
  PROVE  ProvenanceIInv'
  <1>1. job[b] \in Jobs /\ JobOK(job[b])  BY DEF ProvenanceIInv, ProvenanceShapes
  <1>2. job \in [Backfills -> Jobs] /\ sourceFile \in 1..MaxVersion
        /\ entry.stat \in 0..MaxVersion /\ entry.stat <= sourceFile /\ raced \in BOOLEAN
    BY DEF ProvenanceIInv, ProvenanceShapes, Seen
  <1>3. UNCHANGED <<sourceFile, entry, walk>> /\ raced' \in BOOLEAN /\ (raced => raced')
    BY <1>2 DEF Provenance!Select, Provenance!StatBefore, Provenance!ReadFirst,
         Provenance!ReadRest, Provenance!StatAfter, Provenance!Check, Provenance!Dies
  <1>4. ASSUME NEW j \in Jobs, JobOK(j), job' = [job EXCEPT ![b] = j],
               ~raced' /\ walk.stage = "storing" => j.stage # "commit"
        PROVE  ProvenanceIInv'
    <2>1. JobOK(j)'  BY <1>3, <1>4 DEF JobOK
    <2> QED BY <1>3, <1>4, <2>1, JobInv
  <1> SUFFICES \E j \in Jobs : /\ JobOK(j)
                               /\ job' = [job EXCEPT ![b] = j]
                               /\ ~raced' /\ walk.stage = "storing" => j.stage # "commit"
    BY <1>4
  <1>5. CASE Provenance!Select(b)
    <2> DEFINE j == [stage |-> "selected", item |-> entry.stat, hash |-> Provenance!None]
    <2>1. j \in Jobs /\ JobOK(j)  BY <1>2 DEF Jobs, JobOK, JobStages, Provenance!None,
        Provenance!Torn
    <2> QED BY <1>5, <2>1 DEF Provenance!Select
  <1>6. CASE Provenance!StatBefore(b) \/ Provenance!StatAfter(b)
             \/ Provenance!Check(b) \/ Provenance!Dies(b)
    <2>1. PICK s \in JobStages :
            /\ job' = [job EXCEPT ![b].stage = s]
            /\ \/ s = "idle"
               \/ s = "reading"
               \/ s = "hashed" /\ job[b].stage = "read" /\ sourceFile = job[b].item
               \/ /\ s = "commit" /\ job[b].stage = "hashed" /\ entry.stat = job[b].item
                  /\ walk.stage = "storing" => raced'
      BY <1>6 DEF Provenance!StatBefore, Provenance!StatAfter, Provenance!SameAfter,
           Provenance!Check, Provenance!StillWanted, Provenance!Dies, Provenance!To, JobStages
    <2> DEFINE j == [job[b] EXCEPT !.stage = s]
    <2>2. j \in Jobs /\ job' = [job EXCEPT ![b] = j]  BY <1>1, <1>2, <2>1 DEF Jobs
    <2>3. j.stage = s /\ j.item = job[b].item /\ j.hash = job[b].hash  BY <1>1 DEF Jobs
    <2>4. JobOK(job[b]) /\ (s = "commit" => job[b].hash = job[b].item)
      BY <1>1, <2>1 DEF JobOK
    <2>5. s = "hashed" => job[b].hash = job[b].item
      BY <1>1, <1>2, <2>1 DEF JobOK, Jobs, Provenance!Torn
    <2>6. ~raced' /\ walk.stage = "storing" => j.stage # "commit"  BY <2>1, <2>3
    <2> HIDE DEF j
    <2>7. JobOK(j)
      BY <1>1, <2>1, <2>3, <2>4, <2>5 DEF JobOK
    <2> QED BY <2>2, <2>6, <2>7
  <1>7. CASE Provenance!ReadFirst(b)
    <2> DEFINE j == [stage |-> "half", item |-> job[b].item, hash |-> sourceFile]
    <2>1. j.stage = "half" /\ j.item = job[b].item /\ j.hash = sourceFile  BY <1>1
    <2>2. "half" \in JobStages /\ sourceFile \in 0..Provenance!Torn /\ j \in Jobs
      BY <1>1, <1>2 DEF Jobs, JobStages, Provenance!Torn
    <2>3. job[b].item <= sourceFile /\ sourceFile <= sourceFile  BY <1>1, <1>2 DEF JobOK
    <2>4. JobOK(j)  BY <2>1, <2>3 DEF JobOK
    <2>5. job' = [job EXCEPT ![b] = j]
      BY <1>2, <1>7 DEF Provenance!ReadFirst
    <2> QED BY <2>2, <2>4, <2>5
  <1>8. CASE Provenance!ReadRest(b)
    <2> DEFINE h == IF job[b].hash = sourceFile THEN job[b].hash ELSE Provenance!Torn
               j == [stage |-> "read", item |-> job[b].item, hash |-> h]
    <2>1. job' = [job EXCEPT ![b] = j] /\ job[b].stage = "half"
      BY <1>2, <1>8 DEF Provenance!ReadRest
    <2>2. h \in 0..Provenance!Torn  BY <1>1, <1>2 DEF Jobs, Provenance!Torn
    <2>3. j.stage = "read" /\ j.item = job[b].item /\ j.hash = h  BY <1>1
    <2>4. j \in Jobs  BY <1>1, <2>2 DEF Jobs, JobStages
    <2>5. job[b].item <= job[b].hash /\ job[b].hash <= sourceFile /\ job[b].item <= sourceFile
          /\ job[b].item \in Nat /\ job[b].hash \in Nat
      BY <1>1, <2>1 DEF Jobs, JobOK, Provenance!Torn
    <2>6. \/ h = job[b].hash /\ h = sourceFile
          \/ h = Provenance!Torn /\ job[b].hash < sourceFile
      BY <1>2, <2>5
    <2>7. JobOK(j)  BY <1>2, <2>3, <2>5, <2>6 DEF JobOK
    <2> QED BY <2>1, <2>4, <2>7
  <1> QED BY <1>5, <1>6, <1>7, <1>8

\* A commit writes the hash of the version the entry describes, unless it was
\* raced.
LEMMA CommitHashInv ==
  ASSUME MaxVersion \in Nat \ {0}, ProvenanceIInv, NEW b \in Backfills, Provenance!Commit(b)
  PROVE  ProvenanceIInv'
  <1>1. /\ entry' = [entry EXCEPT !.hash = job[b].hash] /\ UNCHANGED <<sourceFile, walk, raced>>
        /\ job' = [job EXCEPT ![b].stage = "idle"] /\ job[b].stage = "commit"
    BY DEF Provenance!Commit, Provenance!To
  <1>2. job[b].hash = job[b].item /\ (~raced => job[b].item = entry.stat)
    BY <1>1 DEF ProvenanceIInv, JobOK
  <1>3. /\ job[b] \in Jobs /\ entry \in Seen /\ job \in [Backfills -> Jobs]
        /\ job[b].hash \in 0..Provenance!Torn
    BY DEF ProvenanceIInv, ProvenanceShapes, Jobs
  <1>4. entry'.stat = entry.stat /\ entry'.hash = job[b].hash /\ ProvenanceShapes'
    <2>1. entry' \in Seen /\ entry'.stat = entry.stat /\ entry'.hash = job[b].hash
      BY <1>1, <1>3 DEF Seen
    <2>2. job' \in [Backfills -> Jobs]
      <3>1. [job[b] EXCEPT !.stage = "idle"] \in Jobs  BY <1>3 DEF Jobs, JobStages
      <3> QED BY <1>1, <1>3, <3>1
    <2> QED BY <1>1, <2>1, <2>2 DEF ProvenanceIInv, ProvenanceShapes
  <1>5. ASSUME NEW c \in Backfills PROVE JobOK(job[c])'
    <2>1. JobOK(job[c])  BY DEF ProvenanceIInv
    <2>2. CASE c = b
      <3>1. job'[c].stage = "idle" /\ job'[c].item = job[c].item
        BY <1>1, <2>2 DEF ProvenanceIInv, ProvenanceShapes, Jobs
      <3> QED BY <1>1, <2>1, <3>1 DEF JobOK
    <2>3. CASE c # b
      <3>1. job'[c] = job[c]  BY <1>1, <2>3 DEF ProvenanceIInv, ProvenanceShapes
      <3> QED BY <1>1, <1>4, <2>1, <3>1 DEF JobOK
    <2> QED BY <2>2, <2>3
  <1>6. WalkOK'
    <2>1. ~raced => walk.stage # "storing" /\ Fresh(entry'.stat, entry'.hash)
      BY <1>1, <1>2, <1>4 DEF ProvenanceIInv, WalkOK, Fresh
    <2> QED BY <1>1, <2>1 DEF ProvenanceIInv, WalkOK, Fresh
  <1> QED BY <1>4, <1>5, <1>6 DEF ProvenanceIInv

\* Nothing changes in a stuttering step.
LEMMA ProvenanceStutterInv == ProvenanceIInv /\ UNCHANGED Provenance!vars => ProvenanceIInv'
  BY DEF Provenance!vars, ProvenanceIInv, ProvenanceShapes, JobOK, WalkOK, Fresh


\* The invariant behind the theorem below.
THEOREM ProvenanceInvariant == ServicesSpec => []ProvenanceIInv
  <1>1. MaxVersion \in Nat \ {0}  BY BoundsAreNat
  <1>2. ServicesInit => ProvenanceIInv  BY <1>1, ProvenanceInitInv DEF ServicesInit
  <1>3. ProvenanceIInv /\ [Provenance!Next]_provenanceVars => ProvenanceIInv'
    BY <1>1, WriteSourceInv, WalkInv, IngestSourceInv, BackfillInv, CommitHashInv, ProvenanceStutterInv
       DEF Provenance!Next, provenanceVars, Provenance!vars
  <1> QED BY <1>2, <1>3, ProvenanceSteps, PTL DEF ServicesSpec

\* Only the hash of one version is ever on its way into the row (_hash_file).
LEMMA ProvenanceTypes == ProvenanceIInv => Provenance!TypeOK
  BY DEF ProvenanceIInv, ProvenanceShapes, Seen, Walks, Jobs, JobOK, Provenance!TypeOK

\* For any number of backfills, writes and ingestions: as long as the file has the
\* size and time of its entry, the hash of the entry is of that file, except after
\* the race named in raced.
THEOREM ProvenanceHash == ServicesSpec => []HashIsOfTheEntry
  <1>1. ProvenanceIInv => HashIsOfTheEntry
    BY DEF ProvenanceIInv, WalkOK, Fresh, HashIsOfTheEntry, Provenance!HashIsOfTheEntry
  <1> QED BY <1>1, ProvenanceInvariant, PTL

-----------------------------------------------------------------------------
(* The wake-ups of the workers of a process (QueueNotifier).                *)

NotifierShapes ==
  /\ queued \in [Notifier!Items -> {"none", "committed", "published", "claimed"}]
  /\ event \in BOOLEAN
  /\ worker \in [Loops -> {"loop", "idle", "waiting", "woken", "executing"}]

\* Somebody is going to look at the queue before he sleeps.
Looking == event \/ \E w \in Loops : worker[w] \in {"loop", "woken", "executing"}

Announced == \E i \in Local : queued[i] = "published"

NotifierIInv == NotifierShapes /\ (Announced => Looking)

\* The invariant holds initially.
LEMMA NotifierInitInv == Notifier!Init => NotifierIInv
  BY DEF Notifier!Init, NotifierIInv, NotifierShapes, Announced, Notifier!Items

\* A publisher of this process and a message from another one set the event.
LEMMA SetEventInv ==
  ASSUME NotifierIInv, Notifier!SetEvent,
         queued' \in [Notifier!Items -> {"none", "committed", "published", "claimed"}]
  PROVE  NotifierIInv'
  BY DEF NotifierIInv, NotifierShapes, Notifier!SetEvent, Looking

\* Committing and publishing an item keeps the invariant.
LEMMA ItemsInv ==
  ASSUME NotifierIInv, NEW i \in Notifier!Items,
         Notifier!Enqueue(i) \/ Notifier!PublishHere(i) \/ Notifier!PublishThere(i)
  PROVE  NotifierIInv'
  <1>1. CASE Notifier!Enqueue(i)
    BY <1>1 DEF Notifier!Enqueue, NotifierIInv, NotifierShapes, Announced, Looking
  <1>2. CASE Notifier!PublishHere(i)
    <2>1. queued' \in [Notifier!Items -> {"none", "committed", "published", "claimed"}]
      BY <1>2 DEF Notifier!PublishHere, Notifier!Published, NotifierIInv, NotifierShapes
    <2> QED BY <1>2, <2>1, SetEventInv DEF Notifier!PublishHere
  <1>3. CASE Notifier!PublishThere(i)
    \* The item is one of another process: nothing is announced here.
    <2>1. queued' \in [Notifier!Items -> {"none", "committed", "published", "claimed"}]
      BY <1>3 DEF Notifier!PublishThere, Notifier!Published, NotifierIInv, NotifierShapes
    <2>2. i \notin Local /\ UNCHANGED <<event, worker>>
      BY <1>3, ServicesAssumption DEF Notifier!PublishThere
    <2>3. \A k \in Local : queued'[k] = queued[k]
      BY <1>3, <2>2 DEF Notifier!PublishThere, Notifier!Published, NotifierIInv,
           NotifierShapes, Notifier!Items
    <2>4. Announced' => Announced  BY <2>3 DEF Announced
    <2> QED BY <2>1, <2>2, <2>4 DEF NotifierIInv, NotifierShapes, Looking
  <1> QED BY <1>1, <1>2, <1>3

\* The Redis listener keeps the invariant.
LEMMA ListenerInv ==
  ASSUME NotifierIInv, Notifier!Listen \/ Notifier!Reconnect
  PROVE  NotifierIInv'
  <1>1. CASE Notifier!Listen
    BY <1>1, SetEventInv DEF Notifier!Listen, NotifierIInv, NotifierShapes
  <1>2. CASE Notifier!Reconnect
    BY <1>2 DEF Notifier!Reconnect, NotifierIInv, NotifierShapes, Announced, Looking
  <1> QED BY <1>1, <1>2

\* A worker that goes to sleep has seen the queue empty or the event not set;
\* one that clears the event looks next.
LEMMA WorkerInv ==
  ASSUME NotifierIInv, NEW w \in Loops,
         \/ Notifier!Look(w) \/ Notifier!Execute(w) \/ Notifier!Wait(w)
         \/ Notifier!Timeout(w) \/ Notifier!Resume(w)
  PROVE  NotifierIInv'
  <1>1. CASE Notifier!Look(w)
    <2>1. CASE Notifier!Unclaimed = {}
      <3>1. ~Announced  BY <2>1 DEF Notifier!Unclaimed, Announced, Notifier!Items
      <3>2. queued' = queued /\ event' = event /\ worker' = [worker EXCEPT ![w] = "idle"]
        BY <1>1, <2>1 DEF Notifier!Look
      <3> QED BY <3>1, <3>2 DEF NotifierIInv, NotifierShapes, Announced
    <2>2. CASE Notifier!Unclaimed # {}
      <3>1. PICK i \in Notifier!Unclaimed : queued' = [queued EXCEPT ![i] = "claimed"]
                                   /\ worker' = [worker EXCEPT ![w] = "executing"]
        BY <1>1, <2>2 DEF Notifier!Look
      <3>2. NotifierShapes'  BY <1>1, <3>1 DEF Notifier!Look, NotifierIInv, NotifierShapes
      <3>3. Looking'  BY <3>1 DEF NotifierIInv, NotifierShapes, Looking
      <3> QED BY <3>2, <3>3 DEF NotifierIInv
    <2> QED BY <2>1, <2>2
  <1>2. CASE Notifier!Execute(w) \/ Notifier!Timeout(w) \/ Notifier!Resume(w)
    <2>1. PICK s \in {"loop", "woken"} : worker' = [worker EXCEPT ![w] = s]
      BY <1>2 DEF Notifier!Execute, Notifier!Timeout, Notifier!Resume
    <2>2. queued' = queued /\ event' \in BOOLEAN
      BY <1>2 DEF Notifier!Execute, Notifier!Timeout, Notifier!Resume, NotifierIInv,
           NotifierShapes
    <2>3. NotifierShapes'  BY <2>1, <2>2 DEF NotifierIInv, NotifierShapes
    <2>4. Looking'  BY <2>1 DEF NotifierIInv, NotifierShapes, Looking
    <2> QED BY <2>3, <2>4 DEF NotifierIInv
  <1>3. CASE Notifier!Wait(w)
    <2>1. queued' = queued /\ event' = FALSE /\ worker[w] = "idle"
          /\ worker' = [worker EXCEPT ![w] = IF event THEN "loop" ELSE "waiting"]
      BY <1>3 DEF Notifier!Wait, Notifier!AtWait
    <2>2. NotifierShapes'  BY <2>1 DEF NotifierIInv, NotifierShapes
    <2>3. Looking => Looking'
      BY <2>1 DEF NotifierIInv, NotifierShapes, Looking
    <2> QED BY <2>1, <2>2, <2>3 DEF NotifierIInv, Announced
  <1> QED BY <1>1, <1>2, <1>3

\* Nothing changes in a stuttering step.
LEMMA NotifierStutterInv == NotifierIInv /\ UNCHANGED Notifier!vars => NotifierIInv'
  BY DEF Notifier!vars, NotifierIInv, NotifierShapes, Announced, Looking


\* The invariant behind the theorem below.
THEOREM NotifierInvariant == ServicesSpec => []NotifierIInv
  <1>1. ServicesInit => NotifierIInv  BY NotifierInitInv DEF ServicesInit
  <1>2. NotifierIInv /\ [Notifier!Next]_notifierVars => NotifierIInv'
    BY ItemsInv, ListenerInv, WorkerInv, NotifierStutterInv
       DEF Notifier!Next, notifierVars, Notifier!vars
  <1> QED BY <1>1, <1>2, NotifierSteps, PTL DEF ServicesSpec

Executing == {w \in Loops : worker[w] = "executing"}
Claimed == {i \in Notifier!Items : queued[i] = "claimed"}

\* What the workers execute they have claimed, and only a listener that is up has
\* a message to expect.
ExecutingIsClaimed ==
  /\ Cardinality(Executing) <= Cardinality(Claimed)
  /\ listener \in BOOLEAN /\ channel \in BOOLEAN /\ (channel => listener)

\* The notifier counts as the finite sets do.
LEMMA SameCardinality == \A S : Notifier!Cardinality(S) = Cardinality(S)
  BY DEF Cardinality, Notifier!Cardinality

\* As long as no worker begins to execute there is nothing to count anew.
LEMMA NobodyBegins ==
  ASSUME ExecutingIsClaimed, Executing' \subseteq Executing, Claimed \subseteq Claimed'
  PROVE  (Cardinality(Executing) <= Cardinality(Claimed))'
  <1>1. Executing \subseteq Loops /\ Claimed' \subseteq Local \union Remote
    BY DEF Executing, Claimed, Notifier!Items
  <1>2. IsFiniteSet(Executing) /\ IsFiniteSet(Claimed')
    BY <1>1, FS_Subset, ServicesAssumption
  <1>3. Cardinality(Executing') <= Cardinality(Executing)
        /\ Cardinality(Claimed) <= Cardinality(Claimed')
    BY <1>2, FS_Subset
  <1>4. IsFiniteSet(Executing') /\ IsFiniteSet(Claimed)  BY <1>2, FS_Subset
  <1>5. /\ Cardinality(Executing') \in Nat /\ Cardinality(Executing) \in Nat
        /\ Cardinality(Claimed') \in Nat /\ Cardinality(Claimed) \in Nat
    BY <1>2, <1>4, FS_CardinalityType
  <1> QED BY <1>3, <1>5 DEF ExecutingIsClaimed

\* A worker that begins has claimed an item nobody else has.
LEMMA SomebodyBegins ==
  ASSUME NotifierIInv, ExecutingIsClaimed, NEW w \in Loops, NEW i \in Notifier!Unclaimed,
         worker[w] = "loop",
         queued' = [queued EXCEPT ![i] = "claimed"],
         worker' = [worker EXCEPT ![w] = "executing"]
  PROVE  (Cardinality(Executing) <= Cardinality(Claimed))'
  <1>1. i \in Notifier!Items /\ i \notin Claimed /\ w \notin Executing
    BY DEF Notifier!Unclaimed, Claimed, Executing
  <1>2. Executing' = Executing \union {w} /\ Claimed' = Claimed \union {i}
    BY <1>1 DEF Executing, Claimed, NotifierIInv, NotifierShapes
  <1>3. Executing \subseteq Loops /\ Claimed \subseteq Local \union Remote
    BY DEF Executing, Claimed, Notifier!Items
  <1>4. IsFiniteSet(Executing) /\ IsFiniteSet(Claimed)
    BY <1>3, FS_Subset, ServicesAssumption
  <1>5. Cardinality(Executing') = Cardinality(Executing) + 1
        /\ Cardinality(Claimed') = Cardinality(Claimed) + 1
    BY <1>1, <1>2, <1>4, FS_AddElement
  <1>6. Cardinality(Executing) \in Nat /\ Cardinality(Claimed) \in Nat
    BY <1>4, FS_CardinalityType
  <1> QED BY <1>5, <1>6 DEF ExecutingIsClaimed

\* Every step keeps the count.
LEMMA ExecutingIsClaimedInv ==
  ASSUME NotifierIInv, ExecutingIsClaimed, Notifier!Next
  PROVE  ExecutingIsClaimed'
  <1> USE DEF NotifierIInv, NotifierShapes
  <1>1. ASSUME NEW i \in Notifier!Items,
               Notifier!Enqueue(i) \/ Notifier!PublishHere(i) \/ Notifier!PublishThere(i)
        PROVE  ExecutingIsClaimed'
    <2>1. Executing' \subseteq Executing
      BY <1>1 DEF Notifier!Enqueue, Notifier!PublishHere, Notifier!PublishThere,
                  Notifier!SetEvent, Executing
    <2>2. Claimed \subseteq Claimed'
      BY <1>1 DEF Notifier!Enqueue, Notifier!PublishHere, Notifier!PublishThere,
                  Notifier!Published, Claimed
    <2>3. listener' = listener /\ channel' \in {channel, channel \/ listener}
      BY <1>1 DEF Notifier!Enqueue, Notifier!PublishHere, Notifier!PublishThere
    <2> QED BY <2>1, <2>2, <2>3, NobodyBegins DEF ExecutingIsClaimed
  <1>2. CASE Notifier!Listen \/ Notifier!Reconnect
    <2>1. Executing' \subseteq Executing
      BY <1>2 DEF Notifier!Listen, Notifier!Reconnect, Notifier!SetEvent, Executing
    <2>2. Claimed' = Claimed  BY <1>2 DEF Notifier!Listen, Notifier!Reconnect, Claimed
    <2>3. channel' = FALSE /\ listener' \in BOOLEAN
      BY <1>2 DEF Notifier!Listen, Notifier!Reconnect, ExecutingIsClaimed
    <2> QED BY <2>1, <2>2, <2>3, NobodyBegins DEF ExecutingIsClaimed
  <1>3. ASSUME NEW w \in Loops,
               \/ Notifier!Look(w) \/ Notifier!Execute(w) \/ Notifier!Wait(w)
               \/ Notifier!Timeout(w) \/ Notifier!Resume(w)
        PROVE  ExecutingIsClaimed'
    <2>1. listener' = listener /\ channel' = channel
      BY <1>3 DEF Notifier!Look, Notifier!Execute, Notifier!Wait, Notifier!Timeout, Notifier!Resume
    <2>2. CASE Notifier!Look(w) /\ Notifier!Unclaimed # {}
      <3>1. PICK i \in Notifier!Unclaimed : /\ queued' = [queued EXCEPT ![i] = "claimed"]
                                            /\ worker' = [worker EXCEPT ![w] = "executing"]
        BY <2>2 DEF Notifier!Look
      <3>2. worker[w] = "loop"  BY <2>2 DEF Notifier!Look
      <3> QED BY <2>1, <3>1, <3>2, SomebodyBegins DEF ExecutingIsClaimed
    <2>3. CASE ~(Notifier!Look(w) /\ Notifier!Unclaimed # {})
      <3>1. PICK s \in {"loop", "idle", "waiting", "woken"} : worker' = [worker EXCEPT ![w] = s]
        BY <1>3, <2>3 DEF Notifier!Look, Notifier!Execute, Notifier!Wait, Notifier!Timeout,
                          Notifier!Resume
      <3>2. queued' = queued
        BY <1>3, <2>3 DEF Notifier!Look, Notifier!Execute, Notifier!Wait, Notifier!Timeout,
                          Notifier!Resume
      <3>3. Executing' \subseteq Executing  BY <3>1 DEF Executing
      <3>4. Claimed' = Claimed  BY <3>2 DEF Claimed
      <3> QED BY <2>1, <3>3, <3>4, NobodyBegins DEF ExecutingIsClaimed
    <2> QED BY <2>2, <2>3
  <1> QED BY <1>1, <1>2, <1>3 DEF Notifier!Next

\* The types, with the count.
THEOREM NotifierTypes == ServicesSpec => []Notifier!TypeOK
  <1>1. ServicesInit => ExecutingIsClaimed
    <2> SUFFICES ASSUME Notifier!Init PROVE ExecutingIsClaimed  BY DEF ServicesInit
    <2>1. Executing = {} /\ Claimed = {}  BY DEF Notifier!Init, Executing, Claimed
    <2>2. Cardinality(Executing) = 0 /\ Cardinality(Claimed) = 0  BY <2>1, FS_EmptySet
    <2>3. Cardinality(Executing) <= Cardinality(Claimed)  BY <2>2
    <2>4. listener = FALSE /\ channel = FALSE  BY DEF Notifier!Init
    <2>5. listener \in BOOLEAN /\ channel \in BOOLEAN /\ (channel => listener)  BY <2>4
    <2> QED BY <2>3, <2>5 DEF ExecutingIsClaimed
  <1>2. NotifierIInv /\ ExecutingIsClaimed /\ [Notifier!Next]_notifierVars => ExecutingIsClaimed'
    <2>1. UNCHANGED notifierVars /\ ExecutingIsClaimed => ExecutingIsClaimed'
      BY DEF notifierVars, ExecutingIsClaimed, Executing, Claimed
    <2> QED BY <2>1, ExecutingIsClaimedInv
  <1>3. NotifierIInv /\ ExecutingIsClaimed => Notifier!TypeOK
    BY SameCardinality
       DEF NotifierIInv, NotifierShapes, ExecutingIsClaimed, Executing, Claimed, Notifier!TypeOK
  <1> QED BY <1>1, <1>2, <1>3, NotifierInvariant, NotifierSteps, PTL DEF ServicesSpec

\* A wake-up of this process reaches a worker before all of them sleep, for any
\* number of workers that clear each other's event (QueueNotifier.wait).
THEOREM NotifierWakeUps == ServicesSpec => []WakeUpsAreNotLost
  <1>1. NotifierIInv => WakeUpsAreNotLost
    BY DEF NotifierIInv, Announced, Looking, WakeUpsAreNotLost, Notifier!WakeUpsAreNotLost
  <1> QED BY <1>1, NotifierInvariant, PTL

-----------------------------------------------------------------------------
(* The objects of the artifacts and their replicas (ArtifactStore).         *)

Objects == {"absent", "good", "bad"}
ArtifactRows == {"none", "available", "unavailable"}
ReplicaRows == {"none", "healthy", "missing", "corrupt"}

Anywhere == CHOOSE c \in Contents : TRUE

Scans ==
  [stage : {"next", "primary", "replica", "repair", "completed", "failed"}, repair : BOOLEAN,
   scanned : SUBSET Contents, left : SUBSET Contents, at : Contents \union {Anywhere},
   healthy : SUBSET Artifacts!Stores, source : BOOLEAN,
   loaded : [Contents -> [Artifacts!Stores -> ReplicaRows]], before : [Contents -> ArtifactRows],
   sets : [Contents -> [Artifacts!Stores -> ReplicaRows]], status : [Contents -> ArtifactRows]]

ArtifactShapes ==
  /\ object \in [Contents -> [Artifacts!Stores -> Objects]]
  /\ artifact \in [Contents -> ArtifactRows]
  /\ replica \in [Contents -> [Artifacts!Stores -> ReplicaRows]]
  /\ put \in [Putters -> {Artifacts!Ready} \union [stage : {"primary", "replica"}, content : Contents]]
  /\ run \in {Artifacts!Ready} \union Scans
  /\ faults \in 0..MaxFaults
  /\ quiet \in BOOLEAN

AtOne == run.stage \in {"primary", "replica", "repair"}
Scanning == run.stage = "next" \/ AtOne

\* The reconciliation changes the rows of artifacts that were known when it began.
ScanIsOfKnown ==
  /\ \A c \in Contents : artifact[c] = "none" => \A s \in Artifacts!Stores : replica[c][s] = "none"
  /\ Scanning =>
       /\ run.left \subseteq run.scanned
       /\ AtOne => run.at \in run.scanned \ run.left
       /\ \A c \in run.scanned : artifact[c] # "none"
       /\ \A c \in Contents \ run.scanned :
            run.status[c] = run.before[c] /\ run.sets[c] = run.loaded[c]
       /\ \A c \in Contents : run.status[c] # run.before[c] => run.status[c] # "none"

\* As long as there was no fault, a known artifact has what it was published with,
\* putters have verified what they have stored, and the reconciliation finds nothing
\* to repair.
NothingToRepair ==
  faults = 0 =>
    /\ \A c \in Contents : \A s \in Artifacts!Stores : object[c][s] # "bad"
    /\ \A c \in Contents : artifact[c] # "none" =>
         /\ artifact[c] = "available"
         /\ \A s \in Artifacts!Stores : object[c][s] = "good" /\ replica[c][s] = "healthy"
    /\ \A p \in Putters :
         /\ put[p].stage # "ready" => object[put[p].content]["primary"] = "good"
         /\ put[p].stage = "replica" => object[put[p].content]["replica"] = "good"
    /\ Scanning =>
         /\ run.sets = run.loaded /\ run.status = run.before
         /\ \A c \in run.scanned :
              run.before[c] = "available" /\ \A s \in Artifacts!Stores : run.loaded[c][s] = "healthy"
         /\ run.stage = "replica" => "primary" \in run.healthy
         /\ run.stage = "repair" => run.healthy = Artifacts!Stores

\* The rows the reconciliation is going to write of an artifact say what its objects
\* are, which it has repaired if it could.
Checked(c) ==
  IF Artifacts!Readable(c) = {} THEN run.status[c] = "unavailable"
  ELSE /\ run.status[c] = "available"
       /\ run.repair => Artifacts!Readable(c) = Artifacts!Stores /\ \A s \in Artifacts!Stores : run.sets[c][s] = "healthy"

\* As long as nobody else writes, the rows are those the reconciliation has loaded,
\* the artifacts behind it are checked, and it knows what is readable of the one it
\* is at.
ScanKnowsObjects ==
  quiet /\ Scanning =>
    /\ run.loaded = replica /\ run.before = artifact
    /\ \A c \in run.scanned \ run.left : (AtOne => c # run.at) => Checked(c)
    /\ run.stage = "primary" => run.healthy = {} /\ ~run.source
    /\ run.stage = "replica" => run.healthy = Artifacts!Readable(run.at) \ {"replica"}
    /\ run.stage = "repair" => run.healthy = Artifacts!Readable(run.at)
    /\ AtOne => (run.source <=> run.healthy # {})
    /\ AtOne => \A s \in run.healthy : run.sets[run.at][s] = "healthy"

ArtifactIInv ==
  /\ ArtifactShapes /\ ScanIsOfKnown /\ NothingToRepair /\ ScanKnowsObjects
  /\ Artifacts!CompletedRunsRepair

\* What a reconciliation that is at work has in its hands.
LEMMA ScanShape ==
  ASSUME ArtifactIInv
  PROVE  /\ run.stage # "ready" => run \in Scans
         /\ Scanning => run \in Scans
         /\ AtOne => run.at \in Contents /\ run.at \in run.scanned /\ run.at \notin run.left
         /\ run.stage = "ready" => run = Artifacts!Ready
  <1>1. run \in {Artifacts!Ready} \union Scans  BY DEF ArtifactIInv, ArtifactShapes
  <1>2. Artifacts!Ready.stage = "ready"  BY DEF Artifacts!Ready
  <1>3. \A r \in Scans : r.stage # "ready"  BY DEF Scans
  <1>4. Scanning => run.stage # "ready"  BY DEF Scanning, AtOne
  <1>5. Scanning => run \in Scans  BY <1>1, <1>2, <1>4
  <1>6. AtOne => run.at \in run.scanned \ run.left
    BY DEF ArtifactIInv, ScanIsOfKnown, Scanning
  <1>7. AtOne => run.at \in Contents  BY <1>5, <1>6 DEF Scans, Scanning
  <1> QED BY <1>1, <1>2, <1>3, <1>5, <1>6, <1>7

\* The types alone.
LEMMA ArtifactTypes == ArtifactIInv => Artifacts!TypeOK
  <1> SUFFICES ASSUME ArtifactIInv PROVE Artifacts!TypeOK  OBVIOUS
  <1>1. run.stage \in {"ready", "next", "primary", "replica", "repair", "completed", "failed"}
    BY ScanShape DEF Scans
  <1> QED BY <1>1 DEF Artifacts!TypeOK, ArtifactIInv, ArtifactShapes, ScanIsOfKnown, Objects, ArtifactRows,
                      ReplicaRows

\* There is nothing yet.
LEMMA ArtifactInitInv == Artifacts!Init => ArtifactIInv
  <1> SUFFICES ASSUME Artifacts!Init PROVE ArtifactIInv  OBVIOUS
  <1>1. run.stage = "ready" /\ ~Scanning  BY DEF Artifacts!Init, Artifacts!Ready, Scanning, AtOne
  <1>2. \A p \in Putters : put[p].stage = "ready"  BY DEF Artifacts!Init, Artifacts!Ready
  <1>3. ArtifactShapes
    <2>1. faults \in 0..MaxFaults  BY BoundsAreNat DEF Artifacts!Init
    <2>2. /\ object \in [Contents -> [Artifacts!Stores -> Objects]]
          /\ artifact \in [Contents -> ArtifactRows]
          /\ replica \in [Contents -> [Artifacts!Stores -> ReplicaRows]]
      BY DEF Artifacts!Init, Objects, ArtifactRows, ReplicaRows
    <2> QED BY <2>1, <2>2 DEF Artifacts!Init, ArtifactShapes
  <1>4. ScanIsOfKnown  BY <1>1 DEF Artifacts!Init, ScanIsOfKnown
  <1>5. NothingToRepair  BY <1>1, <1>2 DEF Artifacts!Init, NothingToRepair
  <1>6. ScanKnowsObjects /\ Artifacts!CompletedRunsRepair
    BY <1>1 DEF ScanKnowsObjects, Artifacts!CompletedRunsRepair
  <1> QED BY <1>3, <1>4, <1>5, <1>6 DEF ArtifactIInv

\* Nothing changes in a stuttering step.
LEMMA ArtifactStutterInv == ArtifactIInv /\ UNCHANGED Artifacts!vars => ArtifactIInv'
  <1> SUFFICES ASSUME ArtifactIInv, UNCHANGED Artifacts!vars PROVE ArtifactIInv'  OBVIOUS
  <1>1. UNCHANGED <<object, artifact, replica, put, run, faults, quiet>>  BY DEF Artifacts!vars
  <1>2. ArtifactShapes' /\ ScanIsOfKnown' /\ NothingToRepair'
    BY <1>1 DEF ArtifactIInv, ArtifactShapes, ScanIsOfKnown, NothingToRepair, Scanning, AtOne
  <1>3. ScanKnowsObjects' /\ Artifacts!CompletedRunsRepair'
    BY <1>1 DEF ArtifactIInv, ScanKnowsObjects, Artifacts!CompletedRunsRepair, Scanning, AtOne, Checked,
                Artifacts!Readable
  <1> QED BY <1>2, <1>3 DEF ArtifactIInv

-----------------------------------------------------------------------------
(* Putters and faults: the reconciliation is not alone any more.            *)

\* A store that is written, and verified.
LEMMA StoreInv ==
  ASSUME ArtifactIInv, NEW p \in Putters, NEW c \in Contents, NEW s \in Artifacts!Stores, Artifacts!Store(p, c, s),
         s = "replica" => put[p].stage = "primary" /\ put[p].content = c
  PROVE  ArtifactIInv'
  <1>1. quiet' = FALSE /\ UNCHANGED <<artifact, replica, run, faults>>  BY DEF Artifacts!Store
  <1> DEFINE e == IF Artifacts!Refuses(s, c) THEN Artifacts!Ready ELSE [stage |-> s, content |-> c]
  <1>2. put' = [put EXCEPT ![p] = e]  BY DEF Artifacts!Store
  <1>3. e \in {Artifacts!Ready} \union [stage : {"primary", "replica"}, content : Contents]
    BY DEF Artifacts!Stores
  <1>4. e.stage # "ready" => ~Artifacts!Refuses(s, c) /\ e.stage = s /\ e.content = c
    BY DEF Artifacts!Ready
  <1> HIDE DEF e
  <1>5. object' \in [Contents -> [Artifacts!Stores -> Objects]]
    BY DEF Artifacts!Store, ArtifactIInv, ArtifactShapes, Objects
  <1>6. \A x \in Contents, t \in Artifacts!Stores :
          object'[x][t] = object[x][t] \/ object'[x][t] = "good"
    BY DEF Artifacts!Store, ArtifactIInv, ArtifactShapes
  <1>7. ~Artifacts!Refuses(s, c) => object'[c][s] = "good"
    BY DEF Artifacts!Store, ArtifactIInv, ArtifactShapes
  <1>8. put' \in [Putters -> {Artifacts!Ready} \union [stage : {"primary", "replica"}, content : Contents]]
        /\ put'[p] = e /\ \A q \in Putters : q # p => put'[q] = put[q]
    BY <1>2, <1>3 DEF ArtifactIInv, ArtifactShapes
  <1>9. ArtifactShapes'
    BY <1>1, <1>5, <1>8 DEF ArtifactIInv, ArtifactShapes
  <1>10. ScanIsOfKnown'
    BY <1>1 DEF ArtifactIInv, ScanIsOfKnown, Scanning, AtOne
  <1>11. NothingToRepair'
    <2> SUFFICES ASSUME faults = 0 PROVE NothingToRepair'  BY <1>1 DEF NothingToRepair
    <2>1. \A x \in Contents : \A t \in Artifacts!Stores : object'[x][t] # "bad"
      BY <1>6 DEF ArtifactIInv, NothingToRepair
    <2>2. \A x \in Contents : artifact'[x] # "none" =>
            /\ artifact'[x] = "available"
            /\ \A t \in Artifacts!Stores : object'[x][t] = "good" /\ replica'[x][t] = "healthy"
      BY <1>1, <1>6 DEF ArtifactIInv, NothingToRepair
    <2>3. \A q \in Putters : q # p =>
            /\ put'[q].stage # "ready" => object'[put'[q].content]["primary"] = "good"
            /\ put'[q].stage = "replica" => object'[put'[q].content]["replica"] = "good"
      <3>1. \A q \in Putters : put[q].stage # "ready" => put[q].content \in Contents
        BY DEF ArtifactIInv, ArtifactShapes, Artifacts!Ready
      <3>2. "primary" \in Artifacts!Stores /\ "replica" \in Artifacts!Stores  BY DEF Artifacts!Stores
      <3>3. \A q \in Putters :
              /\ put[q].stage # "ready" => object[put[q].content]["primary"] = "good"
              /\ put[q].stage = "replica" => object[put[q].content]["replica"] = "good"
        BY DEF ArtifactIInv, NothingToRepair
      <3> QED BY <1>6, <1>8, <3>1, <3>2, <3>3
    <2>4. /\ put'[p].stage # "ready" => object'[put'[p].content]["primary"] = "good"
          /\ put'[p].stage = "replica" => object'[put'[p].content]["replica"] = "good"
      <3>1. CASE e.stage = "ready"  BY <1>8, <3>1
      <3>2. CASE e.stage # "ready" /\ s = "primary"  BY <1>4, <1>7, <1>8, <3>2
      <3>3. CASE e.stage # "ready" /\ s = "replica"
        <4>1. object[c]["primary"] = "good"  BY <3>3 DEF ArtifactIInv, NothingToRepair
        <4>2. object'[c]["primary"] = "good"  BY <4>1, <1>6 DEF Artifacts!Stores
        <4> QED BY <1>4, <1>7, <1>8, <3>3, <4>2
      <3> QED BY <3>1, <3>2, <3>3 DEF Artifacts!Stores
    <2> QED BY <1>1, <2>1, <2>2, <2>3, <2>4 DEF ArtifactIInv, NothingToRepair, Scanning, AtOne
  <1>12. ScanKnowsObjects' /\ Artifacts!CompletedRunsRepair'
    BY <1>1 DEF ScanKnowsObjects, Artifacts!CompletedRunsRepair
  <1> QED BY <1>9, <1>10, <1>11, <1>12 DEF ArtifactIInv

\* The rows of an artifact both stores have verified.
LEMMA PutRowsInv ==
  ASSUME ArtifactIInv, NEW p \in Putters, Artifacts!PutRows(p)
  PROVE  ArtifactIInv'
  <1> DEFINE k == put[p].content
             both == [s \in Artifacts!Stores |-> "healthy"]
  <1>1. /\ put[p].stage = "replica" /\ quiet' = FALSE /\ UNCHANGED <<object, run, faults>>
        /\ artifact' = [artifact EXCEPT ![k] = "available"]
        /\ replica' = [replica EXCEPT ![k] = both]
        /\ put' = [put EXCEPT ![p] = Artifacts!Ready]
    BY DEF Artifacts!PutRows, Artifacts!Publishes
  <1>2. k \in Contents  BY <1>1 DEF ArtifactIInv, ArtifactShapes, Artifacts!Ready
  <1>3. both \in [Artifacts!Stores -> ReplicaRows] /\ \A s \in Artifacts!Stores : both[s] = "healthy"
    BY DEF ReplicaRows
  <1> HIDE DEF k, both
  <1>4. ArtifactShapes'
    BY <1>1, <1>2, <1>3 DEF ArtifactIInv, ArtifactShapes, ArtifactRows
  <1>5. /\ artifact'[k] = "available" /\ replica'[k] = both
        /\ \A c \in Contents : c # k => artifact'[c] = artifact[c] /\ replica'[c] = replica[c]
    BY <1>1, <1>2 DEF ArtifactIInv, ArtifactShapes
  <1>6. ScanIsOfKnown'
    <2>1. \A c \in Contents : artifact'[c] = "none" => \A s \in Artifacts!Stores : replica'[c][s] = "none"
      BY <1>5 DEF ArtifactIInv, ScanIsOfKnown
    <2>2. \A c \in Contents : artifact[c] # "none" => artifact'[c] # "none"  BY <1>5
    <2>3. Scanning => run.scanned \subseteq Contents  BY ScanShape DEF Scans
    <2> QED BY <1>1, <2>1, <2>2, <2>3 DEF ArtifactIInv, ScanIsOfKnown, Scanning, AtOne
  <1>7. NothingToRepair'
    <2> SUFFICES ASSUME faults = 0 PROVE NothingToRepair'  BY <1>1 DEF NothingToRepair
    <2>1. \A s \in Artifacts!Stores : object[k][s] = "good"
      BY <1>1 DEF ArtifactIInv, NothingToRepair, Artifacts!Stores, k
    <2>2. \A c \in Contents : artifact'[c] # "none" =>
            /\ artifact'[c] = "available"
            /\ \A s \in Artifacts!Stores : object'[c][s] = "good" /\ replica'[c][s] = "healthy"
      BY <1>1, <1>3, <1>5, <2>1 DEF ArtifactIInv, NothingToRepair
    <2>3. \A q \in Putters : put'[q].stage # "ready" => put'[q] = put[q]
      BY <1>1 DEF ArtifactIInv, ArtifactShapes, Artifacts!Ready
    <2>4. \A q \in Putters :
            /\ put'[q].stage # "ready" => object'[put'[q].content]["primary"] = "good"
            /\ put'[q].stage = "replica" => object'[put'[q].content]["replica"] = "good"
      BY <1>1, <2>3 DEF ArtifactIInv, NothingToRepair
    <2> QED BY <1>1, <2>2, <2>4 DEF ArtifactIInv, NothingToRepair, Scanning, AtOne
  <1>8. ScanKnowsObjects' /\ Artifacts!CompletedRunsRepair'
    BY <1>1 DEF ScanKnowsObjects, Artifacts!CompletedRunsRepair
  <1> QED BY <1>4, <1>6, <1>7, <1>8 DEF ArtifactIInv

\* A putter that dies has nothing to undo.
LEMMA PutDiesInv ==
  ASSUME ArtifactIInv, NEW p \in Putters, Artifacts!PutDies(p)
  PROVE  ArtifactIInv'
  <1>1. put' = [put EXCEPT ![p] = Artifacts!Ready]
        /\ UNCHANGED <<object, artifact, replica, run, faults, quiet>>
    BY DEF Artifacts!PutDies
  <1>2. ArtifactShapes'  BY <1>1 DEF ArtifactIInv, ArtifactShapes
  <1>3. \A q \in Putters : put'[q].stage # "ready" => put'[q] = put[q]
    BY <1>1 DEF ArtifactIInv, ArtifactShapes, Artifacts!Ready
  <1>4. NothingToRepair'
    BY <1>1, <1>3 DEF ArtifactIInv, NothingToRepair, Scanning, AtOne
  <1>5. ScanIsOfKnown'  BY <1>1 DEF ArtifactIInv, ScanIsOfKnown, Scanning, AtOne
  <1>6. ScanKnowsObjects' /\ Artifacts!CompletedRunsRepair'
    BY <1>1 DEF ArtifactIInv, ScanKnowsObjects, Artifacts!CompletedRunsRepair, Scanning, AtOne, Checked,
                Artifacts!Readable
  <1> QED BY <1>2, <1>4, <1>5, <1>6 DEF ArtifactIInv

\* An object or a row is lost.
LEMMA FaultInv ==
  ASSUME ArtifactIInv, Artifacts!Fault
  PROVE  ArtifactIInv'
  <1>1. /\ faults < MaxFaults /\ faults' = faults + 1 /\ quiet' = FALSE
        /\ UNCHANGED <<artifact, put, run>>
    BY DEF Artifacts!Fault
  <1>2. /\ object' \in [Contents -> [Artifacts!Stores -> Objects]]
        /\ replica' \in [Contents -> [Artifacts!Stores -> ReplicaRows]]
        /\ \A c \in Contents, s \in Artifacts!Stores : replica[c][s] = "none" => replica'[c][s] = "none"
    <2>1. PICK c \in Contents, s \in Artifacts!Stores :
            \/ /\ object' \in {[object EXCEPT ![c][s] = o] : o \in {"absent", "bad"}}
               /\ UNCHANGED replica
            \/ /\ replica' = [replica EXCEPT ![c][s] = "none"]
               /\ UNCHANGED object
      BY DEF Artifacts!Fault
    <2>2. CASE \E o \in {"absent", "bad"} : object' = [object EXCEPT ![c][s] = o]
               /\ replica' = replica
      BY <2>2 DEF ArtifactIInv, ArtifactShapes, Objects
    <2>3. CASE replica' = [replica EXCEPT ![c][s] = "none"] /\ object' = object
      BY <2>3 DEF ArtifactIInv, ArtifactShapes, ReplicaRows
    <2> QED BY <2>1, <2>2, <2>3
  <1>3. faults' \in 0..MaxFaults /\ faults' # 0
    BY <1>1, BoundsAreNat DEF ArtifactIInv, ArtifactShapes
  <1>4. ArtifactShapes'  BY <1>1, <1>2, <1>3 DEF ArtifactIInv, ArtifactShapes
  <1>5. ScanIsOfKnown'
    BY <1>1, <1>2 DEF ArtifactIInv, ScanIsOfKnown, Scanning, AtOne
  <1>6. NothingToRepair' /\ ScanKnowsObjects' /\ Artifacts!CompletedRunsRepair'
    BY <1>1, <1>3 DEF NothingToRepair, ScanKnowsObjects, Artifacts!CompletedRunsRepair
  <1> QED BY <1>4, <1>5, <1>6 DEF ArtifactIInv

-----------------------------------------------------------------------------
(* The reconciliation.                                                      *)

\* What a run writes of itself alone keeps what is said of the others.
LEMMA RunAlone ==
  ASSUME ArtifactIInv, UNCHANGED <<object, artifact, replica, put, faults>>,
         run' \in {Artifacts!Ready} \union Scans, quiet' \in BOOLEAN,
         Scanning' =>
           /\ run'.left \subseteq run'.scanned
           /\ AtOne' => run'.at \in run'.scanned \ run'.left
           /\ \A c \in run'.scanned : artifact[c] # "none"
           /\ \A c \in Contents \ run'.scanned :
                run'.status[c] = run'.before[c] /\ run'.sets[c] = run'.loaded[c]
           /\ \A c \in Contents : run'.status[c] # run'.before[c] => run'.status[c] # "none",
         faults = 0 /\ Scanning' =>
           /\ run'.sets = run'.loaded /\ run'.status = run'.before
           /\ \A c \in run'.scanned :
                run'.before[c] = "available" /\ \A s \in Artifacts!Stores : run'.loaded[c][s] = "healthy"
           /\ run'.stage = "replica" => "primary" \in run'.healthy
           /\ run'.stage = "repair" => run'.healthy = Artifacts!Stores
  PROVE  ArtifactShapes' /\ ScanIsOfKnown' /\ NothingToRepair'
  <1>1. ArtifactShapes'  BY DEF ArtifactIInv, ArtifactShapes
  <1>2. ScanIsOfKnown'  BY DEF ArtifactIInv, ScanIsOfKnown
  <1>3. NothingToRepair'
    <2> SUFFICES ASSUME faults = 0 PROVE NothingToRepair'  BY DEF NothingToRepair
    <2>1. /\ \A c \in Contents : \A s \in Artifacts!Stores : object'[c][s] # "bad"
          /\ \A c \in Contents : artifact'[c] # "none" =>
               /\ artifact'[c] = "available"
               /\ \A s \in Artifacts!Stores : object'[c][s] = "good" /\ replica'[c][s] = "healthy"
          /\ \A p \in Putters :
               /\ put'[p].stage # "ready" => object'[put'[p].content]["primary"] = "good"
               /\ put'[p].stage = "replica" => object'[put'[p].content]["replica"] = "good"
      BY DEF ArtifactIInv, NothingToRepair
    <2> QED BY <2>1 DEF NothingToRepair
  <1> QED BY <1>1, <1>2, <1>3

\* A run begins with the artifacts that are known and their rows.
LEMMA BeginInv ==
  ASSUME ArtifactIInv, Artifacts!Begin
  PROVE  ArtifactIInv'
  <1> DEFINE known == {c \in Contents : artifact[c] # "none"}
             first(r) == [stage |-> "next", repair |-> r, scanned |-> known, left |-> known,
                          at |-> Anywhere, healthy |-> {}, source |-> FALSE,
                          loaded |-> replica, before |-> artifact,
                          sets |-> replica, status |-> artifact]
  <1>1. PICK r \in BOOLEAN : run' = first(r)
    BY DEF Artifacts!Begin, Anywhere
  <1>2. quiet' = TRUE /\ UNCHANGED <<object, artifact, replica, put, faults>>
    BY DEF Artifacts!Begin
  <1>3. /\ run'.stage = "next" /\ run'.scanned = known /\ run'.left = known
        /\ run'.loaded = replica /\ run'.before = artifact
        /\ run'.sets = replica /\ run'.status = artifact
    BY <1>1
  <1>4. run' \in Scans  BY <1>1 DEF Scans, ArtifactIInv, ArtifactShapes
  <1>5. Scanning' /\ ~AtOne'  BY <1>3 DEF Scanning, AtOne
  <1>6. ArtifactShapes' /\ ScanIsOfKnown' /\ NothingToRepair'
    <2>1. faults = 0 => \A c \in known :
            artifact[c] = "available" /\ \A s \in Artifacts!Stores : replica[c][s] = "healthy"
      BY DEF ArtifactIInv, NothingToRepair
    <2>2. quiet' \in BOOLEAN  BY <1>2
    <2>3. \A c \in Contents : run'.status[c] = run'.before[c] /\ run'.sets[c] = run'.loaded[c]
      BY <1>3
    <2>4. \A c \in run'.scanned : artifact[c] # "none"  BY <1>3
    <2> QED BY <1>2, <1>3, <1>4, <1>5, <2>1, <2>2, <2>3, <2>4, RunAlone
  <1>7. ScanKnowsObjects'
    BY <1>2, <1>3, <1>5 DEF ScanKnowsObjects, AtOne
  <1>8. Artifacts!CompletedRunsRepair'  BY <1>3 DEF Artifacts!CompletedRunsRepair
  <1> QED BY <1>6, <1>7, <1>8 DEF ArtifactIInv

LEMMA NextArtifactInv ==
  ASSUME ArtifactIInv, Artifacts!NextArtifact
  PROVE  ArtifactIInv'
  <1> DEFINE no == FALSE
  <1>1. PICK c \in run.left :
          run' = [run EXCEPT !.stage = "primary", !.left = @ \ {c}, !.at = c, !.healthy = {},
                             !.source = no]
    BY DEF Artifacts!NextArtifact
  <1>2. run.stage = "next" /\ UNCHANGED <<object, artifact, replica, put, faults, quiet>>
    BY DEF Artifacts!NextArtifact
  <1>3. Scanning /\ ~AtOne  BY <1>2 DEF Scanning, AtOne
  <1>4. run \in Scans  BY <1>3, ScanShape
  <1>5. no \in BOOLEAN /\ ~no  OBVIOUS
  <1> HIDE DEF no
  <1>6. c \in Contents /\ c \in run.scanned
    BY <1>3, <1>4 DEF Scans, ArtifactIInv, ScanIsOfKnown
  <1>7. /\ run'.stage = "primary" /\ run'.left = run.left \ {c} /\ run'.at = c
        /\ run'.healthy = {} /\ run'.source = no
        /\ run'.repair = run.repair /\ run'.scanned = run.scanned /\ run'.loaded = run.loaded
        /\ run'.before = run.before /\ run'.sets = run.sets /\ run'.status = run.status
    BY <1>1, <1>4 DEF Scans
  <1>8. run' \in Scans  BY <1>1, <1>4, <1>5, <1>6 DEF Scans
  <1>9. ArtifactShapes' /\ ScanIsOfKnown' /\ NothingToRepair'
    <2>1. quiet' \in BOOLEAN  BY <1>2 DEF ArtifactIInv, ArtifactShapes
    <2>2. /\ run'.left \subseteq run'.scanned
          /\ run'.at \in run'.scanned \ run'.left
          /\ \A x \in run'.scanned : artifact[x] # "none"
          /\ \A x \in Contents \ run'.scanned :
               run'.status[x] = run'.before[x] /\ run'.sets[x] = run'.loaded[x]
          /\ \A x \in Contents : run'.status[x] # run'.before[x] => run'.status[x] # "none"
      BY <1>3, <1>6, <1>7 DEF ArtifactIInv, ScanIsOfKnown
    <2>3. faults = 0 =>
            /\ run'.sets = run'.loaded /\ run'.status = run'.before
            /\ \A x \in run'.scanned :
                 run'.before[x] = "available" /\ \A s \in Artifacts!Stores : run'.loaded[x][s] = "healthy"
      BY <1>3, <1>7 DEF ArtifactIInv, NothingToRepair
    <2> QED BY <1>2, <1>7, <1>8, <2>1, <2>2, <2>3, RunAlone
  <1>10. ScanKnowsObjects'
    <2> SUFFICES ASSUME quiet PROVE ScanKnowsObjects'  BY <1>2 DEF ScanKnowsObjects
    <2>1. run'.loaded = replica' /\ run'.before = artifact'
      BY <1>2, <1>3, <1>7 DEF ArtifactIInv, ScanKnowsObjects
    <2>2. \A x \in run.scanned \ run.left : Checked(x)
      BY <1>3 DEF ArtifactIInv, ScanKnowsObjects
    <2>3. \A x : Checked(x)' <=> Checked(x)  BY <1>2, <1>7 DEF Checked, Artifacts!Readable
    <2>4. \A x \in run'.scanned \ run'.left : x # run'.at => Checked(x)'
      BY <1>7, <2>2, <2>3
    <2> QED BY <1>5, <1>7, <2>1, <2>4 DEF ScanKnowsObjects, AtOne
  <1>11. Artifacts!CompletedRunsRepair'  BY <1>7 DEF Artifacts!CompletedRunsRepair
  <1> QED BY <1>9, <1>10, <1>11 DEF ArtifactIInv

\* The row of a replica that a head decides.
LEMMA NotedRows ==
  ASSUME ArtifactIInv, AtOne, NEW s \in Artifacts!Stores, NEW st \in {"healthy", "missing", "corrupt"}
  PROVE  /\ Artifacts!Noted(s, st) \in [Contents -> [Artifacts!Stores -> ReplicaRows]]
         /\ \A c \in Contents : c # run.at => Artifacts!Noted(s, st)[c] = run.sets[c]
         /\ \A x \in Artifacts!Stores : x # s => Artifacts!Noted(s, st)[run.at][x] = run.sets[run.at][x]
         /\ st = "healthy" => Artifacts!Noted(s, st)[run.at][s] = "healthy"
         /\ st = "healthy" /\ run.sets[run.at][s] = "healthy" => Artifacts!Noted(s, st) = run.sets
  <1>1. run.sets \in [Contents -> [Artifacts!Stores -> ReplicaRows]] /\ run.at \in Contents
    BY ScanShape DEF Scans, Scanning
  <1> DEFINE n == [run.sets EXCEPT ![run.at][s] = st]
  <1>2. /\ n \in [Contents -> [Artifacts!Stores -> ReplicaRows]]
        /\ \A c \in Contents : c # run.at => n[c] = run.sets[c]
        /\ \A x \in Artifacts!Stores : x # s => n[run.at][x] = run.sets[run.at][x]
        /\ n[run.at][s] = st
    BY <1>1 DEF ReplicaRows
  <1>3. run.sets[run.at][s] = st => n = run.sets
    BY <1>1
  <1>4. Artifacts!Noted(s, st) = n \/ (st # "healthy" /\ Artifacts!Noted(s, st) = run.sets)
    <2>1. CASE run.loaded[run.at][s] = "none" /\ st # "healthy"
      BY <2>1 DEF Artifacts!Noted
    <2>2. CASE ~(run.loaded[run.at][s] = "none" /\ st # "healthy")
      BY <2>2 DEF Artifacts!Noted
    <2> QED BY <2>1, <2>2
  <1> HIDE DEF n
  <1> QED BY <1>1, <1>2, <1>3, <1>4

\* Where a run is at one artifact, what it goes on with is of that artifact.
LEMMA AtOneKept ==
  ASSUME ArtifactIInv, AtOne, UNCHANGED <<object, artifact, replica, put, faults, quiet>>,
         run' \in Scans, run'.stage \in {"primary", "replica", "repair"},
         UNCHANGED <<run.left, run.at, run.repair, run.scanned, run.loaded, run.before,
                     run.status>>,
         \A c \in Contents : c # run.at => run'.sets[c] = run.sets[c],
         faults = 0 =>
           /\ run'.sets = run.sets
           /\ run'.stage = "replica" => "primary" \in run'.healthy
           /\ run'.stage = "repair" => run'.healthy = Artifacts!Stores,
         quiet =>
           /\ run'.stage = "primary" => run'.healthy = {} /\ ~run'.source
           /\ run'.stage = "replica" => run'.healthy = Artifacts!Readable(run.at) \ {"replica"}
           /\ run'.stage = "repair" => run'.healthy = Artifacts!Readable(run.at)
           /\ run'.source <=> run'.healthy # {}
           /\ \A s \in run'.healthy : run'.sets[run.at][s] = "healthy"
  PROVE  ArtifactIInv'
  <1>1. run \in Scans /\ run.at \in Contents /\ run.at \in run.scanned /\ run.at \notin run.left
        /\ Scanning
    BY ScanShape DEF Scanning
  <1>2. run'.left = run.left /\ run'.at = run.at /\ run'.repair = run.repair
        /\ run'.scanned = run.scanned /\ run'.loaded = run.loaded
        /\ run'.before = run.before /\ run'.status = run.status
    OBVIOUS
  <1>3. ArtifactShapes' /\ ScanIsOfKnown' /\ NothingToRepair'
    <2>1. quiet' \in BOOLEAN  BY DEF ArtifactIInv, ArtifactShapes
    <2>2. /\ run'.left \subseteq run'.scanned
          /\ run'.at \in run'.scanned \ run'.left
          /\ \A x \in run'.scanned : artifact[x] # "none"
          /\ \A x \in Contents \ run'.scanned :
               run'.status[x] = run'.before[x] /\ run'.sets[x] = run'.loaded[x]
          /\ \A x \in Contents : run'.status[x] # run'.before[x] => run'.status[x] # "none"
      BY <1>1, <1>2 DEF ArtifactIInv, ScanIsOfKnown
    <2>3. faults = 0 =>
            /\ run'.sets = run'.loaded /\ run'.status = run'.before
            /\ \A x \in run'.scanned :
                 run'.before[x] = "available" /\ \A s \in Artifacts!Stores : run'.loaded[x][s] = "healthy"
      BY <1>1, <1>2 DEF ArtifactIInv, NothingToRepair
    <2> QED BY <2>1, <2>2, <2>3, RunAlone
  <1>4. ScanKnowsObjects'
    <2> SUFFICES ASSUME quiet PROVE ScanKnowsObjects'  BY DEF ScanKnowsObjects
    <2>1. run'.loaded = replica' /\ run'.before = artifact'
      BY <1>1, <1>2 DEF ArtifactIInv, ScanKnowsObjects
    <2>2. \A x \in run.scanned \ run.left : x # run.at => Checked(x)
      BY <1>1 DEF ArtifactIInv, ScanKnowsObjects
    <2>3. \A x \in Contents : x # run.at => (Checked(x)' <=> Checked(x))
      BY <1>2 DEF Checked, Artifacts!Readable
    <2>4. \A x \in run'.scanned \ run'.left : x # run'.at => Checked(x)'
      BY <1>1, <1>2, <2>2, <2>3 DEF Scans
    <2>5. Artifacts!Readable(run.at)' = Artifacts!Readable(run.at)  BY <1>2 DEF Artifacts!Readable
    <2>6. /\ (run.stage = "primary" => run.healthy = {} /\ ~run.source)'
          /\ (run.stage = "replica" => run.healthy = Artifacts!Readable(run.at) \ {"replica"})'
          /\ (run.stage = "repair" => run.healthy = Artifacts!Readable(run.at))'
          /\ (run.source <=> run.healthy # {})'
          /\ (\A s \in run.healthy : run.sets[run.at][s] = "healthy")'
      BY <1>2, <2>5
    <2> QED BY <1>2, <2>1, <2>4, <2>6 DEF ScanKnowsObjects, AtOne
  <1>5. Artifacts!CompletedRunsRepair'  BY DEF Artifacts!CompletedRunsRepair
  <1> QED BY <1>3, <1>4, <1>5 DEF ArtifactIInv

\* A run that has ended without a result, or died.
LEMMA RunEndsInv ==
  ASSUME ArtifactIInv, UNCHANGED <<object, artifact, replica, put, faults, quiet>>,
         run' = Artifacts!Ready \/ (run' \in Scans /\ run'.stage = "failed")
  PROVE  ArtifactIInv'
  <1>1. run'.stage \in {"ready", "failed"}  BY DEF Artifacts!Ready
  <1>2. ~Scanning' /\ run' \in {Artifacts!Ready} \union Scans  BY <1>1 DEF Scanning, AtOne
  <1>3. quiet' \in BOOLEAN  BY DEF ArtifactIInv, ArtifactShapes
  <1>4. ArtifactShapes' /\ ScanIsOfKnown' /\ NothingToRepair'  BY <1>2, <1>3, RunAlone
  <1>5. ScanKnowsObjects' /\ Artifacts!CompletedRunsRepair'
    BY <1>1, <1>2 DEF ScanKnowsObjects, Artifacts!CompletedRunsRepair
  <1> QED BY <1>4, <1>5 DEF ArtifactIInv

\* A head: of the objects it accepts, those that the run goes on with are readable.
LEMMA HeadInv ==
  ASSUME ArtifactIInv, Artifacts!HeadPrimary \/ Artifacts!HeadReplica
  PROVE  ArtifactIInv'
  <1> DEFINE yes == TRUE
  <1>1. PICK s \in Artifacts!Stores : \E n \in {"replica", "repair"} :
          Artifacts!Head(s, n) /\ (s = "primary" <=> n = "replica")
    BY DEF Artifacts!HeadPrimary, Artifacts!HeadReplica, Artifacts!Stores
  <1>2. PICK n \in {"replica", "repair"} : Artifacts!Head(s, n) /\ (s = "primary" <=> n = "replica")
    BY <1>1
  <1>3. run.stage = s /\ UNCHANGED <<object, artifact, replica, put, faults, quiet>>
    BY <1>2 DEF Artifacts!Head
  <1>4. AtOne /\ Scanning  BY <1>3 DEF AtOne, Scanning, Artifacts!Stores
  <1>5. run \in Scans /\ run.at \in Contents /\ run.at \in run.scanned
    BY <1>4, ScanShape
  <1>6. object[run.at][s] \in Objects  BY <1>5 DEF ArtifactIInv, ArtifactShapes
  <1>7. faults = 0 => object[run.at][s] = "good"
    BY <1>4, <1>5 DEF ArtifactIInv, NothingToRepair, ScanIsOfKnown
  <1>8. faults = 0 => run.sets[run.at][s] = "healthy"
    BY <1>4, <1>5 DEF ArtifactIInv, NothingToRepair
  <1>9. quiet => run.healthy = (IF s = "primary" THEN {} ELSE Artifacts!Readable(run.at) \ {"replica"})
                 /\ (run.source <=> run.healthy # {})
                 /\ \A x \in run.healthy : run.sets[run.at][x] = "healthy"
    BY <1>3, <1>4 DEF ArtifactIInv, ScanKnowsObjects, Artifacts!Stores
  <1>10. s = "replica" /\ faults = 0 => "primary" \in run.healthy
    BY <1>3, <1>4 DEF ArtifactIInv, NothingToRepair
  <1>11. yes \in BOOLEAN /\ yes  OBVIOUS
  <1> HIDE DEF yes
  <1>12. CASE ~Artifacts!HeadAgrees(s)
    <2>1. PICK st \in {"missing", "corrupt"} :
            run' = [run EXCEPT !.stage = n, !.sets = Artifacts!Noted(s, st)]
      BY <1>2, <1>12 DEF Artifacts!Head
    <2>2. /\ Artifacts!Noted(s, st) \in [Contents -> [Artifacts!Stores -> ReplicaRows]]
          /\ \A c \in Contents : c # run.at => Artifacts!Noted(s, st)[c] = run.sets[c]
          /\ \A x \in Artifacts!Stores : x # s => Artifacts!Noted(s, st)[run.at][x] = run.sets[run.at][x]
      BY <1>4, NotedRows
    <2>3. object[run.at][s] # "good"  BY <1>12 DEF Artifacts!HeadAgrees
    <2>4. /\ run'.stage = n /\ run'.sets = Artifacts!Noted(s, st) /\ run'.healthy = run.healthy
          /\ run'.source = run.source
          /\ UNCHANGED <<run.left, run.at, run.repair, run.scanned, run.loaded, run.before,
                         run.status>>
      BY <1>5, <2>1 DEF Scans
    <2>5. run' \in Scans  BY <1>5, <2>1, <2>2 DEF Scans
    <2>6. faults # 0  BY <1>7, <2>3
    <2>7. s \notin Artifacts!Readable(run.at)  BY <2>3 DEF Artifacts!Readable
    <2>8. quiet => run'.healthy = (IF n = "replica" THEN Artifacts!Readable(run.at) \ {"replica"}
                                   ELSE Artifacts!Readable(run.at))
      BY <1>2, <1>9, <2>4, <2>7 DEF Artifacts!Readable, Artifacts!Stores
    <2>9. quiet => \A x \in run'.healthy : run'.sets[run.at][x] = "healthy"
      BY <1>9, <2>2, <2>4, <2>7, <2>8 DEF Artifacts!Readable
    <2> QED BY <1>3, <1>4, <1>9, <2>2, <2>4, <2>5, <2>6, <2>8, <2>9, AtOneKept
  <1>13. CASE Artifacts!HeadAgrees(s) /\ ~run.source /\ object[run.at][s] = "bad"
    <2>1. run' = [run EXCEPT !.stage = "failed"]  BY <1>2, <1>13 DEF Artifacts!Head
    <2>2. run' \in Scans /\ run'.stage = "failed"  BY <1>5, <2>1 DEF Scans
    <2> QED BY <1>3, <2>2, RunEndsInv
  <1>14. CASE Artifacts!HeadAgrees(s) /\ ~(~run.source /\ object[run.at][s] = "bad")
    <2>1. run' = [run EXCEPT !.stage = n, !.source = yes, !.healthy = @ \union {s},
                             !.sets = Artifacts!Noted(s, "healthy")]
      BY <1>2, <1>14 DEF Artifacts!Head, yes
    <2>2. /\ Artifacts!Noted(s, "healthy") \in [Contents -> [Artifacts!Stores -> ReplicaRows]]
          /\ \A c \in Contents : c # run.at => Artifacts!Noted(s, "healthy")[c] = run.sets[c]
          /\ \A x \in Artifacts!Stores : x # s => Artifacts!Noted(s, "healthy")[run.at][x] = run.sets[run.at][x]
          /\ Artifacts!Noted(s, "healthy")[run.at][s] = "healthy"
          /\ run.sets[run.at][s] = "healthy" => Artifacts!Noted(s, "healthy") = run.sets
      BY <1>4, NotedRows
    <2>3. /\ run'.stage = n /\ run'.sets = Artifacts!Noted(s, "healthy")
          /\ run'.healthy = run.healthy \union {s} /\ run'.source = yes
          /\ UNCHANGED <<run.left, run.at, run.repair, run.scanned, run.loaded, run.before,
                         run.status>>
      BY <1>5, <2>1 DEF Scans
    <2>4. run' \in Scans  BY <1>5, <1>11, <2>1, <2>2 DEF Scans
    <2>5. quiet => s \in Artifacts!Readable(run.at)
      BY <1>6, <1>9, <1>14 DEF Artifacts!HeadAgrees, Artifacts!OnS3, Artifacts!Readable, Objects
    <2>6. quiet => run'.healthy = (IF n = "replica" THEN Artifacts!Readable(run.at) \ {"replica"}
                                   ELSE Artifacts!Readable(run.at))
      BY <1>2, <1>9, <2>3, <2>5 DEF Artifacts!Readable, Artifacts!Stores
    <2>7. quiet => \A x \in run'.healthy : run'.sets[run.at][x] = "healthy"
      BY <1>5, <1>9, <2>2, <2>3 DEF Scans
    <2>8. faults = 0 =>
            /\ run'.sets = run.sets
            /\ run'.stage = "replica" => "primary" \in run'.healthy
            /\ run'.stage = "repair" => run'.healthy = Artifacts!Stores
      <3>1. faults = 0 => run'.sets = run.sets  BY <1>8, <2>2, <2>3
      <3>2. run'.stage = "replica" => "primary" \in run'.healthy  BY <1>2, <2>3
      <3>3. faults = 0 /\ run'.stage = "repair" => run'.healthy = Artifacts!Stores
        BY <1>2, <1>5, <1>10, <2>3 DEF Artifacts!Stores, Scans
      <3> QED BY <3>1, <3>2, <3>3
    <2>9. run'.source /\ run'.healthy # {}  BY <1>11, <2>3
    <2> QED BY <1>3, <1>4, <2>2, <2>3, <2>4, <2>6, <2>7, <2>8, <2>9, AtOneKept
  <1> QED BY <1>12, <1>13, <1>14

\* Where there is something to repair there was a fault, and if nobody else writes
\* it is not readable.
LEMMA PendingIsLost ==
  ASSUME ArtifactIInv, run.stage = "repair", NEW s \in Artifacts!Pending
  PROVE  /\ AtOne /\ Scanning /\ run \in Scans /\ run.at \in Contents /\ s \in Artifacts!Stores
         /\ run.at \in run.scanned
         /\ faults # 0
         /\ quiet => object[run.at][s] # "good"
  <1>1. AtOne /\ Scanning  BY DEF AtOne, Scanning
  <1>2. s \in Artifacts!Stores /\ s \notin run.healthy  BY DEF Artifacts!Pending
  <1>3. faults # 0  BY <1>1, <1>2 DEF ArtifactIInv, NothingToRepair
  <1>4. quiet => run.healthy = Artifacts!Readable(run.at)  BY <1>1 DEF ArtifactIInv, ScanKnowsObjects
  <1> QED BY <1>1, <1>2, <1>3, <1>4, ScanShape DEF Artifacts!Readable

\* replace unlinks what it is going to write.
LEMMA UnlinkInv ==
  ASSUME ArtifactIInv, Artifacts!Unlink
  PROVE  ArtifactIInv'
  <1>1. PICK s \in Artifacts!Pending : object' = [object EXCEPT ![run.at][s] = "absent"]
    BY DEF Artifacts!Unlink
  <1>2. run.stage = "repair" /\ UNCHANGED <<artifact, replica, put, run, faults, quiet>>
    BY DEF Artifacts!Unlink
  <1>3. /\ AtOne /\ Scanning /\ run.at \in Contents /\ s \in Artifacts!Stores /\ faults # 0
        /\ quiet => object[run.at][s] # "good"
    BY <1>2, PendingIsLost
  <1>4. object' \in [Contents -> [Artifacts!Stores -> Objects]]
    BY <1>1, <1>3 DEF ArtifactIInv, ArtifactShapes, Objects
  <1>5. ArtifactShapes'  BY <1>2, <1>4 DEF ArtifactIInv, ArtifactShapes
  <1>6. ScanIsOfKnown'  BY <1>2 DEF ArtifactIInv, ScanIsOfKnown, Scanning, AtOne
  <1>7. NothingToRepair'  BY <1>2, <1>3 DEF NothingToRepair
  <1>8. quiet => \A c \in Contents : Artifacts!Readable(c)' = Artifacts!Readable(c)
    BY <1>1, <1>3 DEF Artifacts!Readable, ArtifactIInv, ArtifactShapes
  <1>9. ScanKnowsObjects'
    <2> SUFFICES ASSUME quiet PROVE ScanKnowsObjects'  BY <1>2 DEF ScanKnowsObjects
    <2>1. \A c \in Contents : Checked(c)' <=> Checked(c)  BY <1>2, <1>8 DEF Checked
    <2>2. run.scanned \subseteq Contents  BY <1>3, ScanShape DEF Scans
    <2> QED BY <1>2, <1>3, <1>8, <2>1, <2>2 DEF ArtifactIInv, ScanKnowsObjects, Scanning, AtOne
  <1>10. Artifacts!CompletedRunsRepair'  BY <1>2 DEF Artifacts!CompletedRunsRepair
  <1> QED BY <1>5, <1>6, <1>7, <1>9, <1>10 DEF ArtifactIInv

LEMMA WriteRepairInv ==
  ASSUME ArtifactIInv, Artifacts!WriteRepair
  PROVE  ArtifactIInv'
  <1>1. PICK s \in Artifacts!Pending :
          /\ object' = [object EXCEPT ![run.at][s] = "good"]
          /\ run' = [run EXCEPT !.healthy = @ \union {s}, !.sets[run.at][s] = "healthy"]
    BY DEF Artifacts!WriteRepair
  <1>2. /\ run.stage = "repair" /\ Artifacts!Repairs
        /\ UNCHANGED <<artifact, replica, put, faults, quiet>>
    BY DEF Artifacts!WriteRepair
  <1>3. /\ AtOne /\ Scanning /\ run \in Scans /\ run.at \in Contents /\ s \in Artifacts!Stores
        /\ run.at \in run.scanned /\ faults # 0
    BY <1>2, PendingIsLost
  <1> DEFINE n == [run.sets EXCEPT ![run.at][s] = "healthy"]
  <1>4. run.sets \in [Contents -> [Artifacts!Stores -> ReplicaRows]]  BY <1>3 DEF Scans
  <1>5. /\ n \in [Contents -> [Artifacts!Stores -> ReplicaRows]]
        /\ n[run.at][s] = "healthy"
        /\ \A c \in Contents : c # run.at => n[c] = run.sets[c]
        /\ \A x \in Artifacts!Stores : x # s => n[run.at][x] = run.sets[run.at][x]
    BY <1>3, <1>4 DEF ReplicaRows
  <1>6. run' = [run EXCEPT !.healthy = @ \union {s}, !.sets = n]
    BY <1>1, <1>3 DEF Scans
  <1> HIDE DEF n
  <1>7. /\ run'.stage = "repair" /\ run'.healthy = run.healthy \union {s} /\ run'.sets = n
        /\ run'.left = run.left /\ run'.at = run.at /\ run'.repair = run.repair
        /\ run'.scanned = run.scanned /\ run'.loaded = run.loaded /\ run'.source = run.source
        /\ run'.before = run.before /\ run'.status = run.status
    BY <1>2, <1>3, <1>6 DEF Scans
  <1>8. run' \in Scans  BY <1>3, <1>5, <1>6 DEF Scans
  <1>9. object' \in [Contents -> [Artifacts!Stores -> Objects]]
    BY <1>1, <1>3 DEF ArtifactIInv, ArtifactShapes, Objects
  <1>10. ArtifactShapes'  BY <1>2, <1>8, <1>9 DEF ArtifactIInv, ArtifactShapes
  <1>11. ScanIsOfKnown'
    <2>1. \A c \in Contents \ run'.scanned : run'.sets[c] = run'.loaded[c]
      BY <1>3, <1>5, <1>7 DEF ArtifactIInv, ScanIsOfKnown
    <2> QED BY <1>2, <1>3, <1>7, <2>1 DEF ArtifactIInv, ScanIsOfKnown, Scanning, AtOne
  <1>12. NothingToRepair'  BY <1>2, <1>3 DEF NothingToRepair
  <1>13. ScanKnowsObjects'
    <2> SUFFICES ASSUME quiet PROVE ScanKnowsObjects'  BY <1>2 DEF ScanKnowsObjects
    <2>1. /\ \A c \in Contents : c # run.at => Artifacts!Readable(c)' = Artifacts!Readable(c)
          /\ Artifacts!Readable(run.at)' = Artifacts!Readable(run.at) \union {s}
      BY <1>1, <1>3 DEF Artifacts!Readable, ArtifactIInv, ArtifactShapes
    <2>2. \A c \in Contents : c # run.at => (Checked(c)' <=> Checked(c))
      BY <1>5, <1>7, <2>1 DEF Checked
    <2>3. run.scanned \subseteq Contents  BY <1>3 DEF Scans
    <2>4. \A c \in run'.scanned \ run'.left : c # run'.at => Checked(c)'
      BY <1>3, <1>7, <2>2, <2>3 DEF ArtifactIInv, ScanKnowsObjects
    <2>5. /\ run.healthy = Artifacts!Readable(run.at) /\ run.source
          /\ \A x \in run.healthy : run.sets[run.at][x] = "healthy"
          /\ run.loaded = replica /\ run.before = artifact
      BY <1>2, <1>3 DEF ArtifactIInv, ScanKnowsObjects, Artifacts!Repairs
    <2>6. run'.healthy = Artifacts!Readable(run.at)' /\ run'.source /\ run'.healthy # {}
      BY <1>7, <2>1, <2>5
    <2>7. \A x \in run'.healthy : run'.sets[run'.at][x] = "healthy"
      BY <1>5, <1>7, <2>5 DEF Artifacts!Readable
    <2>8. AtOne' /\ run'.loaded = replica' /\ run'.before = artifact'
      BY <1>2, <1>7, <2>5 DEF AtOne
    <2>9. (run.healthy = Artifacts!Readable(run.at))'  BY <1>7, <2>6
    <2>10. (run.source <=> run.healthy # {})'  BY <2>6
    <2> QED BY <1>7, <2>4, <2>7, <2>8, <2>9, <2>10 DEF ScanKnowsObjects
  <1>14. Artifacts!CompletedRunsRepair'  BY <1>7 DEF Artifacts!CompletedRunsRepair
  <1> QED BY <1>10, <1>11, <1>12, <1>13, <1>14 DEF ArtifactIInv

\* What a run is at is checked when it is repaired, if it can be.
LEMMA ArtifactCheckedInv ==
  ASSUME ArtifactIInv, Artifacts!ArtifactChecked
  PROVE  ArtifactIInv'
  <1> DEFINE v == IF run.healthy = {} THEN "unavailable" ELSE "available"
             n == [run.status EXCEPT ![run.at] = v]
  <1>1. /\ run.stage = "repair" /\ (Artifacts!Repairs => Artifacts!Pending = {})
        /\ run' = [run EXCEPT !.stage = "next", !.status[run.at] = v]
        /\ UNCHANGED <<object, artifact, replica, put, faults, quiet>>
    BY DEF Artifacts!ArtifactChecked
  <1>2. AtOne /\ Scanning  BY <1>1 DEF AtOne, Scanning
  <1>3. run \in Scans /\ run.at \in Contents /\ run.at \in run.scanned /\ run.at \notin run.left
    BY <1>2, ScanShape
  <1>4. run' = [run EXCEPT !.stage = "next", !.status = n]  BY <1>1, <1>3 DEF Scans
  <1>5. /\ n \in [Contents -> ArtifactRows] /\ n[run.at] = v
        /\ \A c \in Contents : c # run.at => n[c] = run.status[c]
        /\ run.status[run.at] = v => n = run.status
    BY <1>3 DEF Scans, ArtifactRows
  <1>6. v \in {"unavailable", "available"} /\ (v = "available" <=> run.healthy # {})
    OBVIOUS
  <1> HIDE DEF n, v
  <1>7. /\ run'.stage = "next" /\ run'.status = n
        /\ run'.left = run.left /\ run'.at = run.at /\ run'.repair = run.repair
        /\ run'.scanned = run.scanned /\ run'.loaded = run.loaded /\ run'.sets = run.sets
        /\ run'.before = run.before
    BY <1>3, <1>4 DEF Scans
  <1>8. run' \in Scans  BY <1>3, <1>4, <1>5 DEF Scans
  <1>9. Scanning' /\ ~AtOne'  BY <1>7 DEF Scanning, AtOne
  <1>10. ArtifactShapes' /\ ScanIsOfKnown' /\ NothingToRepair'
    <2>1. quiet' \in BOOLEAN  BY <1>1 DEF ArtifactIInv, ArtifactShapes
    <2>2. /\ run'.left \subseteq run'.scanned
          /\ \A x \in run'.scanned : artifact[x] # "none"
          /\ \A x \in Contents \ run'.scanned :
               run'.status[x] = run'.before[x] /\ run'.sets[x] = run'.loaded[x]
      BY <1>2, <1>3, <1>5, <1>7 DEF ArtifactIInv, ScanIsOfKnown
    <2>3. \A x \in Contents : run'.status[x] # run'.before[x] => run'.status[x] # "none"
      BY <1>2, <1>5, <1>6, <1>7 DEF ArtifactIInv, ScanIsOfKnown
    <2>4. ASSUME faults = 0
          PROVE  /\ run'.sets = run'.loaded /\ run'.status = run'.before
                 /\ \A x \in run'.scanned :
                      run'.before[x] = "available" /\ \A s \in Artifacts!Stores : run'.loaded[x][s] = "healthy"
      <3>1. /\ run.sets = run.loaded /\ run.status = run.before /\ run.healthy = Artifacts!Stores
            /\ \A x \in run.scanned :
                 run.before[x] = "available" /\ \A s \in Artifacts!Stores : run.loaded[x][s] = "healthy"
        BY <1>1, <1>2, <2>4 DEF ArtifactIInv, NothingToRepair
      <3>2. run.healthy # {}  BY <3>1 DEF Artifacts!Stores
      <3>3. n = run.status  BY <1>3, <1>5, <1>6, <3>1, <3>2
      <3> QED BY <1>7, <3>1, <3>3
    <2> QED BY <1>1, <1>7, <1>8, <1>9, <2>1, <2>2, <2>3, <2>4, RunAlone
  <1>11. ScanKnowsObjects'
    <2> SUFFICES ASSUME quiet PROVE ScanKnowsObjects'  BY <1>1 DEF ScanKnowsObjects
    <2>1. /\ run.healthy = Artifacts!Readable(run.at) /\ (run.source <=> run.healthy # {})
          /\ \A x \in run.healthy : run.sets[run.at][x] = "healthy"
          /\ run.loaded = replica /\ run.before = artifact
      BY <1>1, <1>2 DEF ArtifactIInv, ScanKnowsObjects
    <2>2. \A c \in Contents : Artifacts!Readable(c)' = Artifacts!Readable(c)  BY <1>1 DEF Artifacts!Readable
    <2>3. Checked(run.at)'
      <3>1. CASE Artifacts!Readable(run.at) = {}
        BY <1>3, <1>5, <1>6, <1>7, <2>1, <2>2, <3>1 DEF Checked
      <3>2. CASE Artifacts!Readable(run.at) # {}
        <4>1. run.repair => run.healthy = Artifacts!Stores
          BY <1>1, <1>3, <2>1, <3>2 DEF Artifacts!Repairs, Artifacts!Pending, Scans
        <4>2. run'.status[run.at] = "available"  BY <1>5, <1>6, <1>7, <2>1, <3>2
        <4> QED BY <1>3, <1>7, <2>1, <2>2, <3>2, <4>1, <4>2 DEF Checked
      <3> QED BY <3>1, <3>2
    <2>4. \A c \in Contents : c # run.at => (Checked(c)' <=> Checked(c))
      BY <1>5, <1>7, <2>2 DEF Checked
    <2>5. run.scanned \subseteq Contents  BY <1>3 DEF Scans
    <2>6. \A c \in run'.scanned \ run'.left : Checked(c)'
      BY <1>2, <1>3, <1>7, <2>3, <2>4, <2>5 DEF ArtifactIInv, ScanKnowsObjects
    <2> QED BY <1>1, <1>7, <1>9, <2>1, <2>6 DEF ScanKnowsObjects
  <1>12. Artifacts!CompletedRunsRepair'  BY <1>7 DEF Artifacts!CompletedRunsRepair
  <1> QED BY <1>10, <1>11, <1>12 DEF ArtifactIInv

\* One commit writes what the run has changed, or a conflict refuses all of it.
LEMMA CompleteInv ==
  ASSUME ArtifactIInv, Artifacts!Complete
  PROVE  ArtifactIInv'
  <1>1. run.stage = "next" /\ run.left = {} /\ UNCHANGED <<object, put, faults, quiet>>
    BY DEF Artifacts!Complete
  <1>2. Scanning /\ ~AtOne  BY <1>1 DEF Scanning, AtOne
  <1>3. run \in Scans  BY <1>2, ScanShape
  <1>4. CASE Artifacts!Conflict
    <2>1. run' = [run EXCEPT !.stage = "failed"] /\ UNCHANGED <<artifact, replica>>
      BY <1>4 DEF Artifacts!Complete
    <2>2. run' \in Scans /\ run'.stage = "failed"  BY <1>3, <2>1 DEF Scans
    <2> QED BY <1>1, <2>1, <2>2, RunEndsInv
  <1>5. CASE ~Artifacts!Conflict
    <2>1. /\ run' = [run EXCEPT !.stage = "completed"]
          /\ artifact' = [c \in Contents |-> Artifacts!StatusWritten(c)]
          /\ replica' = [c \in Contents |-> [s \in Artifacts!Stores |->
                           IF run.sets[c][s] # run.loaded[c][s] THEN run.sets[c][s]
                           ELSE replica[c][s]]]
      BY <1>5 DEF Artifacts!Complete
    <2>2. /\ run' \in Scans /\ run'.stage = "completed" /\ run'.scanned = run.scanned
          /\ run'.repair = run.repair
      BY <1>3, <2>1 DEF Scans
    <2>3. ~Scanning'  BY <2>2 DEF Scanning, AtOne
    <2>4. /\ artifact' \in [Contents -> ArtifactRows]
          /\ replica' \in [Contents -> [Artifacts!Stores -> ReplicaRows]]
      BY <1>3, <2>1 DEF Scans, Artifacts!StatusWritten, ArtifactIInv, ArtifactShapes
    <2>5. ArtifactShapes'  BY <1>1, <2>2, <2>4 DEF ArtifactIInv, ArtifactShapes
    <2>6. ASSUME NEW c \in Contents, artifact'[c] = "none", NEW s \in Artifacts!Stores
          PROVE  replica'[c][s] = "none"
      <3>1. artifact[c] = "none"
        BY <1>2, <2>1, <2>6 DEF Artifacts!StatusWritten, ArtifactIInv, ScanIsOfKnown
      <3>2. run.sets[c] = run.loaded[c] /\ replica[c][s] = "none"
        BY <1>2, <3>1 DEF ArtifactIInv, ScanIsOfKnown
      <3> QED BY <2>1, <3>2
    <2>7. ScanIsOfKnown'  BY <2>3, <2>6 DEF ScanIsOfKnown
    <2>8. NothingToRepair'
      <3> SUFFICES ASSUME faults = 0 PROVE NothingToRepair'  BY <1>1 DEF NothingToRepair
      <3>1. run.sets = run.loaded /\ run.status = run.before
        BY <1>2 DEF ArtifactIInv, NothingToRepair
      <3>2. artifact' = artifact /\ replica' = replica
        BY <2>1, <3>1 DEF Artifacts!StatusWritten, ArtifactIInv, ArtifactShapes
      <3> QED BY <1>1, <2>3, <3>2 DEF ArtifactIInv, NothingToRepair
    <2>9. ScanKnowsObjects'  BY <2>3 DEF ScanKnowsObjects
    <2>10. Artifacts!CompletedRunsRepair'
      <3> SUFFICES ASSUME quiet, NEW c \in run.scanned
                   PROVE  IF Artifacts!Readable(c) = {} THEN artifact'[c] = "unavailable"
                          ELSE /\ artifact'[c] = "available"
                               /\ run.repair => /\ Artifacts!Readable(c) = Artifacts!Stores
                                                /\ \A s \in Artifacts!Stores : replica'[c][s] = "healthy"
        <4>1. \A c \in Contents : Artifacts!Readable(c)' = Artifacts!Readable(c)  BY <1>1 DEF Artifacts!Readable
        <4>2. run.scanned \subseteq Contents  BY <1>3 DEF Scans
        <4> QED BY <1>1, <2>2, <4>1, <4>2 DEF Artifacts!CompletedRunsRepair
      <3>1. c \in Contents /\ run.loaded = replica /\ run.before = artifact /\ Checked(c)
        BY <1>1, <1>2, <1>3 DEF ArtifactIInv, ScanKnowsObjects, Scans
      <3>2. artifact'[c] = run.status[c]  BY <2>1, <3>1 DEF Artifacts!StatusWritten
      <3>3. \A s \in Artifacts!Stores : replica'[c][s] = run.sets[c][s]  BY <2>1, <3>1
      <3> QED BY <3>1, <3>2, <3>3 DEF Checked
    <2> QED BY <2>5, <2>7, <2>8, <2>9, <2>10 DEF ArtifactIInv
  <1> QED BY <1>4, <1>5

\* Every step of the store.
LEMMA ArtifactNextInv ==
  ASSUME ArtifactIInv, Artifacts!Next
  PROVE  ArtifactIInv'
  <1>1. ASSUME NEW p \in Putters, Artifacts!PutPrimary(p) \/ Artifacts!PutReplica(p) \/ Artifacts!PutRows(p) \/ Artifacts!PutDies(p)
        PROVE  ArtifactIInv'
    <2>1. CASE Artifacts!PutPrimary(p)
      <3>1. PICK c \in Contents : Artifacts!Store(p, c, "primary")  BY <2>1 DEF Artifacts!PutPrimary
      <3> QED BY <3>1, StoreInv DEF Artifacts!Stores
    <2>2. CASE Artifacts!PutReplica(p)
      <3>1. put[p].stage = "primary" /\ Artifacts!Store(p, put[p].content, "replica")
        BY <2>2 DEF Artifacts!PutReplica
      <3>2. put[p].content \in Contents  BY <3>1 DEF ArtifactIInv, ArtifactShapes, Artifacts!Ready
      <3> QED BY <3>1, <3>2, StoreInv DEF Artifacts!Stores
    <2> QED BY <1>1, <2>1, <2>2, PutRowsInv, PutDiesInv
  <1>2. CASE Artifacts!RunDies  BY <1>2, RunEndsInv DEF Artifacts!RunDies
  <1>3. CASE Artifacts!Begin \/ Artifacts!NextArtifact  BY <1>3, BeginInv, NextArtifactInv
  <1>4. CASE Artifacts!HeadPrimary \/ Artifacts!HeadReplica  BY <1>4, HeadInv
  <1>5. CASE Artifacts!Unlink \/ Artifacts!WriteRepair  BY <1>5, UnlinkInv, WriteRepairInv
  <1>6. CASE Artifacts!ArtifactChecked \/ Artifacts!Complete  BY <1>6, ArtifactCheckedInv, CompleteInv
  <1>7. CASE Artifacts!Fault  BY <1>7, FaultInv
  <1> QED BY <1>1, <1>2, <1>3, <1>4, <1>5, <1>6, <1>7 DEF Artifacts!Next

\* The invariant behind the theorem below.
THEOREM ArtifactInvariant == ServicesSpec => []ArtifactIInv
  <1>1. ServicesInit => ArtifactIInv  BY ArtifactInitInv DEF ServicesInit
  <1>2. ArtifactIInv /\ [Artifacts!Next]_artifactVars => ArtifactIInv'
    BY ArtifactNextInv, ArtifactStutterInv DEF artifactVars, Artifacts!vars
  <1> QED BY <1>1, <1>2, ArtifactSteps, PTL DEF ServicesSpec

\* As long as nothing was lost a published artifact has a readable object and a
\* healthy row in both stores, wherever putters and the reconciliation have died;
\* and a reconciliation that completes while nobody else writes has restored what
\* one store still held, for any number of artifacts, putters and faults
\* (ArtifactEvidenceService.put and reconcile).
THEOREM ArtifactObjectsKept == ServicesSpec => []ObjectsAreKept
  <1>1. ArtifactIInv => Artifacts!PublishedIsReplicated
    BY DEF ArtifactIInv, NothingToRepair, Artifacts!PublishedIsReplicated, Artifacts!Readable
  <1>2. ArtifactIInv => ObjectsAreKept
    BY <1>1 DEF ArtifactIInv, ObjectsAreKept, Artifacts!ObjectsAreKept
  <1> QED BY <1>2, ArtifactInvariant, PTL

-----------------------------------------------------------------------------
(* The ledger of a customer (CustomerLedger).                               *)

\* What a step of the services is to the ledger.
LEMMA LedgerSteps == [ServicesNext]_ServicesVars => [Ledger!Next]_ledgerVars
  BY DEF ServicesNext, ServicesVars, ledgerVars

\* A set of naturals has a least one.
LEMMA LeastIsLeast ==
  ASSUME NEW S \in SUBSET Nat, S # {}
  PROVE  Ledger!Least(S) \in S /\ \A y \in S : Ledger!Least(S) <= y
  <1> DEFINE R == OpToRel(<, Nat)
  <1>1. IsWellFoundedOn(R, Nat)  BY Zenon, NatLessThanWellFounded
  <1>2. R = {ss \in Nat \X Nat : ss[1] < ss[2]}  BY Zenon DEF OpToRel
  <1> HIDE DEF R
  <1>3. PICK x \in S : \A y \in S : ~(<<y, x>> \in R)  BY <1>1, WFMin
  <1>4. \A y \in S : x <= y
    <2> SUFFICES ASSUME NEW y \in S PROVE x <= y  OBVIOUS
    <2>1. ~(y < x)  BY <1>2, <1>3
    <2> QED BY <2>1
  <1> QED BY <1>3, <1>4 DEF Ledger!Least

\* The rank of a candidate is a number.
LEMMA PriorityIsNat == ASSUME NEW c PROVE Ledger!Priority(c) \in Nat
  <1> DEFINE hits == {i \in DOMAIN Rules : c.cites \intersect Rules[i] # {}}
  <1>1. DOMAIN Rules \subseteq Nat  BY ServicesAssumption
  <1>2. hits \in SUBSET Nat  BY <1>1
  <1> HIDE DEF hits
  <1>3. hits # {} => Ledger!Least(hits) \in Nat  BY <1>2, LeastIsLeast
  <1> QED BY <1>3 DEF Ledger!Priority, hits

\* The rank of a value is the least of its group.
LEMMA GroupPriorityIs ==
  ASSUME NEW s, NEW f, NEW v, Ledger!Group(s, f, v) # {}
  PROVE  /\ Ledger!GroupPriority(s, f, v) \in Nat
         /\ \E c \in Ledger!Group(s, f, v) : Ledger!Priority(c) = Ledger!GroupPriority(s, f, v)
         /\ \A c \in Ledger!Group(s, f, v) :
              Ledger!GroupPriority(s, f, v) <= Ledger!Priority(c)
  <1> DEFINE S == {Ledger!Priority(c) : c \in Ledger!Group(s, f, v)}
  <1>1. S \in SUBSET Nat /\ S # {}  BY PriorityIsNat
  <1>2. Ledger!GroupPriority(s, f, v) = Ledger!Least(S)  BY DEF Ledger!GroupPriority
  <1>3. Ledger!Least(S) \in S /\ \A y \in S : Ledger!Least(S) <= y
    <2> HIDE DEF S
    <2> QED BY <1>1, LeastIsLeast
  <1> QED BY <1>1, <1>2, <1>3

\* The best values of a field are those whose rank nothing undercuts.
LEMMA BestIs ==
  ASSUME NEW s, NEW f
  PROVE  Ledger!Best(s, f) =
           {v \in Ledger!ValuesOf(s, f) : \A w \in Ledger!ValuesOf(s, f) :
              Ledger!GroupPriority(s, f, v) <= Ledger!GroupPriority(s, f, w)}
  <1> DEFINE Vs == Ledger!ValuesOf(s, f)
             g(v) == Ledger!GroupPriority(s, f, v)
             S == {g(v) : v \in Vs}
  <1>1. ASSUME NEW v \in Vs PROVE g(v) \in Nat
    BY GroupPriorityIs DEF Ledger!ValuesOf
  <1>2. S \in SUBSET Nat  BY <1>1
  <1>3. Ledger!BestPriority(s, f) = Ledger!Least(S)  BY DEF Ledger!BestPriority
  <1>4. Vs # {} => Ledger!Least(S) \in S /\ \A y \in S : Ledger!Least(S) <= y
    <2>1. Vs # {} => S # {}  OBVIOUS
    <2> HIDE DEF S
    <2> QED BY <1>2, <2>1, LeastIsLeast
  <1>5. Ledger!Best(s, f) = {v \in Vs : g(v) = Ledger!Least(S)}
    BY <1>3 DEF Ledger!Best
  <1> HIDE DEF g, Vs
  <1>6. ASSUME NEW v \in Vs
        PROVE  g(v) = Ledger!Least(S) <=> \A w \in Vs : g(v) <= g(w)
    <2>1. Ledger!Least(S) \in S /\ \A y \in S : Ledger!Least(S) <= y  BY <1>4
    <2>2. PICK u \in Vs : Ledger!Least(S) = g(u)  BY <2>1
    <2>3. \A w \in Vs : Ledger!Least(S) <= g(w)  BY <2>1
    <2> QED BY <1>1, <2>2, <2>3
  <1>7. Ledger!Best(s, f) = {v \in Vs : \A w \in Vs : g(v) <= g(w)}  BY <1>5, <1>6
  <1> QED BY <1>7 DEF g, Vs

\* The highest confidence of a group is that of a candidate, and none has more.
LEMMA HighestIs ==
  ASSUME NEW s \in Seq(Ledger!Candidates), NEW f, NEW v, Ledger!Group(s, f, v) # {}
  PROVE  LET highest == Ledger!Highest(s, f, v)
         IN /\ highest \in Nat
            /\ \E c \in Ledger!Group(s, f, v) : c.confidence = highest
            /\ \A c \in Ledger!Group(s, f, v) : c.confidence <= highest
  <1> DEFINE group == Ledger!Group(s, f, v)
             all == {c.confidence : c \in group}
             highest == Ledger!Highest(s, f, v)
  <1>1. \A c \in group : c.confidence \in Confidences
    <2> SUFFICES ASSUME NEW c \in group PROVE c.confidence \in Confidences
      OBVIOUS
    <2>1. PICK i \in DOMAIN s : c = s[i]
      BY DEF Ledger!Group, Ledger!Members, Ledger!Applicable
    <2>2. s[i] \in Ledger!Candidates  BY <2>1, ElementOfSeq, LenProperties
    <2> QED BY <2>1, <2>2 DEF Ledger!Candidates
  <1>2. PICK most \in Nat : \A c \in Confidences : c \in Nat /\ c <= most
    BY ServicesAssumption
  <1>3. highest = CHOOSE x \in all : \A y \in all : y <= x  BY DEF Ledger!Highest
  <1> HIDE DEF highest, group
  <1> DEFINE short(c) == most - c.confidence
             S == {short(c) : c \in group}
  <1>4. \A c \in group : c.confidence \in Nat /\ short(c) \in Nat  BY <1>1, <1>2
  <1>5. S \in SUBSET Nat /\ S # {}  BY <1>4 DEF group
  <1>6. Ledger!Least(S) \in S /\ \A y \in S : Ledger!Least(S) <= y
    <2> HIDE DEF S
    <2> QED BY <1>5, LeastIsLeast
  <1>7. PICK c \in group : Ledger!Least(S) = short(c)  BY <1>6
  <1>8. \A d \in group : short(c) <= short(d)  BY <1>6, <1>7
  <1>9. \A d \in group : d.confidence <= c.confidence  BY <1>2, <1>4, <1>8
  <1>10. c.confidence \in all /\ \A y \in all : y <= c.confidence  BY <1>9
  <1>11. highest \in all /\ \A y \in all : y <= highest  BY <1>3, <1>10
  <1>12. \E d \in group : d.confidence = highest  BY <1>11
  <1>13. \A d \in group : d.confidence <= highest  BY <1>11
  <1> QED BY <1>4, <1>12, <1>13 DEF group, highest

\* The winner is a candidate of its group, of its highest confidence.
LEMMA WinnerIs ==
  ASSUME NEW s \in Seq(Ledger!Candidates), NEW f, NEW v, Ledger!Group(s, f, v) # {}
  PROVE  /\ \E i \in Ledger!Members(s, f, v) : Ledger!Winner(s, f, v) = s[i]
         /\ Ledger!Winner(s, f, v) \in Ledger!Group(s, f, v)
         /\ Ledger!Winner(s, f, v).confidence = Ledger!Highest(s, f, v)
         /\ \A c \in Ledger!Group(s, f, v) :
              c.confidence <= Ledger!Winner(s, f, v).confidence
  <1> DEFINE members == Ledger!Members(s, f, v)
             first == {i \in members : s[i].confidence = Ledger!Highest(s, f, v)}
  <1>1. members \subseteq DOMAIN s /\ DOMAIN s \subseteq Nat
    BY DEF Ledger!Members, Ledger!Applicable
  <1>2. PICK c \in Ledger!Group(s, f, v) : c.confidence = Ledger!Highest(s, f, v)
    BY HighestIs
  <1>3. PICK i \in members : c = s[i]  BY DEF Ledger!Group
  <1>4. first \in SUBSET Nat /\ first # {}  BY <1>1, <1>2, <1>3
  <1>5. Ledger!Least(first) \in first
    <2> HIDE DEF first
    <2> QED BY <1>4, LeastIsLeast
  <1>6. Ledger!Winner(s, f, v) = s[Ledger!Least(first)]  BY DEF Ledger!Winner
  <1>7. /\ Ledger!Least(first) \in members
        /\ s[Ledger!Least(first)].confidence = Ledger!Highest(s, f, v)
    BY <1>5
  <1>8. Ledger!Winner(s, f, v) \in Ledger!Group(s, f, v)
    BY <1>6, <1>7 DEF Ledger!Group
  <1> QED BY <1>6, <1>7, <1>8, HighestIs

\* What a candidate of a group is.
LEMMA GroupIs ==
  ASSUME NEW s \in Seq(Ledger!Candidates), NEW f, NEW v
  PROVE  Ledger!Group(s, f, v) =
           {c \in {s[i] : i \in DOMAIN s} : c.period \in InForce /\ c.field = f /\ c.value = v}
  BY DEF Ledger!Group, Ledger!Members, Ledger!Applicable

\* What the aggregation shows of a value is what its group shows.
LEMMA OutputsAre ==
  ASSUME NEW s
  PROVE  /\ \A o \in Ledger!Outputs(s) :
              /\ o.field \in FieldCodes /\ o.value \in Ledger!Best(s, o.field)
              /\ o.value \in Values
              /\ Ledger!Winner(s, o.field, o.value).confidence >= Minimum
              /\ o.confidence = Ledger!Highest(s, o.field, o.value)
              /\ o.id = Ledger!Winner(s, o.field, o.value).id
              /\ o.period = Ledger!Winner(s, o.field, o.value).period
              /\ o.evidence = UNION {c.cites : c \in Ledger!Group(s, o.field, o.value)}
         /\ \A f \in FieldCodes, v \in Values :
              /\ v \in Ledger!Best(s, f)
              /\ Ledger!Winner(s, f, v).confidence >= Minimum
              => \E o \in Ledger!Outputs(s) : o.field = f /\ o.value = v
  <1>1. ASSUME NEW f, NEW v
        PROVE  /\ Ledger!Output(s, f, v).field = f /\ Ledger!Output(s, f, v).value = v
               /\ Ledger!Output(s, f, v).confidence = Ledger!Highest(s, f, v)
               /\ Ledger!Output(s, f, v).id = Ledger!Winner(s, f, v).id
               /\ Ledger!Output(s, f, v).period = Ledger!Winner(s, f, v).period
               /\ Ledger!Output(s, f, v).evidence = UNION {c.cites : c \in Ledger!Group(s, f, v)}
    BY DEF Ledger!Output
  <1>2. ASSUME NEW o \in Ledger!Outputs(s)
        PROVE  \E f \in FieldCodes, v \in Values :
                 /\ v \in Ledger!Best(s, f)
                 /\ Ledger!Winner(s, f, v).confidence >= Minimum
                 /\ o = Ledger!Output(s, f, v)
    BY DEF Ledger!Outputs
  <1>3. ASSUME NEW f \in FieldCodes, NEW v \in Values, v \in Ledger!Best(s, f),
               Ledger!Winner(s, f, v).confidence >= Minimum
        PROVE  Ledger!Output(s, f, v) \in Ledger!Outputs(s)
    <2>1. <<f, v>> \in {p \in FieldCodes \X Values :
                         /\ p[2] \in Ledger!Best(s, p[1])
                         /\ Ledger!Winner(s, p[1], p[2]).confidence >= Minimum}
      BY <1>3
    <2> QED BY <2>1 DEF Ledger!Outputs
  <1>4. ASSUME NEW o \in Ledger!Outputs(s)
        PROVE  /\ o.field \in FieldCodes /\ o.value \in Ledger!Best(s, o.field)
               /\ o.value \in Values
               /\ Ledger!Winner(s, o.field, o.value).confidence >= Minimum
               /\ o.confidence = Ledger!Highest(s, o.field, o.value)
               /\ o.id = Ledger!Winner(s, o.field, o.value).id
               /\ o.period = Ledger!Winner(s, o.field, o.value).period
               /\ o.evidence = UNION {c.cites : c \in Ledger!Group(s, o.field, o.value)}
    <2>1. PICK f \in FieldCodes, v \in Values :
            /\ v \in Ledger!Best(s, f) /\ Ledger!Winner(s, f, v).confidence >= Minimum
            /\ o = Ledger!Output(s, f, v)
      BY <1>2
    <2>2. o.field = f /\ o.value = v  BY <1>1, <2>1
    <2> QED BY <1>1, <2>1, <2>2
  <1> QED BY <1>1, <1>3, <1>4

\* What the aggregation shows is right, whatever the rows are.
LEMMA AggregatedIs ==
  ASSUME NEW s
  PROVE  /\ Ledger!Aggregated(s).outputs = Ledger!Outputs(s)
         /\ Ledger!Aggregated(s).conflicts =
              {Ledger!Conflict(s, f) :
                 f \in {g \in {s[i].field : i \in Ledger!Applicable(s)} : Ledger!Conflicts(s, g)}}
         /\ Ledger!Aggregated(s).conflicting =
              {o.id : o \in {p \in Ledger!Outputs(s) : Ledger!Conflicts(s, p.field)}}
         /\ Ledger!Aggregated(s).status # "none"
  BY DEF Ledger!Aggregated

-----------------------------------------------------------------------------
\* Candidates are checked answers of documents that have been analysed, to what
\* these were asked.
CandidatesAreAnswers ==
  /\ candidates \in Seq(Ledger!Candidates)
  /\ ended \in 0..Len(Place)
  /\ \A i \in DOMAIN candidates : \E d \in 1..ended :
       candidates[i].cites = {d} /\ candidates[i].field \in Ledger!Asked(d)

\* The result is of all the candidates there will be.
ResultIsOfAll ==
  result.status # "none" =>
    ended = Len(Place) /\ result = Ledger!Aggregated(candidates)

LedgerIInv == CandidatesAreAnswers /\ ResultIsOfAll

\* An analysed document adds a checked answer, before the aggregation.
LEMMA LedgerInv == LedgerIInv /\ [Ledger!Next]_ledgerVars => LedgerIInv'
  <1> SUFFICES ASSUME LedgerIInv, [Ledger!Next]_ledgerVars PROVE LedgerIInv'
    OBVIOUS
  <1> DEFINE n == Len(Place)
  <1>1. n \in Nat  BY ServicesAssumption, LenProperties
  <1> HIDE DEF n
  <1>2. CASE Ledger!Analyse
    <2>1. ended < n /\ ended' = ended + 1 /\ result' = result /\ ended \in 0..n
      BY <1>2 DEF Ledger!Analyse, LedgerIInv, CandidatesAreAnswers, n
    <2>2. ResultIsOfAll'  BY <1>1, <2>1 DEF LedgerIInv, ResultIsOfAll, n
    <2>3. ended' \in 0..n /\ \A d \in 1..ended : d \in 1..ended'  BY <1>1, <2>1
    <2>0. PICK m \in 0..(MaxRows - Len(candidates)) :
            \E answers \in [1..m -> {a \in Ledger!Answers : Ledger!Accepted(ended + 1, a)}] :
              candidates' = candidates \o
                [i \in 1..m |-> Ledger!Candidate(Len(candidates) + i, answers[i])]
      BY <1>2 DEF Ledger!Analyse
    <2>4. PICK answers \in [1..m -> {a \in Ledger!Answers : Ledger!Accepted(ended + 1, a)}] :
            candidates' = candidates \o
              [i \in 1..m |-> Ledger!Candidate(Len(candidates) + i, answers[i])]
      BY <2>0
    <2> DEFINE more == [i \in 1..m |-> Ledger!Candidate(Len(candidates) + i, answers[i])]
    <2>5. candidates \in Seq(Ledger!Candidates) /\ Len(candidates) \in Nat /\ m \in Nat
      BY LenProperties DEF LedgerIInv, CandidatesAreAnswers
    <2>6. ASSUME NEW i \in 1..m
          PROVE  /\ more[i] \in Ledger!Candidates
                 /\ more[i].cites = {ended'} /\ more[i].field \in Ledger!Asked(ended')
      <3>1. answers[i] \in Ledger!Answers /\ Ledger!Accepted(ended + 1, answers[i])
        BY <2>4, <2>6
      <3>2. more[i] = Ledger!Candidate(Len(candidates) + i, answers[i]) /\ Len(candidates) + i \in Nat
        BY <2>5, <2>6
      <3> HIDE DEF more
      <3> QED BY <2>1, <3>1, <3>2 DEF Ledger!Accepted, Ledger!Answers, Ledger!Candidate,
                                      Ledger!Candidates
    <2>7. more \in Seq(Ledger!Candidates) /\ Len(more) = m
      <3>1. more \in [1..m -> Ledger!Candidates]  BY <2>6
      <3> HIDE DEF more
      <3> QED BY <2>5, <3>1, IsASeq, LenProperties
    <2> HIDE DEF more
    <2>8. candidates' = candidates \o more  BY <2>4 DEF more
    <2>9. /\ candidates' \in Seq(Ledger!Candidates)
          /\ Len(candidates') = Len(candidates) + m
          /\ \A i \in 1..(Len(candidates) + m) : candidates'[i] =
               IF i <= Len(candidates) THEN candidates[i] ELSE more[i - Len(candidates)]
      BY <2>5, <2>7, <2>8, ConcatProperties
    <2>10. DOMAIN candidates' = 1..(Len(candidates) + m) /\ DOMAIN candidates = 1..Len(candidates)
      BY <2>5, <2>9, LenProperties
    <2>11. ASSUME NEW i \in DOMAIN candidates'
           PROVE  \E d \in 1..ended' :
                    candidates'[i].cites = {d} /\ candidates'[i].field \in Ledger!Asked(d)
      <3>1. CASE i <= Len(candidates)
        <4>1. i \in DOMAIN candidates /\ candidates'[i] = candidates[i]
          BY <2>5, <2>9, <2>10, <2>11, <3>1
        <4>2. PICK d \in 1..ended :
                candidates[i].cites = {d} /\ candidates[i].field \in Ledger!Asked(d)
          BY <4>1 DEF LedgerIInv, CandidatesAreAnswers
        <4> QED BY <2>3, <4>1, <4>2
      <3>2. CASE ~(i <= Len(candidates))
        <4>1. /\ i - Len(candidates) \in 1..m
              /\ candidates'[i] = more[i - Len(candidates)]
          BY <2>5, <2>9, <2>10, <2>11, <3>2
        <4>2. ended' \in 1..ended'  BY <1>1, <2>1
        <4> QED BY <2>6, <4>1, <4>2
      <3> QED BY <3>1, <3>2
    <2> QED BY <2>2, <2>3, <2>9, <2>11 DEF LedgerIInv, CandidatesAreAnswers, n
  <1>3. CASE Ledger!Aggregate
    BY <1>3 DEF Ledger!Aggregate, LedgerIInv, CandidatesAreAnswers, ResultIsOfAll
  <1>4. CASE UNCHANGED ledgerVars
    BY <1>4 DEF ledgerVars, LedgerIInv, CandidatesAreAnswers, ResultIsOfAll
  <1> QED BY <1>2, <1>3, <1>4 DEF Ledger!Next

\* The result begins empty and is the aggregation of all candidates once there is one.
THEOREM LedgerInvariant == ServicesSpec => []LedgerIInv
  <1>1. ServicesInit => LedgerIInv
    <2> SUFFICES ASSUME ServicesInit PROVE LedgerIInv  OBVIOUS
    <2>1. candidates = <<>> /\ ended = 0 /\ result.status = "none"
      BY DEF ServicesInit, Ledger!Init
    <2>2. Len(Place) \in Nat  BY ServicesAssumption, LenProperties
    <2> QED BY <2>1, <2>2 DEF LedgerIInv, CandidatesAreAnswers, ResultIsOfAll
  <1>2. LedgerIInv /\ [ServicesNext]_ServicesVars => LedgerIInv'
    BY LedgerSteps, LedgerInv
  <1> QED BY <1>1, <1>2, PTL DEF ServicesSpec

\* Candidates are about requested fields and documents.
LEMMA LedgerTypes == LedgerIInv => Ledger!TypeOK
  <1> SUFFICES ASSUME LedgerIInv, NEW i \in DOMAIN candidates
               PROVE  candidates[i].field \in FieldCodes /\ candidates[i].value \in Values
    BY DEF LedgerIInv, CandidatesAreAnswers, Ledger!TypeOK
  <1>1. candidates[i] \in Ledger!Candidates
    BY ElementOfSeq, LenProperties DEF LedgerIInv, CandidatesAreAnswers
  <1> QED BY <1>1 DEF Ledger!Candidates

\* A value is shown exactly if the best source of its field gives it and some
\* source gives it with enough confidence.
LEMMA ShownIsBest ==
  ASSUME candidates \in Seq(Ledger!Candidates), NEW f \in FieldCodes, NEW v \in Values
  PROVE  Ledger!Shown(f, v) <=>
           /\ v \in Ledger!Best(candidates, f)
           /\ Ledger!Winner(candidates, f, v).confidence >= Minimum
  <1> DEFINE group(w) == Ledger!Group(candidates, f, w)
             of == {c \in {candidates[i] : i \in DOMAIN candidates} : c.field = f /\ c.period \in InForce}
             Vs == Ledger!ValuesOf(candidates, f)
             rank(w) == Ledger!GroupPriority(candidates, f, w)
             win == Ledger!Winner(candidates, f, v)
  <1>1. \A c \in of : c \in Ledger!Candidates
    BY ElementOfSeq, LenProperties
  <1>2. \A c \in of : c.value \in Values /\ c.confidence \in Nat
    BY <1>1, ConfidencesAreNat DEF Ledger!Candidates
  <1>3. ASSUME NEW w PROVE group(w) = {c \in of : c.value = w}
    BY GroupIs
  <1>4. Ledger!Shown(f, v) <=>
          \E c, e \in of :
            /\ c.value = v /\ \A o \in of : Ledger!Priority(c) <= Ledger!Priority(o)
            /\ e.value = v /\ e.confidence >= Minimum
    <2>1. {candidates[i] : i \in {k \in DOMAIN candidates :
                                   candidates[k].field = f /\ candidates[k].period \in InForce}} = of
      OBVIOUS
    <2> HIDE DEF of
    <2> QED BY <2>1 DEF Ledger!Shown
  <1>5. Vs = {w \in Values : group(w) # {}}  BY DEF Ledger!ValuesOf
  <1>6. Ledger!Best(candidates, f) = {w \in Vs : \A u \in Vs : rank(w) <= rank(u)}
    BY BestIs
  <1>7. ASSUME NEW w \in Vs
        PROVE  /\ rank(w) \in Nat
               /\ \E c \in group(w) : Ledger!Priority(c) = rank(w)
               /\ \A c \in group(w) : rank(w) <= Ledger!Priority(c)
    BY <1>5, GroupPriorityIs
  <1>8. \A c \in of : Ledger!Priority(c) \in Nat  BY PriorityIsNat
  <1>9. v \in Vs => win \in group(v) /\ \A c \in group(v) : c.confidence <= win.confidence
    BY <1>5, WinnerIs
  <1> HIDE DEF group, of, Vs, rank, win
  <1>10. ASSUME v \in Ledger!Best(candidates, f), win.confidence >= Minimum
         PROVE  Ledger!Shown(f, v)
    <2>1. v \in Vs /\ \A u \in Vs : rank(v) <= rank(u)  BY <1>6, <1>10
    <2>2. PICK c \in group(v) : Ledger!Priority(c) = rank(v)  BY <1>7, <2>1
    <2>3. c \in of /\ c.value = v  BY <1>3, <2>2
    <2>4. ASSUME NEW o \in of PROVE Ledger!Priority(c) <= Ledger!Priority(o)
      <3>1. o.value \in Vs /\ o \in group(o.value)  BY <1>2, <1>3, <1>5, <2>4
      <3>2. rank(v) <= rank(o.value) /\ rank(o.value) <= Ledger!Priority(o)
        BY <1>7, <2>1, <3>1
      <3> QED BY <1>7, <1>8, <2>1, <2>2, <3>1, <3>2
    <2>5. win \in of /\ win.value = v  BY <1>3, <1>9, <2>1
    <2> QED BY <1>4, <1>10, <2>3, <2>4, <2>5
  <1>11. ASSUME Ledger!Shown(f, v)
         PROVE  v \in Ledger!Best(candidates, f) /\ win.confidence >= Minimum
    <2>1. PICK c \in of, e \in of :
            /\ c.value = v /\ \A o \in of : Ledger!Priority(c) <= Ledger!Priority(o)
            /\ e.value = v /\ e.confidence >= Minimum
      BY <1>4, <1>11
    <2>2. c \in group(v) /\ e \in group(v) /\ v \in Vs  BY <1>3, <1>5, <2>1
    <2>3. ASSUME NEW u \in Vs PROVE rank(v) <= rank(u)
      <3>1. PICK o \in group(u) : Ledger!Priority(o) = rank(u)  BY <1>7, <2>3
      <3>2. Ledger!Priority(c) <= rank(u)  BY <1>3, <2>1, <3>1
      <3>3. rank(v) <= Ledger!Priority(c)  BY <1>7, <2>2
      <3> QED BY <1>7, <1>8, <2>1, <2>2, <2>3, <3>2, <3>3
    <2>4. v \in Ledger!Best(candidates, f)  BY <1>6, <2>2, <2>3
    <2>5. win \in of /\ e.confidence <= win.confidence  BY <1>3, <1>9, <2>2
    <2>6. win.confidence \in Nat /\ e.confidence \in Nat /\ Minimum \in Nat
      BY <1>2, <2>1, <2>5, ConfidencesAreNat
    <2> QED BY <2>1, <2>4, <2>5, <2>6
  <1> QED BY <1>10, <1>11 DEF win

\* The directories and the fields of the candidates of a group agree.
LEMMA GroupIsAsked ==
  ASSUME CandidatesAreAnswers, NEW f, NEW v, NEW c \in Ledger!Group(candidates, f, v)
  PROVE  c.field = f /\ \A d \in c.cites : f \in Ledger!Asked(d)
  <1>1. PICK i \in DOMAIN candidates : c = candidates[i]
    BY DEF Ledger!Group, Ledger!Members, Ledger!Applicable
  <1>2. PICK d \in 1..ended :
          candidates[i].cites = {d} /\ candidates[i].field \in Ledger!Asked(d)
    BY <1>1 DEF CandidatesAreAnswers
  <1>3. c.field = f  BY GroupIs DEF CandidatesAreAnswers
  <1> QED BY <1>1, <1>2, <1>3

\* The result shows the supported values.
LEMMA LedgerSupported == LedgerIInv => Ledger!LedgerIsSupported
  <1> SUFFICES ASSUME LedgerIInv, result.status # "none"
               PROVE  {<<o.field, o.value>> : o \in result.outputs} =
                        {p \in FieldCodes \X Values : Ledger!Shown(p[1], p[2])}
    BY DEF Ledger!LedgerIsSupported
  <1>1. result.outputs = Ledger!Outputs(candidates) /\ candidates \in Seq(Ledger!Candidates)
    BY AggregatedIs DEF LedgerIInv, CandidatesAreAnswers, ResultIsOfAll
  <1>2. ASSUME NEW f \in FieldCodes, NEW v \in Values
        PROVE  Ledger!Shown(f, v) <=>
                 \E o \in Ledger!Outputs(candidates) : o.field = f /\ o.value = v
    BY <1>1, ShownIsBest, OutputsAre
  <1>3. \A o \in Ledger!Outputs(candidates) : o.field \in FieldCodes /\ o.value \in Values
    BY OutputsAre
  <1>4. ASSUME NEW p \in FieldCodes \X Values
        PROVE  p \in {<<o.field, o.value>> : o \in Ledger!Outputs(candidates)} <=>
                 Ledger!Shown(p[1], p[2])
    <2>1. PICK f \in FieldCodes, v \in Values : p = <<f, v>>  OBVIOUS
    <2>2. p \in {<<o.field, o.value>> : o \in Ledger!Outputs(candidates)} <=>
            \E o \in Ledger!Outputs(candidates) : o.field = f /\ o.value = v
      BY <2>1
    <2> QED BY <1>2, <2>1, <2>2
  <1>5. {<<o.field, o.value>> : o \in Ledger!Outputs(candidates)} \subseteq FieldCodes \X Values
    BY <1>3
  <1> QED BY <1>1, <1>4, <1>5

\* Special fields come from their directories, which answer nothing else.
LEMMA LedgerPlaces == LedgerIInv => Ledger!PlacesAreKept
  <1> SUFFICES ASSUME LedgerIInv, result.status # "none",
                      NEW o \in result.outputs, NEW d \in Ledger!Docs, d \in o.evidence
               PROVE  IF o.field \in Ledger!Special
                      THEN Place[d] \in DOMAIN FieldsOf /\ o.field \in FieldsOf[Place[d]]
                      ELSE Place[d] \notin DOMAIN FieldsOf
    BY DEF Ledger!PlacesAreKept
  <1>1. o \in Ledger!Outputs(candidates)
    BY AggregatedIs DEF LedgerIInv, ResultIsOfAll
  <1>2. PICK c \in Ledger!Group(candidates, o.field, o.value) : d \in c.cites
    BY <1>1, OutputsAre
  <1>3. o.field \in Ledger!Asked(d)
    BY <1>2, GroupIsAsked DEF LedgerIInv
  <1> QED BY <1>3 DEF Ledger!Asked, Ledger!Special

\* Two values of a scalar field are marked as a conflict.
LEMMA LedgerConflicts == LedgerIInv => Ledger!NoSilentChoice
  <1> SUFFICES ASSUME LedgerIInv, result.status # "none",
                      NEW o \in result.outputs, NEW p \in result.outputs,
                      o.field = p.field, o.value # p.value, o.field \notin Lists
               PROVE  \E c \in result.conflicts : c.field = o.field
    BY DEF Ledger!NoSilentChoice
  <1>1. /\ o \in Ledger!Outputs(candidates) /\ p \in Ledger!Outputs(candidates)
        /\ result.conflicts =
             {Ledger!Conflict(candidates, f) :
                f \in {g \in {candidates[i].field : i \in Ledger!Applicable(candidates)} :
                        Ledger!Conflicts(candidates, g)}}
    BY AggregatedIs DEF LedgerIInv, ResultIsOfAll
  <1>2. o.value \in Ledger!Best(candidates, o.field) /\ p.value \in Ledger!Best(candidates, o.field)
    BY <1>1, OutputsAre
  <1>3. Ledger!Conflicts(candidates, o.field)  BY <1>2 DEF Ledger!Conflicts
  <1>4. o.value \in Ledger!ValuesOf(candidates, o.field)  BY <1>2, BestIs
  <1>5. PICK i \in Ledger!Members(candidates, o.field, o.value) : TRUE
    BY <1>4 DEF Ledger!ValuesOf, Ledger!Group
  <1>6. i \in Ledger!Applicable(candidates) /\ candidates[i].field = o.field
    BY <1>5 DEF Ledger!Members
  <1>7. Ledger!Conflict(candidates, o.field) \in result.conflicts  BY <1>1, <1>3, <1>6
  <1> QED BY <1>7 DEF Ledger!Conflict

\* What is shown is a row of its group.
LEMMA LedgerRows == LedgerIInv => Ledger!WinnersAreRows
  <1> SUFFICES ASSUME LedgerIInv, result.status # "none", NEW o \in result.outputs
               PROVE  /\ \E i \in Ledger!Applicable(candidates) :
                           /\ candidates[i].id = o.id /\ candidates[i].field = o.field
                           /\ candidates[i].value = o.value
                           /\ candidates[i].confidence = o.confidence
                           /\ candidates[i].period = o.period
                      /\ \A c \in result.conflicts :
                           c.field = o.field
                             => o.id \in c.candidates /\ o.id \in result.conflicting
    BY DEF Ledger!WinnersAreRows
  <1> DEFINE win == Ledger!Winner(candidates, o.field, o.value)
             group == Ledger!Group(candidates, o.field, o.value)
  <1>1. /\ candidates \in Seq(Ledger!Candidates) /\ o \in Ledger!Outputs(candidates)
        /\ result.conflicting =
             {p.id : p \in {q \in Ledger!Outputs(candidates) : Ledger!Conflicts(candidates, q.field)}}
        /\ result.conflicts =
             {Ledger!Conflict(candidates, f) :
                f \in {g \in {candidates[i].field : i \in Ledger!Applicable(candidates)} :
                        Ledger!Conflicts(candidates, g)}}
    BY AggregatedIs DEF LedgerIInv, CandidatesAreAnswers, ResultIsOfAll
  <1>2. /\ o.value \in Ledger!Best(candidates, o.field)
        /\ o.confidence = Ledger!Highest(candidates, o.field, o.value)
        /\ o.id = win.id /\ o.period = win.period
    BY <1>1, OutputsAre
  <1>3. group # {}  BY <1>2, BestIs DEF Ledger!ValuesOf
  <1>4. /\ \E i \in Ledger!Members(candidates, o.field, o.value) : win = candidates[i]
        /\ win \in group /\ win.confidence = o.confidence
    BY <1>1, <1>2, <1>3, WinnerIs
  <1> HIDE DEF win, group
  <1>5. PICK i \in Ledger!Members(candidates, o.field, o.value) : win = candidates[i]  BY <1>4
  <1>6. /\ i \in Ledger!Applicable(candidates)
        /\ candidates[i].field = o.field /\ candidates[i].value = o.value
    BY DEF Ledger!Members
  <1>7. ASSUME NEW c \in result.conflicts, c.field = o.field
        PROVE  o.id \in c.candidates /\ o.id \in result.conflicting
    <2>1. PICK f : c = Ledger!Conflict(candidates, f) /\ Ledger!Conflicts(candidates, f)
      BY <1>1, <1>7
    <2>2. f = o.field  BY <1>7, <2>1 DEF Ledger!Conflict
    <2>3. o.id \in result.conflicting  BY <1>1, <2>1, <2>2
    <2>4. win \in UNION {Ledger!Group(candidates, f, v) : v \in Ledger!Best(candidates, f)}
      BY <1>2, <1>4, <2>2 DEF group
    <2>5. win.id \in c.candidates  BY <2>1, <2>4 DEF Ledger!Conflict
    <2> QED BY <1>2, <2>3, <2>5
  <1> QED BY <1>2, <1>4, <1>5, <1>6, <1>7

\* The ledger shows the supported values, from the right directories, and marks
\* conflicts (_aggregate).
THEOREM LedgerRight == ServicesSpec => []LedgerIsRight
  <1>1. LedgerIInv => LedgerIsRight
    BY LedgerSupported, LedgerRows, LedgerPlaces, LedgerConflicts
    DEF LedgerIsRight, Ledger!LedgerIsRight
  <1> QED BY <1>1, LedgerInvariant, PTL

-----------------------------------------------------------------------------
\* Exchanging two rows permutes the rows.
LEMMA ExchangedRows ==
  ASSUME NEW s \in Seq(Ledger!Candidates), NEW i \in DOMAIN s, NEW j \in DOMAIN s
  PROVE  /\ Ledger!Exchanged(s, i, j) \in Seq(Ledger!Candidates)
         /\ {Ledger!Exchanged(s, i, j)[k] : k \in DOMAIN Ledger!Exchanged(s, i, j)} =
              {s[k] : k \in DOMAIN s}
  <1> DEFINE t == Ledger!Exchanged(s, i, j)
             n == Len(s)
  <1>1. n \in Nat /\ DOMAIN s = 1..n /\ \A k \in 1..n : s[k] \in Ledger!Candidates
    BY ElementOfSeq, LenProperties
  <1>2. /\ t = [k \in DOMAIN s |-> IF k = j THEN s[i] ELSE IF k = i THEN s[j] ELSE s[k]]
    BY DEF Ledger!Exchanged
  <1> HIDE DEF t, n
  <1>3. DOMAIN t = 1..n /\ t[i] = s[j] /\ t[j] = s[i]
        /\ \A k \in (1..n) \ {i, j} : t[k] = s[k]
    BY <1>1, <1>2
  <1>4. \A k \in 1..n : t[k] \in Ledger!Candidates  BY <1>1, <1>3
  <1>5. t \in Seq(Ledger!Candidates)
    <2>1. t \in [1..n -> Ledger!Candidates]  BY <1>2, <1>3, <1>4
    <2> QED BY <1>1, <2>1, IsASeq
  <1>6. \A k \in 1..n : \E m \in 1..n : t[k] = s[m]  BY <1>1, <1>3
  <1>7. \A k \in 1..n : \E m \in 1..n : s[k] = t[m]  BY <1>1, <1>3
  <1>8. {t[k] : k \in DOMAIN t} = {s[k] : k \in DOMAIN s}
    <2>1. ASSUME NEW k \in 1..n
          PROVE  t[k] \in {s[m] : m \in 1..n} /\ s[k] \in {t[m] : m \in 1..n}
      <3>1. PICK m \in 1..n : t[k] = s[m]  BY <1>6
      <3>2. PICK l \in 1..n : s[k] = t[l]  BY <1>7
      <3> QED BY <3>1, <3>2
    <2>2. {t[m] : m \in 1..n} = {s[m] : m \in 1..n}  BY <2>1
    <2> QED BY <1>1, <1>3, <2>2
  <1> QED BY <1>5, <1>8 DEF t

\* Apart from the winners the aggregation is a function of the set of the rows.
LEMMA SettledOfASet ==
  ASSUME NEW s \in Seq(Ledger!Candidates), NEW t \in Seq(Ledger!Candidates),
         {s[k] : k \in DOMAIN s} = {t[k] : k \in DOMAIN t}
  PROVE  Ledger!Settled(Ledger!Aggregated(t)) = Ledger!Settled(Ledger!Aggregated(s))
  <1> DEFINE S == {s[k] : k \in DOMAIN s}
             among(R, f, v) == {c \in R : c.period \in InForce /\ c.field = f /\ c.value = v}
  <1>0. {t[k] : k \in DOMAIN t} = S  OBVIOUS
  <1>1. ASSUME NEW f, NEW v PROVE Ledger!Group(t, f, v) = Ledger!Group(s, f, v)
    <2>1. Ledger!Group(s, f, v) = among(S, f, v)  BY GroupIs
    <2>2. Ledger!Group(t, f, v) = among({t[k] : k \in DOMAIN t}, f, v)  BY GroupIs
    <2> HIDE DEF among, S
    <2> QED BY <1>0, <2>1, <2>2
  <1>2. ASSUME NEW f, NEW v
        PROVE  /\ Ledger!GroupPriority(t, f, v) = Ledger!GroupPriority(s, f, v)
               /\ Ledger!Highest(t, f, v) = Ledger!Highest(s, f, v)
    BY <1>1 DEF Ledger!GroupPriority, Ledger!Highest
  <1>3. ASSUME NEW f PROVE Ledger!ValuesOf(t, f) = Ledger!ValuesOf(s, f)
    BY <1>1 DEF Ledger!ValuesOf
  <1>4. ASSUME NEW f PROVE Ledger!Best(t, f) = Ledger!Best(s, f)
    <2> DEFINE rank(x, v) == Ledger!GroupPriority(x, f, v)
    <2>1. Ledger!Best(t, f) = {v \in Ledger!ValuesOf(t, f) :
                                 \A w \in Ledger!ValuesOf(t, f) : rank(t, v) <= rank(t, w)}
      BY BestIs
    <2>2. Ledger!Best(s, f) = {v \in Ledger!ValuesOf(s, f) :
                                 \A w \in Ledger!ValuesOf(s, f) : rank(s, v) <= rank(s, w)}
      BY BestIs
    <2>3. \A v : rank(t, v) = rank(s, v)  BY <1>2
    <2> HIDE DEF rank
    <2> QED BY <1>3, <2>1, <2>2, <2>3
  <1>5. ASSUME NEW f, NEW v, v \in Ledger!Best(s, f)
        PROVE  Ledger!Winner(t, f, v).confidence = Ledger!Winner(s, f, v).confidence
    <2>1. Ledger!Group(s, f, v) # {}  BY <1>5, BestIs DEF Ledger!ValuesOf
    <2> QED BY <1>1, <1>2, <2>1, WinnerIs
  <1> DEFINE value(o) == [field |-> o.field, value |-> o.value, confidence |-> o.confidence,
                          evidence |-> o.evidence]
             shown(x) == {p \in FieldCodes \X Values :
                            /\ p[2] \in Ledger!Best(x, p[1])
                            /\ Ledger!Winner(x, p[1], p[2]).confidence >= Minimum}
             view(x, p) == [field |-> p[1], value |-> p[2],
                            confidence |-> Ledger!Highest(x, p[1], p[2]),
                            evidence |-> UNION {c.cites : c \in Ledger!Group(x, p[1], p[2])}]
  <1>6. shown(t) = shown(s)  BY <1>4, <1>5
  <1>7. ASSUME NEW x
        PROVE  {value(o) : o \in Ledger!Outputs(x)} = {view(x, p) : p \in shown(x)}
    <2>1. Ledger!Outputs(x) = {Ledger!Output(x, p[1], p[2]) : p \in shown(x)}
      BY DEF Ledger!Outputs
    <2>2. \A p : value(Ledger!Output(x, p[1], p[2])) = view(x, p)
      BY DEF Ledger!Output
    <2> HIDE DEF value, view, shown
    <2> QED BY <2>1, <2>2
  <1>8. \A p : view(t, p) = view(s, p)  BY <1>1, <1>2
  <1>9. {value(o) : o \in Ledger!Outputs(t)} = {value(o) : o \in Ledger!Outputs(s)}
    <2>1. {value(o) : o \in Ledger!Outputs(t)} = {view(t, p) : p \in shown(t)}  BY <1>7
    <2>2. {value(o) : o \in Ledger!Outputs(s)} = {view(s, p) : p \in shown(s)}  BY <1>7
    <2> HIDE DEF value, view, shown
    <2>3. {view(t, p) : p \in shown(t)} = {view(s, p) : p \in shown(s)}  BY <1>6, <1>8
    <2> QED BY <2>1, <2>2, <2>3
  <1>10. {o.field : o \in Ledger!Outputs(t)} = {o.field : o \in Ledger!Outputs(s)}
    <2> DEFINE V(x) == {value(o) : o \in Ledger!Outputs(x)}
    <2>1. ASSUME NEW x PROVE {o.field : o \in Ledger!Outputs(x)} = {y.field : y \in V(x)}
      <3>1. \A o : value(o).field = o.field  OBVIOUS
      <3> HIDE DEF value
      <3> QED BY <3>1
    <2>2. V(t) = V(s)  BY <1>9
    <2> HIDE DEF V
    <2> QED BY <2>1, <2>2
  <1>11. (Ledger!Outputs(t) = {}) = (Ledger!Outputs(s) = {})
    <2>1. ASSUME NEW x PROVE (Ledger!Outputs(x) = {}) = (shown(x) = {})
      <3> HIDE DEF shown
      <3>1. Ledger!Outputs(x) = {Ledger!Output(x, p[1], p[2]) : p \in shown(x)}
        BY DEF Ledger!Outputs, shown
      <3> QED BY <3>1
    <2> HIDE DEF shown
    <2> QED BY <1>6, <2>1
  <1>12. ASSUME NEW f
         PROVE  /\ Ledger!Conflicts(t, f) = Ledger!Conflicts(s, f)
                /\ Ledger!Conflict(t, f) = Ledger!Conflict(s, f)
    <2>1. Ledger!Conflicts(t, f) = Ledger!Conflicts(s, f)
      BY <1>4 DEF Ledger!Conflicts
    <2> DEFINE all(x) == UNION {Ledger!Group(x, f, v) : v \in Ledger!Best(x, f)}
    <2>2. all(t) = all(s)  BY <1>1, <1>4
    <2>3. ASSUME NEW x PROVE Ledger!Conflict(x, f) = [field |-> f, candidates |-> {c.id : c \in all(x)}]
      BY DEF Ledger!Conflict
    <2> HIDE DEF all
    <2> QED BY <2>1, <2>2, <2>3
  <1> DEFINE fields(R) == {c.field : c \in {e \in R : e.period \in InForce}}
             ids(R) == {c.id : c \in {e \in R : e.period \notin InForce}}
  <1>13. ASSUME NEW x
         PROVE  /\ {x[i].field : i \in Ledger!Applicable(x)} = fields({x[k] : k \in DOMAIN x})
                /\ {x[i].id : i \in DOMAIN x \ Ledger!Applicable(x)} = ids({x[k] : k \in DOMAIN x})
    BY DEF Ledger!Applicable
  <1>14. /\ {t[i].field : i \in Ledger!Applicable(t)} = {s[i].field : i \in Ledger!Applicable(s)}
         /\ {t[i].id : i \in DOMAIN t \ Ledger!Applicable(t)} =
              {s[i].id : i \in DOMAIN s \ Ledger!Applicable(s)}
    <2>1. /\ {s[i].field : i \in Ledger!Applicable(s)} = fields(S)
          /\ {s[i].id : i \in DOMAIN s \ Ledger!Applicable(s)} = ids(S)
      BY <1>13
    <2>2. /\ {t[i].field : i \in Ledger!Applicable(t)} = fields({t[k] : k \in DOMAIN t})
          /\ {t[i].id : i \in DOMAIN t \ Ledger!Applicable(t)} = ids({t[k] : k \in DOMAIN t})
      BY <1>13
    <2> HIDE DEF fields, ids, S
    <2> QED BY <1>0, <2>1, <2>2
  <1> DEFINE disputes(x) == {Ledger!Conflict(x, f) :
               f \in {g \in {x[i].field : i \in Ledger!Applicable(x)} : Ledger!Conflicts(x, g)}}
  <1>15. disputes(t) = disputes(s)  BY <1>12, <1>14
  <1>16. ASSUME NEW x
         PROVE  Ledger!Settled(Ledger!Aggregated(x)) =
                  [status |-> IF Ledger!Outputs(x) # {} \/ disputes(x) # {}
                              THEN "review_required" ELSE "completed",
                   conflicts |-> disputes(x),
                   excluded |-> {x[i].id : i \in DOMAIN x \ Ledger!Applicable(x)},
                   unresolved |-> FieldCodes \ {o.field : o \in Ledger!Outputs(x)},
                   shown |-> {value(o) : o \in Ledger!Outputs(x)}]
    <2>1. (Ledger!Outputs(x) \union disputes(x) # {}) =
            (Ledger!Outputs(x) # {} \/ disputes(x) # {})
      <3> HIDE DEF disputes
      <3> QED OBVIOUS
    <2> QED BY <2>1 DEF Ledger!Settled, Ledger!Aggregated
  <1> DEFINE V(x) == {value(o) : o \in Ledger!Outputs(x)}
             F(x) == {o.field : o \in Ledger!Outputs(x)}
             E(x) == {x[i].id : i \in DOMAIN x \ Ledger!Applicable(x)}
             N(x) == Ledger!Outputs(x) # {} \/ disputes(x) # {}
             R(x) == Ledger!Settled(Ledger!Aggregated(x))
  <1>17. ASSUME NEW x
         PROVE  R(x) = [status |-> IF N(x) THEN "review_required" ELSE "completed",
                        conflicts |-> disputes(x), excluded |-> E(x),
                        unresolved |-> FieldCodes \ F(x), shown |-> V(x)]
    BY <1>16
  <1>18. V(t) = V(s) /\ F(t) = F(s) /\ E(t) = E(s) /\ N(t) = N(s)
    BY <1>9, <1>10, <1>11, <1>14, <1>15
  <1>19. R(t) = R(s)
    <2> HIDE DEF V, F, E, N, R, disputes
    <2> QED BY <1>15, <1>17, <1>18
  <1> QED BY <1>19

\* The values, confidences, evidence, conflicts and exclusions of the ledger do not
\* depend on the order in which the query returns the rows.
THEOREM LedgerOrder == ServicesSpec => []OrderDoesNotMatter
  <1>1. LedgerIInv => OrderDoesNotMatter
    <2> SUFFICES ASSUME LedgerIInv, result.status # "none",
                        NEW i \in DOMAIN candidates, NEW j \in DOMAIN candidates
                 PROVE  Ledger!Settled(Ledger!Aggregated(Ledger!Exchanged(candidates, i, j))) =
                          Ledger!Settled(result)
      BY DEF OrderDoesNotMatter, Ledger!OrderDoesNotMatter
    <2>1. candidates \in Seq(Ledger!Candidates) /\ result = Ledger!Aggregated(candidates)
      BY DEF LedgerIInv, CandidatesAreAnswers, ResultIsOfAll
    <2> QED BY <2>1, ExchangedRows, SettledOfASet
  <1> QED BY <1>1, LedgerInvariant, PTL

=============================================================================
