---------------------------- MODULE AnalysisScope ----------------------------
(***************************************************************************)
(* The scopes of one customer in one source: extractions that resolve the    *)
(* scope from the roots the source has by then (_resolve_scope), and the     *)
(* requests to repair a resolved scope (create_scope_ingestion).  Loops of   *)
(* several processes and several handlers run at once.                       *)
(***************************************************************************)
EXTENDS Naturals, Sequences, FiniteSets

CONSTANTS
  Roots,        \* root directories the customer may be matched with
  Extractions,
  Posts,        \* requests to repair a scope
  KeyOf,        \* their idempotency keys
  MaxRepairs    \* bound on the repairs

ASSUME ScopeAssumption == MaxRepairs \in Nat

VARIABLES
  layout,      \* the roots that match the customer best
  scopes,      \* rows of the customer's scopes by revision
  resolution,  \* what each extraction has read and resolved
  repairs,     \* the ingestions of scopes, with their state
  posts,       \* the progress and answer of each request
  requested    \* the rows of the requests

vars == <<layout, scopes, resolution, repairs, posts, requested>>

-----------------------------------------------------------------------------
Waiting == [stage |-> "waiting"]

Init ==
  /\ layout = {}
  /\ scopes = <<>>
  /\ resolution = [e \in Extractions |-> Waiting]
  /\ repairs = <<>>
  /\ posts = [p \in Posts |-> Waiting]
  /\ requested = {}

\* An ingestion observes other root directories.
Observe ==
  /\ layout' \in SUBSET Roots
  /\ UNCHANGED <<scopes, resolution, repairs, posts, requested>>

-----------------------------------------------------------------------------
(* _resolve_scope in one session.                                           *)

Current == {i \in DOMAIN scopes : scopes[i].open}

\* The active scope of the highest revision, 0 if there is none.
Newest == IF Current = {} THEN 0 ELSE CHOOSE i \in Current : \A j \in Current : j <= i

\* Without a single best root the extraction fails.
ReadRoots(e) ==
  /\ resolution[e] = Waiting
  /\ resolution' =
       IF Cardinality(layout) # 1 THEN [resolution EXCEPT ![e] = [stage |-> "failed"]]
       ELSE [resolution EXCEPT ![e] =
               [stage |-> "read", root |-> CHOOSE r \in layout : TRUE, seen |-> Newest]]
  /\ UNCHANGED <<layout, scopes, repairs, posts, requested>>

\* A mutant: the unique constraint on the revision is missing.
NeverTaken(revision) == revision = 0

\* The unique constraint refuses a revision another loop has inserted.
Taken(revision) == revision \in DOMAIN scopes

\* The scope that was seen gets its valid_to.
Closed(n) ==
  [i \in DOMAIN scopes |-> IF i = n THEN [scopes[i] EXCEPT !.open = FALSE] ELSE scopes[i]]

\* The active scope is kept or superseded by the next revision.
CommitScope(e) ==
  LET r == resolution[e]
  IN /\ r.stage = "read"
     /\ IF r.seen # 0 /\ scopes[r.seen].root = r.root
        THEN /\ resolution' = [resolution EXCEPT ![e] = [stage |-> "resolved", scope |-> r.seen]]
             /\ UNCHANGED scopes
        ELSE IF Taken(r.seen + 1)
        THEN /\ resolution' = [resolution EXCEPT ![e] = [stage |-> "failed"]]
             /\ UNCHANGED scopes
        ELSE /\ resolution' = [resolution EXCEPT ![e] = [stage |-> "resolved", scope |-> r.seen + 1]]
             /\ scopes' = Append(Closed(r.seen), [root |-> r.root, open |-> TRUE])
     /\ UNCHANGED <<layout, repairs, posts, requested>>

-----------------------------------------------------------------------------
(* create_scope_ingestion.                                                  *)

Answer(p, i) == posts' = [posts EXCEPT ![p] = [stage |-> "answered", repair |-> i]]

\* The scope is checked and an earlier request with the key looked up.
CheckRequest(p) ==
  /\ posts[p] = Waiting
  /\ \E s \in Current :
       LET prior == {q \in requested : q.scope = s /\ q.key = KeyOf[p]}
       IN IF prior # {} THEN \E q \in prior : Answer(p, q.repair)
          ELSE posts' = [posts EXCEPT ![p] = [stage |-> "checked", scope |-> s]]
  /\ UNCHANGED <<layout, scopes, resolution, repairs, requested>>

\* create_ingestion commits on its own; an active repair of the scope is taken.
CreateRepair(p) ==
  LET active == {i \in DOMAIN repairs : repairs[i].active /\ repairs[i].scope = posts[p].scope}
  IN /\ posts[p].stage = "checked"
     /\ IF active # {}
        THEN /\ \E i \in active : posts' = [posts EXCEPT ![p] =
                  [stage |-> "created", scope |-> posts[p].scope, repair |-> i]]
             /\ UNCHANGED repairs
        ELSE /\ Len(repairs) < MaxRepairs
             /\ repairs' = Append(repairs, [scope |-> posts[p].scope, active |-> TRUE])
             /\ posts' = [posts EXCEPT ![p] = [stage |-> "created", scope |-> posts[p].scope,
                                               repair |-> Len(repairs) + 1]]
     /\ UNCHANGED <<layout, scopes, resolution, requested>>

\* A mutant: the key of a request is not unique.
NeverUsed(p) == FALSE

\* The unique constraint on the scope and the key.
Used(p) == \E q \in requested : q.scope = posts[p].scope /\ q.key = KeyOf[p]

InsertRequest(p) ==
  /\ posts[p].stage = "created"
  /\ IF Used(p)
     THEN posts' = [posts EXCEPT ![p] = [stage |-> "refused"]] /\ UNCHANGED requested
     ELSE /\ requested' = requested \union
               {[scope |-> posts[p].scope, key |-> KeyOf[p], repair |-> posts[p].repair]}
          /\ Answer(p, posts[p].repair)
  /\ UNCHANGED <<layout, scopes, resolution, repairs>>

\* The process ends between the two commits and the client repeats its request.
Repeat(p) ==
  /\ posts[p].stage \in {"checked", "created", "refused"}
  /\ posts' = [posts EXCEPT ![p] = Waiting]
  /\ UNCHANGED <<layout, scopes, resolution, repairs, requested>>

EndRepair(i) ==
  /\ repairs[i].active
  /\ repairs' = [repairs EXCEPT ![i].active = FALSE]
  /\ UNCHANGED <<layout, scopes, resolution, posts, requested>>

-----------------------------------------------------------------------------
Resolve(e) == ReadRoots(e) \/ CommitScope(e)

Post(p) == CheckRequest(p) \/ CreateRepair(p) \/ InsertRequest(p) \/ Repeat(p)

Next ==
  \/ Observe
  \/ \E e \in Extractions : Resolve(e)
  \/ \E p \in Posts : Post(p)
  \/ \E i \in DOMAIN repairs : EndRepair(i)

Spec == Init /\ [][Next]_vars

-----------------------------------------------------------------------------
\* The values of the variables: every repair belongs to a scope, every answer to
\* a repair, and a key is used once for a scope.
TypeOK ==
  /\ layout \subseteq Roots
  /\ \A i \in DOMAIN scopes : scopes[i].root \in Roots /\ scopes[i].open \in BOOLEAN
  /\ \A i \in DOMAIN repairs : repairs[i].scope \in DOMAIN scopes
  /\ \A p \in Posts : posts[p].stage = "answered" => posts[p].repair \in DOMAIN repairs
  /\ \A q, r \in requested : q.scope = r.scope /\ q.key = r.key => q = r

\* A customer has one active scope, the latest one, although extractions resolve
\* it at once from different states of the source.
LatestIsActive == scopes # <<>> => Current = {Len(scopes)}

\* Requests with one key that are answered for one scope name one repair.
SameKeySameRepair ==
  \A p, q \in Posts :
    /\ posts[p].stage = "answered" /\ posts[q].stage = "answered"
    /\ KeyOf[p] = KeyOf[q]
    /\ repairs[posts[p].repair].scope = repairs[posts[q].repair].scope
    => posts[p].repair = posts[q].repair

=============================================================================
