--------------------------- MODULE RequestIntake ---------------------------
(***************************************************************************)
(* Idempotent creation of tasks and Conversations: create_task             *)
(* (backend/app/api/tasks.py) and create_conversation                      *)
(* (backend/app/api/conversations.py) with their TaskService calls.        *)
(*                                                                         *)
(* Both handlers look for a row with the caller's Idempotency-Key, then    *)
(* insert one.  Handlers run concurrently and read committed rows only; an *)
(* INSERT waits while another transaction holds an uncommitted row with    *)
(* the same unique key.  A retry of a client is a request of its own.      *)
(***************************************************************************)
EXTENDS FiniteSets

CONSTANTS
  Requests,   \* HTTP requests
  TaskPosts,  \* those that create a task; the others create a Conversation
  KeyOf,      \* [Requests -> <client, Idempotency-Key> or NoKey]
  NoKey,
  BodyOf,     \* [Requests -> request_hash]
  Unknown     \* requests that name an unknown project, profile or Conversation

ASSUME RequestsType == TaskPosts \subseteq Requests /\ Unknown \subseteq Requests

VARIABLES
  rows,  \* requests whose row is committed; the request stands for its row
  pc,    \* progress of a handler
  reply  \* what the handler answered and the row it showed

vars == <<rows, pc, reply>>

Silent == [answer |-> "none", row |-> {}]
Answers == {"none", "created", "replay", "conflict", "not_found", "error", "lost"}

\* Rows, steps and answers of the requests; an answer shows at most one row.
TypeOK ==
  /\ rows \subseteq Requests
  /\ pc \in [Requests -> {"new", "validate", "insert", "inserted", "reread", "done"}]
  /\ reply \in [Requests -> [answer : Answers, row : {{}} \union {{r} : r \in Requests}]]

Init ==
  /\ rows = {}
  /\ pc = [r \in Requests |-> "new"]
  /\ reply = [r \in Requests |-> Silent]

SameTable(r, s) == r \in TaskPosts <=> s \in TaskPosts

\* Two rows the unique constraint of their table does not allow side by side.
Collide(r, s) == r # s /\ SameTable(r, s) /\ KeyOf[r] # NoKey /\ KeyOf[s] = KeyOf[r]


\* get_task_by_idempotency, get_conversation_by_idempotency
Existing(r) == {s \in rows : Collide(r, s)}

Go(r, l) == pc' = [pc EXCEPT ![r] = l]

Answer(r, a, S) ==
  /\ Go(r, "done")
  /\ reply' = [reply EXCEPT ![r] = [answer |-> a, row |-> S]]

\* Mutant: a known key is a replay whatever the request says.
ReplayAny(r, S) == Answer(r, "replay", S)

\* A row with the key of the request is its replay, or a conflict.
Replay(r, S) ==
  IF \E s \in S : BodyOf[s] # BodyOf[r] THEN Answer(r, "conflict", {}) ELSE Answer(r, "replay", S)

\* The handler looks for the key.
Lookup(r) ==
  /\ pc[r] = "new"
  /\ IF Existing(r) # {} THEN Replay(r, Existing(r)) ELSE Go(r, "validate") /\ UNCHANGED reply
  /\ UNCHANGED rows

\* The service resolves project, runtime profile and Conversation.
Validate(r) ==
  /\ pc[r] = "validate"
  /\ IF r \in Unknown THEN Answer(r, "not_found", {}) ELSE Go(r, "insert") /\ UNCHANGED reply
  /\ UNCHANGED rows

\* Mutant: the tables have no unique constraint on the key.
InsertUnchecked(r) ==
  /\ pc[r] = "insert"
  /\ Go(r, "inserted")
  /\ UNCHANGED <<rows, reply>>

\* The INSERT is flushed; a committed row with the key makes it fail.  Only
\* create_conversation handles the IntegrityError.
Insert(r) ==
  /\ pc[r] = "insert"
  /\ ~\E s \in Requests : Collide(r, s) /\ pc[s] = "inserted"
  /\ IF Existing(r) = {} THEN Go(r, "inserted") /\ UNCHANGED reply
     ELSE IF r \in TaskPosts THEN Answer(r, "error", {})
     ELSE Go(r, "reread") /\ UNCHANGED reply
  /\ UNCHANGED rows


\* The transaction commits; a task was inserted with its event and queue item.
Commit(r) ==
  /\ pc[r] = "inserted"
  /\ rows' = rows \union {r}
  /\ Answer(r, "created", {r})

\* Mutant: the failed insert is tried again.
RereadRetries(r) ==
  /\ pc[r] = "reread"
  /\ Go(r, "insert")
  /\ UNCHANGED <<rows, reply>>

\* create_conversation rolls back and reads the row that was there first.
Reread(r) ==
  /\ pc[r] = "reread"
  /\ IF Existing(r) = {} THEN Answer(r, "conflict", {}) ELSE Replay(r, Existing(r))
  /\ UNCHANGED rows

\* The API process dies with its handlers; what they did not commit is undone.
Crash ==
  LET inFlight == {r \in Requests : pc[r] \notin {"new", "done"}}
  IN  /\ inFlight # {}
      /\ pc' = [r \in Requests |-> IF r \in inFlight THEN "done" ELSE pc[r]]
      /\ reply' = [r \in Requests |-> IF r \in inFlight THEN [answer |-> "lost", row |-> {}]
                                      ELSE reply[r]]
      /\ UNCHANGED rows

\* The connection breaks after the commit: the client does not know the outcome.
LoseReply(r) ==
  /\ reply[r].answer = "created"
  /\ reply' = [reply EXCEPT ![r] = [answer |-> "lost", row |-> {}]]
  /\ UNCHANGED <<rows, pc>>

Handle(r) == Lookup(r) \/ Validate(r) \/ Insert(r) \/ Commit(r) \/ Reread(r)

Next == (\E r \in Requests : Handle(r) \/ LoseReply(r)) \/ Crash

Spec == Init /\ [][Next]_vars

\* The process serves every request it has accepted.
FairSpec == Spec /\ \A r \in Requests : WF_vars(Handle(r))

-----------------------------------------------------------------------------
(* Properties *)

Shown(r) == reply[r].answer \in {"created", "replay"}

\* Whatever handlers overlap, crash or lose their reply, all successful answers
\* for one key show one committed row.
OneRowPerKey ==
  \A r, s \in Requests : Shown(r) /\ Shown(s) /\ Collide(r, s) =>
    reply[r].row = reply[s].row /\ reply[r].row \subseteq rows /\ Cardinality(reply[r].row) = 1

\* No caller is shown the work of a different request.
ShownRowIsOwn ==
  \A r \in Requests : Shown(r) => \A s \in reply[r].row : BodyOf[s] = BodyOf[r] /\ SameTable(r, s)

\* A created row is never lost: a client told so can rely on it.
CreatedRowsStay == \A r \in Requests : reply[r].answer = "created" => r \in rows

\* Every request is answered: overlapping inserts never block for good.
RequestsAreAnswered == \A r \in Requests : <>(pc[r] = "done")
=============================================================================
