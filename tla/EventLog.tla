------------------------------ MODULE EventLog ------------------------------
(***************************************************************************)
(* The event ledger of the gateway: TaskService.append_event               *)
(* (backend/app/services/task_service.py) and the SSE streams that read it *)
(* (backend/app/events/sse.py).                                            *)
(*                                                                         *)
(* A transaction appends one event.  It takes the row lock of AuditCursor, *)
(* then that of the Conversation, and holds both until it commits.  The    *)
(* steps between are interleaved because sessions keep the attributes they *)
(* loaded (expire_on_commit and autoflush are off, and a locking SELECT    *)
(* does not refresh a loaded object).  A task has one writer at a time,    *)
(* which DurableQueue shows.                                               *)
(***************************************************************************)
EXTENDS Integers, Sequences, FiniteSets

CONSTANTS
  Tasks,
  Conv,       \* [Tasks -> conversation or NoConv]
  NoConv,     \* a task outside every Conversation
  AuditPage,  \* LIMIT of list_audit_events
  MaxEvents   \* bound on the length of the ledger

ASSUME BoundsType == AuditPage \in Nat \ {0} /\ MaxEvents \in Nat

VARIABLES
  log,        \* committed TaskEvents in the order of their commits
  nextGlobal, \* AuditCursor.next_sequence
  nextConv,   \* Conversation.next_event_sequence
  nextTask,   \* Task.next_event_sequence
  status,     \* Task.status
  phase,      \* progress of the transaction of a task's writer
  kind,       \* type of the event it appends
  taskSeq,    \* next_event_sequence in the Task object of its session
  convSeq,    \* the same of the Conversation object, 0 if not loaded
  globalSeq,  \* the number taken from the cursor
  follower,   \* progress of the task stream
  snapshot,   \* the task status it has read
  lastTask,   \* last_sequence of the task stream
  lastConv,   \* last_sequence of the conversation stream
  lastAudit,  \* last_sequence of the audit stream
  got         \* positions in the ledger delivered by each stream

rows == <<log, nextGlobal, nextConv, nextTask, status>>
writers == <<phase, kind, taskSeq, convSeq, globalSeq>>
streams == <<follower, snapshot, lastTask, lastConv, lastAudit, got>>
vars == <<rows, writers, streams>>

Convs == {Conv[t] : t \in Tasks} \ {NoConv}
Terminal == {"completed", "failed", "cancelled"}
Kinds == {"created", "started", "progress", "requeued"} \union Terminal
Statuses == {"absent", "queued", "running"} \union Terminal

\* The statuses in which a transaction appends an event of kind k.  A failed
\* task may start again: its worker may crash before it closes the item.
Sources(k) ==
  CASE k = "created" -> {"absent"}
    [] k = "started" -> {"queued", "failed"}
    [] k \in {"progress", "completed"} -> {"running"}
    [] k \in {"requeued", "failed"} -> {"queued", "running"}
    [] k = "cancelled" -> {"queued", "running", "completed", "failed"}

\* Mutant: the status is taken from the type of the event.
StatusFromType(k) == IF k \in {"created", "requeued"} THEN "queued" ELSE k

StatusAfter(k) ==
  IF k \in Terminal THEN k
  ELSE IF k \in {"created", "requeued"} THEN "queued" ELSE "running"

Events == [task : Tasks, seq : Nat, conv : Convs \union {NoConv}, cseq : Nat,
           gseq : Nat, kind : Kinds]

\* The values of the ledger, the sessions and the positions of the streams.
TypeOK ==
  /\ log \in Seq(Events)
  /\ nextGlobal \in Nat
  /\ nextConv \in [Convs -> Nat]
  /\ nextTask \in [Tasks -> Nat]
  /\ status \in [Tasks -> Statuses]
  /\ phase \in [Tasks -> {"idle", "loaded", "ready", "cursor", "conv"}]
  /\ kind \in [Tasks -> Kinds]
  /\ taskSeq \in [Tasks -> Nat]
  /\ convSeq \in [Tasks -> Nat]
  /\ globalSeq \in [Tasks -> Nat]
  /\ follower \in [Tasks -> {"poll", "read", "ended"}]
  /\ snapshot \in [Tasks -> Statuses]
  /\ lastTask \in [Tasks -> Nat]
  /\ lastConv \in [Convs -> Nat]
  /\ lastAudit \in Nat
  /\ got \in [{"audit"} \union Tasks \union Convs -> SUBSET Nat]

Init ==
  /\ log = << >>
  /\ nextGlobal = 1
  /\ nextConv = [c \in Convs |-> 1]
  /\ nextTask = [t \in Tasks |-> 1]
  /\ status = [t \in Tasks |-> "absent"]
  /\ phase = [t \in Tasks |-> "idle"]
  /\ kind = [t \in Tasks |-> "created"]
  /\ taskSeq = [t \in Tasks |-> 0]
  /\ convSeq = [t \in Tasks |-> 0]
  /\ globalSeq = [t \in Tasks |-> 0]
  /\ follower = [t \in Tasks |-> "poll"]
  /\ snapshot = [t \in Tasks |-> "absent"]
  /\ lastTask = [t \in Tasks |-> 0]
  /\ lastConv = [c \in Convs |-> 0]
  /\ lastAudit = 0
  /\ got = [s \in {"audit"} \union Tasks \union Convs |-> {}]

-----------------------------------------------------------------------------
(* Row locks, held from the statement that takes them to the end of the        *)
(* transaction.                                                                *)

HoldsCursor(t) == phase[t] \in {"cursor", "conv"}

\* SELECT ... FOR UPDATE on the Conversation of the task.
HoldsConv(t) == phase[t] = "conv" /\ Conv[t] # NoConv

\* The foreign key of the inserted Task shares the key of its Conversation.
SharesConvKey(t) ==
  kind[t] = "created" /\ phase[t] \in {"ready", "cursor", "conv"} /\ Conv[t] # NoConv

WaitsForConv(t) ==
  /\ phase[t] = "cursor"
  /\ Conv[t] # NoConv
  /\ \E u \in Tasks \ {t} : Conv[u] = Conv[t] /\ SharesConvKey(u)

\* t waits for the cursor of u and u for the Conversation key of t.
Deadlocked(t, u) ==
  /\ phase[t] = "ready" /\ kind[t] = "created"
  /\ u # t /\ Conv[u] = Conv[t]
  /\ WaitsForConv(u)

-----------------------------------------------------------------------------
(* Writers *)

\* TaskService.create_task loads the Conversation before it appends.
LoadConversation(t) ==
  /\ phase[t] = "idle"
  /\ status[t] = "absent"
  /\ Len(log) < MaxEvents
  /\ phase' = [phase EXCEPT ![t] = "loaded"]
  /\ kind' = [kind EXCEPT ![t] = "created"]
  /\ taskSeq' = [taskSeq EXCEPT ![t] = 1]
  /\ convSeq' = [convSeq EXCEPT ![t] = IF Conv[t] = NoConv THEN 0 ELSE nextConv[Conv[t]]]
  /\ UNCHANGED <<globalSeq, rows, streams>>

\* session.flush inserts the Task, which shares the key of the Conversation.
InsertTask(t) ==
  /\ phase[t] = "loaded"
  /\ \A u \in Tasks : Conv[u] = Conv[t] => ~HoldsConv(u)
  /\ phase' = [phase EXCEPT ![t] = "ready"]
  /\ UNCHANGED <<kind, taskSeq, convSeq, globalSeq, rows, streams>>

\* Any other writer loads the Task and goes on to append_event.
LoadTask(t, k) ==
  /\ phase[t] = "idle"
  /\ k # "created"
  /\ status[t] \in Sources(k)
  /\ Len(log) < MaxEvents
  /\ phase' = [phase EXCEPT ![t] = "ready"]
  /\ kind' = [kind EXCEPT ![t] = k]
  /\ taskSeq' = [taskSeq EXCEPT ![t] = nextTask[t]]
  /\ convSeq' = [convSeq EXCEPT ![t] = 0]
  /\ UNCHANGED <<globalSeq, rows, streams>>


\* ensure_audit_cursor
TakeCursor(t) ==
  /\ phase[t] = "ready"
  /\ \A u \in Tasks : ~HoldsCursor(u)
  /\ phase' = [phase EXCEPT ![t] = "cursor"]
  /\ globalSeq' = [globalSeq EXCEPT ![t] = nextGlobal]
  /\ UNCHANGED <<kind, taskSeq, convSeq, rows, streams>>

\* append_event locks the Conversation; an object loaded before keeps its number.
TakeConversation(t) ==
  /\ phase[t] = "cursor"
  /\ ~WaitsForConv(t)
  /\ \A u \in Tasks \ {t} : Conv[u] = Conv[t] => ~HoldsConv(u)
  /\ phase' = [phase EXCEPT ![t] = "conv"]
  /\ convSeq' = IF Conv[t] # NoConv /\ convSeq[t] = 0
                THEN [convSeq EXCEPT ![t] = nextConv[Conv[t]]] ELSE convSeq
  /\ UNCHANGED <<kind, taskSeq, globalSeq, rows, streams>>

NewEvent(t) ==
  [task |-> t, seq |-> taskSeq[t], conv |-> Conv[t], cseq |-> convSeq[t],
   gseq |-> globalSeq[t], kind |-> kind[t]]

\* The unique constraints of task_events.
Duplicates(e, f) ==
  \/ e.gseq = f.gseq
  \/ e.task = f.task /\ e.seq = f.seq
  \/ e.conv = f.conv /\ e.conv # NoConv /\ e.cseq = f.cseq

\* Mutant: task_events without its unique constraints.
NeverRefused(e) == FALSE

Refused(e) == \E i \in DOMAIN log : Duplicates(e, log[i])

\* The session is closed: what it loaded is gone.
CloseSession(t) ==
  /\ phase' = [phase EXCEPT ![t] = "idle"]
  /\ kind' = [kind EXCEPT ![t] = "created"]
  /\ taskSeq' = [taskSeq EXCEPT ![t] = 0]
  /\ convSeq' = [convSeq EXCEPT ![t] = 0]
  /\ globalSeq' = [globalSeq EXCEPT ![t] = 0]

\* The event is inserted and the transaction commits.
Commit(t) ==
  /\ phase[t] = "conv"
  /\ ~Refused(NewEvent(t))
  /\ log' = Append(log, NewEvent(t))
  /\ nextGlobal' = globalSeq[t] + 1
  /\ nextTask' = [nextTask EXCEPT ![t] = taskSeq[t] + 1]
  /\ nextConv' = IF Conv[t] = NoConv THEN nextConv
                 ELSE [nextConv EXCEPT ![Conv[t]] = convSeq[t] + 1]
  /\ status' = [status EXCEPT ![t] = StatusAfter(kind[t])]
  /\ CloseSession(t)
  /\ UNCHANGED streams

\* The insert violates a constraint, or PostgreSQL picks the transaction to
\* break a deadlock: everything it did is rolled back.
Rollback(t) ==
  /\ \/ phase[t] = "conv" /\ Refused(NewEvent(t))
     \/ \E u \in Tasks : Deadlocked(t, u) \/ Deadlocked(u, t)
  /\ CloseSession(t)
  /\ UNCHANGED <<rows, streams>>

-----------------------------------------------------------------------------
(* Streams *)

\* The events of one task and of one Conversation.
OfTask(t) == {i \in DOMAIN log : log[i].task = t}
OfConv(c) == {i \in DOMAIN log : log[i].conv = c}

\* What a query returns: the events of S numbered above `last`; the number is the
\* field seq, cseq or gseq.
Positions(S, number, last) == {i \in S : log[i][number] > last}

Highest(S, number, last) ==
  IF S = {} THEN last
  ELSE CHOOSE n \in {log[i][number] : i \in S} : \A i \in S : log[i][number] <= n

\* stream_task_events reads the status first ...
FollowStatus(t) ==
  /\ follower[t] = "poll"
  /\ status[t] # "absent"
  /\ snapshot' = [snapshot EXCEPT ![t] = status[t]]
  /\ follower' = [follower EXCEPT ![t] = "read"]
  /\ UNCHANGED <<lastTask, lastConv, lastAudit, got, rows, writers>>

FollowerAfter(t) == IF snapshot[t] \in Terminal THEN "ended" ELSE "poll"

\* Mutant: the query returns a page of one event.
FollowOneEvent(t) ==
  /\ follower[t] = "read"
  /\ \E S \in SUBSET DOMAIN log :
       /\ S \subseteq Positions(OfTask(t), "seq", lastTask[t])
       /\ Cardinality(S) <= 1
       /\ \A i \in S : log[i].seq = lastTask[t] + 1
       /\ got' = [got EXCEPT ![t] = @ \union S]
       /\ lastTask' = [lastTask EXCEPT ![t] = Highest(S, "seq", @)]
  /\ follower' = [follower EXCEPT ![t] = FollowerAfter(t)]
  /\ snapshot' = [snapshot EXCEPT ![t] = "absent"]
  /\ UNCHANGED <<lastConv, lastAudit, rows, writers>>

\* ... then the events, and ends if the status was terminal.
FollowEvents(t) ==
  /\ follower[t] = "read"
  /\ LET S == Positions(OfTask(t), "seq", lastTask[t])
     IN  /\ got' = [got EXCEPT ![t] = @ \union S]
         /\ lastTask' = [lastTask EXCEPT ![t] = Highest(S, "seq", @)]
  /\ follower' = [follower EXCEPT ![t] = FollowerAfter(t)]
  /\ snapshot' = [snapshot EXCEPT ![t] = "absent"]
  /\ UNCHANGED <<lastConv, lastAudit, rows, writers>>

\* Mutant: the stream resumes one event too late.
ConversationPollLate(c) ==
  LET S == Positions(OfConv(c), "cseq", lastConv[c] + 1)
  IN  /\ S # {}
      /\ got' = [got EXCEPT ![c] = @ \union S]
      /\ lastConv' = [lastConv EXCEPT ![c] = Highest(S, "cseq", @)]
      /\ UNCHANGED <<follower, snapshot, lastTask, lastAudit, rows, writers>>

\* stream_conversation_events
ConversationPoll(c) ==
  LET S == Positions(OfConv(c), "cseq", lastConv[c])
  IN  /\ S # {}
      /\ got' = [got EXCEPT ![c] = @ \union S]
      /\ lastConv' = [lastConv EXCEPT ![c] = Highest(S, "cseq", @)]
      /\ UNCHANGED <<follower, snapshot, lastTask, lastAudit, rows, writers>>

\* stream_audit_events delivers the lowest AuditPage numbers after the last one.
AuditPoll ==
  LET P == Positions(DOMAIN log, "gseq", lastAudit)
      S == {i \in P : Cardinality({j \in P : log[j].gseq < log[i].gseq}) < AuditPage}
  IN  /\ P # {}
      /\ got' = [got EXCEPT !["audit"] = @ \union S]
      /\ lastAudit' = Highest(S, "gseq", lastAudit)
      /\ UNCHANGED <<follower, snapshot, lastTask, lastConv, rows, writers>>

-----------------------------------------------------------------------------
WriterStep(t) ==
  \/ LoadConversation(t)
  \/ InsertTask(t)
  \/ \E k \in Kinds : LoadTask(t, k)
  \/ TakeCursor(t)
  \/ TakeConversation(t)
  \/ Commit(t)
  \/ Rollback(t)

StreamStep ==
  \/ \E t \in Tasks : FollowStatus(t) \/ FollowEvents(t)
  \/ \E c \in Convs : ConversationPoll(c)
  \/ AuditPoll

Next == (\E t \in Tasks : WriterStep(t)) \/ StreamStep

Spec == Init /\ [][Next]_vars

\* Transactions that were begun go on and streams poll for ever; nothing makes
\* a client or a worker begin one.
Fairness ==
  /\ \A t \in Tasks :
       /\ WF_vars(InsertTask(t)) /\ WF_vars(TakeCursor(t))
       /\ WF_vars(TakeConversation(t)) /\ WF_vars(Commit(t)) /\ WF_vars(Rollback(t))
       /\ WF_vars(FollowStatus(t)) /\ WF_vars(FollowEvents(t))
  /\ \A c \in Convs : WF_vars(ConversationPoll(c))
  /\ WF_vars(AuditPoll)

FairSpec == Spec /\ Fairness

-----------------------------------------------------------------------------
(* Properties *)

\* Task, Conversation and gateway numbers are continuous and follow the order of
\* the commits, although a number may have been read before another transaction
\* committed and transactions roll back (api.md: they start at 1 and increase by 1).
ContinuousSequences ==
  \A i \in DOMAIN log :
    /\ log[i].gseq = i
    /\ log[i].seq = Cardinality({j \in 1..i : log[j].task = log[i].task})
    /\ log[i].conv # NoConv =>
         log[i].cseq = Cardinality({j \in 1..i : log[j].conv = log[i].conv})

\* A stream never moves past an event it has not delivered: no event becomes
\* visible behind the position a reader resumes from.
StreamsMissNothing ==
  \A i \in DOMAIN log :
    /\ log[i].seq <= lastTask[log[i].task] => i \in got[log[i].task]
    /\ log[i].conv # NoConv /\ log[i].cseq <= lastConv[log[i].conv] => i \in got[log[i].conv]
    /\ log[i].gseq <= lastAudit => i \in got["audit"]

\* A task stream that ended has delivered an outcome of its task.
EndedStreamsShowOutcome ==
  \A t \in Tasks : follower[t] = "ended" => \E i \in got[t] : log[i].kind \in Terminal

\* What a client has read is complete: nothing behind its position is missing,
\* and a stream that ended has shown how the task ended.
StreamsAreComplete == StreamsMissNothing /\ EndedStreamsShowOutcome

\* Every committed event reaches the streams of its Conversation and of the
\* audit: the ledger ends at MaxEvents, so catching up with it again and again
\* delivers each of its events.
EventsAreDelivered ==
  []<>(\A i \in DOMAIN log : /\ i \in got["audit"]
                            /\ log[i].conv # NoConv => i \in got[log[i].conv])

\* architecture.md: next_event_sequence assigns a continuous sequence, so the
\* number of an event about to be inserted is the next one.
AssignedNumberIsNext ==
  \A t \in Tasks : HoldsConv(t) =>
    convSeq[t] = 1 + Cardinality({i \in DOMAIN log : log[i].conv = Conv[t]})
=============================================================================
