---------------------------- MODULE EventLogProofs ----------------------------
(* Theorems about EventLog for any tasks, Conversations, page size and length  *)
(* of the ledger.                                                              *)
EXTENDS EventLog, FiniteSetTheorems, TLAPS

\* The numbers of the events in S are exactly those below next, one for each.
Numbered(l, S, number, next) ==
  /\ \A i \in S : l[i][number] \in 1..(next - 1)
  /\ \A n \in 1..(next - 1) : \E i \in S : l[i][number] = n
  /\ next = 1 + Cardinality(S)

\* The three counters.
Counters ==
  /\ nextGlobal = Len(log) + 1
  /\ \A t \in Tasks : Numbered(log, OfTask(t), "seq", nextTask[t])
  /\ \A c \in Convs : Numbered(log, OfConv(c), "cseq", nextConv[c])

\* What a session has loaded: its task's number is the next one, the number of
\* the Conversation may be stale.
Sessions ==
  \A t \in Tasks :
    /\ status[t] = "absent" => nextTask[t] = 1
    /\ phase[t] # "idle" => taskSeq[t] = nextTask[t]
    /\ Conv[t] # NoConv => convSeq[t] <= nextConv[Conv[t]]
    /\ HoldsConv(t) => convSeq[t] > 0
    /\ HoldsCursor(t) => globalSeq[t] = nextGlobal

\* The row lock of the cursor.
OneCursor == \A t, u \in Tasks : HoldsCursor(t) /\ HoldsCursor(u) => t = u

\* No stream is ahead of the ledger.
Behind ==
  /\ \A t \in Tasks : lastTask[t] < nextTask[t]
  /\ \A c \in Convs : lastConv[c] < nextConv[c]
  /\ lastAudit <= Len(log)

\* An outcome that a status tells is in the ledger; one that a stream has ended
\* with was delivered.
HasOutcome(S) == \E i \in S : log[i].kind \in Terminal

Outcomes ==
  \A t \in Tasks :
    /\ status[t] \in Terminal \/ snapshot[t] \in Terminal => HasOutcome(OfTask(t))
    /\ follower[t] = "ended" => HasOutcome(got[t] \cap DOMAIN log)

WriterInv == TypeOK /\ ContinuousSequences /\ Counters /\ Sessions /\ OneCursor
IInv == WriterInv /\ StreamsMissNothing /\ Behind /\ Outcomes

-----------------------------------------------------------------------------
(* Facts about the ledger.                                                    *)

\* The Conversation of a task is one of the Conversations.
LEMMA ConvOf == \A t \in Tasks : Conv[t] # NoConv => Conv[t] \in Convs
  BY DEF Convs

\* The events of a task or of a Conversation are finitely many.
LEMMA FiniteLedger ==
  ASSUME TypeOK
  PROVE  \A S \in SUBSET DOMAIN log : IsFiniteSet(S) /\ Cardinality(S) \in Nat
  <1>1. DOMAIN log = 1..Len(log) /\ Len(log) \in Nat  BY DEF TypeOK
  <1>2. IsFiniteSet(1..Len(log))  BY <1>1, FS_Interval
  <1> QED BY <1>1, <1>2, FS_Subset, FS_CardinalityType

\* A session that commits has the next number of its Conversation: the unique
\* constraint refuses a stale one.
LEMMA CommitsTheNext ==
  ASSUME WriterInv, NEW t \in Tasks, Commit(t), Conv[t] # NoConv
  PROVE  convSeq[t] = nextConv[Conv[t]]
  <1> DEFINE c == Conv[t]
  <1>1. c \in Convs  BY ConvOf
  <1>2. convSeq[t] \in Nat /\ nextConv[c] \in Nat  BY <1>1 DEF WriterInv, TypeOK
  <1>3. convSeq[t] <= nextConv[c] /\ convSeq[t] > 0
    BY DEF WriterInv, Sessions, Commit, HoldsConv
  <1>4. ASSUME convSeq[t] < nextConv[c] PROVE FALSE
    <2>1. convSeq[t] \in 1..(nextConv[c] - 1)  BY <1>2, <1>3, <1>4
    <2>2. PICK i \in OfConv(c) : log[i]["cseq"] = convSeq[t]
      BY <1>1, <2>1 DEF WriterInv, Counters, Numbered
    <2>3. i \in DOMAIN log /\ log[i].conv = Conv[t] /\ log[i].cseq = convSeq[t]
      BY <2>2 DEF OfConv
    <2>4. Duplicates(NewEvent(t), log[i])  BY <2>3 DEF Duplicates, NewEvent
    <2> QED BY <2>3, <2>4 DEF Commit, Refused
  <1> QED BY <1>2, <1>3, <1>4

\* The next event keeps the numbers of its task or Conversation continuous ...
LEMMA NumberedGrows ==
  ASSUME NEW l \in Seq(Events), NEW e \in Events, NEW S \in SUBSET DOMAIN l,
         NEW number \in {"seq", "cseq"}, NEW next \in Nat,
         Numbered(l, S, number, next), e[number] = next
  PROVE  Numbered(Append(l, e), S \union {Len(l) + 1}, number, next + 1)
  <1> DEFINE n == Len(l) + 1
             m == Append(l, e)
  <1>1. Len(l) \in Nat /\ DOMAIN l = 1..Len(l) /\ n \notin S  OBVIOUS
  <1>2. m[n] = e /\ \A i \in S : m[i] = l[i]  BY <1>1
  <1>3. IsFiniteSet(S)
    <2>1. IsFiniteSet(1..Len(l)) /\ S \in SUBSET (1..Len(l))  BY <1>1, FS_Interval
    <2> QED BY <2>1, FS_Subset
  <1>4. Cardinality(S \union {n}) = Cardinality(S) + 1 /\ Cardinality(S) \in Nat
    BY <1>1, <1>3, FS_AddElement, FS_CardinalityType
  <1>5. next >= 1 /\ next + 1 = 1 + Cardinality(S \union {n})  BY <1>4 DEF Numbered
  <1>6. \A i \in S \union {n} : m[i][number] \in 1..next
    BY <1>2, <1>5 DEF Numbered
  <1>7. ASSUME NEW k \in 1..next PROVE \E i \in S \union {n} : m[i][number] = k
    <2>1. CASE k = next  BY <1>2, <2>1
    <2>2. CASE k # next
      <3>1. k \in 1..(next - 1)  BY <2>2
      <3> QED BY <1>2, <3>1 DEF Numbered
    <2> QED BY <2>1, <2>2
  <1>8. (next + 1) - 1 = next  OBVIOUS
  <1> QED BY <1>5, <1>6, <1>7, <1>8 DEF Numbered

\* ... and does not disturb the others.
LEMMA NumberedStays ==
  ASSUME NEW l \in Seq(Events), NEW e \in Events, NEW S \in SUBSET DOMAIN l,
         NEW number, NEW next, Numbered(l, S, number, next)
  PROVE  Numbered(Append(l, e), S, number, next)
  <1>1. \A i \in S : Append(l, e)[i] = l[i]  OBVIOUS
  <1> QED BY <1>1 DEF Numbered

\* A commit appends one event to the ledger.
LEMMA LedgerGrows ==
  ASSUME WriterInv, NEW t \in Tasks, Commit(t)
  PROVE  /\ log' = Append(log, NewEvent(t)) /\ NewEvent(t) \in Events
         /\ log' \in Seq(Events)
         /\ Len(log) \in Nat /\ Len(log') = Len(log) + 1
         /\ DOMAIN log = 1..Len(log) /\ DOMAIN log' = DOMAIN log \union {Len(log) + 1}
         /\ \A i \in DOMAIN log : log'[i] = log[i]
         /\ log'[Len(log) + 1] = NewEvent(t)
         /\ \A u \in Tasks : OfTask(u)' = IF u = t THEN OfTask(u) \union {Len(log) + 1}
                                          ELSE OfTask(u)
         /\ \A c \in Convs : OfConv(c)' = IF c = Conv[t] THEN OfConv(c) \union {Len(log) + 1}
                                          ELSE OfConv(c)
  <1>1. NewEvent(t) \in Events
    BY ConvOf DEF NewEvent, Events, WriterInv, TypeOK
  <1>2. log \in Seq(Events) /\ log' = Append(log, NewEvent(t))
    BY DEF WriterInv, TypeOK, Commit
  <1>3. NewEvent(t).task = t /\ NewEvent(t).conv = Conv[t]  BY DEF NewEvent
  <1>4. /\ log' \in Seq(Events) /\ Len(log) \in Nat /\ Len(log') = Len(log) + 1
        /\ DOMAIN log = 1..Len(log) /\ DOMAIN log' = DOMAIN log \union {Len(log) + 1}
        /\ \A i \in DOMAIN log : log'[i] = log[i]
        /\ log'[Len(log) + 1] = NewEvent(t)
    BY <1>1, <1>2
  <1> QED BY <1>1, <1>2, <1>3, <1>4 DEF OfTask, OfConv

\* A commit keeps the types.
LEMMA CommitTypes ==
  ASSUME WriterInv, NEW t \in Tasks, Commit(t)
  PROVE  TypeOK'
  <1>1. globalSeq[t] + 1 \in Nat /\ taskSeq[t] + 1 \in Nat /\ convSeq[t] + 1 \in Nat
    BY DEF WriterInv, TypeOK
  <1>2. StatusAfter(kind[t]) \in Statuses
    BY DEF StatusAfter, Statuses, Terminal
  <1> QED BY <1>1, <1>2, LedgerGrows, ConvOf
        DEF WriterInv, TypeOK, Commit, CloseSession, Kinds, streams

\* A commit gives its event the next number of each counter.
LEMMA CommitCounters ==
  ASSUME WriterInv, NEW t \in Tasks, Commit(t)
  PROVE  Counters'
  <1> DEFINE e == NewEvent(t)
  <1>1. log \in Seq(Events) /\ log' = Append(log, e) /\ e \in Events
        /\ Len(log') = Len(log) + 1 /\ Len(log) \in Nat
    BY LedgerGrows DEF WriterInv, TypeOK
  <1>2. nextGlobal' = Len(log') + 1
    BY <1>1 DEF Commit, WriterInv, Counters, Sessions, HoldsCursor
  <1>3. ASSUME NEW u \in Tasks PROVE Numbered(log', OfTask(u)', "seq", nextTask'[u])
    <2>1. Numbered(log, OfTask(u), "seq", nextTask[u]) /\ nextTask[u] \in Nat
          /\ OfTask(u) \in SUBSET DOMAIN log
      BY DEF WriterInv, Counters, TypeOK, OfTask
    <2>2. CASE u = t
      <3>1. e["seq"] = nextTask[u] /\ nextTask'[u] = nextTask[u] + 1
        BY <2>2 DEF Commit, NewEvent, WriterInv, Sessions, TypeOK
      <3>2. OfTask(u)' = OfTask(u) \union {Len(log) + 1}  BY <2>2, LedgerGrows
      <3> QED BY <1>1, <2>1, <3>1, <3>2, NumberedGrows
    <2>3. CASE u # t
      <3>1. nextTask'[u] = nextTask[u] /\ OfTask(u)' = OfTask(u)
        BY <2>3, LedgerGrows DEF Commit, WriterInv, TypeOK
      <3> QED BY <1>1, <2>1, <3>1, NumberedStays
    <2> QED BY <2>2, <2>3
  <1>4. ASSUME NEW c \in Convs PROVE Numbered(log', OfConv(c)', "cseq", nextConv'[c])
    <2>1. Numbered(log, OfConv(c), "cseq", nextConv[c]) /\ nextConv[c] \in Nat
          /\ OfConv(c) \in SUBSET DOMAIN log
      BY DEF WriterInv, Counters, TypeOK, OfConv
    <2>2. CASE c = Conv[t]
      <3>1. convSeq[t] = nextConv[c]  BY <2>2, CommitsTheNext DEF Convs
      <3>2. e["cseq"] = nextConv[c] /\ nextConv'[c] = nextConv[c] + 1
        BY <2>2, <3>1 DEF Commit, NewEvent, WriterInv, TypeOK, Convs
      <3>3. OfConv(c)' = OfConv(c) \union {Len(log) + 1}  BY <2>2, LedgerGrows
      <3> QED BY <1>1, <2>1, <3>2, <3>3, NumberedGrows
    <2>3. CASE c # Conv[t]
      <3>1. nextConv'[c] = nextConv[c] /\ OfConv(c)' = OfConv(c)
        BY <2>3, LedgerGrows DEF Commit, WriterInv, TypeOK
      <3> QED BY <1>1, <2>1, <3>1, NumberedStays
    <2> QED BY <2>2, <2>3
  <1> QED BY <1>2, <1>3, <1>4 DEF Counters

\* The new event has the next number of the gateway, its task and Conversation.
LEMMA CommitContinuous ==
  ASSUME WriterInv, NEW t \in Tasks, Commit(t)
  PROVE  ContinuousSequences'
  <1> DEFINE n == Len(log) + 1
  <1>1. /\ Len(log) \in Nat /\ DOMAIN log = 1..Len(log) /\ DOMAIN log' = DOMAIN log \union {n}
        /\ \A i \in DOMAIN log : log'[i] = log[i]
        /\ log'[n] = NewEvent(t)
    BY LedgerGrows
  <1>2. ASSUME NEW i \in DOMAIN log
        PROVE  /\ log'[i].gseq = i
               /\ log'[i].seq = Cardinality({j \in 1..i : log'[j].task = log'[i].task})
               /\ log'[i].conv # NoConv =>
                    log'[i].cseq = Cardinality({j \in 1..i : log'[j].conv = log'[i].conv})
    <2>1. 1..i \subseteq DOMAIN log  BY <1>1
    <2>2. {j \in 1..i : log'[j].task = log'[i].task} = {j \in 1..i : log[j].task = log[i].task}
      BY <1>1, <2>1
    <2>3. {j \in 1..i : log'[j].conv = log'[i].conv} = {j \in 1..i : log[j].conv = log[i].conv}
      BY <1>1, <2>1
    <2>4. /\ log[i].gseq = i
          /\ log[i].seq = Cardinality({j \in 1..i : log[j].task = log[i].task})
          /\ log[i].conv # NoConv =>
               log[i].cseq = Cardinality({j \in 1..i : log[j].conv = log[i].conv})
      BY DEF WriterInv, ContinuousSequences
    <2> QED BY <1>1, <2>2, <2>3, <2>4
  <1>3. log'[n].gseq = n
    BY <1>1 DEF NewEvent, Commit, WriterInv, Counters, Sessions, HoldsCursor
  <1>4. log'[n].seq = Cardinality({j \in 1..n : log'[j].task = log'[n].task})
    <2>1. {j \in 1..n : log'[j].task = log'[n].task} = OfTask(t) \union {n}
      BY <1>1 DEF NewEvent, OfTask
    <2>2. IsFiniteSet(OfTask(t)) /\ Cardinality(OfTask(t)) \in Nat /\ n \notin OfTask(t)
      BY <1>1, FiniteLedger DEF OfTask, WriterInv
    <2>3. Cardinality(OfTask(t) \union {n}) = Cardinality(OfTask(t)) + 1
      BY <2>2, FS_AddElement
    <2>4. log'[n].seq = taskSeq[t] /\ taskSeq[t] = nextTask[t]
      BY <1>1 DEF NewEvent, Commit, WriterInv, Sessions
    <2>5. nextTask[t] = 1 + Cardinality(OfTask(t))
      BY DEF WriterInv, Counters, Numbered
    <2>6. log'[n].seq = Cardinality(OfTask(t) \union {n})  BY <2>2, <2>3, <2>4, <2>5
    <2> QED BY <2>1, <2>6
  <1>5. ASSUME Conv[t] # NoConv
        PROVE  log'[n].cseq = Cardinality({j \in 1..n : log'[j].conv = log'[n].conv})
    <2> DEFINE c == Conv[t]
    <2>1. {j \in 1..n : log'[j].conv = log'[n].conv} = OfConv(c) \union {n}
      BY <1>1 DEF NewEvent, OfConv
    <2>2. IsFiniteSet(OfConv(c)) /\ Cardinality(OfConv(c)) \in Nat /\ n \notin OfConv(c)
      BY <1>1, FiniteLedger DEF OfConv, WriterInv
    <2>3. Cardinality(OfConv(c) \union {n}) = Cardinality(OfConv(c)) + 1
      BY <2>2, FS_AddElement
    <2>4. log'[n].cseq = convSeq[t] /\ convSeq[t] = nextConv[c]
      BY <1>1, <1>5, CommitsTheNext DEF NewEvent
    <2>5. nextConv[c] = 1 + Cardinality(OfConv(c))
      BY <1>5, ConvOf DEF WriterInv, Counters, Numbered
    <2>6. log'[n].cseq = Cardinality(OfConv(c) \union {n})  BY <2>2, <2>3, <2>4, <2>5
    <2> QED BY <2>1, <2>6
  <1>6. log'[n].conv = Conv[t]  BY <1>1 DEF NewEvent
  <1>7. \A i \in DOMAIN log' : i \in DOMAIN log \/ i = n  BY <1>1
  <1> QED BY <1>2, <1>3, <1>4, <1>5, <1>6, <1>7 DEF ContinuousSequences

\* A commit keeps the invariant of the writers.
LEMMA CommitInv ==
  ASSUME WriterInv, NEW t \in Tasks, Commit(t)
  PROVE  WriterInv'
  <1>1. TypeOK /\ \A u \in Tasks : nextTask[u] \in Nat /\ convSeq[u] \in Nat
        /\ \A c \in Convs : nextConv[c] \in Nat
    BY DEF WriterInv, TypeOK
  <1>2. ASSUME NEW u \in Tasks
        PROVE  /\ status'[u] = "absent" => nextTask'[u] = 1
               /\ phase'[u] # "idle" => taskSeq'[u] = nextTask'[u]
               /\ Conv[u] # NoConv => convSeq'[u] <= nextConv'[Conv[u]]
               /\ HoldsConv(u)' => convSeq'[u] > 0
               /\ ~HoldsCursor(u)'
    <2>1. CASE u = t
      <3>1. phase'[u] = "idle" /\ convSeq'[u] = 0 /\ status'[u] # "absent"
        BY <1>1, <2>1 DEF Commit, CloseSession, TypeOK, StatusAfter, Terminal
      <3>2. Conv[u] # NoConv => nextConv'[Conv[u]] \in Nat
        BY CommitTypes, ConvOf DEF TypeOK
      <3> QED BY <3>1, <3>2 DEF HoldsConv, HoldsCursor
    <2>2. CASE u # t
      <3>1. /\ status'[u] = status[u] /\ nextTask'[u] = nextTask[u]
            /\ phase'[u] = phase[u] /\ taskSeq'[u] = taskSeq[u] /\ convSeq'[u] = convSeq[u]
        BY <1>1, <2>2 DEF Commit, CloseSession, TypeOK
      <3>2. ASSUME Conv[u] # NoConv PROVE nextConv[Conv[u]] <= nextConv'[Conv[u]]
        <4>1. CASE Conv[u] = Conv[t]
          <5>1. Conv[t] \in Convs /\ convSeq[t] = nextConv[Conv[t]]
            BY <3>2, <4>1, CommitsTheNext, ConvOf
          <5>2. nextConv'[Conv[t]] = convSeq[t] + 1
            BY <3>2, <4>1, <5>1 DEF Commit, WriterInv, TypeOK
          <5> QED BY <1>1, <4>1, <5>1, <5>2
        <4>2. CASE Conv[u] # Conv[t]
          BY <1>1, <3>2, <4>2, ConvOf DEF Commit, TypeOK
        <4> QED BY <4>1, <4>2
      <3>3. nextConv' \in [Convs -> Nat]  BY CommitTypes DEF TypeOK
      <3>4. ~HoldsCursor(u)
        BY <2>2 DEF WriterInv, OneCursor, Commit, HoldsCursor
      <3>5. /\ status[u] = "absent" => nextTask[u] = 1
            /\ phase[u] # "idle" => taskSeq[u] = nextTask[u]
            /\ Conv[u] # NoConv => convSeq[u] <= nextConv[Conv[u]]
            /\ HoldsConv(u) => convSeq[u] > 0
        BY DEF WriterInv, Sessions
      <3>6. Conv[u] # NoConv => convSeq'[u] <= nextConv'[Conv[u]]
        BY <1>1, <3>1, <3>2, <3>3, <3>5, ConvOf
      <3> QED BY <3>1, <3>4, <3>5, <3>6 DEF HoldsConv, HoldsCursor
    <2> QED BY <2>1, <2>2
  <1>3. Sessions' /\ OneCursor'  BY <1>2 DEF Sessions, OneCursor
  <1> QED BY <1>3, CommitTypes, CommitCounters, CommitContinuous DEF WriterInv

-----------------------------------------------------------------------------
(* The other steps of a writer leave the rows as they are.                   *)

\* Numbers and counters stay as long as no row is written.
LEMMA RowsStay ==
  ASSUME WriterInv, UNCHANGED rows
  PROVE  ContinuousSequences' /\ Counters'
  <1>1. log' = log /\ nextGlobal' = nextGlobal /\ nextTask' = nextTask /\ nextConv' = nextConv
    BY DEF rows
  <1>2. /\ \A t \in Tasks : OfTask(t)' = OfTask(t)
        /\ \A c \in Convs : OfConv(c)' = OfConv(c)
    BY <1>1 DEF OfTask, OfConv
  <1>3. Counters'  BY <1>1, <1>2 DEF WriterInv, Counters
  <1>4. ContinuousSequences'  BY <1>1 DEF WriterInv, ContinuousSequences
  <1> QED BY <1>3, <1>4

\* The steps of a session before its commit keep the invariant of the writers.
LEMMA SessionInv ==
  ASSUME WriterInv, NEW t \in Tasks,
         \/ LoadConversation(t) \/ InsertTask(t) \/ \E k \in Kinds : LoadTask(t, k)
         \/ TakeCursor(t) \/ TakeConversation(t) \/ Rollback(t)
  PROVE  WriterInv' /\ UNCHANGED <<rows, streams>>
  <1>1. UNCHANGED <<rows, streams>>
    BY DEF LoadConversation, InsertTask, LoadTask, TakeCursor, TakeConversation, Rollback
  <1>2. UNCHANGED <<log, nextGlobal, nextConv, nextTask, status>>  BY <1>1 DEF rows
  <1>3. /\ phase \in [Tasks -> {"idle", "loaded", "ready", "cursor", "conv"}]
        /\ taskSeq \in [Tasks -> Nat] /\ convSeq \in [Tasks -> Nat]
        /\ globalSeq \in [Tasks -> Nat] /\ nextTask \in [Tasks -> Nat]
        /\ nextConv \in [Convs -> Nat] /\ nextGlobal \in Nat /\ kind \in [Tasks -> Kinds]
    BY DEF WriterInv, TypeOK
  <1>4. \A u \in Tasks : Conv[u] # NoConv => nextConv[Conv[u]] \in Nat /\ nextConv[Conv[u]] > 0
    <2> SUFFICES ASSUME NEW u \in Tasks, Conv[u] # NoConv
                 PROVE  nextConv[Conv[u]] \in Nat /\ nextConv[Conv[u]] > 0
      OBVIOUS
    <2>1. Conv[u] \in Convs  BY ConvOf
    <2>2. nextConv[Conv[u]] = 1 + Cardinality(OfConv(Conv[u]))
      BY <2>1 DEF WriterInv, Counters, Numbered
    <2>3. Cardinality(OfConv(Conv[u])) \in Nat
      BY FiniteLedger DEF WriterInv, OfConv
    <2> QED BY <2>2, <2>3
  <1>5. TypeOK' /\ Sessions' /\ OneCursor'
    <2>1. CASE LoadConversation(t)
      BY <1>1, <1>2, <1>3, <1>4, <2>1, ConvOf
      DEF LoadConversation, WriterInv, TypeOK, Sessions, OneCursor, HoldsCursor, HoldsConv, Kinds,
          streams
    <2>2. CASE InsertTask(t)
      BY <1>1, <1>2, <1>3, <2>2
      DEF InsertTask, WriterInv, TypeOK, Sessions, OneCursor, HoldsCursor, HoldsConv, streams
    <2>3. CASE \E k \in Kinds : LoadTask(t, k)
      BY <1>1, <1>2, <1>3, <1>4, <2>3
      DEF LoadTask, WriterInv, TypeOK, Sessions, OneCursor, HoldsCursor, HoldsConv, streams
    <2>4. CASE TakeCursor(t)
      BY <1>1, <1>2, <1>3, <2>4
      DEF TakeCursor, WriterInv, TypeOK, Sessions, OneCursor, HoldsCursor, HoldsConv, streams
    <2>5. CASE TakeConversation(t)
      <3>1. /\ phase[t] = "cursor" /\ phase' = [phase EXCEPT ![t] = "conv"]
            /\ UNCHANGED <<kind, taskSeq, globalSeq>>
            /\ convSeq' = IF Conv[t] # NoConv /\ convSeq[t] = 0
                          THEN [convSeq EXCEPT ![t] = nextConv[Conv[t]]] ELSE convSeq
        BY <2>5 DEF TakeConversation
      <3>2. TypeOK'
        BY <1>1, <1>2, <1>3, <1>4, <3>1 DEF WriterInv, TypeOK, streams
      <3>3. OneCursor'
        BY <1>3, <3>1 DEF WriterInv, OneCursor, HoldsCursor
      <3>4. ASSUME NEW u \in Tasks
            PROVE  /\ Conv[u] # NoConv => convSeq'[u] <= nextConv[Conv[u]]
                   /\ HoldsConv(u)' => convSeq'[u] > 0
        <4>1. CASE u = t /\ Conv[t] # NoConv /\ convSeq[t] = 0
          BY <1>3, <1>4, <3>1, <4>1
        <4>2. CASE u # t \/ Conv[t] = NoConv \/ convSeq[t] # 0
          <5>1. convSeq'[u] = convSeq[u] /\ (u # t => phase'[u] = phase[u])
            BY <1>3, <3>1, <4>2
          <5> QED BY <1>3, <4>2, <5>1 DEF WriterInv, Sessions, HoldsConv
        <4> QED BY <4>1, <4>2
      <3>5. Sessions'
        BY <1>2, <1>3, <3>1, <3>4 DEF WriterInv, Sessions, HoldsCursor
      <3> QED BY <3>2, <3>3, <3>5
    <2>6. CASE Rollback(t)
      <3>1. CloseSession(t)  BY <2>6 DEF Rollback
      <3>2. TypeOK'
        BY <1>1, <1>2, <1>3, <3>1 DEF CloseSession, WriterInv, TypeOK, Kinds, streams
      <3>3. ASSUME NEW u \in Tasks
            PROVE  \/ phase'[u] = "idle" /\ convSeq'[u] = 0
                   \/ /\ phase'[u] = phase[u] /\ taskSeq'[u] = taskSeq[u]
                      /\ convSeq'[u] = convSeq[u] /\ globalSeq'[u] = globalSeq[u]
        BY <1>3, <3>1 DEF CloseSession
      <3>4. OneCursor'  BY <3>3 DEF WriterInv, OneCursor, HoldsCursor
      <3>5. Sessions'
        BY <1>2, <1>4, <3>3 DEF WriterInv, Sessions, HoldsCursor, HoldsConv
      <3> QED BY <3>2, <3>4, <3>5
    <2> QED BY <2>1, <2>2, <2>3, <2>4, <2>5, <2>6
  <1> QED BY <1>1, <1>5, RowsStay DEF WriterInv

-----------------------------------------------------------------------------
(* Streams.  A query returns a tail of its numbers, or their lowest page.    *)

\* The last number of a batch is the number of its last event.
LEMMA HighestIs ==
  ASSUME TypeOK
  PROVE  \A number \in {"seq", "cseq", "gseq"} : \A S \in SUBSET DOMAIN log : \A m \in S :
           (\A i \in S : log[i][number] <= log[m][number])
             => \A last : Highest(S, number, last) = log[m][number]
  <1> SUFFICES ASSUME NEW number \in {"seq", "cseq", "gseq"}, NEW S \in SUBSET DOMAIN log,
                      NEW m \in S, \A i \in S : log[i][number] <= log[m][number], NEW last
               PROVE  Highest(S, number, last) = log[m][number]
    OBVIOUS
  <1> DEFINE X == {log[i][number] : i \in S}
             Top(n) == n \in X /\ \A i \in S : log[i][number] <= n
  <1>1. X \subseteq Nat
    <2> SUFFICES ASSUME NEW i \in S PROVE log[i][number] \in Nat  OBVIOUS
    <2>1. log[i] \in Events  BY DEF TypeOK
    <2> QED BY <2>1 DEF Events
  <1>2. Top(log[m][number])  OBVIOUS
  <1>3. \A n : Top(n) => n = log[m][number]
    <2> SUFFICES ASSUME NEW n, Top(n) PROVE n = log[m][number]  OBVIOUS
    <2>1. n \in Nat /\ log[m][number] \in Nat  BY <1>1
    <2>2. PICK i \in S : n = log[i][number]  OBVIOUS
    <2> QED BY <2>1, <2>2
  <1>4. Highest(S, number, last) =
          CHOOSE n \in X : \A i \in S : log[i][number] <= n
    BY DEF Highest
  <1> HIDE DEF X
  <1>5. (CHOOSE n \in X : \A i \in S : log[i][number] <= n) = log[m][number]
    BY <1>2, <1>3
  <1> QED BY <1>4, <1>5

\* A poll that reads everything behind its position ends at the newest number.
LEMMA TailIsRead ==
  ASSUME TypeOK, NEW S \in SUBSET DOMAIN log, NEW number \in {"seq", "cseq"},
         NEW next \in Nat, NEW last \in Nat, Numbered(log, S, number, next), last < next
  PROVE  Highest(Positions(S, number, last), number, last) = next - 1
  <1>0. number \in {"seq", "cseq", "gseq"}  OBVIOUS
  <1> DEFINE P == Positions(S, number, last)
  <1>1. P \in SUBSET DOMAIN log  BY DEF Positions
  <1>2. CASE last = next - 1
    <2>1. P = {}  BY <1>2 DEF Positions, Numbered
    <2> QED BY <1>2, <2>1 DEF Highest
  <1>3. CASE last # next - 1
    <2>1. next - 1 \in 1..(next - 1) /\ next - 1 > last  BY <1>3
    <2>2. PICK m \in S : log[m][number] = next - 1  BY <2>1 DEF Numbered
    <2>3. m \in P  BY <2>1, <2>2 DEF Positions
    <2>4. \A i \in P : log[i][number] <= log[m][number]
      BY <2>2 DEF Positions, Numbered
    <2> HIDE DEF P
    <2>6. Highest(P, number, last) = log[m][number]
      BY <1>0, <1>1, <2>3, <2>4, HighestIs
    <2> QED BY <2>2, <2>6 DEF P
  <1> QED BY <1>2, <1>3

\* The events the audit stream has not passed, and the page of them it reads.
Ahead == Positions(DOMAIN log, "gseq", lastAudit)
Page == {i \in Ahead : Cardinality({j \in Ahead : log[j].gseq < log[i].gseq}) < AuditPage}

\* An audit poll ends at the newest number or at the end of its page, and skips
\* nothing on the way.
LEMMA PageIsRead ==
  ASSUME WriterInv, lastAudit <= Len(log), Ahead # {}
  PROVE  \E m \in 0..Len(log) :
           /\ Highest(Page, "gseq", lastAudit) = m /\ m >= lastAudit
           /\ \A i \in DOMAIN log : lastAudit < i /\ i <= m => i \in Page
  <1> DEFINE P == Ahead
             S == Page
  <1>1. Len(log) \in Nat /\ DOMAIN log = 1..Len(log) /\ lastAudit \in Nat
    BY DEF WriterInv, TypeOK
  <1>0. \A i \in DOMAIN log : log[i].gseq = i  BY DEF WriterInv, ContinuousSequences
  <1>2. P = (lastAudit + 1)..Len(log)  BY <1>0, <1>1 DEF Ahead, Positions
  <1>3. ASSUME NEW i \in P
        PROVE  Cardinality({j \in P : log[j].gseq < log[i].gseq}) = i - 1 - lastAudit
    <2>1. {j \in P : log[j].gseq < log[i].gseq} = (lastAudit + 1)..(i - 1)
      BY <1>0, <1>1, <1>2
    <2>2. lastAudit + 1 \in Int /\ i - 1 \in Int /\ i >= lastAudit + 1  BY <1>1, <1>2
    <2>3. Cardinality((lastAudit + 1)..(i - 1)) =
            IF lastAudit + 1 > i - 1 THEN 0 ELSE (i - 1) - (lastAudit + 1) + 1
      BY <2>2, FS_Interval
    <2>4. Cardinality((lastAudit + 1)..(i - 1)) = i - 1 - lastAudit
      BY <1>1, <1>2, <2>2, <2>3
    <2> QED BY <2>1, <2>4
  <1>4. S = {i \in P : i - 1 - lastAudit < AuditPage}  BY <1>3 DEF Page
  <1> DEFINE m == IF Len(log) < lastAudit + AuditPage THEN Len(log) ELSE lastAudit + AuditPage
  <1>5. AuditPage \in Nat /\ AuditPage > 0 /\ lastAudit < Len(log)
    BY <1>1, <1>2, BoundsType
  <1>6. m \in S /\ m \in 0..Len(log) /\ m >= lastAudit /\ S \in SUBSET DOMAIN log
        /\ (\A i \in S : i <= m)
    <2>1. m \in (lastAudit + 1)..Len(log) /\ m - 1 - lastAudit < AuditPage
      BY <1>1, <1>5
    <2>2. S \in SUBSET DOMAIN log  BY <1>1, <1>2, <1>4
    <2>3. \A i \in S : i <= m  BY <1>1, <1>2, <1>4, <1>5
    <2>4. m \in S  BY <1>2, <1>4, <2>1
    <2> QED BY <1>1, <2>1, <2>2, <2>3, <2>4
  <1>7. \A i \in DOMAIN log : lastAudit < i /\ i <= m => i \in S
    <2> SUFFICES ASSUME NEW i \in DOMAIN log, lastAudit < i, i <= m PROVE i \in S
      OBVIOUS
    <2>1. i \in (lastAudit + 1)..Len(log)  BY <1>1
    <2>2. i - 1 - lastAudit < AuditPage  BY <1>1, <1>5
    <2> QED BY <1>2, <1>4, <2>1, <2>2
  <1> HIDE DEF m
  <1>8. \A i \in S : log[i]["gseq"] <= log[m]["gseq"]  BY <1>0, <1>6
  <1>9. Highest(S, "gseq", lastAudit) = log[m]["gseq"]
    BY <1>6, <1>8, HighestIs DEF WriterInv
  <1> QED BY <1>0, <1>6, <1>7, <1>9

-----------------------------------------------------------------------------
\* The new event is ahead of every stream.
LEMMA CommitStreams ==
  ASSUME IInv, NEW t \in Tasks, Commit(t)
  PROVE  StreamsMissNothing' /\ Behind' /\ Outcomes'
  <1> DEFINE n == Len(log) + 1
  <1>1. WriterInv /\ WriterInv' /\ TypeOK /\ TypeOK'  BY CommitInv DEF IInv, WriterInv
  <1>2. UNCHANGED <<follower, snapshot, lastTask, lastConv, lastAudit, got>>
    BY DEF Commit, streams
  <1>3. /\ Len(log) \in Nat /\ Len(log') = n
        /\ DOMAIN log' = DOMAIN log \union {n}
        /\ \A i \in DOMAIN log : log'[i] = log[i]
        /\ log'[n] = NewEvent(t)
        /\ \A u \in Tasks : OfTask(u)' = IF u = t THEN OfTask(u) \union {n} ELSE OfTask(u)
    BY <1>1, LedgerGrows
  <1>4. \A u \in Tasks : nextTask[u] <= nextTask'[u] /\ nextTask[u] \in Nat /\ nextTask'[u] \in Nat
    <2>1. taskSeq[t] = nextTask[t]  BY <1>1 DEF Commit, WriterInv, Sessions
    <2>2. nextTask' = [nextTask EXCEPT ![t] = taskSeq[t] + 1]  BY DEF Commit
    <2>3. nextTask \in [Tasks -> Nat]  BY <1>1 DEF TypeOK
    <2> QED BY <2>1, <2>2, <2>3
  <1>5. \A c \in Convs : nextConv[c] <= nextConv'[c] /\ nextConv[c] \in Nat /\ nextConv'[c] \in Nat
    <2>1. Conv[t] # NoConv => convSeq[t] = nextConv[Conv[t]]  BY <1>1, CommitsTheNext
    <2>2. nextConv' = IF Conv[t] = NoConv THEN nextConv
                      ELSE [nextConv EXCEPT ![Conv[t]] = convSeq[t] + 1]
      BY DEF Commit
    <2>3. nextConv \in [Convs -> Nat]  BY <1>1 DEF TypeOK
    <2> QED BY <2>1, <2>2, <2>3, ConvOf
  <1>6. Behind'
    <2>1. lastTask \in [Tasks -> Nat] /\ lastConv \in [Convs -> Nat] /\ lastAudit \in Nat
      BY <1>1 DEF TypeOK
    <2>2. \A u \in Tasks : lastTask'[u] < nextTask'[u]
      BY <1>2, <1>4, <2>1 DEF IInv, Behind
    <2>3. \A c \in Convs : lastConv'[c] < nextConv'[c]
      BY <1>2, <1>5, <2>1 DEF IInv, Behind
    <2>4. lastAudit' <= Len(log')  BY <1>2, <1>3, <2>1 DEF IInv, Behind
    <2> QED BY <2>2, <2>3, <2>4 DEF Behind
  <1>7. /\ log'[n].task = t /\ log'[n].conv = Conv[t] /\ log'[n].gseq = n
        /\ log'[n].seq = nextTask[t]
        /\ Conv[t] # NoConv => log'[n].cseq = nextConv[Conv[t]]
    <2>1. globalSeq[t] = n /\ taskSeq[t] = nextTask[t]
      BY <1>1 DEF Commit, WriterInv, Sessions, Counters, HoldsCursor
    <2>2. Conv[t] # NoConv => convSeq[t] = nextConv[Conv[t]]  BY <1>1, CommitsTheNext
    <2> QED BY <1>3, <2>1, <2>2 DEF NewEvent
  <1>8. StreamsMissNothing'
    <2>1. ASSUME NEW i \in DOMAIN log
          PROVE  /\ log'[i].seq <= lastTask'[log'[i].task] => i \in got'[log'[i].task]
                 /\ log'[i].conv # NoConv /\ log'[i].cseq <= lastConv'[log'[i].conv]
                      => i \in got'[log'[i].conv]
                 /\ log'[i].gseq <= lastAudit' => i \in got'["audit"]
      BY <1>2, <1>3 DEF IInv, StreamsMissNothing
    <2>2. lastTask \in [Tasks -> Nat] /\ lastConv \in [Convs -> Nat] /\ lastAudit \in Nat
      BY <1>1 DEF TypeOK
    <2>3. ~(log'[n].seq <= lastTask'[log'[n].task])
      BY <1>2, <1>4, <1>7, <2>2 DEF IInv, Behind
    <2>4. log'[n].conv # NoConv => ~(log'[n].cseq <= lastConv'[log'[n].conv])
      BY <1>2, <1>5, <1>7, <2>2, ConvOf DEF IInv, Behind
    <2>5. ~(log'[n].gseq <= lastAudit')
      BY <1>2, <1>3, <1>7, <2>2 DEF IInv, Behind
    <2>6. \A i \in DOMAIN log' : i \in DOMAIN log \/ i = n  BY <1>3
    <2> QED BY <2>1, <2>3, <2>4, <2>5, <2>6 DEF StreamsMissNothing
  <1>9. Outcomes'
    <2>1. ASSUME NEW S, S \subseteq DOMAIN log, HasOutcome(S)
          PROVE  \E i \in S : log'[i].kind \in Terminal
      BY <1>3, <2>1 DEF HasOutcome
    <2>2. ASSUME NEW u \in Tasks, status'[u] \in Terminal \/ snapshot'[u] \in Terminal
          PROVE  HasOutcome(OfTask(u))'
      <3>1. CASE status[u] \in Terminal \/ snapshot[u] \in Terminal
        <4>1. HasOutcome(OfTask(u)) /\ OfTask(u) \subseteq DOMAIN log
          BY <3>1 DEF IInv, Outcomes, OfTask
        <4>2. PICK i \in OfTask(u) : log'[i].kind \in Terminal  BY <2>1, <4>1
        <4>3. i \in OfTask(u)'  BY <1>3
        <4> QED BY <4>2, <4>3 DEF HasOutcome
      <3>2. CASE ~(status[u] \in Terminal \/ snapshot[u] \in Terminal)
        <4>1. status'[u] \in Terminal  BY <1>2, <2>2, <3>2
        <4>2. u = t /\ status'[u] = StatusAfter(kind[t])
          BY <1>1, <3>2, <4>1 DEF Commit, TypeOK
        <4>3. kind[t] \in Terminal  BY <4>1, <4>2 DEF StatusAfter, Terminal
        <4>4. n \in OfTask(u)' /\ log'[n].kind = kind[t]
          BY <1>3, <4>2 DEF NewEvent
        <4> QED BY <4>3, <4>4 DEF HasOutcome
      <3> QED BY <3>1, <3>2
    <2>3. ASSUME NEW u \in Tasks, follower'[u] = "ended"
          PROVE  HasOutcome(got[u] \cap DOMAIN log)'
      <3>1. HasOutcome(got[u] \cap DOMAIN log)
        BY <1>2, <2>3 DEF IInv, Outcomes
      <3>2. PICK i \in got[u] \cap DOMAIN log : log'[i].kind \in Terminal  BY <2>1, <3>1
      <3>3. i \in got'[u] \cap DOMAIN log'  BY <1>2, <1>3
      <3> QED BY <3>2, <3>3 DEF HasOutcome
    <2> QED BY <2>2, <2>3 DEF Outcomes
  <1> QED BY <1>6, <1>8, <1>9

-----------------------------------------------------------------------------
(* A stream delivers what it moves past.                                     *)

\* Nothing but positions of the ledger is delivered, and nothing is taken back.
Delivers(s, S) ==
  S \in SUBSET DOMAIN log /\ got' = [got EXCEPT ![s] = @ \union S]

\* A delivery adds to what a client got.
LEMMA DeliveredStays ==
  ASSUME TypeOK, NEW s \in {"audit"} \union Tasks \union Convs, NEW S, Delivers(s, S)
  PROVE  /\ got' \in [{"audit"} \union Tasks \union Convs -> SUBSET Nat]
         /\ \A x \in {"audit"} \union Tasks \union Convs : got[x] \subseteq got'[x]
         /\ S \subseteq got'[s]
  <1>1. got \in [{"audit"} \union Tasks \union Convs -> SUBSET Nat] /\ S \subseteq Nat
    BY DEF TypeOK, Delivers
  <1> QED BY <1>1 DEF Delivers

\* What a stream reads is not changed by its poll.
LEMMA RowsOf ==
  ASSUME WriterInv, UNCHANGED <<rows, writers>>
  PROVE  /\ log' = log /\ status' = status /\ nextTask' = nextTask /\ nextConv' = nextConv
         /\ \A t \in Tasks : OfTask(t)' = OfTask(t)
         /\ TypeOK' => WriterInv'
  <1>1. UNCHANGED <<log, nextGlobal, nextConv, nextTask, status,
                    phase, kind, taskSeq, convSeq, globalSeq>>
    BY DEF rows, writers
  <1>2. Sessions' /\ OneCursor'
    BY <1>1 DEF WriterInv, Sessions, OneCursor, HoldsCursor, HoldsConv
  <1>3. \A t \in Tasks : OfTask(t)' = OfTask(t)  BY <1>1 DEF OfTask
  <1> QED BY <1>1, <1>2, <1>3, RowsStay DEF WriterInv

\* Reading the status in the task stream keeps the invariant.
LEMMA FollowStatusInv ==
  ASSUME IInv, NEW t \in Tasks, FollowStatus(t)
  PROVE  IInv'
  <1>1. UNCHANGED <<rows, writers, lastTask, lastConv, lastAudit, got>>
        /\ snapshot' = [snapshot EXCEPT ![t] = status[t]]
        /\ follower' = [follower EXCEPT ![t] = "read"]
    BY DEF FollowStatus
  <1>2. WriterInv /\ TypeOK  BY DEF IInv, WriterInv
  <1>3. log' = log /\ status' = status /\ nextTask' = nextTask /\ nextConv' = nextConv
        /\ \A u \in Tasks : OfTask(u)' = OfTask(u)
    BY <1>1, <1>2, RowsOf
  <1>4. TypeOK'  BY <1>1, <1>2 DEF TypeOK, rows, writers
  <1>5. WriterInv'  BY <1>1, <1>2, <1>4, RowsOf
  <1>6. StreamsMissNothing' /\ Behind'
    BY <1>1, <1>3 DEF IInv, StreamsMissNothing, Behind
  <1>7. Outcomes'
    <2>1. \A u \in Tasks : /\ snapshot'[u] = snapshot[u] \/ snapshot'[u] = status[u]
                           /\ follower'[u] = "ended" => follower[u] = "ended"
      BY <1>1, <1>2 DEF TypeOK
    <2>2. \A u \in Tasks : HasOutcome(OfTask(u)) => HasOutcome(OfTask(u))'
      BY <1>3 DEF HasOutcome
    <2>3. \A u \in Tasks : HasOutcome(got[u] \cap DOMAIN log) => HasOutcome(got[u] \cap DOMAIN log)'
      BY <1>1, <1>3 DEF HasOutcome
    <2> QED BY <1>3, <2>1, <2>2, <2>3 DEF IInv, Outcomes
  <1> QED BY <1>5, <1>6, <1>7 DEF IInv

\* Delivering the events of a task keeps the invariant.
LEMMA FollowEventsInv ==
  ASSUME IInv, NEW t \in Tasks, FollowEvents(t)
  PROVE  IInv'
  <1> DEFINE S == Positions(OfTask(t), "seq", lastTask[t])
  <1>1. UNCHANGED <<rows, writers, lastConv, lastAudit>>
        /\ got' = [got EXCEPT ![t] = @ \union S]
        /\ lastTask' = [lastTask EXCEPT ![t] = Highest(S, "seq", lastTask[t])]
        /\ follower' = [follower EXCEPT ![t] = FollowerAfter(t)]
        /\ snapshot' = [snapshot EXCEPT ![t] = "absent"]
    BY DEF FollowEvents
  <1>2. WriterInv /\ TypeOK  BY DEF IInv, WriterInv
  <1>3. log' = log /\ status' = status /\ nextTask' = nextTask /\ nextConv' = nextConv
        /\ \A u \in Tasks : OfTask(u)' = OfTask(u)
    BY <1>1, <1>2, RowsOf
  <1>4. S \in SUBSET DOMAIN log /\ OfTask(t) \in SUBSET DOMAIN log
    BY DEF Positions, OfTask
  <1>5. /\ got' \in [{"audit"} \union Tasks \union Convs -> SUBSET Nat]
        /\ \A x \in {"audit"} \union Tasks \union Convs : got[x] \subseteq got'[x]
        /\ S \subseteq got'[t]
    BY <1>1, <1>2, <1>4, DeliveredStays DEF Delivers
  <1>6. Highest(S, "seq", lastTask[t]) = nextTask[t] - 1
        /\ nextTask[t] - 1 \in Nat /\ nextTask[t] \in Nat
    <2>1. lastTask[t] \in Nat /\ nextTask[t] \in Nat /\ lastTask[t] < nextTask[t]
          /\ Numbered(log, OfTask(t), "seq", nextTask[t])
      BY DEF IInv, WriterInv, TypeOK, Behind, Counters
    <2> QED BY <1>2, <1>4, <2>1, TailIsRead
  <1>7. TypeOK'
    BY <1>1, <1>2, <1>5, <1>6 DEF TypeOK, rows, writers, FollowerAfter, Statuses
  <1>8. WriterInv'  BY <1>1, <1>2, <1>7, RowsOf
  <1>9. \A i \in OfTask(t) : i \in got'[t]
    <2> SUFFICES ASSUME NEW i \in OfTask(t) PROVE i \in got'[t]  OBVIOUS
    <2>1. log[i].task = t /\ i \in DOMAIN log  BY DEF OfTask
    <2>2. CASE log[i].seq <= lastTask[t]
      BY <1>5, <2>1, <2>2 DEF IInv, StreamsMissNothing
    <2>3. CASE ~(log[i].seq <= lastTask[t])
      <3>0. log[i] \in Events  BY <1>2, <2>1 DEF TypeOK
      <3>1. log[i].seq \in Nat /\ lastTask[t] \in Nat
        BY <1>2, <3>0 DEF TypeOK, Events
      <3>2. i \in S  BY <2>3, <3>1 DEF Positions
      <3> QED BY <1>5, <3>2
    <2> QED BY <2>2, <2>3
  <1>10. StreamsMissNothing'
    <2> SUFFICES ASSUME NEW i \in DOMAIN log
          PROVE  /\ log[i].seq <= lastTask'[log[i].task] => i \in got'[log[i].task]
                 /\ log[i].conv # NoConv /\ log[i].cseq <= lastConv[log[i].conv]
                      => i \in got'[log[i].conv]
                 /\ log[i].gseq <= lastAudit => i \in got'["audit"]
      BY <1>1, <1>3 DEF StreamsMissNothing
    <2>0. log[i] \in Events  BY <1>2 DEF TypeOK
    <2>1. log[i].task \in Tasks /\ (log[i].conv # NoConv => log[i].conv \in Convs)
      BY <2>0 DEF Events
    <2>2. /\ log[i].seq <= lastTask[log[i].task] => i \in got[log[i].task]
          /\ log[i].conv # NoConv /\ log[i].cseq <= lastConv[log[i].conv]
               => i \in got[log[i].conv]
          /\ log[i].gseq <= lastAudit => i \in got["audit"]
      BY DEF IInv, StreamsMissNothing
    <2>3. CASE log[i].task = t  BY <1>5, <1>9, <2>1, <2>2, <2>3 DEF OfTask
    <2>4. CASE log[i].task # t
      <3>1. lastTask'[log[i].task] = lastTask[log[i].task]
        BY <1>1, <1>2, <2>1, <2>4 DEF TypeOK
      <3> QED BY <1>5, <2>1, <2>2, <3>1
    <2> QED BY <2>3, <2>4
  <1>11. Behind'
    <2>1. \A u \in Tasks : lastTask'[u] < nextTask[u]
      BY <1>1, <1>2, <1>6 DEF IInv, Behind, TypeOK
    <2> QED BY <1>1, <1>3, <2>1 DEF IInv, Behind
  <1>12. Outcomes'
    <2> SUFFICES ASSUME NEW u \in Tasks
          PROVE  /\ status[u] \in Terminal \/ snapshot'[u] \in Terminal => HasOutcome(OfTask(u))
                 /\ follower'[u] = "ended" => HasOutcome(got'[u] \cap DOMAIN log)
      BY <1>3 DEF Outcomes, HasOutcome
    <2>1. snapshot'[u] \in Terminal => snapshot[u] \in Terminal
      BY <1>1, <1>2 DEF TypeOK, Terminal
    <2>2. CASE follower[u] = "ended"
      BY <1>5, <2>1, <2>2 DEF IInv, Outcomes, HasOutcome
    <2>3. CASE follower[u] # "ended" /\ follower'[u] = "ended"
      <3>1. u = t /\ snapshot[t] \in Terminal
        BY <1>1, <1>2, <2>3 DEF FollowerAfter, TypeOK
      <3>2. HasOutcome(OfTask(t))  BY <3>1 DEF IInv, Outcomes
      <3> QED BY <1>4, <1>9, <2>1, <3>1, <3>2 DEF HasOutcome
    <2> QED BY <2>1, <2>2, <2>3 DEF IInv, Outcomes
  <1> QED BY <1>8, <1>10, <1>11, <1>12 DEF IInv

\* A poll of the Conversation stream keeps the invariant.
LEMMA ConversationPollInv ==
  ASSUME IInv, NEW c \in Convs, ConversationPoll(c)
  PROVE  IInv'
  <1> DEFINE S == Positions(OfConv(c), "cseq", lastConv[c])
  <1>1. UNCHANGED <<rows, writers, lastTask, lastAudit, follower, snapshot>>
        /\ got' = [got EXCEPT ![c] = @ \union S]
        /\ lastConv' = [lastConv EXCEPT ![c] = Highest(S, "cseq", lastConv[c])]
    BY DEF ConversationPoll
  <1>2. WriterInv /\ TypeOK  BY DEF IInv, WriterInv
  <1>3. log' = log /\ status' = status /\ nextTask' = nextTask /\ nextConv' = nextConv
        /\ \A u \in Tasks : OfTask(u)' = OfTask(u)
    BY <1>1, <1>2, RowsOf
  <1>4. S \in SUBSET DOMAIN log /\ OfConv(c) \in SUBSET DOMAIN log /\ c # NoConv
    BY DEF Positions, OfConv, Convs
  <1>5. /\ got' \in [{"audit"} \union Tasks \union Convs -> SUBSET Nat]
        /\ \A x \in {"audit"} \union Tasks \union Convs : got[x] \subseteq got'[x]
        /\ S \subseteq got'[c]
    BY <1>1, <1>2, <1>4, DeliveredStays DEF Delivers
  <1>6. Highest(S, "cseq", lastConv[c]) = nextConv[c] - 1
        /\ nextConv[c] - 1 \in Nat /\ nextConv[c] \in Nat
    <2>1. lastConv[c] \in Nat /\ nextConv[c] \in Nat /\ lastConv[c] < nextConv[c]
          /\ Numbered(log, OfConv(c), "cseq", nextConv[c])
      BY DEF IInv, WriterInv, TypeOK, Behind, Counters
    <2>2. TypeOK /\ OfConv(c) \in SUBSET DOMAIN log /\ "cseq" \in {"seq", "cseq"}
      BY <1>2, <1>4
    <2>3. Highest(S, "cseq", lastConv[c]) = nextConv[c] - 1
      BY ONLY <2>1, <2>2, TailIsRead
    <2>4. nextConv[c] - 1 \in Nat  BY <2>1
    <2> QED BY <2>1, <2>3, <2>4
  <1>7. TypeOK'
    BY <1>1, <1>2, <1>5, <1>6 DEF TypeOK, rows, writers
  <1>8. WriterInv'  BY <1>1, <1>2, <1>7, RowsOf
  <1>9. \A i \in OfConv(c) : i \in got'[c]
    <2> SUFFICES ASSUME NEW i \in OfConv(c) PROVE i \in got'[c]  OBVIOUS
    <2>1. log[i].conv = c /\ i \in DOMAIN log  BY DEF OfConv
    <2>2. CASE log[i].cseq <= lastConv[c]
      BY <1>4, <1>5, <2>1, <2>2 DEF IInv, StreamsMissNothing
    <2>3. CASE ~(log[i].cseq <= lastConv[c])
      <3>1. log[i] \in Events  BY <1>2, <2>1 DEF TypeOK
      <3>2. log[i].cseq \in Nat /\ lastConv[c] \in Nat
        BY <1>2, <3>1 DEF TypeOK, Events
      <3>3. i \in S  BY <2>3, <3>2 DEF Positions
      <3> QED BY <1>5, <3>3
    <2> QED BY <2>2, <2>3
  <1>10. StreamsMissNothing'
    <2> SUFFICES ASSUME NEW i \in DOMAIN log
          PROVE  /\ log[i].seq <= lastTask[log[i].task] => i \in got'[log[i].task]
                 /\ log[i].conv # NoConv /\ log[i].cseq <= lastConv'[log[i].conv]
                      => i \in got'[log[i].conv]
                 /\ log[i].gseq <= lastAudit => i \in got'["audit"]
      BY <1>1, <1>3 DEF StreamsMissNothing
    <2>1. log[i] \in Events  BY <1>2 DEF TypeOK
    <2>2. log[i].task \in Tasks /\ (log[i].conv # NoConv => log[i].conv \in Convs)
      BY <2>1 DEF Events
    <2>3. /\ log[i].seq <= lastTask[log[i].task] => i \in got[log[i].task]
          /\ log[i].conv # NoConv /\ log[i].cseq <= lastConv[log[i].conv]
               => i \in got[log[i].conv]
          /\ log[i].gseq <= lastAudit => i \in got["audit"]
      BY DEF IInv, StreamsMissNothing
    <2>4. CASE log[i].conv = c  BY <1>5, <1>9, <2>2, <2>3, <2>4 DEF OfConv
    <2>5. CASE log[i].conv # c
      <3>1. log[i].conv # NoConv => lastConv'[log[i].conv] = lastConv[log[i].conv]
        BY <1>1, <1>2, <2>2, <2>5 DEF TypeOK
      <3> QED BY <1>5, <2>2, <2>3, <3>1
    <2> QED BY <2>4, <2>5
  <1>11. Behind'
    <2>1. \A d \in Convs : lastConv'[d] < nextConv[d]
      BY <1>1, <1>2, <1>6 DEF IInv, Behind, TypeOK
    <2> QED BY <1>1, <1>3, <2>1 DEF IInv, Behind
  <1>12. Outcomes'  BY <1>1, <1>3, <1>5 DEF IInv, Outcomes, HasOutcome
  <1> QED BY <1>8, <1>10, <1>11, <1>12 DEF IInv

\* A page of the audit stream keeps the invariant.
LEMMA AuditPollInv ==
  ASSUME IInv, AuditPoll
  PROVE  IInv'
  <1>1. UNCHANGED <<rows, writers, lastTask, lastConv, follower, snapshot>>
        /\ got' = [got EXCEPT !["audit"] = @ \union Page]
        /\ lastAudit' = Highest(Page, "gseq", lastAudit)
        /\ Ahead # {}
    BY DEF AuditPoll, Ahead, Page
  <1>2. WriterInv /\ TypeOK  BY DEF IInv, WriterInv
  <1>3. log' = log /\ status' = status /\ nextTask' = nextTask /\ nextConv' = nextConv
        /\ \A u \in Tasks : OfTask(u)' = OfTask(u)
    BY <1>1, <1>2, RowsOf
  <1>4. Page \in SUBSET DOMAIN log  BY DEF Page, Ahead, Positions
  <1>5. /\ got' \in [{"audit"} \union Tasks \union Convs -> SUBSET Nat]
        /\ \A x \in {"audit"} \union Tasks \union Convs : got[x] \subseteq got'[x]
        /\ Page \subseteq got'["audit"]
    BY <1>1, <1>2, <1>4, DeliveredStays DEF Delivers
  <1>6. lastAudit <= Len(log)  BY DEF IInv, Behind
  <1>7. PICK m \in 0..Len(log) : /\ lastAudit' = m /\ m >= lastAudit
                                 /\ \A i \in DOMAIN log : lastAudit < i /\ i <= m => i \in Page
    BY <1>1, <1>2, <1>6, PageIsRead
  <1>8. Len(log) \in Nat /\ DOMAIN log = 1..Len(log) /\ lastAudit \in Nat /\ lastAudit' \in Nat
    BY <1>2, <1>7 DEF TypeOK
  <1>9. TypeOK'
    BY <1>1, <1>2, <1>5, <1>8 DEF TypeOK, rows, writers
  <1>10. WriterInv'  BY <1>1, <1>2, <1>9, RowsOf
  <1>11. StreamsMissNothing'
    <2> SUFFICES ASSUME NEW i \in DOMAIN log
          PROVE  /\ log[i].seq <= lastTask[log[i].task] => i \in got'[log[i].task]
                 /\ log[i].conv # NoConv /\ log[i].cseq <= lastConv[log[i].conv]
                      => i \in got'[log[i].conv]
                 /\ log[i].gseq <= lastAudit' => i \in got'["audit"]
      BY <1>1, <1>3 DEF StreamsMissNothing
    <2>1. log[i] \in Events  BY <1>2 DEF TypeOK
    <2>2. log[i].task \in Tasks /\ (log[i].conv # NoConv => log[i].conv \in Convs)
      BY <2>1 DEF Events
    <2>3. /\ log[i].seq <= lastTask[log[i].task] => i \in got[log[i].task]
          /\ log[i].conv # NoConv /\ log[i].cseq <= lastConv[log[i].conv]
               => i \in got[log[i].conv]
          /\ log[i].gseq <= lastAudit => i \in got["audit"]
      BY DEF IInv, StreamsMissNothing
    <2>4. log[i].gseq = i  BY <1>2 DEF WriterInv, ContinuousSequences
    <2>5. log[i].gseq <= lastAudit' => i \in got'["audit"]
      <3>1. CASE i <= lastAudit  BY <1>5, <2>3, <2>4, <3>1
      <3>2. CASE lastAudit < i /\ i <= lastAudit'  BY <1>5, <1>7, <3>2
      <3> QED BY <1>8, <2>4, <3>1, <3>2
    <2> QED BY <1>5, <2>2, <2>3, <2>5
  <1>12. Behind'  BY <1>1, <1>3, <1>7, <1>8 DEF IInv, Behind
  <1>13. Outcomes'  BY <1>1, <1>3, <1>5 DEF IInv, Outcomes, HasOutcome
  <1> QED BY <1>10, <1>11, <1>12, <1>13 DEF IInv

-----------------------------------------------------------------------------
\* The invariant holds initially.
LEMMA InitInv == Init => IInv
  <1> SUFFICES ASSUME Init PROVE IInv  OBVIOUS
  <1>1. TypeOK  BY DEF Init, TypeOK, Statuses, Kinds
  <1>2. DOMAIN log = {} /\ Len(log) = 0  BY DEF Init
  <1>3. ContinuousSequences /\ StreamsMissNothing
    BY <1>2 DEF ContinuousSequences, StreamsMissNothing
  <1>4. Counters
    <2>1. (\A t \in Tasks : OfTask(t) = {}) /\ \A c \in Convs : OfConv(c) = {}
      BY <1>2 DEF OfTask, OfConv
    <2>2. Cardinality({}) = 0  BY FS_EmptySet
    <2>3. /\ nextGlobal = 1
          /\ \A t \in Tasks : nextTask[t] = 1
          /\ \A c \in Convs : nextConv[c] = 1
      BY DEF Init
    <2>4. \A number : Numbered(log, {}, number, 1)  BY <2>2 DEF Numbered
    <2>5. nextGlobal = Len(log) + 1  BY <1>2, <2>3
    <2>6. \A t \in Tasks : Numbered(log, OfTask(t), "seq", nextTask[t])
      BY <2>1, <2>3, <2>4
    <2>7. \A c \in Convs : Numbered(log, OfConv(c), "cseq", nextConv[c])
      BY <2>1, <2>3, <2>4
    <2> QED BY <2>5, <2>6, <2>7 DEF Counters
  <1>5. Sessions /\ OneCursor
    BY ConvOf DEF Init, Sessions, OneCursor, HoldsConv, HoldsCursor
  <1>6. Behind  BY <1>2 DEF Init, Behind
  <1>7. Outcomes  BY DEF Init, Outcomes, Terminal
  <1> QED BY <1>1, <1>3, <1>4, <1>5, <1>6, <1>7 DEF IInv, WriterInv

\* A session that has not committed shows nothing to the streams.
LEMMA StreamsStay ==
  ASSUME IInv, UNCHANGED <<rows, streams>>
  PROVE  StreamsMissNothing' /\ Behind' /\ Outcomes'
  <1>1. UNCHANGED <<log, nextConv, nextTask, status,
                    follower, snapshot, lastTask, lastConv, lastAudit, got>>
    BY DEF rows, streams
  <1>2. \A t \in Tasks : OfTask(t)' = OfTask(t)  BY <1>1 DEF OfTask
  <1> QED BY <1>1, <1>2 DEF IInv, StreamsMissNothing, Behind, Outcomes, HasOutcome

\* Every step keeps the invariant.
LEMMA StepInv == IInv /\ [Next]_vars => IInv'
  <1> SUFFICES ASSUME IInv, [Next]_vars PROVE IInv'  OBVIOUS
  <1>0. WriterInv /\ TypeOK  BY DEF IInv, WriterInv
  <1>1. ASSUME NEW t \in Tasks, Commit(t) PROVE IInv'
    BY <1>0, <1>1, CommitInv, CommitStreams DEF IInv
  <1>2. ASSUME NEW t \in Tasks,
               \/ LoadConversation(t) \/ InsertTask(t) \/ \E k \in Kinds : LoadTask(t, k)
               \/ TakeCursor(t) \/ TakeConversation(t) \/ Rollback(t)
        PROVE  IInv'
    BY <1>0, <1>2, SessionInv, StreamsStay DEF IInv
  <1>3. ASSUME NEW t \in Tasks, FollowStatus(t) \/ FollowEvents(t) PROVE IInv'
    BY <1>3, FollowStatusInv, FollowEventsInv
  <1>4. ASSUME NEW c \in Convs, ConversationPoll(c) PROVE IInv'
    BY <1>4, ConversationPollInv
  <1>5. CASE AuditPoll  BY <1>5, AuditPollInv
  <1>6. CASE UNCHANGED vars
    <2>1. UNCHANGED <<rows, streams>> /\ UNCHANGED <<rows, writers>>
          /\ UNCHANGED <<follower, snapshot, lastTask, lastConv, lastAudit, got>>
      BY <1>6 DEF vars, streams
    <2>2. TypeOK'  BY <1>0, <2>1 DEF TypeOK, rows, writers
    <2>3. WriterInv'  BY <1>0, <2>1, <2>2, RowsOf
    <2> QED BY <2>1, <2>3, StreamsStay DEF IInv
  <1>7. CASE \E t \in Tasks : WriterStep(t)  BY <1>1, <1>2, <1>7 DEF WriterStep
  <1>8. CASE StreamStep  BY <1>3, <1>4, <1>5, <1>8 DEF StreamStep
  <1> QED BY <1>6, <1>7, <1>8 DEF Next

\* The inductive invariant: what sessions and streams hold, next to the ledger.
THEOREM EventLogInvariant == Spec => []IInv
  BY InitInv, StepInv, PTL DEF Spec

\* The ledger, its sessions and its streams hold values of their kinds.
THEOREM LedgerTypes == Spec => []TypeOK
  <1>1. IInv => TypeOK  BY DEF IInv, WriterInv
  <1> QED BY <1>1, EventLogInvariant, PTL

\* The numbers of the gateway, of every task and of every Conversation start at
\* 1, increase by 1 and follow the order of the commits, although a session may
\* have loaded the number of its Conversation before another one committed.
THEOREM LedgerNumbers == Spec => []ContinuousSequences
  <1>1. IInv => ContinuousSequences  BY DEF IInv, WriterInv
  <1> QED BY <1>1, EventLogInvariant, PTL

\* No stream moves past an event it has not delivered, and a task stream that
\* has ended has delivered an outcome.
THEOREM LedgerStreams == Spec => []StreamsAreComplete
  <1>1. IInv => StreamsAreComplete
    BY DEF IInv, StreamsAreComplete, Outcomes, HasOutcome, EndedStreamsShowOutcome
  <1> QED BY <1>1, EventLogInvariant, PTL
=============================================================================
