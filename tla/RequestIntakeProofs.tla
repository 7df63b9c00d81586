------------------------ MODULE RequestIntakeProofs ------------------------
(* Proofs about RequestIntake for every set of requests, keys and bodies.   *)
EXTENDS RequestIntake, FiniteSetTheorems, TLAPS

\* The unique constraint, for rows that are committed or about to be.
RowsAreUnique ==
  /\ \A r, s \in rows : ~Collide(r, s)
  /\ \A r \in Requests : pc[r] = "inserted" =>
       /\ \A s \in rows : ~Collide(r, s)
       /\ \A s \in Requests : pc[s] = "inserted" => ~Collide(r, s)

\* A successful answer shows the row of the request or the one it collides with.
ShownRows ==
  \A r \in Requests : Shown(r) =>
    \E x \in rows : /\ reply[r].row = {x}
                    /\ x = r \/ Collide(r, x)
                    /\ BodyOf[x] = BodyOf[r]

\* A request is answered once, at its end.
AnsweredAtEnd == \A r \in Requests : pc[r] # "done" => reply[r] = Silent

IInv == TypeOK /\ RowsAreUnique /\ ShownRows /\ AnsweredAtEnd /\ CreatedRowsStay

\* Collisions are symmetric.
LEMMA CollideSymmetric == \A r, s \in Requests : Collide(r, s) => Collide(s, r)
  BY DEF Collide, SameTable

\* Rows that collide with one request collide with each other.
LEMMA CollideTransitive ==
  \A r, s, x \in Requests : Collide(r, s) /\ Collide(r, x) => s = x \/ Collide(s, x)
  BY DEF Collide, SameTable

\* The rows found by key are at most one, so a replay shows exactly one.
LEMMA ExistingIsOne ==
  ASSUME IInv, NEW r \in Requests, Existing(r) # {}
  PROVE  \E x \in rows : Existing(r) = {x} /\ Collide(r, x)
  <1>1. PICK x \in rows : Collide(r, x)  BY DEF Existing
  <1>2. \A s \in rows : Collide(r, s) => s = x
    BY <1>1, CollideTransitive DEF IInv, TypeOK, RowsAreUnique
  <1> QED BY <1>1, <1>2 DEF Existing

\* Replaying a stored row keeps the invariant.
LEMMA ReplayInv ==
  ASSUME IInv, NEW r \in Requests, pc[r] \notin {"inserted", "done"},
         Existing(r) # {}, Replay(r, Existing(r)), UNCHANGED rows
  PROVE  IInv'
  <1>1. PICK x \in rows : Existing(r) = {x} /\ Collide(r, x)  BY ExistingIsOne
  <1>2. \E a \in {"conflict", "replay"}, S \in {{}, {x}} :
          /\ Answer(r, a, S)
          /\ a = "replay" => S = {x} /\ BodyOf[x] = BodyOf[r]
    BY <1>1 DEF Replay
  <1>3. x \in Requests  BY DEF IInv, TypeOK
  <1>4. TypeOK'  BY <1>2, <1>3 DEF IInv, TypeOK, Answer, Go, Answers
  <1>5. RowsAreUnique'  BY <1>2 DEF IInv, TypeOK, RowsAreUnique, Answer, Go
  <1>6. ShownRows'
    BY <1>1, <1>2 DEF IInv, TypeOK, ShownRows, Shown, Answer
  <1>7. AnsweredAtEnd' /\ CreatedRowsStay'
    BY <1>2 DEF IInv, TypeOK, AnsweredAtEnd, CreatedRowsStay, Answer, Go
  <1> QED BY <1>4, <1>5, <1>6, <1>7 DEF IInv

\* Refusing a request keeps the invariant.
LEMMA RefuseInv ==
  ASSUME IInv, NEW r \in Requests, pc[r] \notin {"inserted", "done"},
         NEW a \in {"not_found", "error", "conflict"}, Answer(r, a, {}), UNCHANGED rows
  PROVE  IInv'
  BY DEF IInv, TypeOK, Answers, RowsAreUnique, ShownRows, Shown, AnsweredAtEnd, CreatedRowsStay,
     Answer, Go

\* Going on without an answer keeps the invariant.
LEMMA GoInv ==
  ASSUME IInv, NEW r \in Requests, pc[r] # "done", NEW l \in {"validate", "insert", "reread"},
         Go(r, l), UNCHANGED <<rows, reply>>
  PROVE  IInv'
  BY DEF IInv, TypeOK, RowsAreUnique, ShownRows, Shown, AnsweredAtEnd, CreatedRowsStay, Go

\* An INSERT that succeeds collides with no stored and no other open row.
LEMMA InsertInv == ASSUME IInv, NEW r \in Requests, Insert(r) PROVE IInv'
  <1>1. CASE Existing(r) = {}
    <2>1. Go(r, "inserted") /\ pc[r] = "insert" /\ UNCHANGED <<rows, reply>>
          /\ ~\E s \in Requests : Collide(r, s) /\ pc[s] = "inserted"
      BY <1>1 DEF Insert
    <2>2. \A s \in rows : ~Collide(r, s)  BY <1>1 DEF Existing
    <2>3. RowsAreUnique'
      BY <2>1, <2>2, CollideSymmetric DEF IInv, TypeOK, RowsAreUnique, Go, Collide
    <2> QED BY <2>1, <2>3 DEF IInv, TypeOK, ShownRows, Shown, AnsweredAtEnd, CreatedRowsStay, Go
  <1>2. CASE Existing(r) # {}
    BY <1>2, RefuseInv, GoInv DEF Insert
  <1> QED BY <1>1, <1>2

\* The commit makes the row visible without a collision.
LEMMA CommitInv == ASSUME IInv, NEW r \in Requests, Commit(r) PROVE IInv'
  <1>1. pc[r] = "inserted" /\ rows' = rows \union {r} /\ Answer(r, "created", {r})
    BY DEF Commit
  <1>2. TypeOK'  BY <1>1 DEF IInv, TypeOK, Answer, Go, Answers
  <1>3. RowsAreUnique'
    BY <1>1, CollideSymmetric DEF IInv, TypeOK, RowsAreUnique, Answer, Go, Collide
  <1>4. ShownRows'
    BY <1>1 DEF IInv, TypeOK, ShownRows, Shown, Answer
  <1>5. AnsweredAtEnd' /\ CreatedRowsStay'
    BY <1>1 DEF IInv, TypeOK, AnsweredAtEnd, CreatedRowsStay, Answer, Go
  <1> QED BY <1>2, <1>3, <1>4, <1>5 DEF IInv

\* Lost replies and a dying process only take answers away.
LEMMA FaultInv == ASSUME IInv, Crash \/ \E r \in Requests : LoseReply(r) PROVE IInv'
  <1>1. CASE Crash
    BY <1>1 DEF Crash, IInv, TypeOK, Answers, RowsAreUnique, ShownRows, Shown, AnsweredAtEnd,
       CreatedRowsStay
  <1>2. ASSUME NEW r \in Requests, LoseReply(r) PROVE IInv'
    <2>1. pc[r] = "done"
      BY <1>2 DEF LoseReply, IInv, AnsweredAtEnd, Silent
    <2> QED BY <1>2, <2>1 DEF LoseReply, IInv, TypeOK, Answers, RowsAreUnique, ShownRows, Shown,
         AnsweredAtEnd, CreatedRowsStay
  <1> QED BY <1>1, <1>2

\* The invariant holds in every behaviour.
THEOREM IntakeInvariant == Spec => []IInv
  <1>1. Init => IInv
    BY DEF Init, IInv, TypeOK, Answers, Silent, RowsAreUnique, ShownRows, Shown, AnsweredAtEnd,
       CreatedRowsStay
  <1>2. IInv /\ [Next]_vars => IInv'
    <2> SUFFICES ASSUME IInv, [Next]_vars PROVE IInv'  OBVIOUS
    <2>1. ASSUME NEW r \in Requests, Handle(r) PROVE IInv'
      <3>1. CASE Lookup(r)  BY <3>1, ReplayInv, GoInv DEF Lookup
      <3>2. CASE Validate(r)  BY <3>2, RefuseInv, GoInv DEF Validate
      <3>3. CASE Insert(r)  BY <3>3, InsertInv
      <3>4. CASE Commit(r)  BY <3>4, CommitInv
      <3>5. CASE Reread(r)  BY <3>5, ReplayInv, RefuseInv DEF Reread
      <3> QED BY <2>1, <3>1, <3>2, <3>3, <3>4, <3>5 DEF Handle
    <2>2. CASE UNCHANGED vars
      BY <2>2 DEF vars, IInv, TypeOK, RowsAreUnique, ShownRows, Shown, AnsweredAtEnd, CreatedRowsStay
    <2> QED BY <2>1, <2>2, FaultInv DEF Next
  <1> QED BY <1>1, <1>2, PTL DEF Spec

\* A handler ends in one of its states, and a row a client was told of stays.
THEOREM IntakeTypeOK == Spec => [](TypeOK /\ CreatedRowsStay)
  <1>1. IInv => TypeOK /\ CreatedRowsStay  BY DEF IInv
  <1> QED BY <1>1, IntakeInvariant, PTL

\* All successful answers for one key show the same, single, committed row.
THEOREM IntakeOneRow == Spec => []OneRowPerKey
  <1>1. IInv => OneRowPerKey
    <2> SUFFICES ASSUME IInv, NEW r \in Requests, NEW s \in Requests,
                        Shown(r), Shown(s), Collide(r, s)
                 PROVE  /\ reply[r].row = reply[s].row
                        /\ reply[r].row \subseteq rows
                        /\ Cardinality(reply[r].row) = 1
      BY DEF OneRowPerKey
    <2>1. PICK x \in rows : reply[r].row = {x} /\ (x = r \/ Collide(r, x))
      BY DEF IInv, ShownRows
    <2>2. PICK y \in rows : reply[s].row = {y} /\ (y = s \/ Collide(s, y))
      BY DEF IInv, ShownRows
    <2>3. x \in Requests /\ y \in Requests  BY DEF IInv, TypeOK
    <2>4. x = y \/ Collide(x, y)
      BY <2>1, <2>2, <2>3 DEF Collide, SameTable
    <2>5. x = y  BY <2>4 DEF IInv, RowsAreUnique
    <2>6. Cardinality({x}) = 1  BY FS_Singleton
    <2> QED BY <2>1, <2>2, <2>5, <2>6
  <1> QED BY <1>1, IntakeInvariant, PTL

\* No caller is shown a row stored for another body or in the other table.
THEOREM IntakeOwnRow == Spec => []ShownRowIsOwn
  <1>1. IInv => ShownRowIsOwn
    BY DEF IInv, ShownRows, ShownRowIsOwn, Collide, SameTable
  <1> QED BY <1>1, IntakeInvariant, PTL
=============================================================================
