--------------------------- MODULE CustomerLedger ---------------------------
(***************************************************************************)
(* What a customer extraction makes of the answers of the model: which       *)
(* fields a document is asked for, which answers become candidates           *)
(* (extract_customer_fields), and which candidates the aggregated ledger     *)
(* shows (_aggregate).                                                       *)
(***************************************************************************)
EXTENDS Naturals, Sequences

CONSTANTS
  Place,       \* kind of directory of each ready document, in manifest order
  FieldCodes,  \* requested fields
  Lists,       \* those of type object_list
  FieldsOf,    \* the special fields that are asked in each kind of directory
  Rules,       \* source priorities: a sequence of sets of documents
  Values,
  Confidences, \* of valid answers, as naturals
  Periods,     \* effective_from and effective_to of an answer
  InForce,     \* those the time of the analysis is in
  Minimum,     \* minimum_confidence of the request
  MaxRows      \* bound: candidates of the extraction

VARIABLES
  rows,   \* candidates in the order of the query
  ended,  \* documents that have been answered, in manifest order
  result  \* the result, once aggregated

vars == <<rows, ended, result>>

-----------------------------------------------------------------------------
(* Answers.                                                                 *)

Docs == DOMAIN Place

Special == UNION {FieldsOf[p] : p \in DOMAIN FieldsOf}


\* requested_fields_for_document
Asked(d) ==
  IF Place[d] = "historical" THEN {}
  ELSE IF Place[d] \in DOMAIN FieldsOf THEN FieldCodes \intersect FieldsOf[Place[d]]
  ELSE FieldCodes \ Special

\* What the model may return: `cites` are the documents of the cited chunks, and
\* an answer is not valid if its confidence, option, type or value is not.
Answers ==
  [field : FieldCodes, value : Values, valid : BOOLEAN, confidence : Confidences,
   cites : SUBSET Docs, period : Periods]

\* Their rows; block and option are those of the id.
Candidates ==
  [id : Nat, field : FieldCodes, value : Values, confidence : Confidences,
   cites : SUBSET Docs, period : Periods]

Candidate(n, a) ==
  [id |-> n, field |-> a.field, value |-> a.value, confidence |-> a.confidence,
   cites |-> a.cites, period |-> a.period]

\* The checks of extract_customer_fields.
Accepted(d, a) ==
  a.field \in Asked(d) /\ a.cites = {d} /\ a.valid

-----------------------------------------------------------------------------
(* Aggregation of a sequence of candidates.                                  *)

Least(S) == CHOOSE x \in S : \A y \in S : x <= y

\* _source_priority
Priority(c) ==
  LET hits == {i \in DOMAIN Rules : c.cites \intersect Rules[i] # {}}
  IN IF hits = {} THEN 100 ELSE Least(hits)

\* A mutant: candidates of another time are not set aside.
ApplicableAlways(s) == DOMAIN s

Applicable(s) == {i \in DOMAIN s : s[i].period \in InForce}

Members(s, f, v) == {i \in Applicable(s) : s[i].field = f /\ s[i].value = v}
Group(s, f, v) == {s[i] : i \in Members(s, f, v)}
ValuesOf(s, f) == {v \in Values : Group(s, f, v) # {}}
GroupPriority(s, f, v) == Least({Priority(c) : c \in Group(s, f, v)})
BestPriority(s, f) == Least({GroupPriority(s, f, v) : v \in ValuesOf(s, f)})
Best(s, f) ==
  LET best == BestPriority(s, f)
  IN {v \in ValuesOf(s, f) : GroupPriority(s, f, v) = best}

Highest(s, f, v) ==
  LET confidences == {c.confidence : c \in Group(s, f, v)}
  IN CHOOSE x \in confidences : \A y \in confidences : y <= x

\* A mutant: the winner is the last candidate.
LastOne(s, f, v) ==
  s[CHOOSE i \in Members(s, f, v) : \A j \in Members(s, f, v) : j <= i]

\* The first candidate of the highest confidence.
Winner(s, f, v) ==
  s[Least({i \in Members(s, f, v) : s[i].confidence = Highest(s, f, v)})]

Conflicts(s, f) == f \notin Lists /\ \E v, w \in Best(s, f) : v # w

\* A row of knowledge_field_conflicts, with the candidates of all best values.
Conflict(s, f) ==
  [field |-> f, candidates |-> {c.id : c \in UNION {Group(s, f, v) : v \in Best(s, f)}}]

\* id and period are columns of the winner, and so are block and option.
Output(s, f, v) ==
  LET winner == Winner(s, f, v)
  IN [id |-> winner.id, field |-> f, value |-> v, confidence |-> Highest(s, f, v),
      period |-> winner.period, evidence |-> UNION {c.cites : c \in Group(s, f, v)}]

Outputs(s) ==
  {Output(s, q[1], q[2]) : q \in
     {p \in FieldCodes \X Values : /\ p[2] \in Best(s, p[1])
                               /\ Winner(s, p[1], p[2]).confidence >= Minimum}}

\* _aggregate; `selected`, `conflicting` and `excluded` are the ids of the rows that
\* get this aggregation_status, the others stay file_candidate.
Aggregated(s) ==
  LET fields == {s[i].field : i \in Applicable(s)}
      conflicts == {Conflict(s, f) : f \in {g \in fields : Conflicts(s, g)}}
  IN [status |-> IF Outputs(s) \union conflicts # {} THEN "review_required" ELSE "completed",
      outputs |-> Outputs(s),
      conflicts |-> conflicts,
      selected |-> {o.id : o \in {p \in Outputs(s) : ~Conflicts(s, p.field)}},
      conflicting |-> {o.id : o \in {p \in Outputs(s) : Conflicts(s, p.field)}},
      excluded |-> {s[i].id : i \in DOMAIN s \ Applicable(s)},
      unresolved |-> FieldCodes \ {o.field : o \in Outputs(s)}]

-----------------------------------------------------------------------------
Init == rows = <<>> /\ ended = 0 /\ result = [status |-> "none"]

\* The next document is analysed; the model returns any number of fields, one of
\* them several times or none at all.
Analyse ==
  /\ ended < Len(Place)
  /\ ended' = ended + 1
  /\ \E n \in 0..(MaxRows - Len(rows)) :
       \E found \in [1..n -> {a \in Answers : Accepted(ended + 1, a)}] :
         rows' = rows \o [i \in 1..n |-> Candidate(Len(rows) + i, found[i])]
  /\ UNCHANGED result

Aggregate ==
  /\ ended = Len(Place) /\ result.status = "none"
  /\ result' = Aggregated(rows)
  /\ UNCHANGED <<rows, ended>>

Next == Analyse \/ Aggregate

Spec == Init /\ [][Next]_vars

-----------------------------------------------------------------------------
\* The values of the variables: candidates are checked answers to what their
\* document was asked.
TypeOK ==
  /\ \A i \in DOMAIN rows : \E d \in 1..ended :
       rows[i].cites = {d} /\ rows[i].field \in FieldCodes /\ rows[i].value \in Values
  /\ ended \in 0..Len(Place)

\* What the ledger shows, said without grouping: a value that the best source of
\* its field gives and that some source gives with enough confidence, at the time
\* of the analysis.
Shown(f, v) ==
  LET of == {rows[i] : i \in {k \in DOMAIN rows : rows[k].field = f /\ rows[k].period \in InForce}}
  IN \E c, e \in of : /\ c.value = v /\ \A o \in of : Priority(c) <= Priority(o)
                      /\ e.value = v /\ e.confidence >= Minimum

\* The result shows exactly those values, whatever the grouping.
LedgerIsSupported ==
  result.status # "none" =>
    {<<o.field, o.value>> : o \in result.outputs} =
      {p \in FieldCodes \X Values : Shown(p[1], p[2])}

Exchanged(s, i, j) == [s EXCEPT ![i] = s[j], ![j] = s[i]]

\* What of a result does not name the winners.
Settled(r) ==
  [status |-> r.status, conflicts |-> r.conflicts, excluded |-> r.excluded,
   unresolved |-> r.unresolved,
   shown |-> {[field |-> o.field, value |-> o.value, confidence |-> o.confidence,
               evidence |-> o.evidence] : o \in r.outputs}]

\* The query of the candidates has no order: exchanging two rows changes neither
\* the values, confidences and evidence of the ledger nor its conflicts.
OrderDoesNotMatter ==
  result.status # "none" =>
    \A i, j \in DOMAIN rows : i < j =>
      Settled(Aggregated(Exchanged(rows, i, j))) = Settled(result)

\* It does choose among the rows of a value with equal confidence, and with the row
\* the id, block, option and period that are shown and the row that is selected.
WinnersAreStable ==
  result.status # "none" =>
    \A i, j \in DOMAIN rows : i < j => Aggregated(Exchanged(rows, i, j)) = result

\* What is shown is a row: of its field, value and confidence, of the time of the
\* analysis, and a candidate of the conflict if its field has one.
WinnersAreRows ==
  result.status # "none" =>
    /\ \A o \in result.outputs : \E i \in Applicable(rows) :
         /\ rows[i].id = o.id /\ rows[i].field = o.field /\ rows[i].value = o.value
         /\ rows[i].confidence = o.confidence /\ rows[i].period = o.period
    /\ \A o \in result.outputs, c \in result.conflicts :
         c.field = o.field => o.id \in c.candidates /\ o.id \in result.conflicting

\* ADR 0027, 16: special fields come from their directories, and these answer
\* nothing else.
PlacesAreKept ==
  result.status # "none" =>
    \A o \in result.outputs, d \in Docs : d \in o.evidence =>
      IF o.field \in Special THEN Place[d] \in DOMAIN FieldsOf /\ o.field \in FieldsOf[Place[d]]
      ELSE Place[d] \notin DOMAIN FieldsOf

\* ADR 0027, 17: two values of a scalar field are shown as a conflict only.
NoSilentChoice ==
  result.status # "none" =>
    \A o, p \in result.outputs :
      o.field = p.field /\ o.value # p.value /\ o.field \notin Lists
        => \E c \in result.conflicts : c.field = o.field

\* What is shown is supported by a row, from the right directories, and undisputed
\* or marked as a conflict.
LedgerIsRight ==
  LedgerIsSupported /\ WinnersAreRows /\ PlacesAreKept /\ NoSilentChoice

\* ADR 0027, 17: every value of a list remains a candidate to be reviewed.
ListValuesStay ==
  result.status # "none" =>
    \A i \in Applicable(rows) :
      rows[i].field \in Lists /\ rows[i].confidence >= Minimum
        => \E o \in result.outputs : o.field = rows[i].field /\ o.value = rows[i].value

=============================================================================
