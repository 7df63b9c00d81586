------------------------ MODULE MCOperationalIssue ------------------------
(* OperationalIssue on small sets.  Items are interchangeable, and so are requests. *)
EXTENDS OperationalIssue, TLC

Symmetry == Permutations(Slots) \union Permutations(Operators)
=============================================================================
