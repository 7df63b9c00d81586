------------------------- MODULE MCSourceIngestion -------------------------
EXTENDS SourceIngestion, TLC

Symmetry == Permutations(Ingestions) \union Permutations(Workers)

=============================================================================
