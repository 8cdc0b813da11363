--------------------------- MODULE MCResultStore ---------------------------
EXTENDS ResultStore, TLC

Symmetry == Permutations(Sids) \cup Permutations(Carriers)
=============================================================================
