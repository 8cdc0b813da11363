------------------------------ MODULE MCRepair ------------------------------
EXTENDS Repair, TLC

Symmetry == Permutations(Kickers) \cup Permutations(Sids)
=============================================================================
