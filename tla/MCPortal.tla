------------------------------ MODULE MCPortal ------------------------------
EXTENDS Portal, TLC

Symmetry == Permutations(Uids) \cup Permutations(SessionIds) \cup Permutations(Tabs)
=============================================================================
