---------------------------- MODULE MCLoginFlow ----------------------------
EXTENDS LoginFlow, TLC

Symmetry == Permutations(Codes)
=============================================================================
