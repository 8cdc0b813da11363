---------------------------- MODULE MCPatchStore ----------------------------
EXTENDS PatchStore, TLC

Symmetry == Permutations(Fixes)
=============================================================================
