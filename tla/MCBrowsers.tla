----------------------------- MODULE MCBrowsers -----------------------------
EXTENDS Browsers, TLC

Symmetry == Permutations(Tasks) \cup Permutations(Verifiers) \cup Permutations(Carriers)
=============================================================================
