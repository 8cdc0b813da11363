--------------------------- MODULE MCSlotManager ---------------------------
EXTENDS SlotManager, TLC

Symmetry == Permutations(Uids) \cup Permutations(Carriers)
              \cup Permutations(SessionIds)
=============================================================================
