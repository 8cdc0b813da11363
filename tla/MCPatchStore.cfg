SPECIFICATION Spec
CONSTANTS
  Fixes = {f1, f2}
  MaxBoots = 3
CHECK_DEADLOCK FALSE
SYMMETRY Symmetry
INVARIANTS
  PatchInv
  PendingIsLive
  LonePatchReturns
