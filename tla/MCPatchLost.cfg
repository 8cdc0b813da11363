SPECIFICATION Spec
CONSTANTS
  Fixes = {f1, f2}
  MaxBoots = 2
CHECK_DEADLOCK FALSE
SYMMETRY Symmetry
INVARIANT
  FixesSurvive
