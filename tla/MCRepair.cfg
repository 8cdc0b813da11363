SPECIFICATION Spec
CONSTANTS
  Sids = {s1}
  Kickers = {q1, q2}
  MaxKicks = 2
  Works = {"status", "pdf", "patch"}
  GitWorks = TRUE
CHECK_DEADLOCK FALSE
SYMMETRY Symmetry
INVARIANTS
  RepairInv
  DoneVerdictVerified
