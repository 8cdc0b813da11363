SPECIFICATION FairSpec
CONSTANTS
  Sids = {s1, s2}
  Kickers = {q1, q2}
  MaxKicks = 1
  Works = {"status", "garble"}
  GitWorks = FALSE
CHECK_DEADLOCK FALSE
INVARIANTS
  KickedIsAnswered
PROPERTIES
  RepairEnds
