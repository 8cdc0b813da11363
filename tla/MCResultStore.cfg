SPECIFICATION RSSpec
CONSTANTS
  Sids = {s1, s2}
  Carriers = {c1, c2}
  DocIds = {d1, d2}
  None = None
  Bare = {d2}
  MaxSaves = 3
  MaxBoots = 1
CHECK_DEADLOCK FALSE
SYMMETRY Symmetry
INVARIANTS
  
  CacheAnswersLatest
