SPECIFICATION Spec
CONSTANTS
  Sids = {s1}
  Carriers = {c1}
  DocIds = {d1, d2}
  None = None
  Bare = {d2}
  MaxSaves = 2
  MaxBoots = 1
  Watched = {s1}
CHECK_DEADLOCK FALSE
INVARIANTS
  MailInv
PROPERTIES
  WatcherEnds
