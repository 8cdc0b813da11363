SPECIFICATION Spec
CONSTANTS
  Tasks = {t1, t2}
  Verifiers = {v1, v2}
  Carriers = {c1, c2}
  None = None
  MaxDeaths = 1
CHECK_DEADLOCK FALSE
SYMMETRY Symmetry
INVARIANTS
  BrowserInv
  LostByRaceOnly
  OneRepairBrowser
  QuietExitIsClean
