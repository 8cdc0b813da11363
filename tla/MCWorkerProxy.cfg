SPECIFICATION FairSpec
CONSTANTS
  Logins = {l1}
  Calls = {m1, m2}
  None = None
  Ttl = 0
  MaxTime = 1
  MaxPings = 1
  MaxConns = 1
CHECK_DEADLOCK FALSE
INVARIANTS
  ProxyInv
  StreamInv
  RetryIsSafe
PROPERTIES
  StreamEnds
