SPECIFICATION PortalSpec
CONSTANTS
  Uids = {u1, u2}
  Carriers = {usaa, geico}
  SessionIds = {s1, s2}
  Tabs = {r1, r2}
  NoSession = NoSession
  IdleTTL = 1
  ProgressCarriers = {usaa}
  ProxyCarriers = {geico}
  SessionTTL = 2
SYMMETRY Symmetry
INVARIANTS
  PortalInv
  NoTaskWithoutSession
  OneAttached
  PoliteDrivers
  OwnDocsOnly
PROPERTIES
  RefusedByLiveOwner
