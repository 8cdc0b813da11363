SPECIFICATION Spec
CONSTANTS
  Uids = {u1, u2, u3}
  Carriers = {geico, usaa}
  SessionIds = {s1, s2}
  NoSession = NoSession
  IdleTTL = 1
INVARIANTS
  SlotInv
  CarrierExclusive
PROPERTIES
  LeaseSpec
