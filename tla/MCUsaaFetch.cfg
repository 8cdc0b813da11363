SPECIFICATION Spec
CONSTANTS
  a1 = a1
  a2 = a2
  b1 = b1
  n = n
  A = A
  B = B
  p = p
  q = q
  None = None
  Targets = {a1, a2, b1, n}
  PolicyOf <- MCPolicyOf
  DateOf <- MCDateOf
  KindOf <- MCKindOf
  IndexOf <- MCIndexOf
  BodyOf <- MCBodyOf
  Reactions <- MCReactions
  Listings <- MCListings
  MaxLate = 1
  Centers = 2
  Accounts = 1
  Terms = 1
  Urls = 1
INVARIANTS
  ShownIsKept
  
  

