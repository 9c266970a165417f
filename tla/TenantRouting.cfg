CONSTANTS
  Request = {r1, r2}
  User = {u1}
  Schema = {s1, s2}
  MaxQueries = 2
  None = None
SPECIFICATION FairSpec
INVARIANTS IInv FailureIsOwn NoTenantNoPool
PROPERTIES AccessSpec EveryRequestAnswered
