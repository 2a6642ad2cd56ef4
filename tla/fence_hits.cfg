CONSTANTS
  m1 = m1  m2 = m2  r1 = r1  r2 = r2
  Mutators = {m1, m2}
  Requests = {r1, r2}
  MaxMutations = 2
  MaxFaults = 1
SPECIFICATION FairSpec
INVARIANTS IInv NoStaleHit
PROPERTIES ClosedDuringWrites CacheReturns
