CONSTANTS
  r1 = r1  r2 = r2  k1 = k1  k2 = k2  k3 = k3  s1 = s1  s2 = s2  s3 = s3  g1 = g1  w1 = w1  w2 = w2
  Replicas = {r1, r2}
  Keys = {k1, k2, k3}
  Stores = {s1, s2, s3}
  Getters = {g1}
  Writers = {w1, w2}
  Home <- MCHome
  TTL <- MCTTL
  Second = 2
  MaxEntries = 2
  Concurrency = 1
  None = None
  MaxTime = 2
SPECIFICATION Spec
SYMMETRY Symmetry
INVARIANTS IInv OwnLimitHolds WithinLimits
PROPERTIES KeepsTheContract EvictsTheNextToExpire
