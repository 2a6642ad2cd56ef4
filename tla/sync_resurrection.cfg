CONSTANTS
  None = None
  d1 = d1  d2 = d2  w1 = w1  w2 = w2  j1 = j1
  Docs = {d1}
  Workers = {w1, w2}
  EntityJobs = {}
  MaxOrder = 2
  BatchSize = 1
  MaxAttempts = 1
  PageSize = 1
  TailLimit = 1
  MaxRebuilds = 1
  MaxFaults = 0
  StallSpansRebuild = TRUE
  ReplayAnyTime = FALSE
SPECIFICATION Spec
SYMMETRY Symmetry
INVARIANT NoLostUpdate
