CONSTANTS
  None = None
  d1 = d1  d2 = d2  w1 = w1  w2 = w2  j1 = j1
  Docs = {d1, d2}
  Workers = {}
  EntityJobs = {j1}
  MaxOrder = 3
  BatchSize = 1
  MaxAttempts = 1
  PageSize = 2
  TailLimit = 2
  MaxRebuilds = 1
  MaxFaults = 1
  StallSpansRebuild = FALSE
  ReplayAnyTime = FALSE
SPECIFICATION Spec
SYMMETRY Symmetry
INVARIANT IInv
PROPERTY SwitchIsCurrent
