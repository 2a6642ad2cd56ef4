CONSTANTS
  None = None
  d1 = d1  d2 = d2  w1 = w1  w2 = w2  j1 = j1
  Docs = {d1}
  Workers = {w1, w2}
  EntityJobs = {}
  MaxOrder = 2
  BatchSize = 2
  MaxAttempts = 1
  PageSize = 1
  TailLimit = 0
  MaxRebuilds = 1
  MaxFaults = 1
  StallSpansRebuild = FALSE
  ReplayAnyTime = FALSE
SPECIFICATION FairSpec
INVARIANTS IInv NoLostUpdate
PROPERTIES FollowsTheSource Converges
