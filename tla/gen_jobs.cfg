CONSTANTS
  r1 = r1  r2 = r2  j1 = j1  j2 = j2  j3 = j3
  Replicas = {r1, r2}
  Jobs = {j1, j2}
  Baseline = Baseline
  PoolSize = 2
  MaxFaults = 3
SPECIFICATION FairSpec
INVARIANTS IInv OneActive SuccessWasActivated
PROPERTIES FailedStaysFailed LeasedJobsAreLeftAlone JobsEnd
CHECK_DEADLOCK FALSE
