CONSTANTS
  None = None
  Docs <- MCDocs
  Position <- MCPosition
  Contents <- MCContents
  Queries = {"all"}
  Configs = {"popular first", "fresh first"}
  Replicas = {"r1"}
  Matches <- MCMatches
  SortTime <- MCSortTime
  Score <- MCScore
  MaxLimit = 2
  MaxTime = 1
  MaxWrites = 1
  MaxSwitches = 1
SPECIFICATION Spec
INVARIANTS EachOnce OneView
