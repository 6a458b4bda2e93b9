SPECIFICATION FairSpec
CONSTANTS
  Ops = {o1, o2, o3}
  Tools = {a, b}
  Stores = {"ts", "go", "python"}
  ColdConcurrency = FALSE
  MayFail = TRUE
  MaxCrashes = 1
  None = None
INVARIANT AcknowledgedSurvives
INVARIANT ReadsSeeAcknowledged
PROPERTY EveryOperationSettles
CHECK_DEADLOCK FALSE
