SPECIFICATION BothSpec
CONSTANTS
  Horizon = 14
  Word = 16
  NumJobs = 4
  Submits = {0, 1}
  Requests = {1, 2, 3}
  Shapes <- MCShapes
  Capacity <- MCCapacity
  Policies <- MCPolicies
INVARIANTS ReferenceAgrees TargetKept ProjectionsKept
CHECK_DEADLOCK FALSE
