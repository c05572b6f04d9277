SPECIFICATION FairSpec
CONSTANTS
  Horizon = 30
  Word = 16
  NumJobs = 3
  Submits = {0, 1}
  Requests = {1, 2, 3}
  Shapes <- MCLongShapes
  TotalNodes = 2
  Schedules <- MCShrinking
  Backfill = TRUE
  BackfillInterval = 2
  BackfillDepth = 2
  PlanningHorizon = 9
  PlanningResolution = 2
  ReleaseDelays <- MCDelays
  Targets = {1, 5}
INVARIANTS HeadNotDelayed DrainCompletes
PROPERTIES StartsFit AdvanceConsumesAll AdvanceReturns
