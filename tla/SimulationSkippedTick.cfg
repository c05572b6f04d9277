SPECIFICATION Spec
CONSTANTS
  Horizon = 24
  Word = 16
  NumJobs = 3
  Submits = {0, 1}
  Requests = {1, 2, 3}
  Shapes <- MCShapes
  TotalNodes = 2
  Schedules <- MCNoChanges
  Backfill = TRUE
  BackfillInterval = 2
  BackfillDepth = 2
  PlanningHorizon = 2
  PlanningResolution = 2
  ReleaseDelays <- MCDelay
  Targets = {1, 5}

PROPERTIES TickStartsAll
