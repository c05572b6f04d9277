SPECIFICATION RerunsSpec
CONSTANTS
  Horizon = 20
  Word = 16
  NumJobs = 4
  Submits = {0, 1}
  Requests = {1, 2}
  Shapes <- MCRerunShapes
  TotalNodes = 3
  Schedules <- MCOutage
  Backfill = TRUE
  BackfillInterval = 0
  BackfillDepth = 0
  PlanningHorizon = 20
  PlanningResolution = 1
  ReleaseDelays <- MCNoDelays
  Targets = {1, 3}
  Boundaries = {2, 3}
  Grains = {1, 2}
  FlushIntervals = {1, 2}
  FileSizes = {1, 2}
CHECK_DEADLOCK FALSE
INVARIANTS SameSchedule OracleAgrees ReportedKept HistorySeparate HistoryContinues ReplayExact FilesAgree
