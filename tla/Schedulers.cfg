SPECIFICATION Spec
CONSTANTS
  NumJobs = 4
  LastTime = 2
  Submits = {0, 1}
  Shapes <- MCShapes
  TotalNodes = 4
  Horizon = 14
  Word = 64
  PlanningHorizon = 2
  Options <- MCOptions
  EarlyEnds = FALSE
  BackfillDepth = 0
  ReservationDepth = 0
  DispatchDepth = 2
  MaxCandidates = 1
INVARIANTS QueueExact PromisesKept DequeAgrees NoCandidateMissed
CHECK_DEADLOCK FALSE
