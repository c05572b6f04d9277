SPECIFICATION Spec
CONSTANTS
  Horizon = 3
  Word = 4
  Requests = {1, 2}
  Durations = {0, 2}
  Origins = {0, 1}
  RunningJobs = {j1, j2}
  JobNodes = {1, 2}
  Capacities = {1, 3}
INVARIANT ProfileIsFreeCapacity
PROPERTY TimelineImplementsPlan
