SPECIFICATION RemoteSpec
CONSTANTS
  NumJobs = 1
  Arrivals = {0, 1}
  Shapes <- MCShapes
  Workloads <- MCWorkloads
  Capacity <- MCCapacity
  GpuEnabled = {2}
  MaxLimit = 4
  Policies <- MCPolicies
  Streams = {1, 2}
  NumRequests = 5
  Pipelined = 2
  Inits <- MCFlushing
  Batches <- MCBatches
  Targets = {0, 2}
  JobFiles <- MCFiles
  ClientRuns = 0
  ClientNodes = 2
  Second = 2
  Fine = 6
  Horizon = 16
  Word = 64
  FedNodes = 2
  FedJobs <- MCFedJobs
  FedCount = 1
  Sizes = {1, 2, 3}
  PlanningHorizon = 16
INVARIANT StatisticsUnchanged
