SPECIFICATION Spec
CONSTANTS
  NumIds = 4
  Times = {0, 1}
  Requests = {1, 3}
  MaxFree = 3
  Capacities = {0, 2}
  BlockSize = 2
  Backfill = TRUE
  BackfillDepth = 2
INVARIANTS QueuesAgree NeverLost
CHECK_DEADLOCK FALSE
