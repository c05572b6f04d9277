SPECIFICATION Spec
CONSTANTS
  Files <- MCFiles
  Interval = 2
  Capacity = 6
  HistoryCapacity = 2
  Sinks = {"file", "redis"}
  MaxCrashes = 3
INVARIANTS OutputExact RestartPossible LostWorkBounded
CHECK_DEADLOCK FALSE
