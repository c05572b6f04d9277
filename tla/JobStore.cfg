SPECIFICATION Spec
CONSTANTS
  MaxJobs = 4
  MaxTime = 4
  MaxBatch = 2
  Durations = {1, 2}
  ReleaseDelays = {0, 1}
  InitialCapacity = 1
  Overflow = "grow"
  MemoryChecked = TRUE
  FlushInterval = 0
  Sink = "file"
  MidRunWrites = FALSE
  FloatGrid = 1
INVARIANTS TypeOK EventsHaveRecords ExactlyOnce CursorCoversReclaimed StoreFits
CHECK_DEADLOCK FALSE
