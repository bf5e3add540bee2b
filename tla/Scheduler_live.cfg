SPECIFICATION LiveSpec
CONSTANTS
  MAX_NUM_SCHEDULED_TASKS = 2
  MinFuture = 2
  RunAhead = 1
  CompBit = 1
  EpochLen = 4
  StallLimit = 3
  RecoverStep = 2
  Delays = {0}
  Periods = {4}
  Callers = {"main", "task", "med"}
  SelfRemove = TRUE
  Overcommit = TRUE
  MaxCalls = 3
  MaxTime = 8
  NULL = NULL
INVARIANTS
  CountInRange
PROPERTIES
  EveryTaskLeavesList
CHECK_DEADLOCK FALSE
