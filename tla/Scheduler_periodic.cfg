SPECIFICATION Spec
CONSTANTS
  MAX_NUM_SCHEDULED_TASKS = 2
  MinFuture = 2
  RunAhead = 1
  CompBit = 1
  EpochLen = 6
  StallLimit = 3
  RecoverStep = 2
  Delays = {0}
  Periods = {3}
  Callers = {"main"}
  SelfRemove = FALSE
  Overcommit = FALSE
  MaxCalls = 2
  MaxTime = 7
  NULL = NULL
PROPERTIES
  PeriodicStaysScheduled
CHECK_DEADLOCK FALSE
