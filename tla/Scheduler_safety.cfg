SPECIFICATION Spec
CONSTANTS
  MAX_NUM_SCHEDULED_TASKS = 3
  MinFuture = 2
  RunAhead = 1
  CompBit = 1
  EpochLen = 6
  StallLimit = 3
  RecoverStep = 2
  Delays = {0}
  Periods = {3}
  Callers = {"main", "task", "med"}
  SelfRemove = FALSE
  Overcommit = FALSE
  MaxCalls = 3
  MaxTime = 7
  NULL = NULL
INVARIANTS
  TypeOK
  EverySlotAccounted
PROPERTIES
  OrderKept
  ImplementsTaskQueue
CHECK_DEADLOCK FALSE
