SPECIFICATION FairSpec
CONSTANTS
  Devices = {"twi", "motion", "rnb"}
  Powers = {1, 256}
  Wipers = 2
  Colours = 2
  TwiBudgets <- MCTwiLive
  LastDir = 2
  LowPower = 100
  SenseCalls = 4
  TaskSlots = {1, 2, 3}
  NoTask = NoTask
  FirstTries = 1
  AllTries = 2
  MotionBudgets <- MCMotionBudgets
  EpochTicks = 16
  PeriodMs = 6
  MaxElapsed = 50
  MaxUpdates = 3
  Top = 5
  d1 = d1
  d2 = d2
  n1 = n1
  n2 = n2
  ObsCells = {n1, n2}
  Delays = {0, 2}
  FFC = 2
  LightColours = {dark}
  MaxPeriods = 2
  MaxPings = 2
  BufferSize = 3
  Letters = {"x"}
  SerialCommands <- MCSerialCommands
  MaxCommandsGiven = 3
  ByteBase = 2
  NumSettings = 2
  PageSize = 2
  StoreBudgets <- MCStoreBudgets
  Messages = {1, 2}
  CrcOfMsg <- MCCrc
  Length <- MCLength
  Channels = 2
  MaxFrames = 3
  FrameTime = 3
  Spread = 1
  CloseTime = 2
  IntRange = 12
  CountRange = 16
  NodeSize = 1
  MemLimit = 5
  MaxAge = 5
  MaxTime = 7
  Never = Never
  Droplets = {d1, d2}
  MaxMeas = 2
  Noisy = FALSE
  TableFull = FALSE
  MaxCommands = 4
  NoDroplet = NoDroplet
INVARIANTS
  BlockHeld
PROPERTIES
  BusCallsReturn
  MovesEnd
  FixEnds
  ImplementsExchange
  ExchangeEnds
CHECK_DEADLOCK FALSE
