SPECIFICATION Spec
CONSTANTS
  Programs = {"bots"}
  c1 = c1
  c2 = c2
  h1 = h1
  h2 = h2
  Droplets = {c1, c2, h1, h2}
  Carbons = {c1, c2}
  NoBond = NoBond
  NoPlace = NoPlace
  MaxAtoms = 3
  MaxNear = 2
  ChemBudgets <- MCChemBudgets
  Ticks = 4
  MyPlace = 0
  Walls <- MCWalls
  Speeds = {1, 4}
  Elapsed = {1, 4}
  Reported <- MCReported
  Radius = 1
  FarAway = 2
  SendTries = 1
  PongBudgets <- MCPongBudgets
  b1 = b1
  b2 = b2
  b3 = b3
  b4 = b4
  b5 = b5
  Tracked = 3
  Sightings <- MCSightings
  MaxHeard = 5
  Me = "me"
  Others = {"you"}
  Multipress = 2
  SlotLength = 4
  Slots = 3
  LogSize = 2
  PressTries = 1
  LongestTurn = 3
  KeyStarts <- MCKeyStarts
  w1 = w1
  w2 = w2
  w3 = w3
  Nobody = Nobody
  Walkers = {w1, w2, w3}
  Adjacent <- MCAdjacent
  QueryLimit = 1
  PathBudgets <- MCPathBudgets
  MyBot = MyBot
  Mates = {b1, b2}
  GroupPlaces = {1, 2}
  Timeout = 4
  HeartRate = 1
  CollabTime = 1
  MaxHours = 8
  MaxBeats = 3
  n1 = n1
  n2 = n2
  Nodes = {n1, n2}
  NoNode = NoNode
  GiveUp = 1
  MaxMeasured = 4
INVARIANTS
  WideGapsAreEdges
CHECK_DEADLOCK FALSE
