SPECIFICATION FairSpec
CONSTANTS
  Dirs = {0, 1}
  Calls <- MCCalls
  Budgets <- MCBudgets
  Header <- MCShort
  TrackData = FALSE
  None = None
  Elapsed = Elapsed
  Junk = Junk
INVARIANTS
  ChannelsAccounted
PROPERTIES
  ChannelsReturn
  CommandsServed
CHECK_DEADLOCK FALSE
