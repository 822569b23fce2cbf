SPECIFICATION FairSpec
CONSTANTS
  XCluster = 2
  YCluster = 2
  XNum = 2
  YNum = 2
  CS_NETS = 1
  Pair <- MCPair
  Releasable <- MCReleasable
  REQUESTER = 3
  MAX_MA_TASKS = 4
  MaxAsks = 1
INVARIANTS TokenHeldOnce NoErrorLoop PathsComplete Accounts BordersTrue
PROPERTY SetupEnds
CHECK_DEADLOCK FALSE
