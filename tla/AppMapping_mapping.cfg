SPECIFICATION FairSpec
CONSTANTS
  XCluster = 2
  YCluster = 1
  XNum = 3
  YNum = 1
  MaxLocalTasks = 2
  MaTask <- Row3Places
  Apps <- ThreeApps
  Quiet = {TRUE, FALSE}
INVARIANTS PagesTrue LoansInOrder OnlyFullClusterStops NeverOverbooked AccountsReturn
PROPERTY AllApplicationsRun
CHECK_DEADLOCK FALSE
