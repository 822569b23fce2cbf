SPECIFICATION Spec
CONSTANTS
  XCluster = 3
  YCluster = 2
  XNum = 2
  YNum = 2
  MaxLocalTasks = 1
  Cluster = 4
INVARIANTS FindsNearest CountsOnce
