SPECIFICATION FairSpec
CONSTANTS
  PE = {1, 2}
  Manager = 0
  Task = {"a", "c", "d", "e"}
  Home <- MCHome
  Edge <- MCEdge
  Managed <- OneManaged
  Subnet = {1, 2}
  MAX_CTP = 4
  PathFails = TRUE
  MaxMsgs = 1
  NoTask = NoTask
  NoSubnet = NoSubnet
  Garbage = Garbage
INVARIANT NoMessageLost

CHECK_DEADLOCK FALSE
