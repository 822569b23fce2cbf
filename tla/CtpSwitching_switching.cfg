SPECIFICATION FairSpec
CONSTANTS
  PE = {1, 2}
  Manager = 0
  Task = {"a", "c", "d", "e"}
  Home <- MCHome
  Edge <- MCEdge
  Managed <- TwoManaged
  Subnet = {1, 2}
  MAX_CTP = 4
  PathFails = FALSE
  MaxMsgs = 1
  NoTask = NoTask
  NoSubnet = NoSubnet
  Garbage = Garbage
INVARIANTS NoMessageLost NoErrorLoop PathIdleWhenReturned
PROPERTIES SwitchesBetweenMessages ImplementsRendezvous OrdersConclude
CHECK_DEADLOCK FALSE
