SPECIFICATION FairSpec
CONSTANTS
  PE = {1, 2}
  Task = {"a", "b", "c", "d"}
  AppOf <- MCAppOf
  Home <- MCHome
  Edge <- AllEdges
  Circuit <- OneCircuit
  REQUEST_SIZE = 3
  PENDING_SERVICE_TAM = 3
  Absorbed <- LongFromOne
  MaxMsgs <- TwoToC
  Manager = Manager
  NoPE = NoPE
  NoTask = NoTask
INVARIANTS RequestConservation NoErrorLoop PeersLocated PSMessageIntact
PROPERTIES ImplementsRendezvous Answered
CHECK_DEADLOCK FALSE
