SPECIFICATION Spec
CONSTANTS
  PE = {1, 2}
  Task = {"a", "b", "c", "d"}
  AppOf <- MCAppOf
  Home <- MCHome
  Edge <- AllEdges
  Circuit <- OneCircuit
  REQUEST_SIZE = 3
  PENDING_SERVICE_TAM = 3
  Absorbed <- ShortMessages
  MaxMsgs <- TwoEach
  Manager = Manager
  NoPE = NoPE
  NoTask = NoTask
INVARIANT CSMessageIntact
CHECK_DEADLOCK FALSE
