SPECIFICATION Spec
CONSTANTS
  ServiceHeader = {h1, h2, h3}
  PENDING_SERVICE_TAM = 4
  Garbage = Garbage
  NoService = NoService
INVARIANT InterruptIffPending
PROPERTY ImplementsQueue
CHECK_DEADLOCK FALSE
