SPECIFICATION FairSpec
CONSTANTS
    pe1 = pe1
    pe2 = pe2
    pe3 = pe3
    source = source
    filter = filter
    sink = sink
    PE = {pe1, pe2, pe3}
    Manager = Manager
    Task = {source, filter, sink}
    NoPE = NoPE
    NoTask = NoTask
    Home <- MCHome
    Program <- MCProgram
    Exits <- OnlySink
    RealTime = {}
    MAX_LOCAL_TASKS = 3
    Target <- Gather
    MaxMoves <- SourceOnceFilterTwice
INVARIANTS NoErrorLoop TasksWhole LocationsLead RequestFollowsProducer
PROPERTIES ImplementsRendezvous OrdersEnd
CHECK_DEADLOCK FALSE
