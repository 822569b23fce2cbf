SPECIFICATION FairSpec
CONSTANTS
    BUFFER_TAM = 5
    Address <- MCAddress
    Headers <- MCHeaders
    Size <- MCSize
    Lazy <- MCLazy
    Destination <- MCDestination
INVARIANT OwnOutput
PROPERTIES NeverFull WholePackets PacketsPass
