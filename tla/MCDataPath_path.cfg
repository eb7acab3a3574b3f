SPECIFICATION FairSpec
CONSTANTS
    Writers <- MCWriters
    Readers <- MCReaders
    Writes <- MCWrites
    ReadSizes = {2}
    MaxSets = 3
    Senders <- MCSenders
    Work <- MCWork
    Workloads <- MCWorkloads
    Held <- MCHeld
    Schemes <- MCSchemes
    HeaderLen = 1
    Width = 8
    Window = 4
INVARIANTS
    TypeOK
    FramesIntact
    EndToEnd
    DeadlineHonest
PROPERTIES
    PaddingStops
    ReadReturns
    ControlEnds
CHECK_DEADLOCK FALSE
