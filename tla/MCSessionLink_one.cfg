SPECIFICATION FairSpec
CONSTANTS
    MaxStream = 1
    ClientItems = 3
    ServerItems = 2
    Cap = 1
INVARIANTS
    StreamIsFifo
    FinDrains
PROPERTIES
    CloseSpreads
    UsersReleased
    Delivered
CHECK_DEADLOCK FALSE
