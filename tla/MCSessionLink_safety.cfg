SPECIFICATION Spec
CONSTANTS
    MaxStream = 2
    ClientItems = 1
    ServerItems = 1
    Cap = 1
CONSTRAINT
    SecondGetsNoData
INVARIANTS
    TypeOK
    SettingsFirst
    NoEarlyReply
    MapInStep
    ClientClosesAll
CHECK_DEADLOCK FALSE
