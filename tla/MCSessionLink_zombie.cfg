SPECIFICATION Spec
CONSTANTS
    MaxStream = 2
    ClientItems = 1
    ServerItems = 0
    Cap = 2
INVARIANTS
    ServerClosesAll
CHECK_DEADLOCK FALSE
