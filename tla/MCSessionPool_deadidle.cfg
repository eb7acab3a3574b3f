SPECIFICATION Spec
CONSTANTS
    Conns = {c1, c2}
    MaxSession = 2
    MinIdle = 1
SYMMETRY Symmetry
INVARIANTS
    IdleSessionsAlive
CHECK_DEADLOCK FALSE
