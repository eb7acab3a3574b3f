SPECIFICATION FairSpec
CONSTANTS
    Conns = {c1, c2}
    MaxSession = 2
    MinIdle = 1
INVARIANTS
    TypeOK
    ExclusiveUse
    PooledIsUnused
    NoneStranded
    CloseMissesNone
PROPERTIES
    CleanupReserve
    CloseDrains
    CloseWakesOwner
    SurplusReaped
    PoolIsLease
CHECK_DEADLOCK FALSE
