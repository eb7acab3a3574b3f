SPECIFICATION SyncFairSpec
CONSTANTS
    Conns = {c1, c2, c3}
    Addrs = {a1}
    Users = {u1}
    MaxFailures = 2
    Window = 1
    BanTime = 2
    MaxRetry = 1
INVARIANTS
    SyncTypeOK
    FailuresBounded
    NoGhosts
PROPERTIES
    BanDeserved
    BanLasts
    BanEnds
    PullBringsUpToDate
    TableFollows
