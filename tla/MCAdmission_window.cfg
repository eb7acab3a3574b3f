SPECIFICATION Spec
CONSTANTS
    Conns = {c1}
    Addrs = {a1}
    Users = {u1}
    MaxFailures = 2
    Window = 1
    BanTime = 2
INVARIANTS
    MoreThanAllowedBans
CHECK_DEADLOCK FALSE
