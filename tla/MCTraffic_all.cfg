SPECIFICATION FairSpec
CONSTANTS
    Users = {u1}
    Conns = {c1, c2}
    Retries = 1
    MaxMoved = 2
    MaxLostReplies = 1
    MaxRestarts = 1
INVARIANTS
    TypeOK
    Conserved
    FileNotAhead
    QuietShutdownSaves
PROPERTIES
    Reported
CHECK_DEADLOCK FALSE
