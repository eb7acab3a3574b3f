SPECIFICATION Spec
CONSTANTS
    Users = {u1}
    Conns = {c1}
    Retries = 1
    MaxMoved = 2
    MaxLostReplies = 0
    MaxRestarts = 0
INVARIANTS
    AddsAreCounted
CHECK_DEADLOCK FALSE
