SPECIFICATION Spec
CONSTANTS
    Workers = {w1}
    Orch = o
    Resumable = {o}
    Restorers = {p1}
    User = user
    Requests = {r1}
    None = none
    MaxReboots = 2
    MaxUpsets = 0
    Flaky = TRUE
    SlowRestore = FALSE
CHECK_DEADLOCK FALSE
INVARIANTS TypeOK RequestsReach
