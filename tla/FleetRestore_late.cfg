SPECIFICATION Spec
CONSTANTS
    Workers = {w1}
    Orch = o
    Resumable = {o}
    Restorers = {p1}
    User = user
    Requests = {r1}
    None = none
    MaxReboots = 1
    MaxUpsets = 0
    Flaky = FALSE
    SlowRestore = FALSE
CHECK_DEADLOCK FALSE
INVARIANTS MarkedHaveReached
