SPECIFICATION Spec
CONSTANTS
    Workers = {w1}
    Orch = o
    Resumable = {o}
    Restorers = {p1, p2}
    User = user
    Requests = {r1}
    None = none
    MaxReboots = 2
    MaxUpsets = 1
    Flaky = TRUE
    SlowRestore = FALSE
CONSTRAINT RequestAlone
SYMMETRY SameRestorers
CHECK_DEADLOCK FALSE
INVARIANTS TypeOK OneRestorer NoneForgotten BriefingKept RequestsReach
