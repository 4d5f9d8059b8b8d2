SPECIFICATION FairSpec
CONSTANTS
    Workers = {w1}
    Orch = o
    Resumable = {o}
    Restorers = {p1}
    User = user
    Requests = {}
    None = none
    MaxReboots = 1
    MaxUpsets = 0
    Flaky = TRUE
    SlowRestore = FALSE
CHECK_DEADLOCK FALSE
PROPERTIES FleetComesBack OrchestratorBriefed
