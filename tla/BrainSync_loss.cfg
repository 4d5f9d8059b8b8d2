SPECIFICATION Spec
CONSTANTS
    a = a
    b = b
    q1 = q1
    q2 = q2
    q3 = q3
    e = e
    f = f
    Machines = {a, b}
    Entries = {e}
    Procs = {q1, q2}
    At <- OneEach
    Attempts = 2
    MaxEvents = 3
    MaxFaults = 0
    Faults = {"fail", "kill", "torn"}
    Calls <- OnlySync
    SameSecond = TRUE
    Races = FALSE
CHECK_DEADLOCK FALSE
INVARIANT NothingLost
