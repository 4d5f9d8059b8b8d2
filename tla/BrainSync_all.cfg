SPECIFICATION FairSpec
CONSTANTS
    a = a
    b = b
    q1 = q1
    q2 = q2
    q3 = q3
    e = e
    f = f
    Machines = {a, b}
    Entries = {e}
    Procs = {q1, q2}
    At <- OneEach
    Attempts = 2
    MaxEvents = 3
    MaxFaults = 1
    Faults = {"fail", "kill", "torn"}
    Calls <- OneLooks
    SameSecond = FALSE
    Races = FALSE
INVARIANT NothingDropped
PROPERTY Converges
CHECK_DEADLOCK FALSE
