SPECIFICATION Spec
CONSTANTS
    alice = alice
    c1 = c1
    c2 = c2
    a1 = a1
    s1 = s1
    User = {alice}
    Client = {c1, c2}
    Admin = {a1}
    Sweeper = {s1}
    IdleTimeout = 1
    Retention = 1
    HandlerTime = 1
    DBFaults = TRUE
    LastLogin = 1
    MaxLogins = 2
    MaxTime = 2
SYMMETRY Symmetry
INVARIANT TerminationSticks
CHECK_DEADLOCK FALSE
