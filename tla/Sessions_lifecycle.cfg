SPECIFICATION FairSpec
CONSTANTS
    alice = alice
    c1 = c1
    c2 = c2
    a1 = a1
    s1 = s1
    s2 = s2
    User = {alice}
    Client = {c1, c2}
    Admin = {a1}
    Sweeper = {s1}
    IdleTimeout = 3
    Retention = 4
    HandlerTime = 1
    DBFaults = FALSE
    LastLogin = 0
    MaxLogins = 2
    MaxTime = 6
INVARIANTS
    IInv
    NoEarlyExpiry
PROPERTIES
    KeepsLifecycle
    OverdueSessionsEnd
    EndsSettle
CHECK_DEADLOCK FALSE
