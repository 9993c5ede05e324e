SPECIFICATION FairSpec
CONSTANTS
    admin = admin
    r1 = r1
    r2 = r2
    w1 = w1
    w2 = w2
    Role = {admin, r1}
    Protected = {admin}
    Writer = {w1, w2}
    ReadReplica = TRUE
INVARIANTS
    IInv
    CyclesNeedStaleRead
PROPERTY ValidationEnds
CHECK_DEADLOCK FALSE
