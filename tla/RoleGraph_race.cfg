SPECIFICATION Spec
CONSTANTS
    admin = admin
    r1 = r1
    r2 = r2
    w1 = w1
    w2 = w2
    Role = {admin, r1}
    Protected = {admin, r1}
    Writer = {w1, w2}
    ReadReplica = FALSE
INVARIANT NoLongCycle
CHECK_DEADLOCK FALSE
