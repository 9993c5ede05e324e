SPECIFICATION FairSpec
CONSTANTS
    None = None
    i1 = i1
    i2 = i2
    k1 = k1
    k2 = k2
    k3 = k3
    n1 = n1
    n2 = n2
    Session = {i1}
    Socket = {k1}
    Notifier = {n1}
PROPERTY TerminationReachesSocket
CHECK_DEADLOCK FALSE
