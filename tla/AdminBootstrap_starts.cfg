\* Two instances, four starts in all, two requests at once.
SPECIFICATION Spec
CONSTANTS
    Instance = {i1, i2}
    Request = {q1, q2}
    Generated = {p1, p2, p3, p4}
    Chosen = {c1}
    None = None
SYMMETRY Symmetry
INVARIANTS
    IInv
    LockOutNeedsStaleWrite
    LastStartShowsPassword
    ReturnedAgainOnlyBehind
CHECK_DEADLOCK FALSE
