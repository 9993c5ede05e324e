\* A start overwrites a password that came into use since its query.
SPECIFICATION Spec
CONSTANTS
    Instance = {i1, i2}
    Request = {q1}
    Generated = {p1, p2}
    Chosen = {c1}
    None = None
SYMMETRY Symmetry
INVARIANTS
    NeverLockedOut
CHECK_DEADLOCK FALSE
