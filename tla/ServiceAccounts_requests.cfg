\* One account, two tokens, one of which expires, two requests at once.
SPECIFICATION Spec
CONSTANTS
    Account = {a1}
    Role = {x, y}
    Request = {q1, q2}
    Token = {t1, t2}
    Dated = {t1}
    None = None
SYMMETRY Symmetry
INVARIANTS
    IInv
    HandedTokensKeepTheirDate
    ReplacedIsRefused
    LastUpdateHolds
CHECK_DEADLOCK FALSE
