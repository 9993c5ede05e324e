SPECIFICATION FairSpec
CONSTANTS
    admin = admin
    u = u
    AdminRole = AdminRole
    r1 = r1
    r2 = r2
    p = p
    s = s
    op = op
    User = {admin, u}
    Role = {AdminRole, r1, r2}
    Permission = {p, s}
    Operation = {op}
    SystemPermission = {s}
    Walker = {w1}
    Possible <- Links
    MaxChanges = 2
INVARIANTS
    IInv
    AllowedOnLinksSeen
    RefusedForLackOfLinks
    WalksAgreeWithOne
    AnswersOneState
    OnlyUpdateUserStrips
PROPERTY AuthorizationEnds
CHECK_DEADLOCK FALSE
