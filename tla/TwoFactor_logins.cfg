\* One user, two settings, two calls at once.
SPECIFICATION Spec
CONSTANTS
    Key = {totp, days}
    Value = {off, on}
    off = off
    Default <- Defaults
    Totp = totp
    On = on
    Call = {c1, c2}
    Secret = {s1, s2}
    None = None
    Wanted <- WantedSettings
    MaxStarts = 5
SYMMETRY Symmetry
INVARIANTS
    IInv
    SettingsAreOfLastUpdate
    EnabledIsConfirmed
    
    RefusedIfChanged
CHECK_DEADLOCK FALSE
