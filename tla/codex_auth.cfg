SPECIFICATION Spec
CONSTANTS
    Profile = {p, q}
    Home = {h}
    Content = {a, b}
    Caller = {c, d}
    None = None
    Empty = Empty
    MaxEvents = 1
INVARIANTS
    OneActive
    ActiveProfileIsLive
    FailedSwitchIsUndone
PROPERTIES
    QuotaGoesWithCredentials
SYMMETRY Symmetry
CHECK_DEADLOCK FALSE
