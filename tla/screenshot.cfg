SPECIFICATION Spec
CONSTANTS
    s1 = s1
    s2 = s2
    None = None
    Session = {s1, s2}
    Calls = TRUE
    MaxFaults = 2
    MaxCloses = 1
SYMMETRY Identifiers
INVARIANTS
    NativeWindowsGoWithSession
    PreviewStaysWithSession
    HookGoesWithSession
    FilesBelongToSession
CHECK_DEADLOCK FALSE
