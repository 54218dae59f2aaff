SPECIFICATION Spec
CONSTANTS
    s1 = s1
    s2 = s2
    None = None
    Session = {s1, s2}
    Calls = FALSE
    MaxFaults = 1
    MaxCloses = 0
INVARIANTS
    NoStrandedWindow
CHECK_DEADLOCK FALSE
