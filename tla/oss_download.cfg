SPECIFICATION Spec
CONSTANTS
    Sizes = {0, 3}
    RangeSize = 2
    MaxTries = 2
    Caller = {c1, c2}
    MaxFaults = 2
    NoFile = NoFile
    Theirs = Theirs
SYMMETRY Callers
INVARIANTS
    PublishedIsTheObject
PROPERTIES
    OldFileGoesForTheWhole
CHECK_DEADLOCK FALSE
