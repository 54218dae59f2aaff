SPECIFICATION Spec
CONSTANTS
    Workspace = {w1, w2}
    Project = {p1, p2, p3}
    a = a
    b = b
    old = old
    new = new
    Path = {a, b}
    Data = {old, new}
    Documents <- Files
    Importer = {c}
    Removable = {b}
    None = None
    Gone = Gone
SYMMETRY Symmetry
INVARIANTS
    OneDefault
PROPERTIES
    ImportIsWhole
    ImportSparesOthers
CHECK_DEADLOCK FALSE
