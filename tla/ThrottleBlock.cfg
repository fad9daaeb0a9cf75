SPECIFICATION Spec
CONSTANTS
    Request = {r1, r2, r3, r4}
    MaxFailures = 3
    ShortBlock = 1
    Hour = 2
    MaxTime = 3
    None = None
SYMMETRY Symmetry
CHECK_DEADLOCK FALSE
PROPERTY BlockStands
