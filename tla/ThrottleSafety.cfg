SPECIFICATION Spec
CONSTANTS
    Request = {r1, r2, r3, r4}
    MaxFailures = 3
    ShortBlock = 1
    Hour = 2
    MaxTime = 5
    None = None
SYMMETRY Symmetry
CHECK_DEADLOCK FALSE
INVARIANTS TypeOK BlockIsDeserved LongBlockIsDeserved
PROPERTIES OnlyEarlierLoginsLift BackOffStands
