SPECIFICATION Spec
CONSTANTS
    Request = {r1, r2, r3}
    Action = {signup, reset}
    None = None
    TTL = 2
    Cooldown = 1
    TokenTTL = 1
    RateTTL = 2
    MaxRequests = 2
    MaxChecks = 1
SYMMETRY Symmetry
CHECK_DEADLOCK FALSE
INVARIANTS TypeOK PurposeIsKept OperationHasItsOwnCode AttemptsAreMisses
PROPERTIES OnlyDeathLeavesLimit CodeOutlivesCooldown ImplementsContactProof
