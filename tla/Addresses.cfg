SPECIFICATION Spec
CONSTANTS
    User = {u1, u2}
    Address = {e1, e2}
    Owned <- MCOwned
    Request = {r1, r2}
    u1 = u1
    u2 = u2
    e1 = e1
    e2 = e2
    None = None
CHECK_DEADLOCK FALSE
INVARIANTS TypeOK AddressesAreUnique OnlyChangesHoldAndWait
PROPERTIES RowsChangeWithProof EveryOperationEnds
