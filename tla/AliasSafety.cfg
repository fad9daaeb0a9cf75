SPECIFICATION Spec
CONSTANTS
    Alias = {a1}
    Established = {}
    Email = {old, new}
    InitialEmail = old
    Request = {r1, r2, r3}
    MaxRetries = 1
    Pool = 2
SYMMETRY Symmetry
CHECK_DEADLOCK FALSE
INVARIANTS TypeOK NoMailboxWithoutRow ActiveHasMailbox ForwardsOnlyToOwnedEmails ForwardsUnlessInterrupted VerdictIsFinal
