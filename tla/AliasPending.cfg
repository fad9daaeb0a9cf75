SPECIFICATION Spec
CONSTANTS
    Alias = {a1}
    Established = {}
    Email = {old, new}
    InitialEmail = old
    Request = {r1}
    MaxRetries = 1
    Pool = 2
CHECK_DEADLOCK FALSE
INVARIANT PendingIsQueued
