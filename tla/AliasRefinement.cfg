SPECIFICATION Spec
CONSTANTS
    Alias = {a1, a2}
    Established = {a2}
    Email = {old, new}
    InitialEmail = old
    Request = {r1, r2}
    MaxRetries = 1
    Pool = 1
CHECK_DEADLOCK FALSE
PROPERTIES ImplementsAliasStatus EveryTaskEnds
