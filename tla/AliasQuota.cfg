SPECIFICATION Spec
CONSTANTS
    User = {u1, u2}
    Domain = {d1, d2, d3}
    Premium = {d3}
    Request = {r1, r2}
    MonthlyLimit = 1
    ActiveLimit = 1
    Window = 1
    MaxTime = 2
    None = None
CHECK_DEADLOCK FALSE
INVARIANTS TypeOK WithinMonthlyLimit OnlyRevivedExceed WaitingIsShort
PROPERTY EveryCreationEnds
