SPECIFICATION Spec
CONSTANTS
    User = {u1, boss}
    Initial = {u1, boss}
    Admin = {boss}
    Request = {r1, r2, r3}
    None = None
CHECK_DEADLOCK FALSE
INVARIANTS TypeOK OneActiveToken TokensAreInGoodStanding TokensAreCurrent
PROPERTIES ImplementsAccountBook EveryRequestEnds
