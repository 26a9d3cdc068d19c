SPECIFICATION Spec
CONSTANTS
    r1 = r1
    r2 = r2
    r3 = r3
    u1 = u1
    Rules = {r1, r2, r3}
    Users = {u1}
    Terms <- Single
    Base = 1
    NoLimit = NoLimit
    ReturnsRowId = TRUE
    Horizon = 1
    Disturbances = {}
    MaxDisturbances = 0
INVARIANTS
    LimitReturns
CONSTRAINT Smooth
SYMMETRY RuleSymmetry
CHECK_DEADLOCK FALSE
