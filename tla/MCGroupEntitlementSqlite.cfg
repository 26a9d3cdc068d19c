SPECIFICATION Spec
CONSTANTS
    r1 = r1
    r2 = r2
    r3 = r3
    u1 = u1
    Rules = {r1, r2}
    Users = {u1}
    Terms <- Overlapping
    Base = 1
    NoLimit = NoLimit
    ReturnsRowId = FALSE
    Horizon = 1
    Disturbances = {}
    MaxDisturbances = 0
PROPERTIES
    RestoredUntilClaimed
SYMMETRY RuleSymmetry
CHECK_DEADLOCK FALSE
