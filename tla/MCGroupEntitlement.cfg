SPECIFICATION Spec
CONSTANTS
    r1 = r1
    r2 = r2
    r3 = r3
    u1 = u1
    Rules = {r1, r2}
    Users = {u1}
    Terms <- Overlapping
    Base = 1
    NoLimit = NoLimit
    ReturnsRowId = TRUE
    Horizon = 1
    Disturbances = {"crash"}
    MaxDisturbances = 1
INVARIANTS
    TypeOK
    LimitReturns
PROPERTIES
    OnlyOwnGroups
    RevokedMeansGone
    RestoredUntilClaimed
    KeepsContract
SYMMETRY RuleSymmetry
CHECK_DEADLOCK FALSE
