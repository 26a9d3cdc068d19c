SPECIFICATION Spec
CONSTANTS
    r1 = r1
    r2 = r2
    r3 = r3
    u1 = u1
    Rules = {r1}
    Users = {u1}
    Terms <- Temporary
    Base = 1
    NoLimit = NoLimit
    ReturnsRowId = TRUE
    Horizon = 2
    Disturbances = {"lookup"}
    MaxDisturbances = 1
PROPERTIES
    RevokedMeansGone
CHECK_DEADLOCK FALSE
