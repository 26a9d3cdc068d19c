SPECIFICATION FairSpec
CONSTANTS
    r1 = r1
    r2 = r2
    r3 = r3
    u1 = u1
    Rules = {r1}
    Users = {u1}
    Terms <- Temporary
    Base = 1
    NoLimit = NoLimit
    ReturnsRowId = FALSE
    Horizon = 2
    Disturbances = {"update", "delete", "lookup", "edit", "crash"}
    MaxDisturbances = 1
PROPERTIES
    ExpiryIsRetried
    RestoreIsRetried
CHECK_DEADLOCK FALSE
