SPECIFICATION Spec
CONSTANTS
    u1 = u1
    u2 = u2
    i1 = i1
    i2 = i2
    k1 = k1
    k2 = k2
    Users = {u1, u2}
    Instances = {i1, i2}
    DrawKeys = {k1}
    AutoKey = AutoKey
    WinnerTotals = {1}
    Schedules <- Undated
    Horizon = 0
    MaxCrashes = 0
    NoOne = NoOne
INVARIANTS
    OneRoundPerKey
