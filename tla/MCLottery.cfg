SPECIFICATION FairSpec
CONSTANTS
    u1 = u1
    u2 = u2
    i1 = i1
    i2 = i2
    k1 = k1
    k2 = k2
    Users = {u1, u2}
    Instances = {i1}
    DrawKeys = {k1, k2}
    AutoKey = AutoKey
    WinnerTotals = {0, 1, 2}
    Schedules <- MCSchedules
    Horizon = 2
    MaxCrashes = 1
    NoOne = NoOne
INVARIANTS
    TypeOK
    ListIsParticipants
    OneDraw
    RegistrationHasNoList
PROPERTIES
    LockIsIrreversible
    KeepsContract
    DueDrawResolves
