SPECIFICATION MCSpec
CONSTANTS
    u1 = u1
    a1 = a1
    a2 = a2
    q1 = q1
    q2 = q2
    t1 = t1
    t2 = t2
    r1 = r1
    s1 = s1
    s2 = s2
    p1 = p1
    p2 = p2
    active = active
    blockedUser = blockedUser
    Users = {u1}
    Requests = {q1, q2}
    LastDay = 2
    Values = {1, 2}
    Windows <- CheckinWindows
    MaxEdits = 1
    MaxCrashes = 1
    RedeemCodes = {1, 2, 3}
    OwnCodes = {2}
    Buyers = {a1, a2}
    Spans = {0}
    LedgerHorizon = 1
    MaxSyncs = 2
    Refreshes = {r1}
    PageSize = 1
    MaxId = 2
    Sweepers = {s1}
    SweepHorizon = 2
    Processes = {p1, p2}
    LastVersion = 3
    Builds = {2, 3}
    Inspected = {2, 3}
    Units = {1, 2}
    MaxTimeouts = 2
    Sources = {s1, s2}
    Limit = 1
    Window = 2
    Retention = 3
    LimitsHorizon = 6
    MaxRequests = 4
    Tabs = {t1, t2}
    AdminRequests = {q1}
    Lifetime = 1
    SessionHorizon = 1
    MaxSessions = 2
    MaxTokens = 3
    Schedules <- GrantSchedules
    PageHorizon = 2
    MaxChanges = 2
    MaxRevocations = 2
    MaxAnswers = 1
    Forms <- SampleForms
    OldRules <- SampleOldRules
    RecentDays = {1, 7}
    Numbers = {0, 1}
    Statuses = {active, blockedUser}
    Totals = {0, 1}
    MaxDepth = 3
    MaxNodes = 5
    MaxChildren = 3
INVARIANTS
    PartTypeOK
    OnceADay
    StreakCounts
    PendingIsUnderWay
    LedgerComplete
    SchemaComplete
    OwnAnswer
    UnitsAtomic
    LimitHolds
    RefusedAreCounted
    TokenInStep
    VerdictsAgree
    StatusAgrees
PROPERTIES
    RecentIsExact
    ListedIsKept
    AdminIsCurrent
    
CHECK_DEADLOCK FALSE
