\* Two overlapping requests in every part; see the comments of MCPlatform.
SPECIFICATION PlatformSpec
CONSTANTS
    c1 = c1
    c2 = c2
    r1 = r1
    r2 = r2
    nid = nid
    x1 = x1
    x2 = x2
    x3 = x3
    u1 = u1
    u2 = u2
    q1 = q1
    p1 = p1
    j1 = j1
    j2 = j2
    NoRow = NoRow
    NotCached = NotCached
    Clients = {c1, c2}
    LeaveRequests = {r1, r2}
    LeaveDates <- Days
    HalfDay = {r2}
    HalfDayAllowed = TRUE
    MonthlyAccrual = 5
    CarryForwardLimit = 2
    MaxRuns = 1
    MaxDays = 5
    BasicSalaries = {50, 100}
    ContributionPct = 10
    InterestPct = 8
    MaxPfTxns = 4
    AsOfDates = {1, 2}
    Entitlements <- Entitled
    MaxCharged = 3
    Departments = {x1, x2}
    Salaries = {1, 2}
    SecretFields = {nid}
    MaxEvents = 2
    CheckDates = {1}
    ClockTimes = {x1, x2}
    MaxCorrections = 2
    MaxFailedAttempts = 2
    MaxFailures = 3
    Tokens = {x1, x2, x3}
    MaxPasswordChanges = 1
    Users = {u1, u2}
    Roles = {q1}
    PermissionRows = {p1}
    StatementJobs = {"daily"}
    Items = {x1, x2}
    AlertDays = {1}
    FarAway = 2
    MaxChanges = 3
    QueuedJobs = {j1, j2}
    MaxAttempts = 2
    MaxCopies = 2
    Recipients = {u1, u2}
    Tabs = {x1, x2, x3}
    TabUser <- TabUsers
    Notices = {x1, x2}
    MaxSubjects = 2
    Window = 2
    HitLimit = 2
    MaxTime = 4
    MaxHits = 2
    TokenPermissions <- Tokened
    Required <- Updates
    AccessTtl = 2
    CacheTtl = 2
    MaxLate = 1
INVARIANTS
    PlatformTypeOK
    BalancesAddUp
    HistoryExplainsState
    DeliveredOnce
    AccessIsCurrent
    AdminReachesEveryRoute
SYMMETRY Symmetry
CHECK_DEADLOCK FALSE
