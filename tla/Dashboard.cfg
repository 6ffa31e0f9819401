SPECIFICATION Spec
CONSTANTS
    t1 = t1
    t2 = t2
    t3 = t3
    t4 = t4
    t5 = t5
    acct1 = acct1
    acct2 = acct2
    Facts <- MCFacts
    Threads = {t1, t2, t3, t4, t5}
    Accounts = {acct1, acct2}
    NoAccount = NoAccount
    Projects = {1}
    NoParent = NoParent
    NoProject = NoProject
    StandaloneProject = 2
    UnassignedProject = 3
    Unfiltered = Unfiltered
    HourLength = 2
    DayLength = 4
    TreeDepth = 2
    MaxTime = 8
    NoTime = NoTime
    WeekDays = 2
    RollingLength = 5
    LongLength = 6
    Verified = {acct1}
    Aliases <- MCAliases
    NoValue = NoValue
    PageQuery <- AllAccounts
    PageLabel = "rolling7"
    Slots = {1}
    Batches <- MCBatches
    RebuiltBatches <- MCRebuiltBatches
    Scans <- MCScans
    Answers <- MCAnswers
    Counts = {3}
    CacheTtl = 1
    Debounce = 1
    FirstNow = 7
    MaxWrites = 4
    MaxPageWrites = 2
    MaxFetches = 2
    None = None
INVARIANTS
    DashboardTypeOK
    SelectionCurrent
    WindowCountsOnce
    SameAnswerEveryWay
    TreesAgree
    AllNotBelowOne
    PointsAddUp
    ExactIsEveryDay
    ResidualConserved
CHECK_DEADLOCK FALSE
