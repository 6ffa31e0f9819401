SPECIFICATION Spec
CONSTANTS
    t1 = t1
    t2 = t2
    t3 = t3
    t4 = t4
    t5 = t5
    acct1 = acct1
    acct2 = acct2
    Facts <- MCFacts
    Threads = {t1, t2, t3, t4, t5}
    Accounts = {acct1, acct2}
    NoAccount = NoAccount
    Projects = {1}
    NoParent = NoParent
    NoProject = NoProject
    StandaloneProject = 2
    UnassignedProject = 3
    TreeDepth = 2
    Unfiltered = Unfiltered
    HourLength = 2
    DayLength = 4
    MaxTime = 7
    NoTime = NoTime
    WeekDays = 2
    RollingLength = 5
    LongLength = 6
    Verified = {acct1}
    Aliases <- MCAliases
    NoValue = NoValue
    PageQuery <- AllAccounts
    PageLabel = "week"
    Slots = {1}
    Batches <- MCBatches
    RebuiltBatches = {}
    Scans = {}
    Answers = {}
    Counts = {}
    CacheTtl = 2
    Debounce = 2
    FirstNow = 7
    MaxWrites = 2
    MaxPageWrites = 2
    MaxFetches = 3
    None = None
INVARIANTS
    LiveUpdateShown
CHECK_DEADLOCK FALSE
