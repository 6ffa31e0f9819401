SPECIFICATION Spec
CONSTANTS
    t1 = t1
    t2 = t2
    P = P
    A = A
    prj = prj
    NoAccount = NoAccount
    NoProject = NoProject
    Events = {1, 2, 3}
    RolloutEvents = {3}
    LegacyRows = 1
    Threads = {t1, t2}
    ThreadOf <- MCThreadOf
    TimeOf <- MCTimeOf
    HourLength = 2
    DayLength = 4
    RetentionStarts = {2, 3, 6}
    Accounts = {P, A}
    Projects = {prj}
    Timelines <- LateStart
    ResetSources = {"rollout"}
PROPERTIES
    BoundaryStaysUnknown
