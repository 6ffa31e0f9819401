SPECIFICATION Spec
CONSTANTS
    a = a
    b = b
    Alone = Alone
    Near = Near
    Other = Other
    Contended = Contended
    Samples = {Alone, Near, Other, Contended}
    Threads = {a, b}
    ThreadOf <- MCThreadOf
    ObservedAt <- MCObservedAt
    LineAt <- EarlyLineAt
    Tolerance = 1
    SecondLength = 4
    SafeLag = 4
    WriteDelay = 1
    ChunkSize = 1
    TailLines = 2
    MaxTime = 14
    MaxCrashes = 0
    NoCursor = NoCursor
    Missing = Missing
    Unknown = Unknown
CHECK_DEADLOCK FALSE
INVARIANTS
    WatermarkShared
