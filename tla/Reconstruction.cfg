SPECIFICATION FairSpec
CONSTANTS
    f = f
    g = g
    h = h
    Threads = {1, 2}
    Children = {2}
    PrefixGap = 1
    None = None
    Files = {f, g, h}
    NoFile = NoFile
    Missing = Missing
    Contents <- MCContents
    Starts <- MCStarts
    Written <- MCWritten
    Chunk = 3
    MaxFiles = 1
    NoThread = NoThread
    MaxFaults = 1
    MaxCrashes = 1
INVARIANTS
    TypeOK
    FactsMatchCheckpoint
    StatusMatchesCheckpoint
    OneFileCounted
PROPERTIES
    CheckpointReclaimed
    EveryRolloutRead
