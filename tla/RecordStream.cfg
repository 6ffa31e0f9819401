SPECIFICATION Spec
CONSTANTS
    Threads = {1, 2}
    Children = {2}
    PrefixGap = 1
    None = None
    Records <- MCRecords
    MaxRecords = 5
CHECK_DEADLOCK FALSE
INVARIANTS
    TypeOK
    UsageTelescopes
