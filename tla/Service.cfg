SPECIFICATION Spec
CONSTANTS
    None = None
    Persons = {"p", "q"}
    Workspaces = {"u", "w"}
    Consistent <- MCConsistent
    People <- MCPeople
    Values = {1, 2}
    BootstrapLines = 2
    Files = {1}
    Pasts <- MCPasts
    FirstNow = 4
    FirstSample = 0
    Recent = 1
    ObserveEvery = 2
    MaxTime = 6
INVARIANTS
    ServiceTypeOK
    FiledRightly
    SettledUnlessTorn
PROPERTIES
    CollectionFollows
CHECK_DEADLOCK FALSE
