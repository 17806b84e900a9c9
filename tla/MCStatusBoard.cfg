SPECIFICATION FairSpec
CONSTANTS
    Components = {c1, c2}
    ComponentStatuses = {"OPERATIONAL", "UNDER_MAINTENANCE", "MAJOR_OUTAGE"}
    Operators = {o1, o2}
    Sweep = sweeper
    None = none
    Windows <- OneWindow
    MaxTime = 2
    MaxEvents = 2
    MaxActions = 3
INVARIANTS
    StatusIsWorst
    IncidentsAreSound
    PostsTellOneStory
PROPERTIES
    EditsAreSafe
    WindowsComplete
CHECK_DEADLOCK FALSE
