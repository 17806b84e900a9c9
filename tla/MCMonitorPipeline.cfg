SPECIFICATION FairSpec
CONSTANTS
    Workers = {w1, w2}
    NoWorker = none
    FailThreshold = 2
    RecoverThreshold = 2
    AutoIncident = TRUE
    FlipStatus = TRUE
    MaxDemands = 3
    MaxEdits = 2
    MaxFaults = 1
INVARIANTS
    StateFollowsChecks
    IncidentsAreTied
    ActiveSourceIsShown
PROPERTIES
    DueIsChecked
CHECK_DEADLOCK FALSE
