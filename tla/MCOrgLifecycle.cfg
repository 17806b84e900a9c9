SPECIFICATION FairOrgSpec
CONSTANTS
    PurgeWorkers = {s1, s2}
    NoWorker = none
    MaxPurgeAttempts = 3
    MaxPurges = 2
    MaxFaults = 3
INVARIANTS
    OrgTypeOK
    PurgeIrreversible
    PurgeTracksOrganization
PROPERTIES
    StaleSweepNeverFinalizes
    DeletionSettles
CHECK_DEADLOCK FALSE
