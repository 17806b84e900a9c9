SPECIFICATION FairSpec
CONSTANTS
    Workers = {w1, w2}
    Orgs = {o1}
    None = none
    MaxAttempts = 2
    MaxJobs = 2
    MaxFaults = 2
INVARIANTS
    TypeOK
    SweepGoesOn
PROPERTIES
    FinishedIsFinal
    ExportEndsUnlessLost
