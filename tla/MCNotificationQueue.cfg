SPECIFICATION FairSpec
CONSTANTS
    alice = alice
    Jobs = {j1}
    NoJob = nojob
    Workers = {w1, w2}
    NoWorker = none
    MaxAttempts = 2
    Subscribers = {alice}
    NoSubscriber = nobody
    RecipientOf <- OneRecipient
    PurgeWorkers = {s1}
    MaxPurgeAttempts = 1
    MaxPurges = 1
    MaxFaults = 1
INVARIANTS
    RecordsAreTrue
PROPERTIES
    ImplementsContract
    DeliveriesSettle
CHECK_DEADLOCK FALSE
