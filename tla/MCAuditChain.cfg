SPECIFICATION FairSpec
CONSTANTS
    EntryCount = 3
    BatchLimit = 2
    MaxClock = 2
    MaxDamage = 1
INVARIANTS
    ValidIffUndamaged
PROPERTIES
    SealedIsImmutable
    EntriesAreSealed
CHECK_DEADLOCK FALSE
