SPECIFICATION UptimeSpec
CONSTANTS
    Components = {a, b}
    Statuses = {"OPERATIONAL", "UNDER_MAINTENANCE", "PARTIAL_OUTAGE"}
    Day = 2
    UptimeDays = 3
    RetentionDays = 1
    Skew = 1
    MaxTime = 4
    MaxChanges = 2
SYMMETRY Symmetry
INVARIANTS
    BarsAreRight
    AveragesAreShares
PROPERTIES
    SweepOnlyForgets
CHECK_DEADLOCK FALSE
