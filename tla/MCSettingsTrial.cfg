SPECIFICATION FairSpec
CONSTANTS
    Servers = {web, worker}
    WebServers = {web}
    Actors = {a1, a2}
    Keys = {access, limits}
    LockoutKeys = {access}
    RateLimits = limits
    Values = {0, 1}
    Default = 0
    None = none
    Window = 1
    MaxRequests = 2
INVARIANTS
    TypeOK
    LockoutIsKept
PROPERTIES
    TrialEnds
    ServersConverge
