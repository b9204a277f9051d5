SPECIFICATION QuerySpec
CONSTANTS
    a1 = a1  a2 = a2  b1 = b1  s1 = s1
    Requests <- MCRequests
    Owner <- MCOwner
    Scope <- MCScope
    Token <- MCToken
    NoToken = "none"
    Address <- MCAddress
    Limit = 1
    WindowSeconds = 2
    TicksPerSecond = 3
    SlowestCall = 1
    Horizon = 6
    Queries <- MCQueries
    FileQueries <- MCFileQueries
    Releases <- MCReleases
    Policy <- MCPolicy
    ResponseLimit <- MCResponseLimit
    Slots = 1
    GlobalLimit = 2
    UserLimit = 1
INVARIANTS
    Metered
    RefusalIsHonest
    CachesHonest
    SlotsConserved
CONSTRAINTS LimiterFirst OneOfItsReleases ToolsApart
CHECK_DEADLOCK FALSE
