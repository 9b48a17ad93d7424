SPECIFICATION FairSpec
CONSTANTS
    uni = uni
    camelot = camelot
    None = None
    Forced = Forced
    Workers = {w1}
    Pools <- MCPools
    Volatile = {uni}
    Routes <- MCRoutes
    ForcedRoutes <- MCForcedRoutes
    Persistent = TRUE
    Budget = 3
    MaxState = 2
    MaxCycles = 2
    MaxCrashes = 1
CHECK_DEADLOCK FALSE
INVARIANTS NoStrandedFollower QuoteSentAfterRead
PROPERTIES CycleEnds
