\* Market and forced trade share the wallet across a crash.
SPECIFICATION Spec
CONSTANTS
    market = market
    forced = forced
    Threads <- BothThreads
    Forced = forced
    MaxStaleness = 1
    Configs <- EveryFlag
    Droppable = TRUE
    MaxHead = 1
    MaxTrades = 3
    MaxCrashes = 1
INVARIANTS TypeOK NonceExclusive ForcedAtMostOnce SuccessIsExecuted BroadcastNeedsEveryFlag
CHECK_DEADLOCK FALSE
