\* Is a stale candidate kept from broadcast?
SPECIFICATION Spec
CONSTANTS
    market = market
    forced = forced
    Threads <- MarketOnly
    Forced = forced
    MaxStaleness = 1
    Configs <- OnlyLive
    Droppable = FALSE
    MaxHead = 3
    MaxTrades = 1
    MaxCrashes = 0
PROPERTIES StaleNeverBroadcast
CHECK_DEADLOCK FALSE
