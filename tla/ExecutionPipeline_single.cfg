\* The scheduler goroutine alone: no nonce hole, and every candidate ends.
SPECIFICATION FairSpec
CONSTANTS
    market = market
    forced = forced
    Threads <- MarketOnly
    Forced = forced
    MaxStaleness = 1
    Configs <- OnlyLive
    Droppable = FALSE
    MaxHead = 3
    MaxTrades = 3
    MaxCrashes = 1
INVARIANTS NoNonceHole
PROPERTIES MarketTradeEnds
CHECK_DEADLOCK FALSE
