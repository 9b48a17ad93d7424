SPECIFICATION Spec
CONSTANTS
    quoter = quoter
    executor = executor
    Callers <- MCCallers
    Asks <- MCAsks
    Tiers <- MCTiers
    Retries = 1
    ShortCooldown = 1
    RateCooldown = 1
    QuotaCooldown = 2
    FloorCooldown = 2
    FloorAfter = 2
    Probation = 1
    MaxShift = 1
    Hysteresis = 1
    MaxBlockLag = 1
    BlockFresh = 1
    Blocks = {1, 3}
    HotLimit = 1
    EthLimit = 1
    Window = 1
    MaxCalls = 3
INVARIANT TypeOK
INVARIANT BroadcastOnce
PROPERTY ReadsAvoidUnfit
PROPERTY BroadcastPrefersPrimary
