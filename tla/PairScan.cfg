SPECIFICATION FairSpec
CONSTANTS
    Factories <- MCFactories
    Pools = {"a", "b"}
    FactoryOf <- MCFactoryOf
    BornAt <- MCBornAt
    TokensOf <- MCTokensOf
    Configured = {"weth", "usdc"}
    Unusable = {}
    Codeless = {}
    WarmupBlocks = 1
    SpanBlocks = 2
    ChunkBlocks = 1
    PoolEvents = 1
    MaxBlock = 3
    MaxCrashes = 1
INVARIANTS PoolsAccounted
PROPERTIES PoolsEventuallySeen
