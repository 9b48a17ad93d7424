\* Liveness once the RPC recovers.
SPECIFICATION FairSpec
CONSTANTS
    p1 = p1
    p2 = p2
    Pools <- TwoPools
    Values = {0, 1}
    Genesis = 0
    Routes <- OneRoute
    InitialMarket <- TwoPools
    Markets <- NoStaging
    HopSettings = {2}
    NoMarket = NoMarket
    Bursts <- EveryBlock
    ChunkSize = 1
    MaxChunks = 2
    BatchBlocks = 1
    FullReconcileEvery = 1
    BatchPairs = 2
    MaxBlock = 3
PROPERTIES ScanCatchesUp PendingDrains ReconciliationEnds
CHECK_DEADLOCK FALSE
