\* Two pools, all interleavings of synchronizer, cycle and chain; universe changes.
SPECIFICATION Spec
CONSTANTS
    p1 = p1
    p2 = p2
    Pools <- TwoPools
    Values = {0, 1}
    Genesis = 0
    Routes <- OneRoute
    InitialMarket <- TwoPools
    Markets <- Shrink
    HopSettings = {2}
    NoMarket = NoMarket
    Bursts <- EveryBlock
    ChunkSize = 1
    MaxChunks = 2
    BatchBlocks = 2
    FullReconcileEvery = 1
    BatchPairs = 2
    MaxBlock = 3
INVARIANTS TypeOK LabelSound NoSilentLoss NoBlockSkipped EvaluatedUpToDate
CHECK_DEADLOCK FALSE
