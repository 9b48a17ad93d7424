SPECIFICATION Spec
CONSTANTS
    Pairs = {1, 2}
    TokensOf <- MCTokensOf
    Configured = {"weth", "usdc", "x"}
    Core = {"weth", "usdc"}
    PoolsOf <- MCPoolsOf
    u1 = u1
    c1 = c1
    u2 = u2
    c2 = c2
    Scores = {0, 1}
    MinScore = 1
    MaxTrackedPairs = 2
    MaxShadowPairs = 1
    MaxDynamicAssets = 1
    MaxLivePairs = 2
    MaxLiveDynamicAssets = 1
    MinVenueDEXes = 2
    MinObservation = 1
    Cooldown = 2
    EjectWindows = 2
SYMMETRY MCSymmetry
INVARIANTS LiveBounded CooldownServed NoStaleLivePair
PROPERTIES GraceServed
