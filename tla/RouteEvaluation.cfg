SPECIFICATION Spec
CONSTANTS
    NumRoutes = 5
    AssetOf <- MCAssetOf
    HopsOf <- MCHopsOf
    Dirty <- MCDirty
    Prior <- MCPrior
    Learned = {0, 800}
    Funded = {1, 3}
    Outcomes <- MCOutcomes
    MinProfit = 1
    Current = 20
    Available = {0, 1}
    Curves <- MCCurves
    RawOptions <- MCOptions
    MaxRoutes = 2
    RecentLimit = 2
    MaxCycles = 2
CHECK_DEADLOCK FALSE
INVARIANTS TypeOK CycleBudgets SizedBest SelectionMix
