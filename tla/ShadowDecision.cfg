SPECIFICATION Spec
CONSTANTS
    Routes = {1, 2, 3}
    LiveRoutes = {1, 2}
    AssetOf <- MCAssetOf
    HopsOf <- MCHopsOf
    Amounts <- MCAmounts
    DepthCaps = {8}
    Divisors = {20, 4, 1}
    Snapshots = {{}, {2}}
    Limit = 2
    ReadLimit = 2
    ObservationCap = 1
    MaxHistory = 3
    MaxOffers = 2
    MaxObservations = 1
    MaxRounds = 5
    MaxRestarts = 1
CHECK_DEADLOCK FALSE
INVARIANTS NewestSnapshot ExplorationReaches AssetsRotate
