SPECIFICATION Spec
CONSTANTS
    Users = {u1}
    NoKey = NoKey
    VaultTokens = VaultTokens
    None = None
    Prices = {0, 10, 11, 150000}
    Deviations = {1000, 10000}
    Capacities = {1, 2, 3}
    MaxGrowth = 1
    RewardAmounts = {}
    Amounts = {}
    InitialTokens = 0
    MaxU128 = 200000
    MaxU64 = 3
    FirstSlot = 1
    MaxSlot = 7
INVARIANTS
    TypeOK
    RingHoldsNewestUpdates
    CumulativeIsIntegral
    SwapIsSlotAverage
    OnlyAWedgeStopsUpdates
PROPERTIES
    ImplementsSlidingWindow
    WedgeIsPermanent
