SPECIFICATION ReaderSpec
CONSTANTS
    Users = {u1}
    NoKey = NoKey
    VaultTokens = VaultTokens
    None = None
    Prices = {100, 110}
    Deviations = {}
    Capacities = {1, 2}
    MaxGrowth = 1
    RewardAmounts = {}
    Amounts = {}
    InitialTokens = 0
    MaxU128 = 100000
    MaxU64 = 3
    FirstSlot = 1
    MaxSlot = 5
    Windows = {2}
    Stalenesses = {1}
INVARIANTS
    AgreesWithGetSwap
    DefaultAnswersAreAverages
