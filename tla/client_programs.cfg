SPECIFICATION ScriptSpec
CONSTANTS
    Users = {payer, other}
    Payer = payer
    Other = other
    NoKey = NoKey
    VaultTokens = VaultTokens
    None = None
    Prices = {100, 130}
    Deviations = {}
    Capacities = {2}
    MaxGrowth = 1
    RewardAmounts = {}
    Amounts = {}
    InitialTokens = 0
    MaxU128 = 2000000
    MaxU64 = 3
    FirstSlot = 1
    MaxSlot = 13
    Windows = {2}
    Stalenesses = {1}
    Iterations = 6
    Repeats = 2
    MaxOthers = 2
INVARIANTS
    OnlyDelayStopsScripts
    RefusalsAreTheExpectedOnes
    LaterPartsAreNotOlder
CHECK_DEADLOCK FALSE
