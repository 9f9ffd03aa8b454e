SPECIFICATION Spec
SYMMETRY UserSymmetry
CONSTANTS
    Users = {u1, u2}
    NoKey = NoKey
    VaultTokens = VaultTokens
    None = None
    Prices = {10}
    Deviations = {}
    Capacities = {1}
    MaxGrowth = 1
    RewardAmounts = {1, 2}
    Amounts = {1, 2}
    InitialTokens = 2
    MaxU128 = 1000
    MaxU64 = 4
    FirstSlot = 1
    MaxSlot = 4
INVARIANTS
    RewardsFollowUpdates
    RewardBooksBalance
    RewardNeverBlocksUpdate
    InductiveInvariant
PROPERTIES
    ProposalEndsInAcceptance
