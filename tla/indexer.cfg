SPECIFICATION Spec
CONSTANTS
    MaxU128 = 100000
    o1 = o1
    o2 = o2
    Oracles = {o1, o2}
    Batches <- WithForeign
    Submissions <- TwoUpdaters
    Verified = {o1}
    CAPACITY = 2
    Windows = {2}
    Limits = {1, 2}
    Intervals = {2}
    MaxSlot = 3
    MaxTransactions = 2
    MaxErrors = 1
    MaxStarts = 2
INVARIANTS
    IndexerTypeOK
    RowsAreOfConfirmedLogs
    DeliveredIsStored
    RewardsAreOfNewestUpdates
    BucketsPartitionRows
    VerifierBlamesGaps
PROPERTIES
    UpdatesReachTheTable
CHECK_DEADLOCK FALSE
