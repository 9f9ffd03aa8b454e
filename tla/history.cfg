SPECIFICATION Spec
CONSTANTS
    MaxU128 = 100000
    o1 = o1
    o2 = o2
    Oracles = {o1, o2}
    Batches <- OneOrBoth
    Submissions <- TwoUpdaters
    Verified = {}
    CAPACITY = 1
    Windows = {1}
    Limits = {1, 2}
    Intervals = {2}
    MaxSlot = 3
    MaxTransactions = 2
    MaxErrors = 0
    MaxStarts = 1
INVARIANTS
    HistoryIsOfTheOracle
CHECK_DEADLOCK FALSE
