SPECIFICATION Spec
CONSTANTS
    Pairs = {p1}
    Corrupted = Corrupted
    MAX_RETRIES = 2
    STALE_ORACLE_SLOTS = 0
    FirstRecords = {0}
    MaxTicks = 3
    MaxSlot = 2
    MaxRestarts = 1
    MaxDiskErrors = 1
INVARIANTS
    BotTypeOK
    RunsAreCountedOnce
    AlertsAreRateLimited
PROPERTIES
    RecordedSlotFollowsItsUpdate
    MetricsSurviveRestart
    ConfirmedIsNotResent
    TicksEnd
CHECK_DEADLOCK FALSE
