SPECIFICATION Spec
CONSTANTS
    MAX_INT64 = 2
    Amounts <- PlusOne
    AccountIds = {1}
    Consumers = {c1}
    BURST_COUNT = 2
    MAX_TRANSFER_DELAY = 0
    LOG_RETENTION = 1
    LEDGER_RETENTION = 1
    LEDGER_UPDATE_LAG = 0
    MaxNumber = 2
    MaxDate = 1
    MaxChange = 3
    MaxGeneration = 2
    MaxCommitTime = 0
    MaxTime = 1
    MaxCrashes = 0
INVARIANTS
    EntryIdGap
CHECK_DEADLOCK FALSE
