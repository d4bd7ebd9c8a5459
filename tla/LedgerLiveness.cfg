SPECIFICATION FairSpec
CONSTANTS
    MAX_INT64 = 1
    Amounts <- Limits
    AccountIds = {1}
    Consumers = {c1}
    BURST_COUNT = 1
    MAX_TRANSFER_DELAY = 0
    LOG_RETENTION = 0
    LEDGER_RETENTION = 0
    LEDGER_UPDATE_LAG = 0
    MaxNumber = 2
    MaxDate = 1
    MaxChange = 3
    MaxGeneration = 1
    MaxCommitTime = 0
    MaxTime = 2
    MaxCrashes = 0
INVARIANTS
    LedgerFitsColumns
PROPERTIES
    LedgerCatchesUp
CHECK_DEADLOCK FALSE
