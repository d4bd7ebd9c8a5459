SPECIFICATION Spec
CONSTANTS
    MAX_INT64 = 2
    Amounts <- PlusOne
    AccountIds = {1}
    Consumers = {c1, c2}
    BURST_COUNT = 2
    MAX_TRANSFER_DELAY = 0
    LOG_RETENTION = 1
    LEDGER_RETENTION = 0
    LEDGER_UPDATE_LAG = 0
    MaxNumber = 2
    MaxDate = 2
    MaxChange = 2
    MaxGeneration = 2
    MaxCommitTime = 0
    MaxTime = 2
    MaxCrashes = 0
INVARIANTS
    LedgerIsChain
    LedgerLogIsCurrent
    TransferLoggedOnce
PROPERTIES
    UpdateIdsGrow
CHECK_DEADLOCK FALSE
