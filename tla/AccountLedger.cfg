SPECIFICATION Spec
CONSTANTS
    MAX_INT64 = 2
    Amounts <- PlusOne
    AccountIds = {1}
    Consumers = {c1}
    BURST_COUNT = 2
    MAX_TRANSFER_DELAY = 0
    LOG_RETENTION = 1
    LEDGER_RETENTION = 1
    LEDGER_UPDATE_LAG = 0
    MaxNumber = 3
    MaxDate = 1
    MaxChange = 4
    MaxGeneration = 1
    MaxCommitTime = 1
    MaxTime = 2
    MaxCrashes = 1
INVARIANTS
    LedgerInv
    NoStrandedTransfer
    MissingTransfersAreOld
    BookedInOrder
PROPERTIES
    LedgerMovesForward
CHECK_DEADLOCK FALSE
