SPECIFICATION FairSpec
CONSTANTS
    Accounts = {a1}
    Transfers = {t1}
    EntriesPerPage = 2
    MaxUpdateId = 3
    MaxLogEntryId = 6
    MaxFailures = 1
INVARIANTS
    NothingMissed
    ListsAreComplete
    LogIsConsecutive
PROPERTIES
    CopiesMoveForward
    CopiesCatchUp
CHECK_DEADLOCK FALSE
