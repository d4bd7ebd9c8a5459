SPECIFICATION FairSpec
CONSTANTS
    Components = {"CorrectionLoop", "CreditorLifecycle", "AccountConfig"}
    \* CorrectionLoop
    MAX_INT64 = 7
    \* CreditorLifecycle
    Debtors = {d1}
    TransferUuids = {t1}
    INACTIVE_RETENTION = 1
    DEACTIVATED_RETENTION = 0
    MaxReservations = 2
    MaxLogId = 3
    MaxDay = 4
    \* UsageStats
    Workers = {w1, w2}
    Kinds = {"accounts"}
    MaxCount = 1
    MaxEvents = 1
    CLEAR_HOURS = 1
    MAX_SMALLINT = 3
    MaxHour = 1
    MaxFaults = 1
    \* PinInfo
    Pins = {"1234", "12345"}
    NoPin = NoPin
    PinLength <- PinLengths
    MaxAfa <- SmallMaxAfa
    PinSessions = {s1}
    PIN_RESET_DAYS = 1
    MaxPinUpdateId = 3
    MaxPinDay = 1
    \* AccountConfig
    ConfigData = {"default"}
    DefaultConfig = "default"
    HugeNegligible = "huge"
    MAX_CONFIG_DELAY = 0
    MAX_HEARTBEAT_DELAY = 0
    MaxTick = 2
    MaxSeqnum = 1
    MaxServerChanges = 1
    MaxRejections = 1
    \* AccountObjects
    DebtorIds = {a1, a2}
    DebtorNames = {n1}
    Null = Null
    Deleted = Deleted
    Sessions = {r1, r2}
    MaxUid = 7
PROPERTIES
    LateMessagesAreIgnored
    Terminates
    AbandonedAreDeleted
    ProblemsAreReported
    OrphansAreDiscarded
CHECK_DEADLOCK FALSE
