SPECIFICATION LifecycleSpec
CONSTANTS
    Debtors = {d1}
    TransferUuids = {t1}
    INACTIVE_RETENTION = 1
    DEACTIVATED_RETENTION = 0
    MaxReservations = 2
    MaxLogId = 3
    MaxDay = 4
INVARIANTS
    DeactivatedIsEmpty
CHECK_DEADLOCK FALSE
