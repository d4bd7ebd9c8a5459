SPECIFICATION Spec
CONSTANTS
    Uuids = {u1}
    TransferIds = {t1}
    Consumers = {c1}
    Plausible = {TRUE}
INVARIANTS
    CanceledIsNotPaid
CHECK_DEADLOCK FALSE
