SPECIFICATION Spec
CONSTANTS
    Uuids = {u1}
    TransferIds = {t1}
    Consumers = {c1}
    Plausible = {TRUE}
PROPERTIES
    UpdateIdGrows
CHECK_DEADLOCK FALSE
