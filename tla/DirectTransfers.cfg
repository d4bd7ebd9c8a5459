SPECIFICATION Spec
CONSTANTS
    Uuids = {u1}
    TransferIds = {t1, t2}
    Consumers = {c1, c2}
    Plausible = {TRUE, FALSE}
INVARIANTS
    SuccessIsPaid
    OutcomeIsLogged
CHECK_DEADLOCK FALSE
