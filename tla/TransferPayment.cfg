SPECIFICATION FairSpec
CONSTANTS
    Uuids = {u1}
    TransferIds = {t1, t2, t3}
    Consumers = {c1}
    Plausible = {TRUE}

    
    
PROPERTIES
    LockedAmountsAreReleased
    TransfersAreFinalized
CHECK_DEADLOCK FALSE
