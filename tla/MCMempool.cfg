SPECIFICATION Spec
CONSTANTS
    a = a
    b = b
    c = c
    Senders <- MCTwo
    Id <- MCId
    Producers <- MCTwo
    MaxTxnPerBlock = 2
    MaxPending = 2
    MaxNonce = 2
    Faults = {"tx", "block", "restart"}
INVARIANTS TypeOK ChainNonces
PROPERTY PoolLosesNothing
CHECK_DEADLOCK FALSE
