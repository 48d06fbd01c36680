SPECIFICATION FairSpec
CONSTANTS
    a = a
    b = b
    c = c
    Senders <- MCThree
    Id <- MCId
    Producers <- MCTwo
    MaxTxnPerBlock = 2
    MaxPending = 2
    MaxNonce = 1
    Faults = {}
PROPERTIES OwnServed
CHECK_DEADLOCK FALSE
