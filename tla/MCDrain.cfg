SPECIFICATION DrainSpec
CONSTANTS
    node1 = node1
    node2 = node2
    node3 = node3
    Senders <- MCSenders
    Id <- MCId
    MaxTxnPerBlock = 2
    HighestNonce = 2
    PoolSize = 5
INVARIANTS DrainInOrder DrainLosesNothing DrainMaximal
