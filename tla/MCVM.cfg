SPECIFICATION FairSpec
CONSTANTS
    WordBits = 10
    MaxStack = 5
    MaxStorage = 3
    MaxMemory = 2
    MaxArgs = 2
    MaxTopics = 4
    MaxDepth = 2
    MaxGas = 700
    MaxCode = 256
    Pins = {4}
    Number = 6
    Timestamp = 200
    Hash <- MCHash
    Deployments <- MCDeployments
    Holdings <- MCHoldings
    Calls <- MCCalls
    MaxCalls = 2
    MaxBlocks = 1
INVARIANTS TypeOK PcAligned CodeRestored ReplicaAccepts
PROPERTIES BlocksEnd
CHECK_DEADLOCK FALSE
