SPECIFICATION Spec
CONSTANTS
    WordBits = 10
    MaxStack = 5
    MaxStorage = 3
    MaxMemory = 2
    MaxArgs = 2
    MaxTopics = 4
    MaxDepth = 2
    MaxGas = 700
    MaxCode = 256
    Pins = {4}
    Number = 6
    Timestamp = 200
    Hash <- MCHash
    Deployments <- RelayDeployed
    Holdings <- Everywhere
    Calls <- RelayCalls
    MaxCalls = 2
    MaxBlocks = 2
INVARIANT RelayFollows
CHECK_DEADLOCK FALSE
