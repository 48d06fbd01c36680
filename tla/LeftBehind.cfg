SPECIFICATION FairSpec
CONSTANTS
    n1 = n1
    n2 = n2
    Devices = {n1, n2}
    Owner <- MCPair
    Validators = {n1, n2}
    PruneTrigger = 3
    BootstrapHeight = 4
    CheckpointQuorum = 2
    MaxDownload = 2
    Faults = {"loss"}
    MaxHeight = 6
    MaxReboots = 0
    MaxCuts = 0
PROPERTY CatchesUp
CHECK_DEADLOCK FALSE
