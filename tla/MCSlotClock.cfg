SPECIFICATION Spec
CONSTANTS
    Devices <- MCDevices
    Founder = 0
    BlockInterval = 3
    SlotTolerance = 2
    BootGrace = 7
    DiscoveryInterval = 3
    EmptyInterval = 3
    EpochLength = 6
    PruneTrigger = 3
    BootTimes = {0, 1, 6}
    SetupTimes = {1, 4}
    Faults = {"discovery", "gossip"}
    MaxTime = 25
INVARIANTS TypeOK CommonClock OneProducer StakedInTime NeverIdle
CHECK_DEADLOCK FALSE
