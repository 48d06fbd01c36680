SPECIFICATION FairSpec
CONSTANTS
    h = h
    v = v
    o = o
    x = x
    y = y
    z = z
    p = p
    q = q
    Absent = Absent
    Devices <- MCDevices
    Names <- MCNames
    Codes <- MCCodes
    Callees <- MCCallees
    Validators <- MCValidators
    Offers <- MCOffers
    Rebooters <- MCRebooters
    CacheSize = 2
    PruneTrigger = 4
    MaxContracts = 2
    MaxTxns = 2
    MaxSubmits = 3
    MaxReboots = 1
INVARIANTS TypeOK ReplayAgrees CodeIsDeployed HostServes BackupKept
PROPERTY BlocksArrive
CHECK_DEADLOCK FALSE
