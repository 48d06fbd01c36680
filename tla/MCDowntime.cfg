SPECIFICATION Spec
CONSTANTS
    f = f
    a = a
    b = b
    Nodes <- MCNodes
    Founder = f
    Hash32 <- MCHash32
    Txs <- DowntimeTxs
    MinStake = 4
    MaxCandidates = 3
    MaxValidators = 2
    UnstakeCooldown = 5
    DowntimeThreshold = 2
    SlashPct = 25
    JailEpochs = 2
    Word = 64
    EpochLength = 3
    BootstrapHeight = 3
    PruneTrigger = 5
    MaxAccounts = 3
    MaxTxnPerBlock = 2
    GenesisPerNode = 8
    FaucetAmount = 2
    FaucetCooldown = 9
    BlockReward = 1
    MaxHeight = 12
    MaxSlot = 15
INVARIANTS JailServed
PROPERTIES ProducerNotPunished SkippedSlotsChargedOnce
CHECK_DEADLOCK FALSE
