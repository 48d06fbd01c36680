SPECIFICATION Spec
CONSTANTS
    f = f
    a = a
    b = b
    Nodes <- MCNodes
    Founder = f
    Hash32 <- MCHash32
    Txs <- MCTxs
    MinStake = 4
    MaxCandidates = 4
    MaxValidators = 2
    UnstakeCooldown = 5
    DowntimeThreshold = 2
    SlashPct = 50
    JailEpochs = 1
    Word = 64
    EpochLength = 2
    BootstrapHeight = 2
    PruneTrigger = 3
    MaxAccounts = 3
    MaxTxnPerBlock = 2
    GenesisPerNode = 8
    FaucetAmount = 2
    FaucetCooldown = 2
    BlockReward = 1
    MaxHeight = 6
    MaxSlot = 7
INVARIANTS TypeOK SupplyConserved StakeTotalExact CandidateBacked
PROPERTY BlocksAtomic
CHECK_DEADLOCK FALSE
