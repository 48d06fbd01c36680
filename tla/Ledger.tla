------------------------------- MODULE Ledger -------------------------------
(***************************************************************************)
(* One replica of the chain (class BlockchainState, blockchain.h): genesis,*)
(* the execution of a block transaction by transaction, its seal with      *)
(* reward, downtime accounting and election, its rejection, and pruning.   *)
(*                                                                         *)
(* A block is executed by createBlock when this device produced it and by  *)
(* applyNetworkBlock when it came from a peer; both run on the one thread  *)
(* of the sketch, so nothing else happens between BeginBlock and the step  *)
(* that closes the block.  Contract storage is abstracted to the gas that  *)
(* a CALL or DEPLOY uses; hashes and signatures to the choice of a device. *)
(***************************************************************************)
EXTENDS StakingEngine

CONSTANTS
    EpochLength,        \* EPOCH_LENGTH, in blocks
    BootstrapHeight,    \* BOOTSTRAP_HEIGHT
    PruneTrigger,       \* PRUNE_TRIGGER (<= MAX_BLOCKS, so chain[] never fills)
    MaxAccounts,        \* MAX_ACCOUNTS
    MaxTxnPerBlock,     \* MAX_TXN_PER_BLOCK
    GenesisPerNode,     \* GENESIS_PER_NODE
    FaucetAmount,       \* FAUCET_AMOUNT
    FaucetCooldown,     \* FAUCET_COOLDOWN / BLOCK_INTERVAL, in blocks, at least 1
    BlockReward,        \* BLOCK_REWARD
    Txs,                \* the signed transactions that may arrive
    MaxHeight,          \* bound of the model: blocks of the chain
    MaxSlot             \* bound of the model: largest slot number

TxTypes == {"TRANSFER", "STAKE", "UNSTAKE", "CLAIM", "FAUCET", "DATA", "CALL", "DEPLOY"}

\* A transaction carries its account's nonce (Mempool models the nonces that
\* do not fit); gas is what the virtual machine charges for CALL and DEPLOY.
TxRecords == [type : TxTypes, sender : Nodes, to : Nodes,
              value : Nat, gasPrice : Nat \ {0}, gas : Nat]

\* Nobody holds the founder's key: it neither signs transactions nor blocks.
Devices == Nodes \ {Founder}

ASSUME LedgerAssumption ==
    /\ EpochLength \in Nat \ {0}
    /\ BootstrapHeight \in Nat
    /\ PruneTrigger \in Nat \ {0, 1}
    /\ MaxAccounts \in Nat \ {0}
    /\ MaxTxnPerBlock \in Nat
    /\ GenesisPerNode \in Nat /\ GenesisPerNode >= 2 * MinStake
    /\ FaucetAmount \in Nat
    /\ FaucetCooldown \in Nat \ {0}
    /\ BlockReward \in Nat
    /\ Txs \subseteq TxRecords /\ \A tx \in Txs : tx.sender # Founder
    /\ MaxHeight \in Nat /\ MaxSlot \in Nat

VARIABLES
    state,          \* what captureState() saves: accounts, stakes, blockFees
    chainLen,       \* blocks in memory
    chainOffset,    \* blocks pruned
    lastSlot,       \* chain[chainLen - 1].header.slot; zeroed with chain[]
    block           \* the block being executed, with blockSnapScratch

vars == <<state, chainLen, chainOffset, lastSlot, block>>

Amounts == [Nodes -> Nat]
States == [known : SUBSET Nodes, balance : Amounts, nonce : Amounts,
           lastFaucet : Amounts, staked : Amounts, unstaking : Amounts,
           unstakeBlock : Amounts, jailUntil : Amounts, missed : Amounts,
           stakers : SUBSET Nodes, candidates : SUBSET Nodes,
           jailed : SUBSET Nodes, activeSet : SUBSET Nodes,
           stakeCount : Nat, currentEpoch : Nat, totalStaked : Nat,
           totalSupply : Nat, blockFees : Nat]

NoBlock == [mode |-> "none"]
OpenBlocks == [mode : {"create", "apply"}, producer : Devices, slot : Nat,
               txCount : 0..MaxTxnPerBlock, snap : States]

height == chainOffset + chainLen

isBootstrap == height < BootstrapHeight /\ state.activeSet \subseteq {Founder}

-----------------------------------------------------------------------------
(* Accounts *)

\* setBalance: the result it returns when accounts[] is full is never looked
\* at, and the amount is lost.
SetBalance(s, n, amount) ==
    IF n \in s.known THEN [s EXCEPT !.balance[n] = amount]
    ELSE IF Cardinality(s.known) < MaxAccounts
         THEN [s EXCEPT !.known = @ \cup {n}, !.balance[n] = amount]
         ELSE s

\* Mutant: the clipped fee is collected in full.
ChargeFeeUnclipped(s, n, fee) ==
    LET due  == IF s.balance[n] < fee THEN s.balance[n] ELSE fee
        paid == SetBalance(s, n, s.balance[n] - due)
    IN  [paid EXCEPT !.blockFees = @ + fee]

\* chargeFee: a balance that does not cover the fee is charged in full.
ChargeFee(s, n, fee) ==
    LET due == IF s.balance[n] < fee THEN s.balance[n] ELSE fee
    IN  IF fee = 0 THEN s
        ELSE LET paid == SetBalance(s, n, s.balance[n] - due)
             IN  [paid EXCEPT !.blockFees = @ + due]

\* Mutant: the recipient's balance is read before the sender is charged.
TransferStale(s, from, to, amount) ==
    SetBalance(SetBalance(s, from, s.balance[from] - amount), to, s.balance[to] + amount)

Transfer(s, from, to, amount) ==
    LET taken == SetBalance(s, from, s.balance[from] - amount)
    IN  SetBalance(taken, to, taken.balance[to] + amount)

CanFaucet(s, n) ==
    /\ n \in s.known \/ Cardinality(s.known) < MaxAccounts
    /\ s.lastFaucet[n] > 0 => USub(height, s.lastFaucet[n]) >= FaucetCooldown

Faucet(s, n) ==
    LET amount == IF isBootstrap THEN GenesisPerNode ELSE FaucetAmount
    IN  [s EXCEPT !.known = @ \cup {n},
                  !.balance[n] = @ + amount,
                  !.lastFaucet[n] = height,
                  !.totalSupply = @ + amount]

-----------------------------------------------------------------------------
(* Transactions: executeTx *)

GasFee(tx) == (tx.gas * tx.gasPrice) % Word

Charged(s, tx) == ChargeFee(s, tx.sender, tx.gasPrice)

\* Mutant: nobody needs the gas price.
AffordsAnything(s, n, type, gasPrice) == TRUE

CanAffordFee(s, n, type, gasPrice) == type = "FAUCET" \/ s.balance[n] >= gasPrice

\* The checks common to all types, then those of the type.  Sums of the
\* sender's value and fee wrap around in the code, here as there.
Succeeds(s, tx) ==
    /\ CanAffordFee(s, tx.sender, tx.type, tx.gasPrice)
    /\ tx.type = "DEPLOY" => s.balance[tx.sender] >= GasFee(tx)
    /\ tx.type \in {"TRANSFER", "STAKE"} =>
           s.balance[tx.sender] >= UAdd(tx.value, tx.gasPrice)
    /\ tx.type = "TRANSFER" => Charged(s, tx).balance[tx.sender] >= tx.value
    /\ tx.type = "STAKE" => CanStake(Charged(s, tx), tx.sender, tx.value)
    /\ tx.type = "UNSTAKE" => CanUnstake(s, tx.sender, tx.value)
    /\ tx.type = "CLAIM" => Claimable(s, tx.sender, chainLen) > 0
    /\ tx.type = "FAUCET" => CanFaucet(s, tx.sender)

\* CLAIM reads the amount before claim() clears it.
ClaimedBack(s, tx) ==
    LET amount == Claimable(s, tx.sender, chainLen)
        left   == Claim(s, tx.sender)
    IN  SetBalance(left, tx.sender, left.balance[tx.sender] + amount)

Effect(s, tx) ==
    CASE tx.type = "TRANSFER" -> Transfer(Charged(s, tx), tx.sender, tx.to, tx.value)
      [] tx.type = "STAKE"    -> Stake(Charged(s, tx), tx.sender, tx.value)
      [] tx.type = "UNSTAKE"  -> Unstake(Charged(s, tx), tx.sender, tx.value, chainLen)
      [] tx.type = "CLAIM"    -> ClaimedBack(Charged(s, tx), tx)
      [] tx.type = "FAUCET"   -> Faucet(s, tx.sender)
      [] tx.type = "DATA"     -> Charged(s, tx)
      [] OTHER                -> ChargeFee(s, tx.sender, GasFee(tx))

IncrementNonce(s, n) == IF n \in s.known THEN [s EXCEPT !.nonce[n] = @ + 1] ELSE s

-----------------------------------------------------------------------------
(* Blocks *)

GenesisState ==
    LET zero  == [n \in Nodes |-> 0]
        bond  == GenesisPerNode \div 2
    IN  [known |-> {Founder},
         balance |-> Only(Nodes, Founder, GenesisPerNode - bond),
         nonce |-> zero, lastFaucet |-> zero,
         staked |-> Only(Nodes, Founder, bond),
         unstaking |-> zero, unstakeBlock |-> zero, jailUntil |-> zero, missed |-> zero,
         stakers |-> {Founder}, candidates |-> {Founder},
         jailed |-> {}, activeSet |-> {Founder},
         stakeCount |-> 1, currentEpoch |-> 0, totalStaked |-> bond,
         totalSupply |-> GenesisPerNode, blockFees |-> 0]

Init ==
    /\ state = GenesisState
    /\ chainLen = 1 /\ chainOffset = 0 /\ lastSlot = 0
    /\ block = NoBlock

\* The checks of createBlock and applyNetworkBlock before any transaction.
\* createBlock saves the state before it clears blockFees, the other one after.
BeginBlock(mode, producer, slot) ==
    /\ block = NoBlock
    /\ height < MaxHeight
    /\ slot >= height
    /\ chainLen > 0 => slot > lastSlot
    /\ ~isBootstrap => IsSlotProducer(state, producer, slot)
    /\ state' = [state EXCEPT !.blockFees = 0]
    /\ block' = [mode |-> mode, producer |-> producer, slot |-> slot, txCount |-> 0,
                 snap |-> IF mode = "create" THEN state ELSE state']
    /\ UNCHANGED <<chainLen, chainOffset, lastSlot>>

ExecTx(tx) ==
    /\ block # NoBlock
    /\ block.txCount < MaxTxnPerBlock
    /\ Succeeds(state, tx)
    /\ state' = IncrementNonce(Effect(state, tx), tx.sender)
    /\ block' = [block EXCEPT !.txCount = @ + 1]
    /\ UNCHANGED <<chainLen, chainOffset, lastSlot>>

\* Mutant: the counters of the staking engine are not part of the snapshot.
DropBlockPartly ==
    /\ state' = [block.snap EXCEPT !.totalStaked = state.totalStaked]
    /\ block' = NoBlock
    /\ UNCHANGED <<chainLen, chainOffset, lastSlot>>

\* Mutant: the supply is not part of the snapshot.
DropBlockMinted ==
    /\ state' = [block.snap EXCEPT !.totalSupply = state.totalSupply]
    /\ block' = NoBlock
    /\ UNCHANGED <<chainLen, chainOffset, lastSlot>>

\* restoreState(blockSnapScratch) and return.
DropBlock ==
    /\ state' = block.snap
    /\ block' = NoBlock
    /\ UNCHANGED <<chainLen, chainOffset, lastSlot>>

\* A failed transaction is rolled back and left out by the producer; a peer
\* rejects the block that contains it.
FailTx(tx) ==
    /\ block # NoBlock
    /\ block.txCount < MaxTxnPerBlock
    /\ ~Succeeds(state, tx)
    /\ IF block.mode = "create" THEN UNCHANGED vars ELSE DropBlock

\* Signing fails at the producer, or the state root does not match at a peer.
AbortBlock ==
    /\ block # NoBlock
    /\ DropBlock

\* recordSkippedSlotsForBlock, with its early returns.
SkipsCounted(s) ==
    IF isBootstrap \/ Cardinality(s.activeSet) <= 1 \/ chainLen = 0 THEN s
    ELSE CountSkippedSlots(s, lastSlot, block.slot, block.producer)

Rewarded(s) ==
    LET p    == block.producer
        paid == SetBalance(s, p, s.balance[p] + BlockReward + s.blockFees)
    IN  RecordBlockProduced([paid EXCEPT !.totalSupply = @ + BlockReward], p)

\* The election runs on the height that includes the new block.
Elected(s) ==
    IF (height + 1) % EpochLength = 0
    THEN RunElection(s, (height + 1) \div EpochLength) ELSE s

\* The block joins the chain; at the trigger pruneChain forgets all blocks.
SealBlock ==
    /\ block # NoBlock
    /\ state' = Elected(Rewarded(SkipsCounted(state)))
    /\ IF chainLen + 1 >= PruneTrigger
       THEN /\ chainOffset' = chainOffset + chainLen + 1
            /\ chainLen' = 0
            /\ lastSlot' = 0
       ELSE /\ chainLen' = chainLen + 1
            /\ lastSlot' = block.slot
            /\ UNCHANGED chainOffset
    /\ block' = NoBlock

Next ==
    \/ \E mode \in {"create", "apply"}, producer \in Devices, slot \in 0..MaxSlot :
           BeginBlock(mode, producer, slot)
    \/ \E tx \in Txs : ExecTx(tx) \/ FailTx(tx)
    \/ SealBlock
    \/ AbortBlock

Spec == Init /\ [][Next]_vars

-----------------------------------------------------------------------------
(* Properties *)

\* The types of all variables; a stake, balance or total never goes below 0.
TypeOK ==
    /\ state \in States
    /\ chainLen \in 0..(PruneTrigger - 1)
    /\ chainOffset \in Nat
    /\ lastSlot \in Nat
    /\ block = NoBlock \/ block \in OpenBlocks

PendingFees == IF block = NoBlock THEN 0 ELSE state.blockFees

\* Every token of totalSupply is in exactly one place: liquid, staked, waiting
\* to be claimed, or in the fees of the block being executed, whatever mix of
\* transfers, clipped fees, slashes, rejected blocks and elections went before.
SupplyConserved ==
    state.totalSupply = Total(state.balance) + Total(state.staked)
                        + Total(state.unstaking) + PendingFees

\* The running counter totalStaked agrees with the entries of stakes[], also
\* after slashes and after blocks that were executed halfway and rolled back.
StakeTotalExact == state.totalStaked = Total(state.staked)

\* Nobody can be elected with less than the minimum at stake: a candidate has
\* an entry and MIN_STAKE, however unstakes and slashes interleave.
CandidateBacked ==
    \A n \in state.candidates : n \in state.stakers /\ state.staked[n] >= MinStake

\* A jail sentence is served in full: as long as the entry that was slashed
\* exists, its owner gets no seat before the epoch it is jailed until.
JailServed ==
    \A n \in state.activeSet :
        n \notin state.jailed /\ state.jailUntil[n] <= state.currentEpoch

\* The producer of the last block of an epoch is not punished for downtime by
\* the election of that very block, however many slots it had missed before.
ProducerNotPunished ==
    [][SealBlock =>
         LET p == block.producer
         IN  /\ state'.staked[p] = state.staked[p]
             /\ p \in state'.jailed => p \in state.jailed]_vars

\* recordSkippedSlotsForBlock charges a slot to one validator at most, and not
\* at all a slot that had a block, unless the election clears the misses anyway.
SkippedSlotsChargedOnce ==
    [][SealBlock /\ (height + 1) % EpochLength # 0 =>
         LET others == Nodes \ {block.producer}
             new    == [n \in others |-> state'.missed[n] - state.missed[n]]
         IN  Total(new) <= block.slot - lastSlot - 1]_vars

\* With a full account table amounts may vanish (setBalance fails and nobody
\* looks), but no token ever exists that totalSupply does not know of.
SupplyNeverOverspent ==
    Total(state.balance) + Total(state.staked) + Total(state.unstaking) + PendingFees
        <= state.totalSupply

\* No executed transaction can be executed again: its sender's nonce moves
\* on, although incrementNonce does nothing for an owner without an account.
NonceMovesOn ==
    [][block # NoBlock /\ block' # NoBlock /\ block'.txCount > block.txCount =>
         Total(state'.nonce) = Total(state.nonce) + 1]_vars

\* What has been executed in whole blocks: the rest can still be rolled back.
committed == IF block = NoBlock THEN state ELSE block.snap

Atomic == INSTANCE AtomicChain
              WITH blocks <- height,
                   supply <- committed.totalSupply,
                   executed <- Total(committed.nonce)

\* Seen from outside, blocks are atomic: whatever is executed and rolled back
\* on the way, a finished block adds its transactions once, its reward and the
\* grants of its faucets to what was there before it, an abandoned one adds
\* nothing, and tokens are destroyed at the end of an epoch only.
BlocksAtomic == Atomic!Spec
=============================================================================
